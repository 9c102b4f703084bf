------------------------------- MODULE HashTab -------------------------------
(***************************************************************************)
(* The hash table of libabus (abus/hashtab/hashtab.c), on which all of its *)
(* registries are built: an array of chains that doubles when it is full,  *)
(* and a current position (bucket apos, item ipos) that every operation    *)
(* moves and that hkey(), hstuff() and hdel() act on.                      *)
(*                                                                         *)
(* A table is a record; each operation of the C interface is an operator   *)
(* from the table before the call to the table after it, and an operator   *)
(* ...Ret for its result where callers use it.  Items are identified by    *)
(* their key; hash values are given by the constant Hash.                  *)
(***************************************************************************)
EXTENDS Naturals, SequencesExt

CONSTANTS
  Keys,     \* the keys
  Stuff,    \* what may be stored with a key
  NoKey,    \* a null item
  NoStuff,  \* the stuff of a key that is not in the table
  Hash      \* hlookup(): the hash value of each key

ASSUME KeyAssumption == NoKey \notin Keys /\ NoStuff \notin Stuff
ASSUME HashAssumption == Hash \in [Keys -> Nat]

-----------------------------------------------------------------------------
(* A table: size is mask + 1, chain[i] lists table[i] from its head.       *)

HCreate(size) ==
  [size |-> size, chain |-> [i \in 0 .. size - 1 |-> <<>>],
   stuff |-> [k \in Keys |-> NoStuff], count |-> 0, apos |-> 0, ipos |-> NoKey]

Bucket(t, k) == Hash[k] % t.size

(* Position on the first item of a bucket.                                 *)
AtHead(t, i) == [t EXCEPT !.apos = i, !.ipos = t.chain[i][1]]

Later(t) == {i \in t.apos + 1 .. t.size - 1 : t.chain[i] # <<>>}

Wrapped(t) == {i \in 0 .. t.apos : t.chain[i] # <<>>}

HNBucket(t) ==
  IF Later(t) # {} THEN AtHead(t, Min(Later(t)))
  ELSE IF Wrapped(t) # {} THEN AtHead(t, Min(Wrapped(t)))
  ELSE t

HFirst(t) == HNBucket([t EXCEPT !.apos = t.size - 1])

HFirstRet(t) == HFirst(t).ipos # NoKey

-----------------------------------------------------------------------------
(* hfind: only a find that succeeds moves the position.                    *)

HFindRet(t, k) == Contains(t.chain[Bucket(t, k)], k)

HFind(t, k) ==
  IF HFindRet(t, k) THEN [t EXCEPT !.apos = Bucket(t, k), !.ipos = k] ELSE t

(* A grow that forgets the items whose bucket changes.  Mutant.            *)
GrowInPlace(t) ==
  HFirst([t EXCEPT
    !.size = 2 * t.size,
    !.chain = [i \in 0 .. 2 * t.size - 1 |->
                 IF i < t.size THEN t.chain[i] ELSE <<>>]])

(* What a walk over chain c pushes in front of chain i of a new array.     *)
Moved(c, size, i) ==
  LET pushed[n \in 0 .. Len(c)] ==
        IF n = 0 THEN <<>>
        ELSE IF Hash[c[n]] % size = i THEN <<c[n]>> \o pushed[n - 1]
        ELSE pushed[n - 1]
  IN  pushed[Len(c)]

(* hgrow moves old chain i to the new chains i and i + size, and puts the  *)
(* position on the first item.                                             *)
HGrow(t) ==
  HFirst([t EXCEPT
    !.size = 2 * t.size,
    !.chain = [i \in 0 .. 2 * t.size - 1 |->
                 Moved(t.chain[i % t.size], 2 * t.size, i)]])

HAddRet(t, k) == ~HFindRet(t, k)

(* hadd of a key that is there only moves the position.                    *)
HAdd(t, k, s) ==
  IF ~HAddRet(t, k) THEN HFind(t, k)
  ELSE LET g == IF t.count + 1 > t.size THEN HGrow(t) ELSE t
           y == Bucket(g, k)
       IN  [g EXCEPT !.chain[y] = <<k>> \o @, !.stuff[k] = s,
                     !.count = @ + 1, !.apos = y, !.ipos = k]

(* Where the current item is in its chain.                                 *)
Place(t) == SelectInSeq(t.chain[t.apos], LAMBDA k : k = t.ipos)

(* The item after the current one in its chain: ipos->next.                *)
Following(t) ==
  LET c == t.chain[t.apos]
  IN  IF Place(t) < Len(c) THEN c[Place(t) + 1] ELSE NoKey

HDel(t) ==
  IF t.ipos = NoKey THEN t
  ELSE LET u == [t EXCEPT !.chain[t.apos] = RemoveAt(@, Place(t)),
                          !.stuff[t.ipos] = NoStuff,
                          !.count = @ - 1, !.ipos = Following(t)]
       IN  IF u.ipos # NoKey THEN u ELSE HNBucket(u)

(* hnext: the result is FALSE when the position wrapped around.            *)
HNextRet(t) == t.ipos # NoKey /\ (Following(t) # NoKey \/ Later(t) # {})

(* A step that goes to the next bucket without finishing the chain.  Mutant. *)
SkipChain(t) == IF t.ipos = NoKey THEN t ELSE HNBucket(t)

HNext(t) ==
  IF t.ipos = NoKey THEN t
  ELSE IF Following(t) # NoKey THEN [t EXCEPT !.ipos = Following(t)]
  ELSE HNBucket(t)

-----------------------------------------------------------------------------
(* Reading a table.                                                        *)

Items(t) == {k \in Keys : HFindRet(t, k)}

(* The places of the items: a bucket and the place in its chain.           *)
Places(t) == UNION {{i} \X DOMAIN t.chain[i] : i \in DOMAIN t.chain}

(* hsanity(), compiled under HSANITY: apos and ipos name an item of the    *)
(* table, and count is the number of items in the chains.                  *)
Sane(t) ==
  /\ t.apos < t.size
  /\ t.ipos # NoKey => Contains(t.chain[t.apos], t.ipos)
  /\ t.count = Cardinality(Places(t))

(* The loop of hashtab.h: hfirst(), then hnext() while it returns TRUE.    *)
(* Walk(t)[n] is the table when the loop body runs for the n-th time.      *)
Walk(t) ==
  LET w[n \in 1 .. t.count] == IF n = 1 THEN HFirst(t) ELSE HNext(w[n - 1])
  IN  w

-----------------------------------------------------------------------------
(* What every call keeps, for the proofs.                                  *)

(* No key is twice in a chain.                                             *)
Once(c) == \A m, n \in 1 .. Len(c) : c[m] = c[n] => m = n

TableType(t) ==
  t \in [size : Nat \ {0}, chain : [0 .. t.size - 1 -> Seq(Keys)],
         stuff : [Keys -> Stuff \cup {NoStuff}], count : Nat,
         apos : 0 .. t.size - 1, ipos : Keys \cup {NoKey}]

(* An item is in the chain of its hash value, once.                        *)
ChainInv(t) ==
  \A i \in 0 .. t.size - 1 :
    Once(t.chain[i]) /\ \A n \in 1 .. Len(t.chain[i]) : Bucket(t, t.chain[i][n]) = i

(* The position is on an item whenever there is one.                       *)
PosInv(t) ==
  IF t.ipos = NoKey THEN \A i \in 0 .. t.size - 1 : t.chain[i] = <<>>
  ELSE Contains(t.chain[t.apos], t.ipos)

CountInv(t) == IsFiniteSet(Items(t)) /\ t.count = Cardinality(Items(t))

TableInv(t) == TableType(t) /\ ChainInv(t) /\ PosInv(t) /\ CountInv(t)

(* The key at a place, and how far the loop of hashtab.h has come: the     *)
(* places and the items up to and including the current one.               *)
KeyAt(t, p) == t.chain[p[1]][p[2]]

UpTo(t) ==
  {p \in Places(t) : p[1] < t.apos \/ (p[1] = t.apos /\ p[2] <= Place(t))}

Walked(t) == {KeyAt(t, p) : p \in UpTo(t)}
=============================================================================
