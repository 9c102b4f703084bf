----------------------------- MODULE HashTabUse -----------------------------
(***************************************************************************)
(* Any sequence of calls on one hash table, as its users in abus.c make    *)
(* them under abus->mutex.                                                 *)
(***************************************************************************)
EXTENDS HashTab

CONSTANT InitSize  \* the size hcreate() gives the table, a power of 2

ASSUME SizeAssumption == InitSize \in Nat \ {0}

VARIABLE htab

UseInit == htab = HCreate(InitSize)

Add(k, s) == htab' = HAdd(htab, k, s)
Find(k) == htab' = HFind(htab, k)
Del == htab' = HDel(htab)
First == htab' = HFirst(htab)
NextItem == htab' = HNext(htab)

UseNext ==
  \/ \E k \in Keys, s \in Stuff : Add(k, s)
  \/ \E k \in Keys : Find(k)
  \/ Del
  \/ First
  \/ NextItem

UseSpec == UseInit /\ [][UseNext]_htab

-----------------------------------------------------------------------------
(* The fields of htab: a position inside the array and a count that never  *)
(* runs below zero (it is unsigned in the code).                           *)
UseTypeOK ==
  /\ htab.size \in Nat \ {0}
  /\ htab.chain \in [0 .. htab.size - 1 -> Seq(Keys)]
  /\ htab.stuff \in [Keys -> Stuff \cup {NoStuff}]
  /\ htab.count \in Nat
  /\ htab.apos \in 0 .. htab.size - 1
  /\ htab.ipos \in Keys \cup {NoKey}

(* The program's own sanity check, hsanity() in hashtab.c, holds after     *)
(* every call: count is exact and ipos is in the chain of bucket apos,     *)
(* which the search loop of hdel() relies on.                              *)
HSanity == UseTypeOK /\ Sane(htab)

(* After any calls the table is sane, and the loop that hashtab.h          *)
(* recommends, and that abus_cleanup(), the introspection callback and the *)
(* event publication use, visits each item once and ends after the last:   *)
(* hnext() returns FALSE there and nowhere before.                         *)
LoopVisitsAll ==
  LET w == Walk(htab) IN
  /\ HSanity
  /\ HFirstRet(htab) <=> Items(htab) # {}
  /\ {w[n].ipos : n \in DOMAIN w} = Items(htab)
  /\ htab.count = Cardinality(Items(htab))
  /\ \A n \in DOMAIN w : HNextRet(w[n]) <=> n < htab.count

(* The table implements a dictionary with a current position, where the    *)
(* keys are those that hfind() finds: growing the table loses no key, and  *)
(* a key that is added again keeps its stuff.                              *)
Dict == INSTANCE Dictionary
          WITH map <- [k \in Items(htab) |-> htab.stuff[k]], cur <- htab.ipos

ImplementsDictionary == Dict!Spec

-----------------------------------------------------------------------------
(* The inductive invariant, for the proofs.                                *)
UseInv == TableInv(htab)
=============================================================================
