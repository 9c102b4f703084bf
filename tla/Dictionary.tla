------------------------------ MODULE Dictionary ------------------------------
(***************************************************************************)
(* What the hash table of libabus (hashtab/hashtab.h) promises to its      *)
(* callers: a partial map from keys to stuff together with one current     *)
(* position, which every call may move.  hkey(), hstuff() and hdel() act   *)
(* on the item at that position.  Where hdel(), hfirst() and hnext() leave *)
(* the position is up to the implementation, as long as an item is there.  *)
(***************************************************************************)
CONSTANTS
  Keys,   \* the keys
  Stuff,  \* what may be stored with a key
  NoKey   \* no current item

VARIABLES
  map,  \* the items: a function from a set of keys to Stuff
  cur   \* the key of the current item, or NoKey

vars == <<map, cur>>

OnSomeItem(m) == IF DOMAIN m = {} THEN cur' = NoKey ELSE cur' \in DOMAIN m

Init == map = [k \in {} |-> NoKey] /\ cur = NoKey

(* hadd(): a key that is there keeps its stuff.                            *)
Add(k, s) ==
  /\ map' = [j \in DOMAIN map \cup {k} |-> IF j \in DOMAIN map THEN map[j] ELSE s]
  /\ cur' = k

(* hfind() of a key that is there.                                         *)
Find(k) ==
  /\ k \in DOMAIN map
  /\ cur' = k
  /\ UNCHANGED map

(* hdel() removes the current item, whichever it is.                       *)
Del ==
  /\ cur # NoKey
  /\ map' = [j \in DOMAIN map \ {cur} |-> map[j]]
  /\ OnSomeItem(map')

(* hfirst(), hnext().                                                      *)
Move == OnSomeItem(map) /\ UNCHANGED map

Next ==
  \/ \E k \in Keys, s \in Stuff : Add(k, s)
  \/ \E k \in Keys : Find(k)
  \/ Del
  \/ Move

Spec == Init /\ [][Next]_vars
=============================================================================
