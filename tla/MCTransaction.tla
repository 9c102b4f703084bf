---------------------------- MODULE MCTransaction ----------------------------
(***************************************************************************)
(* Instances of Transaction for TLC: two services that call each other,    *)
(* and applications that call one of them, or both, without and with the   *)
(* socket of their process.                                                *)
(***************************************************************************)
EXTENDS Transaction, TLC

CONSTANTS p, q, x, c1, c2, c3, c4, c5, c6

\* Applications of x call p.
MCFrom1 == [c \in Calls |-> x]
MCTo1 == [c \in Calls |-> p]

\* Applications of x call p twice; p calls q and q calls p from callbacks.
MCFrom == c1 :> x @@ c2 :> x @@ c3 :> p @@ c4 :> q
MCTo == c1 :> p @@ c2 :> p @@ c3 :> q @@ c4 :> p

\* Applications of x call q twice as well.
MCFrom2 == c1 :> x @@ c2 :> x @@ c3 :> p @@ c4 :> q @@ c5 :> x @@ c6 :> x
MCTo2 == c1 :> p @@ c2 :> p @@ c3 :> q @@ c4 :> p @@ c5 :> q @@ c6 :> q
=============================================================================
