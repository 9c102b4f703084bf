---------------------------- MODULE MCLifecycle ----------------------------
(***************************************************************************)
(* Instances of Lifecycle for TLC: a process with two threads that         *)
(* provides both services, and one with one thread that may provide one of *)
(* them when the first does not.                                           *)
(***************************************************************************)
EXTENDS Lifecycle, TLC

CONSTANTS p1, p2, t1, t2, t3, a, b
MCOwner == t1 :> p1 @@ t2 :> p1 @@ t3 :> p2
MCProvides == p1 :> {a, b} @@ p2 :> {a}
=============================================================================
