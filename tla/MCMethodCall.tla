---------------------------- MODULE MCMethodCall ----------------------------
(***************************************************************************)
(* Instances of MethodCall for TLC.  Requests 1, 2 and 4 call m1, which is *)
(* threaded and exclusive in FlagsThreaded and exclusive only in           *)
(* FlagsInline; requests 3 and 5 call m2, which runs in place.             *)
(***************************************************************************)
EXTENDS MethodCall

CONSTANTS m1, m2, a1, a2

FlagsThreaded == [m \in Methods |-> IF m = m1 THEN {"threaded", "excl"} ELSE {}]
FlagsInline == [m \in Methods |-> IF m = m1 THEN {"excl"} ELSE {}]
MCTarget == [r \in Reqs |-> IF r \in {1, 2, 4} THEN m1 ELSE m2]
=============================================================================
