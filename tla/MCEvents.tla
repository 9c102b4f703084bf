------------------------------ MODULE MCEvents ------------------------------
(***************************************************************************)
(* Instances of Events for TLC.  The subscriber keys 0 and 2 collide in    *)
(* the initial table of two buckets; the third subscription grows it.      *)
(***************************************************************************)
EXTENDS Events

CONSTANTS e1, e2, abus, app

MCHash == [k \in Keys |-> <<0, 3, 4, 1>>[k + 1]]
Svc == <<"s", "v", "c">>
Evt == <<"e", "v", "t">>
=============================================================================
