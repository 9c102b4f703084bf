------------------------------ MODULE MCHashTab ------------------------------
(***************************************************************************)
(* Five keys whose hash values collide in tables of size 2 and 4 and       *)
(* differ in a table of size 8, so that five additions to a table of size  *)
(* 2 grow it twice and split its chains.                                   *)
(***************************************************************************)
EXTENDS HashTabUse

MCHash == [k \in 0 .. 4 |-> <<0, 2, 4, 6, 1>>[k + 1]]
=============================================================================
