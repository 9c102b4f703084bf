--------------------------- MODULE MCAsyncRequest ---------------------------
(***************************************************************************)
(* Instances of AsyncRequest for TLC: two requests as model values.        *)
(***************************************************************************)
EXTENDS AsyncRequest

CONSTANTS r1, r2
=============================================================================
