----------------------------- MODULE RemoteCall -----------------------------
(***************************************************************************)
(* What a synchronous call of a method promises (abus.h,                   *)
(* abus_request_method_invoke()): the callback runs at most once; a call   *)
(* that succeeds was served; one that could not be delivered never will    *)
(* be; one that timed out or failed otherwise may have been served, or be  *)
(* served later.                                                           *)
(***************************************************************************)
EXTENDS Naturals

CONSTANT Calls

VARIABLES
  status,  \* "new", "called", "ok", "timeout", "failed", "refused", "gone"
  runs     \* how many times the callback ran for a call

vars == <<status, runs>>

Init ==
  /\ status = [c \in Calls |-> "new"]
  /\ runs = [c \in Calls |-> 0]

Move(c, from, to) == status[c] = from /\ status' = [status EXCEPT ![c] = to]

Call(c) == Move(c, "new", "called") /\ UNCHANGED runs
Succeed(c) == runs[c] = 1 /\ Move(c, "called", "ok") /\ UNCHANGED runs
GiveUp(c) == (\E result \in {"timeout", "failed"} : Move(c, "called", result)) /\ UNCHANGED runs
Refuse(c) ==
  /\ runs[c] = 0
  /\ \E from \in {"new", "called"} : Move(c, from, "refused")
  /\ UNCHANGED runs

\* The callback, even when nobody waits for its answer any more.
Serve(c) ==
  /\ status[c] \in {"called", "timeout", "failed", "gone"} /\ runs[c] = 0
  /\ runs' = [runs EXCEPT ![c] = 1]
  /\ UNCHANGED status

\* Callers die in the middle of their calls.
Die(dead) ==
  /\ \A c \in dead : status[c] = "called"
  /\ status' = [c \in Calls |-> IF c \in dead THEN "gone" ELSE status[c]]
  /\ UNCHANGED runs

Next ==
  \/ \E c \in Calls : Call(c) \/ Serve(c) \/ Succeed(c) \/ GiveUp(c) \/ Refuse(c)
  \/ \E dead \in SUBSET Calls : Die(dead)

Spec == Init /\ [][Next]_vars
=============================================================================
