---------------------------- MODULE AsyncOutcome ----------------------------
(***************************************************************************)
(* What an asynchronous request promises its caller, free of threads, ids, *)
(* tables and mutexes: a pending request is either answered, and then its  *)
(* callback runs once, or cancelled, and then it never runs; a wait        *)
(* succeeds only after one of the two; and a request is released only if   *)
(* nobody will answer it, or after a wait for it succeeded.                *)
(***************************************************************************)
CONSTANT Reqs

VARIABLES
  outcome,   \* what has become of each request
  waited,    \* the requests a wait has succeeded for
  released   \* the requests whose memory is gone

ovars == <<outcome, waited, released>>

OutcomeTypeOK ==
  /\ outcome \in [Reqs -> {"idle", "pending", "claimed", "called", "cancelled"}]
  /\ waited \subseteq Reqs
  /\ released \subseteq Reqs

Init ==
  /\ outcome = [r \in Reqs |-> "idle"]
  /\ waited = {}
  /\ released = {}

Move(r, a, b) ==
  /\ outcome[r] = a
  /\ outcome' = [outcome EXCEPT ![r] = b]
  /\ UNCHANGED <<waited, released>>

Invoke(r) == r \notin released /\ Move(r, "idle", "pending")

Claim(r) == Move(r, "pending", "claimed")

Call(r) == Move(r, "claimed", "called")

Cancel(r) == Move(r, "pending", "cancelled")

WaitOk(r) ==
  /\ outcome[r] \in {"called", "cancelled"}
  /\ waited' = waited \cup {r}
  /\ UNCHANGED <<outcome, released>>

Release(r) ==
  /\ outcome[r] \in {"idle", "cancelled"} \/ r \in waited
  /\ released' = released \cup {r}
  /\ UNCHANGED <<outcome, waited>>

Next ==
  \E r \in Reqs :
    Invoke(r) \/ Claim(r) \/ Call(r) \/ Cancel(r) \/ WaitOk(r) \/ Release(r)

Spec == Init /\ [][Next]_ovars
=============================================================================
