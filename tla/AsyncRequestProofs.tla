------------------------- MODULE AsyncRequestProofs -------------------------
(***************************************************************************)
(* Proofs about AsyncRequest, for any number of requests and threads.      *)
(***************************************************************************)
EXTENDS AsyncRequest, TLAPS

(* abus->id stays in the range of its type when it is incremented.         *)
LEMMA IdAfterInRange == \A i \in Ids : IdAfter(i) \in Ids
  BY IdAssumption DEF IdAfter, Ids

(* An array of which one element is assigned.                              *)
LEMMA Assigned ==
  ASSUME NEW S, NEW T, NEW f \in [S -> T], NEW x \in S, NEW v \in T
  PROVE  [f EXCEPT ![x] = v] \in [S -> T]
OBVIOUS

(* Every reachable state is of the type TypeOK states.                     *)
THEOREM TypeCorrect == Spec => []TypeOK
<1>1. Init => TypeOK
  BY IdAssumption DEF Init, TypeOK, Ids
<1>2. TypeOK /\ [Next]_vars => TypeOK'
  <2> SUFFICES ASSUME TypeOK, [Next]_vars PROVE TypeOK'
    OBVIOUS
  <2> USE DEF TypeOK
  <2>1. CASE UNCHANGED vars
    BY <2>1 DEF vars, reqVars, tableVars, cbVars, respVars, waitVars, cancelVars
  <2>2. CASE Terminating
    BY <2>2 DEF Terminating, vars, reqVars, tableVars, cbVars, respVars, waitVars, cancelVars
  <2>3. ASSUME NEW r \in Reqs, Step(r) PROVE TypeOK'
    <3> USE DEF reqVars, tableVars, cbVars, respVars, waitVars, cancelVars, CancelReturn,
            UseRequest, UseHandler, UseBoth, Freed, Private
    <3>1. CASE LoadId(r)  BY <3>1 DEF LoadId
    <3>2. CASE StoreId(r)  BY <3>2, IdAfterInRange DEF StoreId
    <3>3. CASE InvokeAsync(r)
      <4>1. pending' \in [Reqs -> BOOLEAN]  BY <3>3 DEF InvokeAsync
      <4> QED  BY <3>3, <4>1 DEF InvokeAsync, Track
    <3>19. CASE InvokeRefused(r)  BY <3>19 DEF InvokeRefused
    <3>4. CASE SendRequest(r)  BY <3>4 DEF SendRequest
    <3>5. CASE Respond(r) \/ Lose(r)  BY <3>5 DEF Respond, Lose
    <3>6. CASE ProcessResponse(r)
      <4>1. tracked' \in [Ids -> Reqs \cup {NoReq}] /\ busy' \in Reqs \cup {NoReq}
        BY <3>6 DEF ProcessResponse, Untrack
      <4>2. net' \in [Reqs -> {"none", "request", "response", "gone"}]
        BY <3>6 DEF ProcessResponse
      <4>3. resp' \in [Reqs -> {"idle", "claimed", "dispatched", "called", "locked",
                                "marked", "done", "lost"}]
        BY <3>6 DEF ProcessResponse
      <4>4. from' \in [Reqs -> Reqs \cup {NoReq}]
        BY <3>6 DEF ProcessResponse
      <4>5. winner' \in [Reqs -> {"none", "response", "cancel", "other"}]
        BY <3>6 DEF ProcessResponse
      <4> QED  BY <3>6, <4>1, <4>2, <4>3, <4>4, <4>5 DEF ProcessResponse
    <3>7. CASE Dispatch(r)  BY <3>7 DEF Dispatch
    <3>20. CASE ReadBack(r)  BY <3>20 DEF ReadBack
    <3>8. CASE RunCallback(r)  BY <3>8 DEF RunCallback
    <3>9. CASE LockRequest(r)  BY <3>9 DEF LockRequest
    <3>18. CASE MarkExecuted(r)
      <4>1. pending' \in [Reqs -> BOOLEAN]  BY <3>18 DEF MarkExecuted
      <4> QED  BY <3>18, <4>1 DEF MarkExecuted
    <3>10. CASE FinishResponse(r)
      BY <3>10 DEF FinishResponse, Broadcast, FreeHandler, BusyAfter
    <3>11. CASE WaitAsync(r)  BY <3>11 DEF WaitAsync
    <3>12. CASE WaitTest(r) \/ WaitTimedOut(r) \/ WaitWake(r)
      BY <3>12 DEF WaitTest, WaitTimedOut, WaitWake
    <3>13. CASE CancelAsync(r) \/ Cleanup(r)  BY <3>13 DEF CancelAsync, Cleanup
    <3>14. CASE CancelCheck(r)  BY <3>14 DEF CancelCheck
    <3>15. CASE CancelUntrack(r)
      <4>1. tracked' \in [Ids -> Reqs \cup {NoReq}]  BY <3>15 DEF CancelUntrack, Untrack
      <4>2. winner' \in [Reqs -> {"none", "response", "cancel", "other"}]
        BY <3>15 DEF CancelUntrack
      <4>3. /\ cancel' \in [Reqs -> {"idle", "read", "untrack", "found", "free", "dead"}]
            /\ cancelRet' \in [Reqs -> {"none", "ok", "enxio"}]
        BY <3>15 DEF CancelUntrack
      <4> QED  BY <3>15, <4>1, <4>2, <4>3 DEF CancelUntrack
    <3>16. CASE CancelRelease(r)
      <4>1. pending' \in [Reqs -> BOOLEAN]
        <5>1. pending' = pending \/ pending' = [pending EXCEPT ![r] = FALSE]
          BY <3>16, Zenon DEF CancelRelease
        <5>2. pending \in [Reqs -> BOOLEAN]
          OBVIOUS
        <5>3. [pending EXCEPT ![r] = FALSE] \in [Reqs -> BOOLEAN]
          BY <5>2, Assigned
        <5> QED  BY <5>1, <5>2, <5>3, Zenon
      <4>2. /\ handler' \in [Reqs -> {"none", "live", "freed"}]
            /\ crash' \in {"none", "assert", "request", "handler", "flags"}
        BY <3>16 DEF CancelRelease, FreeHandler
      <4>3. wait' \in [Reqs -> {"idle", "locking", "waiting", "woken", "timedout"}]
        BY <3>16 DEF CancelRelease, Broadcast
      <4>4. /\ cancel' \in [Reqs -> {"idle", "read", "untrack", "found", "free", "dead"}]
            /\ cancelRet' \in [Reqs -> {"none", "ok", "enxio"}]
        BY <3>16 DEF CancelRelease
      <4> QED  BY <3>16, <4>1, <4>2, <4>3, <4>4 DEF CancelRelease
    <3>17. CASE FreeRequest(r)  BY <3>17 DEF FreeRequest
    <3> QED
      BY <2>3, <3>1, <3>2, <3>3, <3>4, <3>5, <3>6, <3>7, <3>8, <3>9, <3>10, <3>11,
         <3>12, <3>13, <3>14, <3>15, <3>16, <3>17, <3>18, <3>19, <3>20
         DEF Step, Responder, WaitStep, CancelStep
  <2> QED
    BY <2>1, <2>2, <2>3 DEF Next
<1> QED
  BY <1>1, <1>2, PTL DEF Spec

-----------------------------------------------------------------------------
(* Every action leaves a request it is not about alone, so the invariant   *)
(* of each request is preserved action by action.                          *)
LEMMA OwnershipStep ==
  ASSUME TypeOK, OwnershipInv, NEW r \in Reqs, Step(r)
  PROVE  OwnershipInv'
<1> USE ReqAssumption DEF reqVars, tableVars, cbVars, respVars, waitVars, cancelVars, Published, Private
<1>1. CASE LoadId(r)
  <2>1. TableInv'
    BY <1>1 DEF LoadId, TypeOK, OwnershipInv, TableInv
  <2>2. \A q \in Reqs : OwnerInv(q)'
    BY <1>1 DEF LoadId, TypeOK, OwnershipInv, TableInv, OwnerInv, Invoked, Alive
  <2> QED  BY <2>1, <2>2 DEF OwnershipInv
<1>2. CASE StoreId(r)
  <2>1. TableInv'
    BY <1>2 DEF StoreId, TypeOK, OwnershipInv, TableInv
  <2>2. \A q \in Reqs : OwnerInv(q)'
    BY <1>2 DEF StoreId, TypeOK, OwnershipInv, TableInv, OwnerInv, Invoked, Alive
  <2> QED  BY <2>1, <2>2 DEF OwnershipInv
<1>3. CASE InvokeAsync(r)
  <2>1. TableInv'
    BY <1>3 DEF InvokeAsync, TypeOK, OwnershipInv, TableInv, OwnerInv, Track
  <2>2. \A q \in Reqs : OwnerInv(q)'
    BY <1>3 DEF InvokeAsync, TypeOK, OwnershipInv, TableInv, OwnerInv, Invoked, Track, Alive
  <2> QED  BY <2>1, <2>2 DEF OwnershipInv
<1>4. CASE SendRequest(r)
  <2>1. TableInv'
    BY <1>4 DEF SendRequest, TypeOK, OwnershipInv, TableInv
  <2>2. \A q \in Reqs : OwnerInv(q)'
    BY <1>4 DEF SendRequest, TypeOK, OwnershipInv, TableInv, OwnerInv, Invoked, Alive
  <2> QED  BY <2>1, <2>2 DEF OwnershipInv
<1>5. CASE Respond(r)
  <2>1. TableInv'
    BY <1>5 DEF Respond, TypeOK, OwnershipInv, TableInv
  <2>2. \A q \in Reqs : OwnerInv(q)'
    BY <1>5 DEF Respond, TypeOK, OwnershipInv, TableInv, OwnerInv, Invoked, Alive
  <2> QED  BY <2>1, <2>2 DEF OwnershipInv
<1>6. CASE Lose(r)
  <2>1. TableInv'
    BY <1>6 DEF Lose, TypeOK, OwnershipInv, TableInv
  <2>2. \A q \in Reqs : OwnerInv(q)'
    BY <1>6 DEF Lose, TypeOK, OwnershipInv, TableInv, OwnerInv, Invoked, Alive
  <2> QED  BY <2>1, <2>2 DEF OwnershipInv
<1>7. CASE ProcessResponse(r)
  <2>1. TableInv'
    BY <1>7 DEF ProcessResponse, TypeOK, OwnershipInv, TableInv, Untrack
  <2>2. \A q \in Reqs : OwnerInv(q)'
    BY <1>7 DEF ProcessResponse, TypeOK, OwnershipInv, TableInv, OwnerInv, Invoked, Untrack, Alive
  <2> QED  BY <2>1, <2>2 DEF OwnershipInv
<1>8. CASE Dispatch(r)
  <2>1. TableInv'
    BY <1>8 DEF Dispatch, TypeOK, OwnershipInv, TableInv
  <2>2. \A q \in Reqs : OwnerInv(q)'
    BY <1>8 DEF Dispatch, TypeOK, OwnershipInv, TableInv, OwnerInv, Invoked, Alive
  <2> QED  BY <2>1, <2>2 DEF OwnershipInv
<1>9. CASE RunCallback(r)
  <2>1. TableInv'
    BY <1>9 DEF RunCallback, TypeOK, OwnershipInv, TableInv
  <2>2. \A q \in Reqs : OwnerInv(q)'
    BY <1>9 DEF RunCallback, TypeOK, OwnershipInv, TableInv, OwnerInv, Invoked, Alive
  <2> QED  BY <2>1, <2>2 DEF OwnershipInv
<1>10. CASE LockRequest(r)
  <2>1. TableInv'
    BY <1>10 DEF LockRequest, TypeOK, OwnershipInv, TableInv
  <2>2. \A q \in Reqs : OwnerInv(q)'
    BY <1>10 DEF LockRequest, TypeOK, OwnershipInv, TableInv, OwnerInv, Invoked, Alive
  <2> QED  BY <2>1, <2>2 DEF OwnershipInv
<1>11. CASE MarkExecuted(r)
  <2>1. TableInv'
    BY <1>11 DEF MarkExecuted, TypeOK, OwnershipInv, TableInv
  <2>2. \A q \in Reqs : OwnerInv(q)'
    BY <1>11 DEF MarkExecuted, TypeOK, OwnershipInv, TableInv, OwnerInv, Invoked, Alive
  <2> QED  BY <2>1, <2>2 DEF OwnershipInv
<1>12. CASE FinishResponse(r)
  <2>1. TableInv'
    BY <1>12 DEF FinishResponse, TypeOK, OwnershipInv, TableInv, Broadcast, FreeHandler
  <2>2. \A q \in Reqs : OwnerInv(q)'
    BY <1>12 DEF FinishResponse, TypeOK, OwnershipInv, TableInv, OwnerInv, Invoked, Broadcast, FreeHandler, BusyAfter, Alive
  <2> QED  BY <2>1, <2>2 DEF OwnershipInv
<1>13. CASE WaitAsync(r)
  <2>1. TableInv'
    BY <1>13 DEF WaitAsync, TypeOK, OwnershipInv, TableInv, Invoked
  <2>2. \A q \in Reqs : OwnerInv(q)'
    BY <1>13 DEF WaitAsync, TypeOK, OwnershipInv, TableInv, OwnerInv, Invoked, Alive
  <2> QED  BY <2>1, <2>2 DEF OwnershipInv
<1>14. CASE WaitTest(r)
  <2>1. TableInv'
    BY <1>14 DEF WaitTest, TypeOK, OwnershipInv, TableInv, Invoked
  <2>2. \A q \in Reqs : OwnerInv(q)'
    BY <1>14 DEF WaitTest, TypeOK, OwnershipInv, TableInv, OwnerInv, Invoked, Alive
  <2> QED  BY <2>1, <2>2 DEF OwnershipInv
<1>15. CASE WaitWake(r)
  <2>1. TableInv'
    BY <1>15 DEF WaitWake, TypeOK, OwnershipInv, TableInv
  <2>2. \A q \in Reqs : OwnerInv(q)'
    BY <1>15 DEF WaitWake, TypeOK, OwnershipInv, TableInv, OwnerInv, Invoked, Alive
  <2> QED  BY <2>1, <2>2 DEF OwnershipInv
<1>16. CASE WaitTimedOut(r)
  <2>1. TableInv'
    BY <1>16 DEF WaitTimedOut, TypeOK, OwnershipInv, TableInv
  <2>2. \A q \in Reqs : OwnerInv(q)'
    BY <1>16 DEF WaitTimedOut, TypeOK, OwnershipInv, TableInv, OwnerInv, Invoked, Alive
  <2> QED  BY <2>1, <2>2 DEF OwnershipInv
<1>17. CASE CancelAsync(r)
  <2>1. TableInv'
    BY <1>17 DEF CancelAsync, TypeOK, OwnershipInv, TableInv
  <2>2. \A q \in Reqs : OwnerInv(q)'
    BY <1>17 DEF CancelAsync, TypeOK, OwnershipInv, TableInv, OwnerInv, Invoked, Alive
  <2> QED  BY <2>1, <2>2 DEF OwnershipInv
<1>18. CASE Cleanup(r)
  <2>1. TableInv'
    BY <1>18 DEF Cleanup, TypeOK, OwnershipInv, TableInv
  <2>2. \A q \in Reqs : OwnerInv(q)'
    BY <1>18 DEF Cleanup, TypeOK, OwnershipInv, TableInv, OwnerInv, Invoked, Alive
  <2> QED  BY <2>1, <2>2 DEF OwnershipInv
<1>19. CASE CancelCheck(r)
  <2>1. TableInv'
    BY <1>19 DEF CancelCheck, TypeOK, OwnershipInv, TableInv, OwnerInv, CancelReturn, LateFlags
  <2>2. \A q \in Reqs : OwnerInv(q)'
    BY <1>19 DEF CancelCheck, TypeOK, OwnershipInv, TableInv, OwnerInv, Invoked, CancelReturn, Alive
  <2> QED  BY <2>1, <2>2 DEF OwnershipInv
<1>20. CASE CancelUntrack(r)
  <2>1. TableInv'
    BY <1>20 DEF CancelUntrack, TypeOK, OwnershipInv, TableInv, Untrack, CancelReturn
  <2>2. \A q \in Reqs : OwnerInv(q)'
    BY <1>20 DEF CancelUntrack, TypeOK, OwnershipInv, TableInv, OwnerInv, Invoked, Untrack, CancelReturn, Alive
  <2> QED  BY <2>1, <2>2 DEF OwnershipInv
<1>21. CASE CancelRelease(r)
  <2>1. TableInv'
    BY <1>21 DEF CancelRelease, TypeOK, OwnershipInv, TableInv, Broadcast, FreeHandler, CancelReturn
  <2>2. \A q \in Reqs : OwnerInv(q)'
    BY <1>21 DEF CancelRelease, TypeOK, OwnershipInv, TableInv, OwnerInv, Invoked, Broadcast, FreeHandler, CancelReturn, Alive
  <2> QED  BY <2>1, <2>2 DEF OwnershipInv
<1>22. CASE FreeRequest(r)
  <2>1. TableInv'
    BY <1>22 DEF FreeRequest, TypeOK, OwnershipInv, TableInv
  <2>2. \A q \in Reqs : OwnerInv(q)'
    BY <1>22 DEF FreeRequest, TypeOK, OwnershipInv, TableInv, OwnerInv, Invoked, Alive
  <2> QED  BY <2>1, <2>2 DEF OwnershipInv
<1>23. CASE InvokeRefused(r)
  <2>1. TableInv'
    BY <1>23 DEF InvokeRefused, TypeOK, OwnershipInv, TableInv
  <2>2. \A q \in Reqs : OwnerInv(q)'
    BY <1>23 DEF InvokeRefused, TypeOK, OwnershipInv, TableInv, OwnerInv, Invoked, Alive
  <2> QED  BY <2>1, <2>2 DEF OwnershipInv
<1>24. CASE ReadBack(r)
  <2>1. TableInv'
    BY <1>24 DEF ReadBack, TypeOK, OwnershipInv, TableInv
  <2>2. \A q \in Reqs : OwnerInv(q)'
    BY <1>24 DEF ReadBack, TypeOK, OwnershipInv, TableInv, OwnerInv, Invoked, Alive
  <2> QED  BY <2>1, <2>2 DEF OwnershipInv
<1> QED
  BY <1>1, <1>2, <1>3, <1>4, <1>5, <1>6, <1>7, <1>8, <1>9, <1>10, <1>11, <1>12, <1>13, <1>14, <1>15, <1>16, <1>17, <1>18, <1>19, <1>20, <1>21, <1>22, <1>23, <1>24
     DEF Step, Responder, WaitStep, CancelStep

(* The race for a request has one winner: OwnershipInv always holds.       *)
THEOREM Ownership == Spec => []OwnershipInv
<1>1. Init => OwnershipInv
  BY ReqAssumption DEF Init, OwnershipInv, TableInv, OwnerInv, Invoked, Published
<1>2. TypeOK /\ OwnershipInv /\ [Next]_vars => OwnershipInv'
  <2> SUFFICES ASSUME TypeOK, OwnershipInv, [Next]_vars PROVE OwnershipInv'
    OBVIOUS
  <2>1. CASE UNCHANGED vars
    BY <2>1 DEF OwnershipInv, TableInv, OwnerInv, Invoked,
                vars, reqVars, tableVars, cbVars, respVars, waitVars, cancelVars
  <2> QED
    BY <2>1, OwnershipStep DEF Next, Terminating
<1> QED
  BY <1>1, <1>2, TypeCorrect, PTL DEF Spec

(* The callback of a request runs at most once.                            *)
THEOREM CallbackOnce == Spec => []CallbackAtMostOnce
<1>1. OwnershipInv => CallbackAtMostOnce
  <2> SUFFICES ASSUME OwnershipInv, NEW r \in Reqs PROVE calls[r] <= 1
    BY DEF CallbackAtMostOnce
  <2>1. calls[r] = 0 \/ calls[r] = 1
    BY DEF OwnershipInv, OwnerInv
  <2> QED  BY <2>1
<1> QED  BY <1>1, Ownership, PTL

(* A request whose cancellation returned 0 is never answered.              *)
THEOREM CancelWins == Spec => []CancelledNeverCalled
<1>1. TypeOK /\ OwnershipInv => CancelledNeverCalled
  BY DEF TypeOK, OwnershipInv, OwnerInv, CancelledNeverCalled
<1> QED  BY <1>1, TypeCorrect, Ownership, PTL

(* wait_async returns 0 only for a request that was answered or cancelled. *)
THEOREM WaitOk == Spec => []WaitOkMeansResolved
<1>1. OwnershipInv => WaitOkMeansResolved
  BY DEF OwnershipInv, OwnerInv, WaitOkMeansResolved
<1> QED  BY <1>1, Ownership, PTL

(* A request that is being freed is not in the table, whatever the         *)
(* application cleans up and however ids collide.                          *)
THEOREM FreedNotTracked == Spec => []TableHoldsLive
<1>1. TypeOK /\ OwnershipInv => TableHoldsLive
  BY DEF TypeOK, OwnershipInv, TableInv, TableHoldsLive
<1> QED  BY <1>1, TypeCorrect, Ownership, PTL

-----------------------------------------------------------------------------
(* If a request that is freed while its response is under way is one that  *)
(* was waited for with success, every step keeps to LateUsesOnly.          *)
LEMMA LateStep ==
  ASSUME TypeOK, OwnershipInv, LateUsesOnly, NEW r \in Reqs, Step(r),
         \A q \in Reqs : Freed(q) /\ resp[q] # "idle" => waitRet[q] = "ok"
  PROVE  LateUsesOnly'
<1>0. OwnerInv(r) /\ handler[r] \in {"none", "live", "freed"}
  BY DEF OwnershipInv, TypeOK
<1>1. Alive
  BY DEF Step, Responder, WaitStep, CancelStep, LoadId, StoreId, InvokeRefused, InvokeAsync,
         SendRequest, Respond, Lose, ProcessResponse, Dispatch, RunCallback, LockRequest,
         MarkExecuted, FinishResponse, ReadBack, WaitAsync, WaitTest, WaitWake, WaitTimedOut,
         CancelAsync, Cleanup, CancelCheck, CancelUntrack, CancelRelease, FreeRequest
<1>2. ASSUME crash' \in {"none", "assert"} PROVE LateUsesOnly'
  BY <1>2 DEF LateUsesOnly
<1>3. resp[r] \in {"claimed", "dispatched", "called", "locked"} => ~Freed(r)
  BY <1>0 DEF OwnerInv
<1>4. CASE Dispatch(r) \/ RunCallback(r) \/ LockRequest(r) \/ MarkExecuted(r)
  BY <1>0, <1>1, <1>2, <1>3, <1>4 DEF Dispatch, RunCallback, LockRequest, MarkExecuted, OwnerInv,
     UseRequest, UseHandler, UseBoth, Alive
<1>5. CASE FinishResponse(r)
  <2>1. handler[r] = "live" /\ calls[r] = 1 /\ resp[r] # "idle"
    BY <1>0, <1>5 DEF FinishResponse, OwnerInv
  <2>2. UNCHANGED <<calls, cancel, waitRet>>
    BY <1>5 DEF FinishResponse, cancelVars
  <2>3. CASE Freed(r)
    <3>1. crash' = "request" /\ waitRet[r] = "ok"
      BY <1>5, <2>1, <2>3 DEF FinishResponse, UseBoth
    <3>2. Freed(r)' /\ waitRet'[r] = "ok" /\ calls'[r] = 1
      BY <2>1, <2>2, <2>3, <3>1 DEF Freed
    <3> QED  BY <3>1, <3>2 DEF LateUsesOnly
  <2>4. CASE ~Freed(r)
    BY <1>1, <1>2, <1>5, <2>1, <2>4 DEF FinishResponse, UseBoth, UseHandler, Alive
  <2> QED  BY <2>3, <2>4
<1>6. CASE ReadBack(r)
  <2>1. CASE crash' = "flags"
    <3>1. crash' = "flags" /\ resp' = resp /\ r \in ThreadedReqs
      BY <1>6, <2>1 DEF ReadBack
    <3>2. resp[r] = "done"
      BY <1>0, <1>1, <1>6, <2>1 DEF ReadBack, LateFlags, OwnerInv, Alive, OwnershipInv, TypeOK
    <3> QED  BY <3>1, <3>2 DEF LateUsesOnly
  <2> QED  BY <1>1, <1>2, <1>6, <2>1 DEF ReadBack, Alive
<1>7. CASE CancelCheck(r)
  <2>1. CASE crash' = "flags"
    <3>1. crash' = "flags" /\ resp' = resp /\ op' = op /\ op[r] # "none"
      BY <1>0, <1>7, <2>1 DEF CancelCheck, OwnerInv, respVars
    <3>2. resp[r] = "done"
      BY <1>0, <1>1, <1>7, <2>1 DEF CancelCheck, LateFlags, OwnerInv, Alive, OwnershipInv, TypeOK
    <3> QED  BY <3>1, <3>2 DEF LateUsesOnly
  <2> QED  BY <1>1, <1>2, <1>7, <2>1 DEF CancelCheck, Alive
<1>8. CASE CancelRelease(r)
  BY <1>0, <1>1, <1>2, <1>8 DEF CancelRelease, OwnerInv, UseHandler, Alive
<1>9. CASE InvokeAsync(r)
  BY <1>1, <1>2, <1>9 DEF InvokeAsync, Alive
<1> QED
  BY Step(r), <1>1, <1>2, <1>4, <1>5, <1>6, <1>7, <1>8, <1>9
     DEF Step, Responder, WaitStep, CancelStep, LoadId, StoreId, InvokeRefused,
         SendRequest, Respond, Lose, ProcessResponse, WaitAsync, WaitTest, WaitWake, WaitTimedOut,
         CancelAsync, Cleanup, CancelUntrack, FreeRequest, Alive

(* If the application cleans up only requests that it cancelled or waited  *)
(* for with success, a request that is being freed has no other owner, or  *)
(* its response is at its end.                                             *)
LEMMA Release ==
  ASSUME CleanupAfter \subseteq {"cancel", "wait"}
  PROVE  Spec => []ReleaseInv
<1>1. Init => ReleaseInv
  BY DEF Init, ReleaseInv, LateUsesOnly
<1>2. TypeOK /\ OwnershipInv /\ ReleaseInv /\ [Next]_vars => ReleaseInv'
  <2> SUFFICES ASSUME TypeOK, OwnershipInv, ReleaseInv, [Next]_vars PROVE ReleaseInv'
    OBVIOUS
  <2> USE DEF reqVars, tableVars, cbVars, respVars, waitVars, cancelVars, Published, Private
  <2> DEFINE Clean(q) ==
               /\ op[q] = "cleanup" =>
                    Private(q) \/ winner[q] = "cancel" \/ waitRet[q] = "ok"
               /\ cancel[q] \in {"free", "dead"} => op[q] = "cleanup"
  <2>1. CASE UNCHANGED vars
    BY <2>1 DEF ReleaseInv, LateUsesOnly, Freed, vars
  <2>2. ASSUME NEW r \in Reqs, Step(r) PROVE ReleaseInv'
    <3>0. \A q \in Reqs : OwnerInv(q) /\ Clean(q)
      BY DEF OwnershipInv, ReleaseInv
    <3>1. LateUsesOnly'
      <4>1. \A q \in Reqs : Freed(q) /\ resp[q] # "idle" => waitRet[q] = "ok"
        BY <3>0 DEF OwnerInv, Freed
      <4> QED  BY <2>2, <4>1, LateStep DEF ReleaseInv
    <3>2. \A q \in Reqs : Clean(q)'
      <4>1. CASE LoadId(r)
        BY <3>0, <4>1 DEF LoadId, TypeOK, OwnerInv
      <4>2. CASE StoreId(r)
        BY <3>0, <4>2 DEF StoreId, TypeOK, OwnerInv
      <4>3. CASE InvokeRefused(r)
        BY <3>0, <4>3 DEF InvokeRefused, TypeOK, OwnerInv
      <4>4. CASE InvokeAsync(r)
        BY <3>0, <4>4 DEF InvokeAsync, TypeOK, OwnerInv
      <4>5. CASE SendRequest(r)
        BY <3>0, <4>5 DEF SendRequest, TypeOK, OwnerInv
      <4>6. CASE Respond(r)
        BY <3>0, <4>6 DEF Respond, TypeOK, OwnerInv
      <4>7. CASE Lose(r)
        BY <3>0, <4>7 DEF Lose, TypeOK, OwnerInv
      <4>8. CASE ProcessResponse(r)
        BY <3>0, <4>8 DEF ProcessResponse, TypeOK, OwnerInv, OwnershipInv, TableInv
      <4>9. CASE Dispatch(r)
        BY <3>0, <4>9 DEF Dispatch, TypeOK, OwnerInv
      <4>10. CASE RunCallback(r)
        BY <3>0, <4>10 DEF RunCallback, TypeOK, OwnerInv
      <4>11. CASE LockRequest(r)
        BY <3>0, <4>11 DEF LockRequest, TypeOK, OwnerInv
      <4>12. CASE MarkExecuted(r)
        BY <3>0, <4>12 DEF MarkExecuted, TypeOK, OwnerInv
      <4>13. CASE FinishResponse(r)
        BY <3>0, <4>13 DEF FinishResponse, TypeOK, OwnerInv
      <4>14. CASE ReadBack(r)
        BY <3>0, <4>14 DEF ReadBack, TypeOK, OwnerInv
      <4>15. CASE WaitAsync(r)
        BY <3>0, <4>15 DEF WaitAsync, TypeOK, OwnerInv
      <4>16. CASE WaitTest(r)
        BY <3>0, <4>16 DEF WaitTest, TypeOK, OwnerInv
      <4>17. CASE WaitWake(r)
        BY <3>0, <4>17 DEF WaitWake, TypeOK, OwnerInv
      <4>18. CASE WaitTimedOut(r)
        BY <3>0, <4>18 DEF WaitTimedOut, TypeOK, OwnerInv
      <4>19. CASE CancelAsync(r)
        BY <3>0, <4>19 DEF CancelAsync, TypeOK, OwnerInv
      <4>20. CASE Cleanup(r)
        BY <3>0, <4>20 DEF Cleanup, TypeOK, OwnerInv, MayCleanup
      <4>21. CASE CancelCheck(r)
        BY <3>0, <4>21 DEF CancelCheck, TypeOK, OwnerInv, CancelReturn
      <4>22. CASE CancelUntrack(r)
        BY <3>0, <4>22 DEF CancelUntrack, TypeOK, OwnerInv, CancelReturn, OwnershipInv, TableInv
      <4>23. CASE CancelRelease(r)
        BY <3>0, <4>23 DEF CancelRelease, TypeOK, OwnerInv, CancelReturn
      <4>24. CASE FreeRequest(r)
        BY <3>0, <4>24 DEF FreeRequest, TypeOK, OwnerInv
      <4> QED
        BY <2>2, <4>1, <4>2, <4>3, <4>4, <4>5, <4>6, <4>7, <4>8, <4>9, <4>10, <4>11, <4>12,
           <4>13, <4>14, <4>15, <4>16, <4>17, <4>18, <4>19, <4>20, <4>21, <4>22, <4>23, <4>24
           DEF Step, Responder, WaitStep, CancelStep
    <3> QED  BY <3>1, <3>2 DEF ReleaseInv
  <2> QED
    BY <2>1, <2>2 DEF Next, Terminating
<1> QED
  BY <1>1, <1>2, TypeCorrect, Ownership, PTL DEF Spec

(* If the application cleans up only requests that it cancelled or waited  *)
(* for with success, freed memory is used only as LateUsesOnly says, even  *)
(* when two requests have the same id.                                     *)
THEOREM CleanupLateUses ==
  ASSUME CleanupAfter \subseteq {"cancel", "wait"}
  PROVE  Spec => []LateUsesOnly
<1>1. ReleaseInv => LateUsesOnly
  BY DEF ReleaseInv
<1> QED  BY <1>1, Release, PTL

-----------------------------------------------------------------------------
(* Below the last id the counter does not wrap.                            *)
LEMMA IdAfterNoWrap ==
  ASSUME IdLimit < IdMod, NEW i \in Ids, i < IdLimit
  PROVE  IdAfter(i) = i + 1
  BY IdAssumption DEF IdAfter, Ids

(* With distinct ids each action preserves UniqueInv.                      *)
LEMMA UniqueStep ==
  ASSUME SerialInit, IdLimit < IdMod,
         TypeOK, OwnershipInv, UniqueInv, NEW r \in Reqs, Step(r)
  PROVE  UniqueInv'
<1> USE ReqAssumption, IdAssumption
    DEF reqVars, tableVars, cbVars, respVars, waitVars, cancelVars, Published, Private
<1>0. \A q \in Reqs : OwnerInv(q) /\ AnswerInv(q)
  BY DEF OwnershipInv, UniqueInv
<1>1. CASE LoadId(r)
  <2>1. IdInv'
    <3>1. (\A u, v \in Reqs : (u # v /\ inv[u] # "new" /\ inv[v] # "new") => id[u] # id[v])'
      <4>1. \A u \in Reqs \ {r} :
              /\ id'[u] = id[u] /\ inv'[u] = inv[u]
              /\ inv[u] # "new" => Private(u) \/ inv[u] \in Published
        BY <1>1 DEF LoadId, TypeOK
      <4>2. \A u \in Reqs \ {r} : inv[u] # "new" => id[u] < nextId
        BY <4>1 DEF UniqueInv, IdInv
      <4>3. id'[r] = nextId /\ \A u \in Reqs : id[u] \in Nat /\ nextId \in Nat
        BY <1>1 DEF LoadId, TypeOK, Ids
      <4> QED  BY <4>1, <4>2, <4>3 DEF UniqueInv, IdInv
    <3>2. (\A u, v \in Reqs : (inv[u] = "loaded" /\ inv[v] = "loaded") => u = v)'
      BY <1>1 DEF LoadId, TypeOK, UniqueInv, IdInv
    <3>3. (\A u \in Reqs : inv[u] = "loaded" => id[u] = nextId /\ nextId < IdLimit)'
      BY <1>1 DEF LoadId, TypeOK, UniqueInv, IdInv
    <3>4. (\A u \in Reqs : Private(u) \/ inv[u] \in Published => id[u] < nextId)'
      BY <1>1 DEF LoadId, TypeOK, UniqueInv, IdInv
    <3> QED  BY <3>1, <3>2, <3>3, <3>4 DEF IdInv
  <2>2. \A q \in Reqs : AnswerInv(q)'
    BY <1>0, <1>1 DEF LoadId, TypeOK, OwnershipInv, TableInv, OwnerInv, UniqueInv, IdInv,
       AnswerInv, Invoked
  <2> QED  BY <2>1, <2>2 DEF UniqueInv
<1>2. CASE StoreId(r)
  <2>1. IdInv'
    BY <1>2, IdAfterNoWrap DEF StoreId, TypeOK, UniqueInv, IdInv, Ids
  <2>2. \A q \in Reqs : AnswerInv(q)'
    BY <1>0, <1>2 DEF StoreId, TypeOK, OwnershipInv, TableInv, OwnerInv, UniqueInv, IdInv,
       AnswerInv, Invoked
  <2> QED  BY <2>1, <2>2 DEF UniqueInv
<1>3. CASE InvokeAsync(r)
  <2>1. IdInv'
    <3>1. (\A u, v \in Reqs : (u # v /\ inv[u] # "new" /\ inv[v] # "new") => id[u] # id[v])'
      <4>1. id' = id /\ \A u \in Reqs : inv'[u] # "new" => inv[u] # "new"
        BY <1>3 DEF InvokeAsync, TypeOK
      <4> QED  BY <4>1 DEF UniqueInv, IdInv
    <3>2. (\A u, v \in Reqs : (inv[u] = "loaded" /\ inv[v] = "loaded") => u = v)'
      BY <1>3 DEF InvokeAsync, TypeOK, UniqueInv, IdInv
    <3>3. (\A u \in Reqs : inv[u] = "loaded" => id[u] = nextId /\ nextId < IdLimit)'
      BY <1>3 DEF InvokeAsync, TypeOK, UniqueInv, IdInv
    <3>4. (\A u \in Reqs : Private(u) \/ inv[u] \in Published => id[u] < nextId)'
      BY <1>3 DEF InvokeAsync, TypeOK, UniqueInv, IdInv
    <3> QED  BY <3>1, <3>2, <3>3, <3>4 DEF IdInv
  <2>2. \A q \in Reqs : AnswerInv(q)'
    <3>1. CASE id[r] = UndefId
      BY <1>0, <1>3, <3>1 DEF InvokeAsync, TypeOK, UniqueInv, AnswerInv, Invoked
    <3>2. CASE id[r] # UndefId
      BY <1>0, <1>3, <3>2, SMTT(30) DEF InvokeAsync, TypeOK, OwnershipInv, TableInv, OwnerInv,
         UniqueInv, IdInv, AnswerInv, Invoked, Track
    <3> QED  BY <3>1, <3>2
  <2> QED  BY <2>1, <2>2 DEF UniqueInv
<1>4. CASE SendRequest(r)
  <2>1. IdInv'
    <3>1. (\A u, v \in Reqs : (u # v /\ inv[u] # "new" /\ inv[v] # "new") => id[u] # id[v])'
      <4>1. id' = id /\ \A u \in Reqs : inv'[u] # "new" => inv[u] # "new"
        BY <1>4 DEF SendRequest, TypeOK
      <4> QED  BY <4>1 DEF UniqueInv, IdInv
    <3>2. (\A u, v \in Reqs : (inv[u] = "loaded" /\ inv[v] = "loaded") => u = v)'
      BY <1>4 DEF SendRequest, TypeOK, UniqueInv, IdInv
    <3>3. (\A u \in Reqs : inv[u] = "loaded" => id[u] = nextId /\ nextId < IdLimit)'
      BY <1>4 DEF SendRequest, TypeOK, UniqueInv, IdInv
    <3>4. (\A u \in Reqs : Private(u) \/ inv[u] \in Published => id[u] < nextId)'
      BY <1>4 DEF SendRequest, TypeOK, UniqueInv, IdInv
    <3> QED  BY <3>1, <3>2, <3>3, <3>4 DEF IdInv
  <2>2. \A q \in Reqs : AnswerInv(q)'
    BY <1>0, <1>4 DEF SendRequest, TypeOK, OwnershipInv, TableInv, OwnerInv, UniqueInv, IdInv,
       AnswerInv, Invoked
  <2> QED  BY <2>1, <2>2 DEF UniqueInv
<1>5. CASE Respond(r)
  <2>1. IdInv'
    BY <1>5 DEF Respond, TypeOK, UniqueInv, IdInv, Ids
  <2>2. \A q \in Reqs : AnswerInv(q)'
    BY <1>0, <1>5 DEF Respond, TypeOK, OwnershipInv, TableInv, OwnerInv, UniqueInv, IdInv,
       AnswerInv, Invoked
  <2> QED  BY <2>1, <2>2 DEF UniqueInv
<1>6. CASE Lose(r)
  <2>1. IdInv'
    BY <1>6 DEF Lose, TypeOK, UniqueInv, IdInv, Ids
  <2>2. \A q \in Reqs : AnswerInv(q)'
    BY <1>0, <1>6 DEF Lose, TypeOK, OwnershipInv, TableInv, OwnerInv, UniqueInv, IdInv,
       AnswerInv, Invoked
  <2> QED  BY <2>1, <2>2 DEF UniqueInv
<1>7. CASE ProcessResponse(r)
  <2>1. IdInv'
    BY <1>7 DEF ProcessResponse, TypeOK, UniqueInv, IdInv, Ids
  <2>2. \A q \in Reqs : AnswerInv(q)'
    <3>1. inv[r] = "sent" /\ id[r] \in Ids
      BY <1>0, <1>7 DEF ProcessResponse, AnswerInv, TypeOK
    <3>2. tracked[id[r]] \in {r, NoReq}
      BY <3>1 DEF OwnershipInv, TableInv, UniqueInv, IdInv, TypeOK
    <3>3. UNCHANGED <<inv, id, op, cancel, cancelRet>> /\ \A q \in Reqs : net'[q] # "none" => net[q] # "none"
      BY <1>7 DEF ProcessResponse, TypeOK
    <3>4. CASE tracked[id[r]] = r
      <4>1. winner[r] = "none"
        BY <3>1, <3>4 DEF OwnershipInv, TableInv
      <4>2. /\ winner'[r] = "response" /\ from'[r] = r
            /\ \A q \in Reqs \ {r} : winner'[q] = winner[q] /\ from'[q] = from[q]
        BY <1>7, <3>4 DEF ProcessResponse, TypeOK
      <4>3. \A q \in Reqs \ {r} : tracked[id[q]] = q => tracked'[id[q]] = q
        BY <1>7, <3>1, <3>4 DEF ProcessResponse, Untrack, TypeOK
      <4>4. AnswerInv(r)'
        BY <1>0, <3>3, <4>1, <4>2 DEF AnswerInv, Invoked
      <4>5. ASSUME NEW q \in Reqs \ {r} PROVE AnswerInv(q)'
        BY <1>0, <3>3, <4>2, <4>3 DEF AnswerInv, Invoked
      <4> QED  BY <4>4, <4>5
    <3>5. CASE tracked[id[r]] = NoReq
      <4>1. UNCHANGED <<winner, from>>
        BY <1>7, <3>5 DEF ProcessResponse
      <4>2. \A q \in Reqs : tracked[id[q]] = q => tracked'[id[q]] = q
        BY <1>7, <3>1, <3>5 DEF ProcessResponse, Untrack, TypeOK
      <4> QED  BY <1>0, <3>3, <4>1, <4>2 DEF AnswerInv, Invoked
    <3> QED  BY <3>2, <3>4, <3>5
  <2> QED  BY <2>1, <2>2 DEF UniqueInv
<1>8. CASE Dispatch(r)
  <2>1. IdInv'
    BY <1>8 DEF Dispatch, TypeOK, UniqueInv, IdInv, Ids
  <2>2. \A q \in Reqs : AnswerInv(q)'
    BY <1>0, <1>8 DEF Dispatch, TypeOK, OwnershipInv, TableInv, OwnerInv, UniqueInv, IdInv,
       AnswerInv, Invoked
  <2> QED  BY <2>1, <2>2 DEF UniqueInv
<1>9. CASE RunCallback(r)
  <2>1. IdInv'
    BY <1>9 DEF RunCallback, TypeOK, UniqueInv, IdInv, Ids
  <2>2. \A q \in Reqs : AnswerInv(q)'
    BY <1>0, <1>9 DEF RunCallback, TypeOK, OwnershipInv, TableInv, OwnerInv, UniqueInv, IdInv,
       AnswerInv, Invoked
  <2> QED  BY <2>1, <2>2 DEF UniqueInv
<1>10. CASE LockRequest(r)
  <2>1. IdInv'
    BY <1>10 DEF LockRequest, TypeOK, UniqueInv, IdInv, Ids
  <2>2. \A q \in Reqs : AnswerInv(q)'
    BY <1>0, <1>10 DEF LockRequest, TypeOK, OwnershipInv, TableInv, OwnerInv, UniqueInv, IdInv,
       AnswerInv, Invoked
  <2> QED  BY <2>1, <2>2 DEF UniqueInv
<1>11. CASE MarkExecuted(r)
  <2>1. IdInv'
    BY <1>11 DEF MarkExecuted, TypeOK, UniqueInv, IdInv, Ids
  <2>2. \A q \in Reqs : AnswerInv(q)'
    BY <1>0, <1>11 DEF MarkExecuted, TypeOK, OwnershipInv, TableInv, OwnerInv, UniqueInv, IdInv,
       AnswerInv, Invoked
  <2> QED  BY <2>1, <2>2 DEF UniqueInv
<1>12. CASE FinishResponse(r)
  <2>1. IdInv'
    BY <1>12 DEF FinishResponse, TypeOK, UniqueInv, IdInv, Ids
  <2>2. \A q \in Reqs : AnswerInv(q)'
    BY <1>0, <1>12 DEF FinishResponse, TypeOK, OwnershipInv, TableInv, OwnerInv, UniqueInv, IdInv,
       AnswerInv, Invoked
  <2> QED  BY <2>1, <2>2 DEF UniqueInv
<1>13. CASE WaitAsync(r)
  <2>1. IdInv'
    BY <1>13 DEF WaitAsync, TypeOK, UniqueInv, IdInv, Ids
  <2>2. \A q \in Reqs : AnswerInv(q)'
    BY <1>0, <1>13 DEF WaitAsync, TypeOK, OwnershipInv, TableInv, OwnerInv, UniqueInv, IdInv,
       AnswerInv, Invoked
  <2> QED  BY <2>1, <2>2 DEF UniqueInv
<1>14. CASE WaitTest(r)
  <2>1. IdInv'
    BY <1>14 DEF WaitTest, TypeOK, UniqueInv, IdInv, Ids
  <2>2. \A q \in Reqs : AnswerInv(q)'
    BY <1>0, <1>14 DEF WaitTest, TypeOK, OwnershipInv, TableInv, OwnerInv, UniqueInv, IdInv,
       AnswerInv, Invoked
  <2> QED  BY <2>1, <2>2 DEF UniqueInv
<1>15. CASE WaitWake(r)
  <2>1. IdInv'
    BY <1>15 DEF WaitWake, TypeOK, UniqueInv, IdInv, Ids
  <2>2. \A q \in Reqs : AnswerInv(q)'
    BY <1>0, <1>15 DEF WaitWake, TypeOK, OwnershipInv, TableInv, OwnerInv, UniqueInv, IdInv,
       AnswerInv, Invoked
  <2> QED  BY <2>1, <2>2 DEF UniqueInv
<1>16. CASE WaitTimedOut(r)
  <2>1. IdInv'
    BY <1>16 DEF WaitTimedOut, TypeOK, UniqueInv, IdInv, Ids
  <2>2. \A q \in Reqs : AnswerInv(q)'
    BY <1>0, <1>16 DEF WaitTimedOut, TypeOK, OwnershipInv, TableInv, OwnerInv, UniqueInv, IdInv,
       AnswerInv, Invoked
  <2> QED  BY <2>1, <2>2 DEF UniqueInv
<1>17. CASE CancelAsync(r)
  <2>1. IdInv'
    BY <1>17 DEF CancelAsync, TypeOK, UniqueInv, IdInv, Ids
  <2>2. \A q \in Reqs : AnswerInv(q)'
    BY <1>0, <1>17 DEF CancelAsync, TypeOK, OwnershipInv, TableInv, OwnerInv, UniqueInv, IdInv,
       AnswerInv, Invoked
  <2> QED  BY <2>1, <2>2 DEF UniqueInv
<1>18. CASE Cleanup(r)
  <2>1. IdInv'
    BY <1>18 DEF Cleanup, TypeOK, UniqueInv, IdInv, Ids
  <2>2. \A q \in Reqs : AnswerInv(q)'
    BY <1>0, <1>18 DEF Cleanup, MayCleanup, TypeOK, OwnershipInv, TableInv, OwnerInv, UniqueInv, IdInv,
       AnswerInv, Invoked
  <2> QED  BY <2>1, <2>2 DEF UniqueInv
<1>19. CASE CancelCheck(r)
  <2>1. IdInv'
    BY <1>19 DEF CancelCheck, TypeOK, UniqueInv, IdInv, Ids
  <2>2. \A q \in Reqs : AnswerInv(q)'
    BY <1>0, <1>19 DEF CancelCheck, TypeOK, OwnershipInv, TableInv, OwnerInv, UniqueInv, IdInv,
       AnswerInv, Invoked, CancelReturn, LateFlags
  <2> QED  BY <2>1, <2>2 DEF UniqueInv
<1>20. CASE CancelUntrack(r)
  <2>1. IdInv'
    BY <1>20 DEF CancelUntrack, TypeOK, UniqueInv, IdInv, Ids
  <2>2. \A q \in Reqs : AnswerInv(q)'
    <3>1. inv[r] \notin {"new", "loaded"} /\ id[r] \in Ids
      BY <1>0, <1>20 DEF CancelUntrack, AnswerInv, TypeOK, Invoked
    <3>2. tracked[id[r]] \in {r, NoReq}
      BY <3>1, <1>20 DEF OwnershipInv, TableInv, UniqueInv, IdInv, TypeOK
    <3>3. CASE tracked[id[r]] = r
      <4>1. AnswerInv(r)'
        <5>1. AnswerInv(r)  BY <1>0
        <5>2. /\ cancel'[r] = "found" /\ winner'[r] = "cancel" /\ op[r] \in {"cancel", "cleanup"}
              /\ cancelRet[r] # "enxio"
          BY <1>0, <1>20, <3>3, <3>1 DEF CancelUntrack, TypeOK, AnswerInv, OwnershipInv, TableInv
        <5>3. UNCHANGED <<inv, id, net, from, op, cancelRet>>
          BY <1>20, <3>3 DEF CancelUntrack
        <5> QED  BY <5>1, <5>2, <5>3 DEF AnswerInv, Invoked
      <4>2. ASSUME NEW q \in Reqs, q # r PROVE AnswerInv(q)'
        BY <1>0, <1>20, <3>1, <3>3, <4>2 DEF CancelUntrack, Untrack, TypeOK, AnswerInv, Invoked
      <4> QED  BY <4>1, <4>2
    <3>4. CASE tracked[id[r]] = NoReq
      BY <1>0, <1>20, <3>4 DEF CancelUntrack, CancelReturn, Untrack, TypeOK, OwnerInv,
         AnswerInv, Invoked
    <3> QED  BY <3>2, <3>3, <3>4
  <2> QED  BY <2>1, <2>2 DEF UniqueInv
<1>21. CASE CancelRelease(r)
  <2>1. IdInv'
    BY <1>21 DEF CancelRelease, TypeOK, UniqueInv, IdInv, Ids
  <2>2. \A q \in Reqs : AnswerInv(q)'
    BY <1>0, <1>21 DEF CancelRelease, TypeOK, OwnershipInv, TableInv, OwnerInv, UniqueInv, IdInv,
       AnswerInv, Invoked, CancelReturn
  <2> QED  BY <2>1, <2>2 DEF UniqueInv
<1>22. CASE FreeRequest(r)
  <2>1. IdInv'
    BY <1>22 DEF FreeRequest, TypeOK, UniqueInv, IdInv, Ids
  <2>2. \A q \in Reqs : AnswerInv(q)'
    BY <1>0, <1>22 DEF FreeRequest, TypeOK, OwnershipInv, TableInv, OwnerInv, UniqueInv, IdInv,
       AnswerInv, Invoked
  <2> QED  BY <2>1, <2>2 DEF UniqueInv
<1>23. CASE InvokeRefused(r)
  <2>1. IdInv'
    BY <1>23 DEF InvokeRefused, TypeOK, UniqueInv, IdInv, Ids
  <2>2. \A q \in Reqs : AnswerInv(q)'
    BY <1>0, <1>23 DEF InvokeRefused, TypeOK, AnswerInv, Invoked
  <2> QED  BY <2>1, <2>2 DEF UniqueInv
<1>24. CASE ReadBack(r)
  <2>1. IdInv'
    BY <1>24 DEF ReadBack, TypeOK, UniqueInv, IdInv, Ids
  <2>2. \A q \in Reqs : AnswerInv(q)'
    BY <1>0, <1>24 DEF ReadBack, TypeOK, AnswerInv, Invoked
  <2> QED  BY <2>1, <2>2 DEF UniqueInv
<1> QED
  BY <1>1, <1>2, <1>3, <1>4, <1>5, <1>6, <1>7, <1>8, <1>9, <1>10, <1>11, <1>12, <1>13, <1>14, <1>15, <1>16, <1>17, <1>18, <1>19, <1>20, <1>21, <1>22, <1>23, <1>24
     DEF Step, Responder, WaitStep, CancelStep

(* Serialised creation, and fewer requests than ids, keep ids distinct.    *)
LEMMA Unique ==
  ASSUME SerialInit, IdLimit < IdMod
  PROVE  Spec => []UniqueInv
<1>1. Init => UniqueInv
  BY DEF Init, UniqueInv, IdInv, AnswerInv, Invoked, Published, Private
<1>2. TypeOK /\ OwnershipInv /\ UniqueInv /\ [Next]_vars => UniqueInv'
  <2> SUFFICES ASSUME TypeOK, OwnershipInv, UniqueInv, [Next]_vars PROVE UniqueInv'
    OBVIOUS
  <2>1. CASE UNCHANGED vars
    BY <2>1 DEF UniqueInv, IdInv, AnswerInv, Invoked, Private,
                vars, reqVars, tableVars, cbVars, respVars, waitVars, cancelVars
  <2> QED
    BY <2>1, UniqueStep DEF Next, Terminating
<1> QED
  BY <1>1, <1>2, TypeCorrect, Ownership, PTL DEF Spec

(* Then every request is answered by its own response ...                  *)
THEOREM AnsweredByOwnResponse ==
  ASSUME SerialInit, IdLimit < IdMod
  PROVE  Spec => []OwnResponse
<1>1. UniqueInv => OwnResponse
  BY DEF UniqueInv, AnswerInv, OwnResponse
<1> QED  BY <1>1, Unique, PTL

(* ... and a cancel fails only for a request the response has taken.       *)
THEOREM CancelFailsOnlyAnswered ==
  ASSUME SerialInit, IdLimit < IdMod
  PROVE  Spec => []CancelFailsOnlyIfAnswered
<1>1. UniqueInv => CancelFailsOnlyIfAnswered
  BY DEF UniqueInv, AnswerInv, CancelFailsOnlyIfAnswered
<1> QED  BY <1>1, Unique, PTL

-----------------------------------------------------------------------------
(* Each action preserves FailedInv when ids are distinct.                  *)
LEMMA FailedStep ==
  ASSUME TypeOK, OwnershipInv, UniqueInv, FailedInv, NEW r \in Reqs, Step(r)
  PROVE  FailedInv'
<1> USE DEF reqVars, tableVars, cbVars, respVars, waitVars, cancelVars, Published, Private
<1>0. \A q \in Reqs : OwnerInv(q) /\ AnswerInv(q) /\ FailedClean(q)
  BY DEF OwnershipInv, UniqueInv, FailedInv
<1>23. LateUsesOnly'
  <2>1. \A q \in Reqs : Freed(q) /\ resp[q] # "idle" => waitRet[q] = "ok"
    BY <1>0 DEF FailedClean, OwnerInv, Freed
  <2> QED  BY <2>1, LateStep DEF FailedInv
<1> SUFFICES \A q \in Reqs : FailedClean(q)'
  BY <1>23 DEF FailedInv
<1>1. CASE LoadId(r)
  BY <1>0, <1>1 DEF LoadId, TypeOK, OwnerInv, FailedClean
<1>2. CASE StoreId(r)
  BY <1>0, <1>2 DEF StoreId, TypeOK, OwnerInv, FailedClean
<1>3. CASE InvokeAsync(r)
  BY <1>0, <1>3 DEF InvokeAsync, TypeOK, OwnerInv, FailedClean
<1>24. CASE InvokeRefused(r)
  BY <1>0, <1>24 DEF InvokeRefused, TypeOK, OwnerInv, FailedClean
<1>25. CASE ReadBack(r)
  BY <1>0, <1>25 DEF ReadBack, TypeOK, OwnerInv, FailedClean
<1>4. CASE SendRequest(r)
  BY <1>0, <1>4 DEF SendRequest, TypeOK, OwnerInv, FailedClean
<1>5. CASE Respond(r)
  BY <1>0, <1>5 DEF Respond, TypeOK, OwnerInv, FailedClean
<1>6. CASE Lose(r)
  BY <1>0, <1>6 DEF Lose, TypeOK, OwnerInv, FailedClean
<1>7. CASE Dispatch(r)
  BY <1>0, <1>7 DEF Dispatch, TypeOK, OwnerInv, FailedClean
<1>8. CASE RunCallback(r)
  BY <1>0, <1>8 DEF RunCallback, TypeOK, OwnerInv, FailedClean
<1>9. CASE LockRequest(r)
  BY <1>0, <1>9 DEF LockRequest, TypeOK, OwnerInv, FailedClean
<1>10. CASE MarkExecuted(r)
  BY <1>0, <1>10 DEF MarkExecuted, TypeOK, OwnerInv, FailedClean
<1>11. CASE FinishResponse(r)
  BY <1>0, <1>11 DEF FinishResponse, TypeOK, OwnerInv, FailedClean
<1>12. CASE WaitAsync(r)
  BY <1>0, <1>12 DEF WaitAsync, TypeOK, OwnerInv, FailedClean
<1>13. CASE WaitTest(r)
  BY <1>0, <1>13 DEF WaitTest, TypeOK, OwnerInv, FailedClean
<1>14. CASE WaitWake(r)
  BY <1>0, <1>14 DEF WaitWake, TypeOK, OwnerInv, FailedClean
<1>15. CASE WaitTimedOut(r)
  BY <1>0, <1>15 DEF WaitTimedOut, TypeOK, OwnerInv, FailedClean
<1>16. CASE CancelAsync(r)
  BY <1>0, <1>16 DEF CancelAsync, TypeOK, OwnerInv, FailedClean
<1>17. CASE CancelRelease(r)
  BY <1>0, <1>17 DEF CancelRelease, TypeOK, OwnerInv, FailedClean, CancelReturn
<1>18. CASE FreeRequest(r)
  BY <1>0, <1>18 DEF FreeRequest, TypeOK, OwnerInv, FailedClean
<1>19. CASE ProcessResponse(r)
  <2>1. r \in Reqs /\ inv[r] = "sent" /\ id[r] \in Ids
    BY <1>0, <1>19 DEF ProcessResponse, AnswerInv, TypeOK
  <2>2. tracked[id[r]] \in {r, NoReq}
    BY <2>1 DEF OwnershipInv, TableInv, UniqueInv, IdInv, TypeOK
  <2>3. \A q \in Reqs \ {r} : winner'[q] = winner[q]
    BY <1>19, <2>2 DEF ProcessResponse, TypeOK
  <2>4. op[r] = "cleanup" => winner[r] = "cancel" \/ waitRet[r] = "ok"
    BY <1>0, <2>1 DEF FailedClean
  <2>5. winner[r] = "cancel" => tracked[id[r]] = NoReq
    BY <2>1, <2>2, ReqAssumption DEF OwnershipInv, TableInv
  <2>6. winner[r] = "cancel" => winner'[r] = "cancel"
    BY <1>19, <2>5 DEF ProcessResponse
  <2>7. UNCHANGED <<op, cancel, inv, waitRet>>
    BY <1>19 DEF ProcessResponse
  <2> QED  BY <1>0, <2>1, <2>3, <2>4, <2>6, <2>7 DEF FailedClean
<1>20. CASE Cleanup(r)
  <2>1. UNCHANGED <<inv, winner, waitRet>> /\ (\A q \in Reqs \ {r} : op'[q] = op[q] /\ cancel'[q] = cancel[q])
        /\ cancel'[r] = "read" /\ op'[r] = "cleanup"
    BY <1>20 DEF Cleanup, TypeOK
  <2>2. Private(r) \/ inv[r] = "failed" \/ winner[r] = "cancel" \/ waitRet[r] = "ok"
    BY <1>0, <1>20 DEF Cleanup, MayCleanup, OwnerInv
  <2>3. inv[r] = "failed" => winner[r] \in {"none", "cancel"}
    BY <1>0 DEF FailedClean, AnswerInv, TypeOK
  <2> QED  BY <1>0, <2>1, <2>2, <2>3 DEF FailedClean
<1>21. CASE CancelCheck(r)
  <2>1. UNCHANGED <<inv, winner, waitRet, op>> /\ \A q \in Reqs \ {r} : cancel'[q] = cancel[q]
    BY <1>21 DEF CancelCheck, CancelReturn, TypeOK
  <2>2. inv[r] = "failed" /\ winner[r] = "none" => cancel'[r] = "untrack"
    BY <1>0, <1>21 DEF CancelCheck, OwnerInv, AnswerInv, TypeOK, LateFlags
  <2>3. /\ cancel'[r] \in {"read", "idle", "free", "untrack"}
        /\ cancel'[r] = "idle" => op[r] = "cancel"
        /\ cancel'[r] = "free" => op[r] = "cleanup"
    BY <1>21 DEF CancelCheck, CancelReturn, TypeOK
  <2> QED  BY <1>0, <2>1, <2>2, <2>3 DEF FailedClean
<1>22. CASE CancelUntrack(r)
  <2>1. inv[r] \notin {"new", "loaded"} /\ id[r] \in Ids
    BY <1>0, <1>22 DEF CancelUntrack, AnswerInv, TypeOK, Invoked
  <2>2. tracked[id[r]] \in {r, NoReq}
    BY <2>1 DEF OwnershipInv, TableInv, UniqueInv, IdInv, TypeOK
  <2>3. UNCHANGED <<inv, waitRet, op>> /\ \A q \in Reqs \ {r} : cancel'[q] = cancel[q] /\ winner'[q] = winner[q]
    BY <1>22, <2>2 DEF CancelUntrack, CancelReturn, TypeOK
  <2>4. CASE tracked[id[r]] = r
    <3>1. cancel'[r] = "found" /\ winner'[r] = "cancel"
      BY <1>22, <2>4, ReqAssumption DEF CancelUntrack, TypeOK
    <3> QED  BY <1>0, <2>3, <3>1 DEF FailedClean
  <2>5. CASE tracked[id[r]] = NoReq
    <3>1. ~(inv[r] = "failed" /\ winner[r] = "none")
      BY <1>0, <2>5, ReqAssumption DEF AnswerInv
    <3>2. /\ winner'[r] = winner[r] /\ cancel'[r] \in {"idle", "free"}
          /\ cancel'[r] = "idle" => op[r] = "cancel"
          /\ cancel'[r] = "free" => op[r] = "cleanup"
      BY <1>22, <2>5, ReqAssumption DEF CancelUntrack, CancelReturn, TypeOK
    <3> QED  BY <1>0, <2>3, <3>1, <3>2 DEF FailedClean
  <2> QED  BY <2>2, <2>4, <2>5
<1> QED
  BY <1>1, <1>2, <1>3, <1>4, <1>5, <1>6, <1>7, <1>8, <1>9, <1>10, <1>11,
     <1>12, <1>13, <1>14, <1>15, <1>16, <1>17, <1>18, <1>19, <1>20, <1>21, <1>22, <1>24, <1>25
     DEF Step, Responder, WaitStep, CancelStep

(* With distinct ids, requests whose sending failed may be cleaned up too. *)
LEMMA Failed ==
  ASSUME SerialInit, IdLimit < IdMod
  PROVE  Spec => []FailedInv
<1>1. Init => FailedInv
  BY DEF Init, FailedInv, FailedClean, LateUsesOnly
<1>2. TypeOK /\ OwnershipInv /\ UniqueInv /\ FailedInv /\ [Next]_vars => FailedInv'
  <2> SUFFICES ASSUME TypeOK, OwnershipInv, UniqueInv, FailedInv, [Next]_vars PROVE FailedInv'
    OBVIOUS
  <2>1. CASE UNCHANGED vars
    BY <2>1 DEF FailedInv, FailedClean, LateUsesOnly, Freed, Private,
                vars, reqVars, tableVars, respVars, waitVars, cancelVars
  <2> QED
    BY <2>1, FailedStep DEF Next, Terminating
<1> QED
  BY <1>1, <1>2, TypeCorrect, Ownership, Unique, PTL DEF Spec

(* With distinct ids, freed memory is used only as LateUsesOnly says       *)
(* whenever the application cleans up: also where it cleans up a request   *)
(* that abus_request_method_invoke_async() failed to send, which the code  *)
(* leaves in the table.                                                    *)
THEOREM UniqueLateUses ==
  ASSUME SerialInit, IdLimit < IdMod
  PROVE  Spec => []LateUsesOnly
<1>1. FailedInv => LateUsesOnly
  BY DEF FailedInv
<1> QED  BY <1>1, Failed, PTL

-----------------------------------------------------------------------------
(* The requests implement AsyncOutcome                                     *)

(* A step that changes nothing the caller sees is a stutter.               *)
LEMMA OutcomeKept ==
  ASSUME \A q \in Reqs : OutcomeOf(q)' = OutcomeOf(q),
         \A q \in Reqs : waitRet'[q] = "ok" <=> waitRet[q] = "ok",
         \A q \in Reqs : Freed(q)' <=> Freed(q)
  PROVE  UNCHANGED Outcome!ovars
<1>1. [q \in Reqs |-> OutcomeOf(q)]' = [q \in Reqs |-> OutcomeOf(q)]
  OBVIOUS
<1>2. {q \in Reqs : waitRet[q] = "ok"}' = {q \in Reqs : waitRet[q] = "ok"}
  OBVIOUS
<1>3. {q \in Reqs : Freed(q)}' = {q \in Reqs : Freed(q)}
  OBVIOUS
<1> QED  BY <1>1, <1>2, <1>3 DEF Outcome!ovars

(* One request moves on.                                                   *)
LEMMA OutcomeMoves ==
  ASSUME NEW r \in Reqs, NEW a, NEW b, OutcomeOf(r) = a, OutcomeOf(r)' = b,
         \A q \in Reqs \ {r} : OutcomeOf(q)' = OutcomeOf(q),
         UNCHANGED waitRet, \A q \in Reqs : Freed(q)' <=> Freed(q)
  PROVE  Outcome!Move(r, a, b)
<1>1. [q \in Reqs |-> OutcomeOf(q)]' = [[q \in Reqs |-> OutcomeOf(q)] EXCEPT ![r] = b]
  OBVIOUS
<1>2. {q \in Reqs : waitRet[q] = "ok"}' = {q \in Reqs : waitRet[q] = "ok"}
  OBVIOUS
<1>3. {q \in Reqs : Freed(q)}' = {q \in Reqs : Freed(q)}
  OBVIOUS
<1> QED  BY <1>1, <1>2, <1>3 DEF Outcome!Move

(* The outcome of a request depends on its publication, on who took it out *)
(* of the table and on its callback.                                       *)
LEMMA OutcomeValue ==
  ASSUME TypeOK, OwnershipInv, NEW r \in Reqs
  PROVE  /\ calls[r] = 0 \/ calls[r] = 1
         /\ calls[r] = 1 => OutcomeOf(r) = "called" /\ winner[r] = "response"
         /\ calls[r] = 0 =>
              OutcomeOf(r) = IF winner[r] = "response" THEN "claimed"
                             ELSE IF winner[r] = "cancel" THEN "cancelled"
                             ELSE IF inv[r] \in Published THEN "pending" ELSE "idle"
<1>1. OwnerInv(r) /\ winner[r] \in {"none", "response", "cancel", "other"}
  BY DEF OwnershipInv, TypeOK
<1>2. (calls[r] = 0 \/ calls[r] = 1) /\ (calls[r] = 1 => winner[r] = "response")
  BY <1>1 DEF OwnerInv
<1>3. CASE calls[r] = 1
  BY <1>2, <1>3 DEF OutcomeOf
<1>4. CASE calls[r] = 0
  BY <1>1, <1>4 DEF OutcomeOf, Published
<1> QED  BY <1>2, <1>3, <1>4

(* What the caller sees of a request that nobody takes, calls or publishes *)
(* does not change.                                                        *)
LEMMA OutcomeSame ==
  ASSUME TypeOK, OwnershipInv, TypeOK', OwnershipInv', NEW q \in Reqs,
         calls'[q] = calls[q], winner'[q] = winner[q],
         inv'[q] \in Published <=> inv[q] \in Published
  PROVE  OutcomeOf(q)' = OutcomeOf(q)
  BY OutcomeValue DEF OutcomeOf, Published

(* Every step is a step of AsyncOutcome or a stutter, if a request that is *)
(* being freed was never invoked, is cancelled or was waited for.          *)
LEMMA OutcomeStep ==
  ASSUME TypeOK, OwnershipInv, TypeOK', OwnershipInv',
         \A q \in Reqs : cancel[q] = "free" =>
           Private(q) \/ winner[q] = "cancel" \/ waitRet[q] = "ok",
         NEW r \in Reqs, Step(r)
  PROVE  Outcome!Next \/ UNCHANGED Outcome!ovars
<1> USE DEF reqVars, tableVars, cbVars, respVars, waitVars, cancelVars
<1>0. \A q \in Reqs : OwnerInv(q)
  BY DEF OwnershipInv
<1>1. CASE \/ LoadId(r) \/ StoreId(r) \/ InvokeRefused(r)
           \/ SendRequest(r) \/ Respond(r) \/ Lose(r)
  <2>1. UNCHANGED <<calls, winner, waitRet, cancel>>
    BY <1>1 DEF LoadId, StoreId, InvokeRefused, SendRequest, Respond, Lose
  <2>2. \A q \in Reqs : inv'[q] \in Published <=> inv[q] \in Published
    BY <1>1 DEF LoadId, StoreId, InvokeRefused, SendRequest, Respond, Lose, TypeOK, Published
  <2>3. \A q \in Reqs : OutcomeOf(q)' = OutcomeOf(q)
    BY <2>1, <2>2, OutcomeSame
  <2> QED  BY <2>1, <2>3, OutcomeKept DEF Freed
<1>2. CASE InvokeAsync(r)
  <2>1. UNCHANGED <<calls, winner, waitRet, cancel>> /\ cancel[r] = "idle" /\ Private(r)
    BY <1>2 DEF InvokeAsync
  <2>2. \A q \in Reqs \ {r} : inv'[q] \in Published <=> inv[q] \in Published
    BY <1>2 DEF InvokeAsync, TypeOK
  <2>3. \A q \in Reqs \ {r} : OutcomeOf(q)' = OutcomeOf(q)
    BY <2>1, <2>2, OutcomeSame
  <2>4. CASE UNCHANGED inv
    BY <2>1, <2>4, OutcomeSame, OutcomeKept DEF Freed
  <2>5. CASE inv'[r] = "tracked"
    <3>1. winner[r] = "none" /\ calls[r] = 0
      BY <1>0, <2>1 DEF OwnerInv, Published, Private, TypeOK
    <3>2. OutcomeOf(r) = "idle" /\ OutcomeOf(r)' = "pending"
      BY <2>1, <2>5, <3>1 DEF OutcomeOf, Private
    <3>3. Outcome!Move(r, "idle", "pending")
      BY <2>1, <2>3, <3>2, OutcomeMoves DEF Freed
    <3>4. r \notin {q \in Reqs : Freed(q)}
      BY <2>1 DEF Freed
    <3> QED  BY <3>3, <3>4 DEF Outcome!Next, Outcome!Invoke
  <2> QED  BY <1>2, <2>4, <2>5 DEF InvokeAsync, TypeOK
<1>3. CASE ProcessResponse(r)
  <2>1. UNCHANGED <<calls, waitRet, cancel, inv>> /\ id[r] \in Ids
    BY <1>3 DEF ProcessResponse, TypeOK
  <2>2. CASE tracked[id[r]] = NoReq
    BY <1>3, <2>1, <2>2, OutcomeSame, OutcomeKept, ReqAssumption DEF ProcessResponse, Freed
  <2>3. ASSUME NEW c \in Reqs, tracked[id[r]] = c PROVE Outcome!Next
    <3>1. c # NoReq /\ winner[c] = "none" /\ inv[c] \in Published
      BY <2>1, <2>3, ReqAssumption DEF OwnershipInv, TableInv
    <3>2. winner'[c] = "response" /\ \A q \in Reqs \ {c} : winner'[q] = winner[q]
      BY <1>3, <2>3, <3>1 DEF ProcessResponse, TypeOK
    <3>3. \A q \in Reqs \ {c} : OutcomeOf(q)' = OutcomeOf(q)
      BY <2>1, <3>2, OutcomeSame
    <3>4. calls[c] = 0
      BY <1>0, <3>1 DEF OwnerInv
    <3>5. OutcomeOf(c) = "pending" /\ OutcomeOf(c)' = "claimed"
      BY <2>1, <3>1, <3>2, <3>4 DEF OutcomeOf, Published
    <3>6. Outcome!Claim(c)
      BY <2>1, <3>1, <3>3, <3>5, OutcomeMoves DEF Freed, Outcome!Claim
    <3> QED  BY <3>1, <3>6 DEF Outcome!Next
  <2> QED  BY <2>1, <2>2, <2>3 DEF TypeOK
<1>4. CASE Dispatch(r) \/ LockRequest(r) \/ MarkExecuted(r) \/ FinishResponse(r) \/ ReadBack(r)
  <2>1. UNCHANGED <<calls, winner, waitRet, cancel, inv>>
    BY <1>4 DEF Dispatch, LockRequest, MarkExecuted, FinishResponse, ReadBack
  <2> QED  BY <2>1, OutcomeSame, OutcomeKept DEF Freed
<1>5. CASE RunCallback(r)
  <2>1. /\ UNCHANGED <<winner, waitRet, cancel, inv>> /\ resp[r] = "dispatched"
        /\ calls'[r] = calls[r] + 1 /\ \A q \in Reqs \ {r} : calls'[q] = calls[q]
    BY <1>5 DEF RunCallback, TypeOK
  <2>2. winner[r] = "response" /\ calls[r] = 0 /\ calls'[r] = 1
    BY <1>0, <2>1 DEF OwnerInv
  <2>3. \A q \in Reqs \ {r} : OutcomeOf(q)' = OutcomeOf(q)
    BY <2>1, OutcomeSame
  <2>4. OutcomeOf(r) = "claimed" /\ OutcomeOf(r)' = "called"
    BY <2>1, <2>2, OutcomeValue DEF OutcomeOf
  <2>5. Outcome!Call(r)
    BY <2>1, <2>3, <2>4, OutcomeMoves DEF Freed, Outcome!Call
  <2> QED  BY <2>5 DEF Outcome!Next
<1>6. CASE WaitAsync(r) \/ WaitTest(r)
  <2>1. UNCHANGED <<calls, winner, cancel, inv>>
    BY <1>6 DEF WaitAsync, WaitTest
  <2>2. \A q \in Reqs : OutcomeOf(q)' = OutcomeOf(q)
    BY <2>1, OutcomeSame
  <2>3. CASE UNCHANGED waitRet
    BY <2>1, <2>2, <2>3, OutcomeKept DEF Freed
  <2>4. CASE waitRet' = [waitRet EXCEPT ![r] = "ok"] /\ ~pending[r]
    <3>1. inv[r] \in Published
      BY <1>0, <1>6 DEF WaitAsync, WaitTest, OwnerInv, Invoked, Published, TypeOK
    <3>2. calls[r] = 1 \/ (calls[r] = 0 /\ winner[r] = "cancel")
      BY <1>0, <2>4, <3>1 DEF OwnerInv, TypeOK
    <3>3. OutcomeOf(r) \in {"called", "cancelled"}
      BY <3>2, OutcomeValue
    <3>4. {q \in Reqs : waitRet[q] = "ok"}' = {q \in Reqs : waitRet[q] = "ok"} \cup {r}
      BY <2>4 DEF TypeOK
    <3>5. [q \in Reqs |-> OutcomeOf(q)]' = [q \in Reqs |-> OutcomeOf(q)]
      BY <2>2
    <3>6. {q \in Reqs : Freed(q)}' = {q \in Reqs : Freed(q)}
      BY <2>1 DEF Freed
    <3>7. Outcome!WaitOk(r)
      BY <3>3, <3>4, <3>5, <3>6 DEF Outcome!WaitOk
    <3> QED  BY <3>7 DEF Outcome!Next
  <2> QED  BY <1>6, <2>3, <2>4 DEF WaitAsync, WaitTest
<1>7. CASE WaitWake(r) \/ WaitTimedOut(r)
  <2>1. UNCHANGED <<calls, winner, cancel, inv>>
    BY <1>7 DEF WaitWake, WaitTimedOut
  <2>2. \A q \in Reqs : waitRet'[q] = "ok" <=> waitRet[q] = "ok"
    BY <1>0, <1>7 DEF WaitWake, WaitTimedOut, OwnerInv, TypeOK
  <2> QED  BY <2>1, <2>2, OutcomeSame, OutcomeKept DEF Freed
<1>8. CASE CancelAsync(r) \/ Cleanup(r) \/ CancelCheck(r) \/ CancelRelease(r)
  <2>1. UNCHANGED <<calls, winner, waitRet, inv>>
    BY <1>8 DEF CancelAsync, Cleanup, CancelCheck, CancelRelease
  <2>2. \A q \in Reqs : Freed(q)' <=> Freed(q)
    BY <1>8 DEF CancelAsync, Cleanup, CancelCheck, CancelRelease, CancelReturn, TypeOK, Freed
  <2> QED  BY <2>1, <2>2, OutcomeSame, OutcomeKept
<1>9. CASE CancelUntrack(r)
  <2>1. UNCHANGED <<calls, waitRet, inv>> /\ id[r] \in Ids
    BY <1>9 DEF CancelUntrack, TypeOK
  <2>2. \A q \in Reqs : Freed(q)' <=> Freed(q)
    BY <1>9 DEF CancelUntrack, CancelReturn, TypeOK, Freed
  <2>3. CASE tracked[id[r]] = NoReq
    BY <1>9, <2>1, <2>2, <2>3, OutcomeSame, OutcomeKept, ReqAssumption DEF CancelUntrack
  <2>4. ASSUME NEW c \in Reqs, tracked[id[r]] = c
        PROVE  Outcome!Next \/ UNCHANGED Outcome!ovars
    <3>1. c # NoReq /\ winner[c] = "none" /\ inv[c] \in Published
      BY <2>1, <2>4, ReqAssumption DEF OwnershipInv, TableInv
    <3>2. /\ winner'[c] = IF c = r THEN "cancel" ELSE "other"
          /\ \A q \in Reqs \ {c} : winner'[q] = winner[q]
      BY <1>9, <2>4, <3>1 DEF CancelUntrack, TypeOK
    <3>3. \A q \in Reqs \ {c} : OutcomeOf(q)' = OutcomeOf(q)
      BY <2>1, <3>2, OutcomeSame
    <3>4. calls[c] = 0
      BY <1>0, <3>1 DEF OwnerInv
    <3>5. CASE c = r
      <4>1. OutcomeOf(c) = "pending" /\ OutcomeOf(c)' = "cancelled"
        BY <2>1, <3>1, <3>2, <3>4, <3>5 DEF OutcomeOf, Published
      <4>2. Outcome!Cancel(c)
        BY <2>1, <2>2, <3>1, <3>3, <4>1, OutcomeMoves DEF Outcome!Cancel
      <4> QED  BY <3>1, <4>2 DEF Outcome!Next
    <3>6. CASE c # r
      <4>1. OutcomeOf(c)' = OutcomeOf(c)
        BY <2>1, <3>1, <3>2, <3>4, <3>6 DEF OutcomeOf, Published
      <4> QED  BY <2>1, <2>2, <3>3, <4>1, OutcomeKept
    <3> QED  BY <3>5, <3>6
  <2> QED  BY <2>1, <2>3, <2>4 DEF TypeOK
<1>10. CASE FreeRequest(r)
  <2>1. UNCHANGED <<calls, winner, waitRet, inv>> /\ cancel[r] = "free"
    BY <1>10 DEF FreeRequest
  <2>2. [q \in Reqs |-> OutcomeOf(q)]' = [q \in Reqs |-> OutcomeOf(q)]
    BY <2>1, OutcomeSame
  <2>3. {q \in Reqs : Freed(q)}' = {q \in Reqs : Freed(q)} \cup {r}
    BY <1>10 DEF FreeRequest, Freed, TypeOK
  <2>4. OutcomeOf(r) \in {"idle", "cancelled"} \/ r \in {q \in Reqs : waitRet[q] = "ok"}
    <3>1. CASE winner[r] = "cancel" \/ (inv[r] \notin Published /\ winner[r] = "none")
      <4>1. calls[r] = 0
        BY <1>0, <3>1 DEF OwnerInv
      <4> QED  BY <3>1, <4>1, OutcomeValue
    <3>2. \/ winner[r] = "cancel" \/ (inv[r] \notin Published /\ winner[r] = "none")
          \/ waitRet[r] = "ok"
      BY <1>0, <2>1 DEF OwnerInv, Published, Private
    <3> QED  BY <3>1, <3>2
  <2>5. Outcome!Release(r)
    BY <2>1, <2>2, <2>3, <2>4 DEF Outcome!Release
  <2> QED  BY <2>5 DEF Outcome!Next
<1> QED
  BY <1>1, <1>2, <1>3, <1>4, <1>5, <1>6, <1>7, <1>8, <1>9, <1>10
     DEF Step, Responder, WaitStep, CancelStep

(* The state of a new process is an initial state of AsyncOutcome.         *)
LEMMA OutcomeInit == Init => Outcome!Init
  BY DEF Init, Outcome!Init, OutcomeOf, Freed

(* The threads, the table and the mutexes implement AsyncOutcome, also     *)
(* when unserialised creation gives two requests the same id, if the       *)
(* application cleans up only requests it cancelled or waited for with     *)
(* success.                                                                *)
THEOREM OutcomeRefined ==
  ASSUME CleanupAfter \subseteq {"cancel", "wait"}
  PROVE  Spec => ImplementsOutcome
<1>1. /\ TypeOK /\ OwnershipInv /\ TypeOK' /\ OwnershipInv' /\ ReleaseInv /\ [Next]_vars
      => [Outcome!Next]_(Outcome!ovars)
  <2> SUFFICES ASSUME TypeOK, OwnershipInv, TypeOK', OwnershipInv', ReleaseInv, [Next]_vars
               PROVE  Outcome!Next \/ UNCHANGED Outcome!ovars
    OBVIOUS
  <2>1. CASE UNCHANGED vars
    BY <2>1, OutcomeSame, OutcomeKept
       DEF Freed, vars, reqVars, tableVars, respVars, waitVars, cancelVars
  <2>2. \A q \in Reqs : cancel[q] = "free" =>
          Private(q) \/ winner[q] = "cancel" \/ waitRet[q] = "ok"
    BY DEF ReleaseInv
  <2> QED
    BY <2>1, <2>2, OutcomeStep DEF Next, Terminating
<1> QED
  BY <1>1, OutcomeInit, TypeCorrect, Ownership, Release, PTL
     DEF Spec, ImplementsOutcome, Outcome!Spec

(* With distinct ids they do so too where requests that could not be sent  *)
(* are cleaned up.                                                         *)
THEOREM UniqueOutcomeRefined ==
  ASSUME SerialInit, IdLimit < IdMod
  PROVE  Spec => ImplementsOutcome
<1>1. /\ TypeOK /\ OwnershipInv /\ TypeOK' /\ OwnershipInv' /\ FailedInv /\ [Next]_vars
      => [Outcome!Next]_(Outcome!ovars)
  <2> SUFFICES ASSUME TypeOK, OwnershipInv, TypeOK', OwnershipInv', FailedInv, [Next]_vars
               PROVE  Outcome!Next \/ UNCHANGED Outcome!ovars
    OBVIOUS
  <2>1. CASE UNCHANGED vars
    BY <2>1, OutcomeSame, OutcomeKept
       DEF Freed, vars, reqVars, tableVars, respVars, waitVars, cancelVars
  <2>2. \A q \in Reqs : cancel[q] = "free" =>
          Private(q) \/ winner[q] = "cancel" \/ waitRet[q] = "ok"
    BY DEF FailedInv, FailedClean
  <2> QED
    BY <2>1, <2>2, OutcomeStep DEF Next, Terminating
<1> QED
  BY <1>1, OutcomeInit, TypeCorrect, Ownership, Failed, PTL
     DEF Spec, ImplementsOutcome, Outcome!Spec
=============================================================================
