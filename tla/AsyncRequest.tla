---------------------------- MODULE AsyncRequest ----------------------------
(***************************************************************************)
(* Asynchronous method requests of libabus (abus/abus.c): the life of a    *)
(* json_rpc_t from abus_request_method_init() to                           *)
(* abus_request_method_cleanup(), raced by four kinds of thread:           *)
(*                                                                         *)
(*   - the threads that create and send requests (abus_request_method_init *)
(*     and abus_request_method_invoke_async);                              *)
(*   - a thread in abus_request_method_wait_async;                         *)
(*   - a thread in abus_request_method_cancel_async, or in                 *)
(*     abus_request_method_cleanup, which cancels first;                   *)
(*   - the A-Bus thread, which takes responses off the socket and runs the *)
(*     response handler in place, or hands it to a detached thread when    *)
(*     the request was made with ABUS_RPC_THREADED.                        *)
(*                                                                         *)
(* Critical sections under abus->mutex are one step each; the critical     *)
(* section of the response side under json_rpc->mutex is split, because    *)
(* wait_async and cancel_async also read cb_context without the mutex.     *)
(***************************************************************************)
EXTENDS Naturals

CONSTANTS
  Reqs,          \* the json_rpc_t objects, each initialised at most once
  NoReq,         \* a null json_rpc_t pointer
  ThreadedReqs,  \* the requests made with ABUS_RPC_THREADED
  WaitedReqs,    \* the requests the application calls wait_async on
  IdMod,         \* number of values of abus->id (2^32 in the program)
  IdLimit,       \* bound: no request is initialised once abus->id is IdLimit
  SerialInit,    \* TRUE: the application serialises abus_request_method_init
  CleanupAfter   \* when the application calls abus_request_method_cleanup:
                 \* after "cancel" or "wait" returned 0, or after a failed "send"

ASSUME ReqAssumption ==
  /\ NoReq \notin Reqs
  /\ ThreadedReqs \subseteq Reqs
  /\ WaitedReqs \subseteq Reqs

ASSUME IdAssumption ==
  /\ IdMod \in Nat \ {0}
  /\ IdLimit \in Nat

ASSUME PolicyAssumption ==
  /\ SerialInit \in BOOLEAN
  /\ CleanupAfter \subseteq {"cancel", "wait", "send"}

VARIABLES
  nextId,     \* abus->id
  inv,        \* progress of request_method_init and invoke_async
  id,         \* json_rpc->id
  tracked,    \* outstanding_req_htab: id -> request
  pending,    \* json_rpc->cb_context # NULL
  handler,    \* the allocation of resp_handler
  net,        \* the datagram that carries the request, then its response
  resp,       \* progress of the response side
  from,       \* the request whose response was taken for this one (history)
  calls,      \* number of times the response callback ran (history)
  busy,       \* the request the A-Bus thread is working on
  wait,       \* progress of wait_async
  waitRet,    \* what wait_async last returned
  cancel,     \* progress of cancel_async and cleanup
  op,         \* which of the two is running, or ran last
  seen,       \* resp_handler as read without the mutex by cancel_async
  cancelRet,  \* what cancel_async returned
  winner,     \* who took the request out of the table (history)
  crash       \* why the process died, if it did: an assertion, or the use of a
              \* freed request or handler, or of flags read too late

reqVars    == <<nextId, inv, id>>
tableVars  == <<tracked, winner>>
cbVars     == <<pending, handler>>
respVars   == <<resp, from, calls, busy>>
waitVars   == <<wait, waitRet>>
cancelVars == <<cancel, op, seen, cancelRet>>
vars == <<reqVars, tableVars, cbVars, net, respVars, waitVars, cancelVars, crash>>

Ids == 0 .. IdMod - 1

(* json_rpc_req_init() leaves the id undefined when it is (unsigned)-1.    *)
UndefId == IdMod - 1

TypeOK ==
  /\ nextId \in Ids
  /\ inv \in [Reqs -> {"new", "loaded", "init", "refused", "tracked", "sent", "failed"}]
  /\ id \in [Reqs -> Ids]
  /\ tracked \in [Ids -> Reqs \cup {NoReq}]
  /\ pending \in [Reqs -> BOOLEAN]
  /\ handler \in [Reqs -> {"none", "live", "freed"}]
  /\ net \in [Reqs -> {"none", "request", "response", "gone"}]
  /\ resp \in [Reqs -> {"idle", "claimed", "dispatched", "called", "locked",
                        "marked", "done", "lost"}]
  /\ from \in [Reqs -> Reqs \cup {NoReq}]
  /\ calls \in [Reqs -> Nat]
  /\ busy \in Reqs \cup {NoReq}
  /\ wait \in [Reqs -> {"idle", "locking", "waiting", "woken", "timedout"}]
  /\ waitRet \in [Reqs -> {"none", "ok", "timeout"}]
  /\ cancel \in [Reqs -> {"idle", "read", "untrack", "found", "free", "dead"}]
  /\ op \in [Reqs -> {"none", "cancel", "cleanup"}]
  /\ seen \in [Reqs -> BOOLEAN]
  /\ cancelRet \in [Reqs -> {"none", "ok", "enxio"}]
  /\ winner \in [Reqs -> {"none", "response", "cancel", "other"}]
  /\ crash \in {"none", "assert", "request", "handler", "flags"}

(* Earlier requests, synchronous ones included, may have used any number   *)
(* of ids.                                                                 *)
Init ==
  /\ nextId \in Ids
  /\ inv = [r \in Reqs |-> "new"]
  /\ id = [r \in Reqs |-> 0]
  /\ tracked = [i \in Ids |-> NoReq]
  /\ pending = [r \in Reqs |-> FALSE]
  /\ handler = [r \in Reqs |-> "none"]
  /\ net = [r \in Reqs |-> "none"]
  /\ resp = [r \in Reqs |-> "idle"]
  /\ from = [r \in Reqs |-> NoReq]
  /\ calls = [r \in Reqs |-> 0]
  /\ busy = NoReq
  /\ wait = [r \in Reqs |-> "idle"]
  /\ waitRet = [r \in Reqs |-> "none"]
  /\ cancel = [r \in Reqs |-> "idle"]
  /\ op = [r \in Reqs |-> "none"]
  /\ seen = [r \in Reqs |-> FALSE]
  /\ cancelRet = [r \in Reqs |-> "none"]
  /\ winner = [r \in Reqs |-> "none"]
  /\ crash = "none"

-----------------------------------------------------------------------------
(* Helpers                                                                 *)

(* The process has not crashed.                                            *)
Alive == crash = "none"

(* json_rpc_cleanup() released the request.                                *)
Freed(r) == cancel[r] = "dead"

(* json_rpc->mutex is held across a step: only the response side does.     *)
Locked(r) == resp[r] \in {"locked", "marked"}

(* Faults: a counter that does not wrap, and one that does not move.       *)
WideIdAfter(i) == i + 1
SameIdAfter(i) == i

(* abus->id++ on an unsigned int.                                          *)
IdAfter(i) == (i + 1) % IdMod

(* hadd() keeps the item already stored under the key.                     *)
Track(r) ==
  IF tracked[id[r]] = NoReq THEN [tracked EXCEPT ![id[r]] = r] ELSE tracked

(* Fault: the lookup leaves the item in the table.                         *)
KeepTracked(i) == tracked

(* abus_req_untrack(): the table without the item stored under key i.      *)
Untrack(i) == [tracked EXCEPT ![i] = NoReq]

(* Fault: nobody is woken.                                                 *)
NoBroadcast(r) == wait

(* pthread_cond_broadcast(&json_rpc->cond).                                *)
Broadcast(r) ==
  [wait EXCEPT ![r] = IF @ = "waiting" THEN "woken" ELSE @]

(* free() of the response handler.                                         *)
FreeHandler(r) == [handler EXCEPT ![r] = "freed"]

(* The A-Bus thread returns from a handler it ran in place, and reads no   *)
(* cb_context: that of such a response was never set.                      *)
BusyAfter(r) == IF r \in ThreadedReqs THEN busy ELSE NoReq

(* Locking, writing, calling or freeing a request or its handler ends the  *)
(* process when that memory has been freed.                                *)
UseRequest(r) == IF Freed(r) THEN "request" ELSE crash
UseHandler(r) == IF handler[r] # "live" THEN "handler" ELSE crash
UseBoth(r) == IF Freed(r) THEN "request" ELSE UseHandler(r)

(* The handler has been freed, so its flags may have any value, and        *)
(* reading them may end the process.                                       *)
LateFlags(r) == handler[r] # "live"

-----------------------------------------------------------------------------
(* Creating and sending a request                                          *)

(* abus_request_method_init() reads abus->id ...                           *)
LoadId(r) ==
  /\ Alive
  /\ inv[r] = "new"
  /\ nextId < IdLimit
  /\ SerialInit => \A q \in Reqs : inv[q] # "loaded"
  /\ id' = [id EXCEPT ![r] = nextId]
  /\ inv' = [inv EXCEPT ![r] = "loaded"]
  /\ UNCHANGED <<nextId, tableVars, cbVars, net, respVars, waitVars, cancelVars, crash>>

(* ... and writes the incremented value back, with no lock held.           *)
StoreId(r) ==
  /\ Alive
  /\ inv[r] = "loaded"
  /\ nextId' = IdAfter(id[r])
  /\ inv' = [inv EXCEPT ![r] = "init"]
  /\ UNCHANGED <<id, tableVars, cbVars, net, respVars, waitVars, cancelVars, crash>>

(* A request that exists, and of which nobody but its creator knows.       *)
Private(r) == inv[r] \in {"init", "refused"}

(* abus_launch_thread_ondemand() fails, and so does invoke_async, before   *)
(* it has done anything.  The application may try again.                   *)
InvokeRefused(r) ==
  /\ Alive
  /\ inv[r] = "init"
  /\ cancel[r] = "idle"
  /\ inv' = [inv EXCEPT ![r] = "refused"]
  /\ UNCHANGED <<nextId, id, tableVars, cbVars, net, respVars, waitVars, cancelVars, crash>>

(* invoke_async up to the send: allocate the handler, publish it in        *)
(* cb_context, assert that the id is defined, track the request.           *)
InvokeAsync(r) ==
  /\ Alive
  /\ Private(r)
  /\ cancel[r] = "idle"
  /\ pending' = [pending EXCEPT ![r] = TRUE]
  /\ handler' = [handler EXCEPT ![r] = "live"]
  /\ \/ /\ id[r] = UndefId
        /\ crash' = "assert"
        /\ UNCHANGED <<inv, tracked>>
     \/ /\ id[r] # UndefId
        /\ tracked' = Track(r)
        /\ inv' = [inv EXCEPT ![r] = "tracked"]
        /\ UNCHANGED crash
  /\ UNCHANGED <<nextId, id, winner, net, respVars, waitVars, cancelVars>>

(* un_sock_sendto_svc(): on failure the call returns an error and leaves   *)
(* the request in the table.                                               *)
SendRequest(r) ==
  /\ Alive
  /\ inv[r] = "tracked"
  /\ \/ /\ net' = [net EXCEPT ![r] = "request"]
        /\ inv' = [inv EXCEPT ![r] = "sent"]
     \/ /\ inv' = [inv EXCEPT ![r] = "failed"]
        /\ UNCHANGED net
  /\ UNCHANGED <<nextId, id, tableVars, cbVars, respVars, waitVars, cancelVars, crash>>

-----------------------------------------------------------------------------
(* The service at the other end and the socket between (external).         *)

Respond(r) ==
  /\ Alive
  /\ net[r] = "request"
  /\ net' = [net EXCEPT ![r] = "response"]
  /\ UNCHANGED <<reqVars, tableVars, cbVars, respVars, waitVars, cancelVars, crash>>

(* A service that does not answer, or whose answer does not fit in the     *)
(* receive queue: responses are sent with MSG_DONTWAIT and never retried.  *)
Lose(r) ==
  /\ Alive
  /\ net[r] \in {"request", "response"}
  /\ net' = [net EXCEPT ![r] = "gone"]
  /\ UNCHANGED <<reqVars, tableVars, cbVars, respVars, waitVars, cancelVars, crash>>

-----------------------------------------------------------------------------
(* The response side                                                       *)

(* The A-Bus thread takes the response of m and looks its id up; a         *)
(* response nobody waits for is dropped.                                   *)
ProcessResponse(m) ==
  /\ Alive
  /\ net[m] = "response"
  /\ busy = NoReq
  /\ net' = [net EXCEPT ![m] = "gone"]
  /\ tracked' = Untrack(id[m])
  /\ LET r == tracked[id[m]] IN
     \/ /\ r = NoReq
        /\ UNCHANGED <<resp, from, busy, winner>>
     \/ /\ r # NoReq
        /\ resp' = [resp EXCEPT ![r] = "claimed"]
        /\ from' = [from EXCEPT ![r] = m]
        /\ winner' = [winner EXCEPT ![r] = "response"]
        /\ busy' = r
  /\ UNCHANGED <<reqVars, cbVars, calls, waitVars, cancelVars, crash>>

(* Fault: the request is marked as executed before its callback runs.      *)
MarkFirst(r) ==
  /\ Alive
  /\ resp[r] = "claimed"
  /\ busy = r
  /\ resp' = [resp EXCEPT ![r] = "dispatched"]
  /\ pending' = [pending EXCEPT ![r] = FALSE]
  /\ UNCHANGED <<reqVars, tableVars, handler, net, from, calls, busy, waitVars, cancelVars, crash>>

(* method = req_json_rpc->cb_context, then abus_do_rpc(): in place, or in  *)
(* a detached thread that pthread_create() may fail to create: then the    *)
(* response and the handler are never freed.                               *)
Dispatch(r) ==
  /\ Alive
  /\ resp[r] = "claimed"
  /\ busy = r
  /\ crash' = IF pending[r] THEN UseBoth(r) ELSE "handler"
  /\ \E res \in {"dispatched"} \cup (IF r \in ThreadedReqs THEN {"lost"} ELSE {}) :
       resp' = [resp EXCEPT ![r] = res]
  /\ UNCHANGED <<reqVars, tableVars, cbVars, net, from, calls, busy, waitVars, cancelVars>>

(* Back in abus_process_incoming() the A-Bus thread reads the cb_context   *)
(* of the response and the flags of the handler, to see whether a thread   *)
(* has taken them.  That thread may have freed both by now: the process    *)
(* dies then, of the read or of freeing the response again, or goes on.    *)
ReadBack(r) ==
  /\ Alive
  /\ busy = r
  /\ r \in ThreadedReqs
  /\ resp[r] # "claimed"
  /\ busy' = NoReq
  /\ \/ UNCHANGED crash
     \/ LateFlags(r) /\ crash' = "flags"
  /\ UNCHANGED <<reqVars, tableVars, cbVars, net, resp, from, calls, waitVars, cancelVars>>

(* method->callback(json_rpc, method->arg).                                *)
RunCallback(r) ==
  /\ Alive
  /\ resp[r] = "dispatched"
  /\ crash' = UseHandler(r)
  /\ calls' = [calls EXCEPT ![r] = @ + 1]
  /\ resp' = [resp EXCEPT ![r] = "called"]
  /\ UNCHANGED <<reqVars, tableVars, cbVars, net, from, busy, waitVars, cancelVars>>

(* pthread_mutex_lock(&req_json_rpc->mutex).                               *)
LockRequest(r) ==
  /\ Alive
  /\ resp[r] = "called"
  /\ crash' = UseRequest(r)
  /\ resp' = [resp EXCEPT ![r] = "locked"]
  /\ UNCHANGED <<reqVars, tableVars, cbVars, net, from, calls, busy, waitVars, cancelVars>>

(* "mark as executed through req_json_rpc->cb_context".                    *)
MarkExecuted(r) ==
  /\ Alive
  /\ resp[r] = "locked"
  /\ crash' = UseRequest(r)
  /\ pending' = [pending EXCEPT ![r] = FALSE]
  /\ resp' = [resp EXCEPT ![r] = "marked"]
  /\ UNCHANGED <<reqVars, tableVars, handler, net, from, calls, busy, waitVars, cancelVars>>

(* Broadcast, free(method), unlock.  The thread of a threaded response     *)
(* ends with the response freed; the A-Bus thread goes on.                 *)
FinishResponse(r) ==
  /\ Alive
  /\ resp[r] = "marked"
  /\ crash' = UseBoth(r)
  /\ wait' = Broadcast(r)
  /\ handler' = FreeHandler(r)
  /\ resp' = [resp EXCEPT ![r] = "done"]
  /\ busy' = BusyAfter(r)
  /\ UNCHANGED <<reqVars, tableVars, pending, net, from, calls, waitRet, cancelVars>>

-----------------------------------------------------------------------------
(* abus_request_method_wait_async()                                        *)

(* The application calls wait and cancel on a request it has invoked.      *)
Invoked(r) == inv[r] \in {"sent", "failed"}

(* The test of cb_context that is made before the mutex is taken.          *)
WaitAsync(r) ==
  /\ Alive
  /\ r \in WaitedReqs
  /\ Invoked(r)
  /\ wait[r] = "idle"
  /\ waitRet[r] # "ok"
  /\ op[r] # "cleanup"
  /\ \/ /\ pending[r]
        /\ wait' = [wait EXCEPT ![r] = "locking"]
        /\ UNCHANGED waitRet
     \/ /\ ~pending[r]
        /\ waitRet' = [waitRet EXCEPT ![r] = "ok"]
        /\ UNCHANGED wait
  /\ UNCHANGED <<reqVars, tableVars, cbVars, net, respVars, cancelVars, crash>>

(* With the mutex: test cb_context, then sleep (releasing the mutex) or    *)
(* return 0.                                                               *)
WaitTest(r) ==
  /\ Alive
  /\ wait[r] \in {"locking", "woken"}
  /\ ~Locked(r)
  /\ \/ /\ pending[r]
        /\ wait' = [wait EXCEPT ![r] = "waiting"]
        /\ UNCHANGED waitRet
     \/ /\ ~pending[r]
        /\ wait' = [wait EXCEPT ![r] = "idle"]
        /\ waitRet' = [waitRet EXCEPT ![r] = "ok"]
  /\ UNCHANGED <<reqVars, tableVars, cbVars, net, respVars, cancelVars, crash>>

(* pthread_cond_timedwait() ends: timeout, or spurious wakeup.             *)
WaitWake(r) ==
  /\ Alive
  /\ wait[r] = "waiting"
  /\ \E w \in {"timedout", "woken"} : wait' = [wait EXCEPT ![r] = w]
  /\ UNCHANGED <<reqVars, tableVars, cbVars, net, respVars, waitRet, cancelVars, crash>>

(* The loop ends on ETIMEDOUT whatever cb_context has become.              *)
WaitTimedOut(r) ==
  /\ Alive
  /\ wait[r] = "timedout"
  /\ ~Locked(r)
  /\ wait' = [wait EXCEPT ![r] = "idle"]
  /\ waitRet' = [waitRet EXCEPT ![r] = "timeout"]
  /\ UNCHANGED <<reqVars, tableVars, cbVars, net, respVars, cancelVars, crash>>

-----------------------------------------------------------------------------
(* abus_request_method_cancel_async() and abus_request_method_cleanup()    *)

(* Both start by reading cb_context without the mutex.                     *)
CancelAsync(r) ==
  /\ Alive
  /\ Invoked(r)
  /\ cancel[r] = "idle"
  /\ op[r] = "none"
  /\ cancel' = [cancel EXCEPT ![r] = "read"]
  /\ op' = [op EXCEPT ![r] = "cancel"]
  /\ seen' = [seen EXCEPT ![r] = pending[r]]
  /\ UNCHANGED <<reqVars, tableVars, cbVars, net, respVars, waitVars, cancelRet, crash>>

(* A request that was never invoked may always be cleaned up.              *)
MayCleanup(r) ==
  \/ Private(r)
  \/ "send" \in CleanupAfter /\ inv[r] = "failed"
  \/ "cancel" \in CleanupAfter /\ cancelRet[r] = "ok"
  \/ "wait" \in CleanupAfter /\ waitRet[r] = "ok"

Cleanup(r) ==
  /\ Alive
  /\ MayCleanup(r)
  /\ cancel[r] = "idle"
  /\ op[r] # "cleanup"
  /\ wait[r] = "idle"
  /\ cancel' = [cancel EXCEPT ![r] = "read"]
  /\ op' = [op EXCEPT ![r] = "cleanup"]
  /\ seen' = [seen EXCEPT ![r] = pending[r]]
  /\ UNCHANGED <<reqVars, tableVars, cbVars, net, respVars, waitVars, cancelRet, crash>>

(* cancel_async returns: cleanup ignores the result and goes on to free.   *)
CancelReturn(r, ret) ==
  \/ /\ op[r] = "cancel"
     /\ cancel' = [cancel EXCEPT ![r] = "idle"]
     /\ cancelRet' = [cancelRet EXCEPT ![r] = ret]
  \/ /\ op[r] = "cleanup"
     /\ cancel' = [cancel EXCEPT ![r] = "free"]
     /\ UNCHANGED cancelRet

(* resp_handler->flags is read through the pointer read earlier, and the   *)
(* handler may have been freed since.                                      *)
CancelCheck(r) ==
  /\ Alive
  /\ cancel[r] = "read"
  /\ \/ /\ id[r] = UndefId \/ (seen[r] /\ LateFlags(r))
        /\ CancelReturn(r, "enxio")
        /\ UNCHANGED crash
     \/ /\ id[r] # UndefId
        /\ cancel' = [cancel EXCEPT ![r] = "untrack"]
        /\ UNCHANGED <<cancelRet, crash>>
     \/ /\ id[r] # UndefId
        /\ seen[r] /\ LateFlags(r)
        /\ crash' = "flags"
        /\ UNCHANGED <<cancel, cancelRet>>
  /\ UNCHANGED <<reqVars, tableVars, cbVars, net, respVars, waitVars, op, seen>>

(* abus_req_untrack() by id, then json_rpc_found != json_rpc.              *)
CancelUntrack(r) ==
  /\ Alive
  /\ cancel[r] = "untrack"
  /\ tracked' = Untrack(id[r])
  /\ LET found == tracked[id[r]] IN
     /\ \/ /\ found = NoReq
           /\ UNCHANGED winner
        \/ /\ found # NoReq
           /\ winner' = [winner EXCEPT ![found] = IF found = r THEN "cancel" ELSE "other"]
     /\ \/ /\ found = r
           /\ cancel' = [cancel EXCEPT ![r] = "found"]
           /\ UNCHANGED cancelRet
        \/ found # r /\ CancelReturn(r, "enxio")
  /\ UNCHANGED <<reqVars, cbVars, net, respVars, waitVars, op, seen, crash>>

(* Under the mutex: free the handler, clear cb_context, wake the waiter.   *)
CancelRelease(r) ==
  /\ Alive
  /\ cancel[r] = "found"
  /\ ~Locked(r)
  /\ \/ /\ pending[r]
        /\ crash' = UseHandler(r)
        /\ handler' = FreeHandler(r)
        /\ pending' = [pending EXCEPT ![r] = FALSE]
        /\ wait' = Broadcast(r)
     \/ /\ ~pending[r]
        /\ UNCHANGED <<handler, pending, wait, crash>>
  /\ CancelReturn(r, "ok")
  /\ UNCHANGED <<reqVars, tableVars, net, respVars, waitRet, op, seen>>

(* json_rpc_cleanup(): destroy the mutex and free the request.             *)
FreeRequest(r) ==
  /\ Alive
  /\ cancel[r] = "free"
  /\ cancel' = [cancel EXCEPT ![r] = "dead"]
  /\ UNCHANGED <<reqVars, tableVars, cbVars, net, respVars, waitVars, op, seen, cancelRet, crash>>

-----------------------------------------------------------------------------

(* Nobody is inside a call and nothing is in flight: the system may stop.  *)
Quiescent ==
  /\ busy = NoReq
  /\ \A r \in Reqs :
       /\ inv[r] \in {"new", "init", "refused", "sent", "failed"}
       /\ net[r] \in {"none", "gone"}
       /\ resp[r] \in {"idle", "done", "lost"}
       /\ wait[r] = "idle"
       /\ cancel[r] \in {"idle", "dead"}

Terminating ==
  /\ crash # "none" \/ Quiescent
  /\ UNCHANGED vars

Responder(r) ==
  \/ ProcessResponse(r) \/ Dispatch(r) \/ RunCallback(r) \/ LockRequest(r)
  \/ MarkExecuted(r) \/ FinishResponse(r) \/ ReadBack(r)

WaitStep(r) == WaitTest(r) \/ WaitTimedOut(r)

CancelStep(r) ==
  CancelCheck(r) \/ CancelUntrack(r) \/ CancelRelease(r) \/ FreeRequest(r)

Step(r) ==
  \/ LoadId(r) \/ StoreId(r)
  \/ InvokeRefused(r) \/ InvokeAsync(r) \/ SendRequest(r)
  \/ Respond(r) \/ Lose(r)
  \/ Responder(r)
  \/ WaitAsync(r) \/ WaitStep(r) \/ WaitWake(r)
  \/ CancelAsync(r) \/ Cleanup(r) \/ CancelStep(r)

Next ==
  \/ \E r \in Reqs : Step(r)
  \/ Terminating

Spec == Init /\ [][Next]_vars

(* A thread inside a call, and the A-Bus thread, keep running.  Nothing is *)
(* assumed of the service, the socket, the clock or the application.       *)
FairSpec ==
  /\ Spec
  /\ \A r \in Reqs :
       /\ WF_vars(Responder(r))
       /\ WF_vars(WaitStep(r))
       /\ WF_vars(CancelStep(r))

-----------------------------------------------------------------------------
(* Properties                                                              *)

(* The response callback of a request runs at most once, whatever waits,   *)
(* cancels and cleanups race with the response.                            *)
CallbackAtMostOnce == \A r \in Reqs : calls[r] <= 1

(* Once abus_request_method_cancel_async() has returned 0 the callback has *)
(* not run and never will: neither the A-Bus thread nor a detached thread  *)
(* holds the request any more.                                             *)
CancelledNeverCalled ==
  \A r \in Reqs : cancelRet[r] = "ok" => calls[r] = 0 /\ resp[r] = "idle"

(* What becomes of memory that was freed.  A handler is never called or    *)
(* freed a second time.  A request is used after json_rpc_cleanup() only   *)
(* if the application cleaned it up when wait_async had returned 0, and    *)
(* only by the response side, on its way from the callback to the unlock.  *)
(* And flags are read from a freed handler only where a response has been  *)
(* carried to its end, by the A-Bus thread when another thread did it, or  *)
(* by a cancel that had looked before: never after a cancel freed it.      *)
LateUsesOnly ==
  /\ crash # "handler"
  /\ crash = "request" => \E r \in Reqs : Freed(r) /\ waitRet[r] = "ok" /\ calls[r] = 1
  /\ crash = "flags" =>
       \E r \in Reqs : resp[r] = "done" /\ (r \in ThreadedReqs \/ op[r] # "none")

(* No thread uses a request after json_rpc_cleanup().                      *)
RequestsInTime == crash # "request"

(* A cancel does not read the flags of a handler that was freed.           *)
CancelReadsInTime == crash = "flags" => \E r \in ThreadedReqs : resp[r] = "done"

(* Nor does the A-Bus thread when it comes back to                         *)
(* abus_process_incoming().                                                *)
BackReadsInTime == crash = "flags" => \E r \in Reqs : op[r] # "none"

(* wait_async returns 0 only when the callback has run or the request was  *)
(* cancelled, also when it is the test without the mutex that decides.     *)
WaitOkMeansResolved ==
  \A r \in Reqs :
    waitRet[r] = "ok" => calls[r] = 1 \/ winner[r] = "cancel"

(* The table never holds a request that is being freed: its key is part of *)
(* the request, and a late response would be given to freed memory.  So a  *)
(* cleanup takes the request out, whether it was never sent, or its        *)
(* response was lost, or another request with the same id is in its place. *)
TableHoldsLive ==
  \A i \in Ids :
    tracked[i] # NoReq => cancel[tracked[i]] \notin {"free", "dead"}

(* A request is answered by its own response.                              *)
OwnResponse == \A r \in Reqs : from[r] \in {r, NoReq}

(* cancel_async fails only when the response has claimed the request, also *)
(* when its answer depends on flags read from a handler already freed.     *)
CancelFailsOnlyIfAnswered ==
  \A r \in Reqs : cancelRet[r] = "enxio" => winner[r] = "response"

(* What the caller of the API sees of request r (AsyncOutcome).            *)
OutcomeOf(r) ==
  CASE calls[r] > 0 -> "called"
    [] calls[r] = 0 /\ winner[r] = "response" -> "claimed"
    [] calls[r] = 0 /\ winner[r] = "cancel" -> "cancelled"
    [] OTHER -> IF inv[r] \in {"tracked", "sent", "failed"} THEN "pending" ELSE "idle"

Outcome == INSTANCE AsyncOutcome WITH
  outcome  <- [r \in Reqs |-> OutcomeOf(r)],
  waited   <- {r \in Reqs : waitRet[r] = "ok"},
  released <- {r \in Reqs : Freed(r)}

(* The threads, the table and the mutexes together implement the promise   *)
(* of AsyncOutcome, step by step.                                          *)
ImplementsOutcome == Outcome!Spec

(* A waiter whose request was executed or cancelled returns, even if its   *)
(* timeout never expires, unless the process dies: no wakeup is lost       *)
(* between the test without the mutex, the test with it, and the sleep.    *)
NoLostWakeup ==
  \A r \in Reqs :
    (wait[r] # "idle" /\ Invoked(r) /\ ~pending[r]) ~> (wait[r] = "idle" \/ ~Alive)

(* A response that finds its request still in the table is carried to the  *)
(* end: the callback runs and the handler is released, unless the thread   *)
(* for an ABUS_RPC_THREADED response cannot be created, a cancel is first  *)
(* to take the request, or the process dies.                               *)
AnswerCompletes ==
  \A r \in Reqs :
    (net[r] = "response" /\ tracked[id[r]] = r)
      ~> \/ resp[r] \in {"done", "lost"} \/ winner[r] = "cancel"
         \/ net[r] = "gone" /\ resp[r] = "idle"
         \/ ~Alive

(* Nobody who asked is left waiting: waiters return, and a response that   *)
(* was received is carried to the end of its callback.                     *)
NobodyLeftWaiting == NoLostWakeup /\ AnswerCompletes

(* Doc of wait_async: "0 if successful or reponse already received": an    *)
(* error means that the response had not been received and executed when   *)
(* the call looked last.                                                   *)
TimeoutMeansNoResponse ==
  [][\A r \in Reqs : (wait[r] = "timedout" /\ wait'[r] = "idle") => resp[r] # "done"]_vars

(* assert(!json_val_is_undef(&json_rpc->id)) in invoke_async.              *)
IdDefined == crash # "assert"

(* Doc of invoke_async: the callback is a "function to be called upon      *)
(* response or timeout".                                                   *)
AlwaysCalledBack ==
  \A r \in Reqs :
    (inv[r] = "sent") ~> (calls[r] > 0 \/ op[r] # "none")

-----------------------------------------------------------------------------
(* The inductive invariants behind the safety properties                   *)

Published == {"tracked", "sent", "failed"}

(* The table holds published requests nobody has taken, under their id.    *)
TableInv ==
  \A i \in Ids :
    LET r == tracked[i] IN
    r # NoReq =>
      /\ id[r] = i /\ i # UndefId
      /\ inv[r] \in Published /\ winner[r] = "none"
      /\ cancel[r] \in {"idle", "read", "untrack"}

(* Who owns cb_context and the handler of request r: the table, then the   *)
(* response side or the canceller, and never two of them.                  *)
OwnerInv(r) ==
  /\ winner[r] # "none" => inv[r] \in Published
  /\ resp[r] # "idle" <=> winner[r] = "response"
  /\ calls[r] = IF resp[r] \in {"called", "locked", "marked", "done"} THEN 1 ELSE 0
  /\ (inv[r] \in Published /\ winner[r] \in {"none", "other"}) => pending[r] /\ handler[r] = "live"
  /\ resp[r] \in {"claimed", "dispatched", "called", "locked", "lost"}
       => pending[r] /\ handler[r] = "live"
  /\ resp[r] = "marked" => ~pending[r] /\ handler[r] = "live"
  /\ resp[r] = "done" => ~pending[r] /\ handler[r] = "freed"
  /\ cancel[r] = "found" => winner[r] = "cancel" /\ pending[r] /\ handler[r] = "live"
  /\ (winner[r] = "cancel" /\ cancel[r] # "found") => ~pending[r] /\ handler[r] = "freed"
  /\ cancelRet[r] = "ok" => winner[r] = "cancel"
  /\ waitRet[r] = "ok" => resp[r] \in {"marked", "done"} \/ winner[r] = "cancel"
  /\ wait[r] # "idle" => Invoked(r) /\ waitRet[r] # "ok"
  /\ pending[r] => inv[r] \in Published \/ crash = "assert"
  /\ (cancel[r] = "read" /\ seen[r]) => inv[r] \in Published /\ winner[r] # "cancel"
  /\ op[r] = "cleanup" => cancel[r] # "idle"
  /\ cancel[r] # "idle" => op[r] # "none"
  /\ busy = r => resp[r] # "idle"

OwnershipInv == TableInv /\ \A r \in Reqs : OwnerInv(r)

(* Where only requests that were cancelled, or waited for with success,    *)
(* are cleaned up, a request that is being freed has no other owner, or    *)
(* its response is at its end.                                             *)
ReleaseInv ==
  /\ LateUsesOnly
  /\ \A r \in Reqs :
       /\ op[r] = "cleanup" =>
            Private(r) \/ winner[r] = "cancel" \/ waitRet[r] = "ok"
       /\ cancel[r] \in {"free", "dead"} => op[r] = "cleanup"

(* With serialised creation and no wrap of the counter: ids are distinct,  *)
(* and a request is in the table from its publication until it is taken.   *)
IdInv ==
  /\ \A r, q \in Reqs : (r # q /\ inv[r] # "new" /\ inv[q] # "new") => id[r] # id[q]
  /\ \A r, q \in Reqs : (inv[r] = "loaded" /\ inv[q] = "loaded") => r = q
  /\ \A r \in Reqs : inv[r] = "loaded" => id[r] = nextId /\ nextId < IdLimit
  /\ \A r \in Reqs : Private(r) \/ inv[r] \in Published => id[r] < nextId

AnswerInv(r) ==
  /\ inv[r] \in Published => id[r] # UndefId
  /\ (inv[r] \in Published /\ winner[r] = "none") => tracked[id[r]] = r
  /\ winner[r] # "other"
  /\ net[r] # "none" => inv[r] = "sent"
  /\ from[r] \in {r, NoReq}
  /\ op[r] = "none" => winner[r] # "cancel" /\ cancel[r] = "idle"
  /\ op[r] = "cancel" => Invoked(r)
  /\ op[r] = "cleanup" => inv[r] \notin {"new", "loaded"}
  /\ (op[r] = "cancel" /\ cancel[r] \in {"read", "untrack"}) => winner[r] # "cancel"
  /\ cancelRet[r] = "enxio" => winner[r] = "response"

UniqueInv == IdInv /\ \A r \in Reqs : AnswerInv(r)

(* With distinct ids, requests that could not be sent may be cleaned up    *)
(* too: they are still in the table, and cleanup takes them out first.     *)
FailedClean(r) ==
  /\ op[r] = "cleanup" =>
       \/ Private(r) \/ winner[r] = "cancel" \/ waitRet[r] = "ok"
       \/ inv[r] = "failed" /\ winner[r] = "none" /\ cancel[r] \in {"read", "untrack"}
  /\ winner[r] = "response" => inv[r] = "sent"
  /\ cancel[r] \in {"free", "dead"} => op[r] = "cleanup"

FailedInv == LateUsesOnly /\ \A r \in Reqs : FailedClean(r)
=============================================================================
