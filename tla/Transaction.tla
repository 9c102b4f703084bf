---------------------------- MODULE Transaction ----------------------------
(***************************************************************************)
(* Synchronous calls between processes: un_sock_transaction() and the      *)
(* sends of abus/sock_un.c, with the A-Bus thread that serves them         *)
(* (abus/abus.c).                                                          *)
(*                                                                         *)
(* A process provides one service, served by its A-Bus thread from its     *)
(* socket.  A call is made by a thread of its own, or by a callback, on    *)
(* the A-Bus thread.  It has a socket that the kernel names ("autobind"),  *)
(* or, for a subscription, the socket of the process, from which the A-Bus *)
(* thread reads too.  Nothing checks that an answer belongs to the call.   *)
(***************************************************************************)
EXTENDS Naturals, Sequences, FiniteSets, SequencesExt

CONSTANTS
  Procs,      \* the processes
  Calls,      \* bound: the calls, each made at most once
  From, To,   \* the process that makes a call and the one that serves it
  Nested,     \* the calls made by callbacks
  Kept,       \* the calls on the socket of the process
  Unlimited,  \* the calls with a negative timeout, or an error of select() like it
  Names,      \* how many names the kernel has for sockets (2^20)
  NoAddress,  \* no name
  Depth,      \* the messages that wait at a socket (net.unix.max_dgram_qlen)
  MaxCrashes  \* bound: crashes of processes

ASSUME TransactionAssumption ==
  /\ From \in [Calls -> Procs] /\ To \in [Calls -> Procs]
  /\ Nested \subseteq Calls /\ Kept \subseteq Calls /\ Unlimited \subseteq Calls
  /\ Names \in Nat \ {0} /\ Procs \intersect (1..Names) = {}
  /\ NoAddress \notin Procs \union (1..Names)
  /\ Depth \in Nat \ {0} /\ MaxCrashes \in Nat

VARIABLES
  open,     \* open[e]: a socket with this name is open
  queue,    \* queue[e]: the messages that wait there
  thread,   \* thread[p]: the request that the A-Bus thread runs, or Listening
  pc,       \* progress of each call
  addr,     \* the name of its socket
  answer,   \* the message it took for its answer
  runs,     \* how many times its callback ran
  named,    \* how many names the kernel gave
  crashes   \* the number of crashes

sockets == <<open, queue, named>>
vars == <<sockets, thread, pc, addr, answer, runs, crashes>>

Addresses == 1..Names
Endpoints == Procs \union Addresses
Request(c, from) == [kind |-> "request", call |-> c, from |-> from]
Response(c) == [kind |-> "response", call |-> c, from |-> NoAddress]
Messages ==
  [kind : {"request"}, call : Calls, from : Endpoints]
    \union {Response(c) : c \in Calls}
Nothing == [kind |-> "nothing"]
Listening == Nothing
Ended == [kind |-> "ended"]

Pending == {"send", "select", "recv"}
Results == {"ok", "timeout", "refused", "failed", "gone"}
Calling(p) == {c \in Calls : From[c] = p /\ pc[c] \in Pending}

Init ==
  /\ open = [e \in Endpoints |-> e \in Procs]
  /\ queue = [e \in Endpoints |-> <<>>]
  /\ thread = [p \in Procs |-> Listening]
  /\ pc = [c \in Calls |-> "new"]
  /\ addr = [c \in Calls |-> NoAddress]
  /\ answer = [c \in Calls |-> Nothing]
  /\ runs = [c \in Calls |-> 0]
  /\ named = 0
  /\ crashes = 0

-----------------------------------------------------------------------------
(* The caller: un_sock_transaction() *)

\* A callback makes one call at a time.
MayCall(c) ==
  /\ pc[c] = "new" /\ open[From[c]]
  /\ c \in Nested => thread[From[c]].kind = "request" /\ Calling(From[c]) \intersect Nested = {}

\* Every socket is bound to the same name.  Mutant.
TransactionBind(c) ==
  /\ MayCall(c) /\ c \notin Kept /\ ~open[1]
  /\ addr' = [addr EXCEPT ![c] = 1]
  /\ open' = [open EXCEPT ![1] = TRUE]
  /\ named' = named + 1
  /\ pc' = [pc EXCEPT ![c] = "send"]
  /\ UNCHANGED <<queue, thread, answer, runs, crashes>>

\* The socket of the call: sockarg, or a new one, which the kernel names: the
\* next name, all over again after the last.
TransactionSocket(c) ==
  /\ MayCall(c)
  /\ IF c \in Kept
     THEN addr' = [addr EXCEPT ![c] = From[c]] /\ UNCHANGED <<open, named>>
     ELSE LET a == (named % Names) + 1
          IN  /\ ~open[a]
              /\ addr' = [addr EXCEPT ![c] = a]
              /\ open' = [open EXCEPT ![a] = TRUE]
              /\ named' = named + 1
  /\ pc' = [pc EXCEPT ![c] = "send"]
  /\ UNCHANGED <<queue, thread, answer, runs, crashes>>

\* What queues become when a call closes its socket, unless it is kept.
Closed(waiting, c) == [waiting EXCEPT ![addr[c]] = IF c \in Kept THEN @ ELSE <<>>]

TransactionReturn(c, result) ==
  /\ pc' = [pc EXCEPT ![c] = result]
  /\ open' = [open EXCEPT ![addr[c]] = c \in Kept]

Room(e) == Len(queue[e]) < Depth
Sent(e, m) == [queue EXCEPT ![e] = Append(@, m)]

\* The socket is not closed after an error.  Mutant.
sendto_left_open(c) ==
  /\ pc[c] = "send"
  /\ IF open[To[c]]
     THEN /\ Room(To[c])
          /\ queue' = Sent(To[c], Request(c, addr[c]))
          /\ pc' = [pc EXCEPT ![c] = "select"]
     ELSE pc' = [pc EXCEPT ![c] = "refused"] /\ UNCHANGED queue
  /\ UNCHANGED <<open, named, thread, addr, answer, runs, crashes>>

\* sendto() waits for room, however long, and fails if nobody is there.
un_sock_sendto_svc(c) ==
  /\ pc[c] = "send"
  /\ IF open[To[c]]
     THEN /\ Room(To[c])
          /\ queue' = Sent(To[c], Request(c, addr[c]))
          /\ pc' = [pc EXCEPT ![c] = "select"]
          /\ UNCHANGED open
     ELSE TransactionReturn(c, "refused") /\ queue' = Closed(queue, c)
  /\ UNCHANGED <<named, thread, addr, answer, runs, crashes>>

\* A message is there; or select() refuses a negative timeout, and its error,
\* which select_for_read() does not return as -1, is taken for a message.
select_for_read(c) ==
  /\ pc[c] = "select"
  /\ c \in Unlimited \/ queue[addr[c]] # <<>>
  /\ pc' = [pc EXCEPT ![c] = "recv"]
  /\ UNCHANGED <<sockets, thread, addr, answer, runs, crashes>>

\* The request is sent again.  Mutant.
TransactionRetry(c) ==
  /\ pc[c] = "select" /\ c \notin Unlimited /\ queue[addr[c]] = <<>>
  /\ pc' = [pc EXCEPT ![c] = "send"]
  /\ UNCHANGED <<sockets, thread, addr, answer, runs, crashes>>

\* -ETIMEDOUT: the request stays where it is.
TransactionTimeout(c) ==
  /\ pc[c] = "select" /\ c \notin Unlimited /\ queue[addr[c]] = <<>>
  /\ TransactionReturn(c, "timeout")
  /\ queue' = Closed(queue, c)
  /\ UNCHANGED <<named, thread, addr, answer, runs, crashes>>

\* recv() waits, however long, and any message is the answer.
TransactionRecv(c) ==
  LET waiting == queue[addr[c]]
  IN  /\ pc[c] = "recv" /\ waiting # <<>>
      /\ answer' = [answer EXCEPT ![c] = Head(waiting)]
      /\ TransactionReturn(c, "ok")
      /\ queue' = Closed([queue EXCEPT ![addr[c]] = Tail(waiting)], c)
      /\ UNCHANGED <<named, thread, addr, runs, crashes>>

\* The system may refuse a call what it asks for at any step.  There is no
\* socket yet ...
SocketFails(c) ==
  /\ MayCall(c) /\ c \notin Kept
  /\ pc' = [pc EXCEPT ![c] = "refused"]
  /\ UNCHANGED <<sockets, thread, addr, answer, runs, crashes>>

\* ... or it is closed, with what waits there.
FailsAt(c, step, result) ==
  /\ pc[c] = step
  /\ TransactionReturn(c, result)
  /\ queue' = Closed(queue, c)
  /\ UNCHANGED <<named, thread, addr, answer, runs, crashes>>

\* setsockopt() of the new socket, or sendto(), for whatever reason.
SendFails(c) == FailsAt(c, "send", "refused")
\* select_for_read() returns -1.
SelectFails(c) == FailsAt(c, "select", "failed")
\* recv(), also when a message is there.
RecvFails(c) == FailsAt(c, "recv", "failed")

-----------------------------------------------------------------------------
(* The A-Bus thread *)

\* A request runs its callback; a response that no asynchronous request waits
\* for is dropped.
abus_process_incoming(p) ==
  /\ thread[p] = Listening /\ queue[p] # <<>>
  /\ LET m == Head(queue[p])
     IN  IF m.kind = "request"
         THEN /\ thread' = [thread EXCEPT ![p] = m]
              /\ runs' = [runs EXCEPT ![m.call] = @ + 1]
         ELSE UNCHANGED <<thread, runs>>
  /\ queue' = [queue EXCEPT ![p] = Tail(@)]
  /\ UNCHANGED <<open, named, pc, addr, answer, crashes>>

CallbackDone(p) == thread[p].kind = "request" /\ Calling(p) \intersect Nested = {}

\* The thread ends when a response cannot be sent.  Mutant.
abus_resp_or_end(p) ==
  LET m == thread[p]
  IN  /\ CallbackDone(p)
      /\ IF open[m.from] /\ Room(m.from)
         THEN queue' = Sent(m.from, Response(m.call)) /\ thread' = [thread EXCEPT ![p] = Listening]
         ELSE thread' = [thread EXCEPT ![p] = Ended] /\ UNCHANGED queue
      /\ UNCHANGED <<open, named, pc, addr, answer, runs, crashes>>

\* The callback returns and the response is sent, or lost if the caller is
\* gone or has no room (MSG_DONTWAIT).
abus_resp_send(p) ==
  LET m == thread[p]
  IN  /\ CallbackDone(p)
      /\ queue' = IF open[m.from] /\ Room(m.from) THEN Sent(m.from, Response(m.call)) ELSE queue
      /\ thread' = [thread EXCEPT ![p] = Listening]
      /\ UNCHANGED <<open, named, pc, addr, answer, runs, crashes>>

-----------------------------------------------------------------------------
(* Processes *)

\* A process dies, with its calls, its sockets and what waits there.
Crash(p) ==
  LET dead == Calling(p)
      gone == {p} \union {addr[c] : c \in dead}
  IN  /\ open[p] /\ crashes < MaxCrashes
      /\ open' = [e \in Endpoints |-> open[e] /\ e \notin gone]
      /\ queue' = [e \in Endpoints |-> IF e \in gone THEN <<>> ELSE queue[e]]
      /\ thread' = [thread EXCEPT ![p] = Listening]
      /\ pc' = [c \in Calls |-> IF c \in dead THEN "gone" ELSE pc[c]]
      /\ crashes' = crashes + 1
      /\ UNCHANGED <<named, addr, answer, runs>>

\* It starts again and declares its service.
Restart(p) ==
  /\ ~open[p]
  /\ open' = [open EXCEPT ![p] = TRUE]
  /\ UNCHANGED <<queue, named, thread, pc, addr, answer, runs, crashes>>

-----------------------------------------------------------------------------

CallStep(c) ==
  \/ un_sock_sendto_svc(c) \/ select_for_read(c)
  \/ TransactionTimeout(c) \/ TransactionRecv(c)
CallFails(c) == SocketFails(c) \/ SendFails(c) \/ SelectFails(c) \/ RecvFails(c)
Serve(p) == abus_process_incoming(p) \/ abus_resp_send(p)

Next ==
  \/ \E c \in Calls : TransactionSocket(c) \/ CallStep(c) \/ CallFails(c)
  \/ \E p \in Procs : Serve(p) \/ Crash(p) \/ Restart(p)

Spec == Init /\ [][Next]_vars

\* Threads that can run do, timers expire and callbacks return.
FairSpec ==
  /\ Spec
  /\ \A c \in Calls : WF_vars(CallStep(c))
  /\ \A p \in Procs : WF_vars(Serve(p))

-----------------------------------------------------------------------------
(* Properties *)

\* Variables have their types.
TypeOK ==
  /\ open \in [Endpoints -> BOOLEAN]
  /\ DOMAIN queue = Endpoints
  /\ \A e \in Endpoints : Range(queue[e]) \subseteq Messages
  /\ \A p \in Procs : thread[p] \in Messages \union {Listening}
  /\ pc \in [Calls -> Pending \union Results \union {"new"}]
  /\ addr \in [Calls -> Endpoints \union {NoAddress}]
  /\ \A c \in Calls : answer[c] \in Messages \union {Nothing}
  /\ runs \in [Calls -> Nat]
  /\ named \in Nat /\ crashes \in 0..MaxCrashes

\* A call that succeeds has the answer of its own callback, whatever late
\* answers of calls that timed out before are on their way, although nothing
\* compares ids (un_sock_transaction(), json_rpc_parse_msg()).
OwnAnswer == \A c \in Calls : pc[c] = "ok" => answer[c] = Response(c)

\* No call leaves its socket open, at whichever of its returns it ended
\* (un_sock_transaction()).
NoSocketLeft ==
  \A a \in Addresses : open[a] => \E c \in Calls : addr[c] = a /\ pc[c] \in Pending

\* No return closes the socket of a call that is still under way: its own, or
\* that of its process.
NoneClosedInUse == \A c \in Calls : pc[c] \in Pending => open[addr[c]]

\* What waited at a socket that was closed is gone: nothing is found by the
\* next socket of that name.
ClosedIsEmpty == \A e \in Endpoints : ~open[e] => queue[e] = <<>>

\* Sockets live exactly as long as the calls and processes that they serve.
SocketsSound == TypeOK /\ NoSocketLeft /\ NoneClosedInUse /\ ClosedIsEmpty

\* Synchronous calls keep the promise of RemoteCall.
Status(c) == IF pc[c] \in Pending THEN "called" ELSE pc[c]
Promise == INSTANCE RemoteCall WITH status <- [c \in Calls |-> Status(c)]
ImplementsRemoteCall == Promise!Spec

\* A call with a timeout returns, though it waits for room to send without
\* one, the service may crash, and services call each other
\* (un_sock_transaction()).
CallEnds == \A c \in Calls \ Unlimited : pc[c] \in Pending ~> pc[c] \notin Pending

\* A request that waits at a service is taken, or lost with its process: the
\* A-Bus thread goes on after responses it could not send and after callbacks
\* that made calls (abus_process_incoming()).
Waits(c) == \E i \in DOMAIN queue[To[c]] :
  queue[To[c]][i].kind = "request" /\ queue[To[c]][i].call = c
RequestsServed == \A c \in Calls : Waits(c) ~> ~Waits(c)

\* Neither callers nor services are stuck for ever.
NobodyStuck == CallEnds /\ RequestsServed

\* Every call returns.  Violated: with a negative timeout, the default of the
\* C++ interface, a call waits for ever for a service that crashed.
EveryCallEnds == \A c \in Calls : pc[c] \in Pending ~> pc[c] \notin Pending

\* Services never wait for room at each other's sockets, which only they could
\* make.  Violated where both have requests waiting: sendto() has no timeout.
Blocked(c) == c \in Nested /\ pc[c] = "send" /\ open[To[c]] /\ ~Room(To[c])
NoCircularWait ==
  ~\E c, d \in Calls : Blocked(c) /\ Blocked(d) /\ To[c] = From[d] /\ To[d] = From[c]

-----------------------------------------------------------------------------
(* The inductive invariants behind the safety properties *)

\* The types that steps rely on.
TypeInv ==
  /\ open \in [Endpoints -> BOOLEAN]
  /\ queue \in [Endpoints -> Seq(Messages)]
  /\ thread \in [Procs -> Messages \union {Listening}]
  /\ pc \in [Calls -> Pending \union Results \union {"new"}]
  /\ addr \in [Calls -> Endpoints \union {NoAddress}]
  /\ answer \in [Calls -> Messages \union {Nothing}]
  /\ runs \in [Calls -> Nat]
  /\ named \in Nat /\ crashes \in 0..MaxCrashes

\* A call under way has a socket, which is open, and one that no other call
\* under way has, unless it is the socket of the process.
SocketOf(c) == IF c \in Kept THEN {From[c]} ELSE Addresses
OwnSocket ==
  \A c, d \in Calls \ Kept : /\ pc[c] \in Pending /\ pc[d] \in Pending
                            /\ addr[c] = addr[d]
                            => c = d
SocketInv ==
  /\ TypeInv
  /\ \A c \in Calls : addr[c] # NoAddress => addr[c] \in SocketOf(c)
  /\ \A c \in Calls : pc[c] = "new" => addr[c] = NoAddress
  /\ \A c \in Calls : pc[c] \in Pending => addr[c] # NoAddress
  /\ OwnSocket
  /\ NoSocketLeft /\ NoneClosedInUse /\ ClosedIsEmpty

\* The names that the kernel gave are those of the calls that have a socket.
Begun == {c \in Calls : addr[c] # NoAddress}
NameInv ==
  /\ named = Cardinality(Begun)
  /\ \A c \in Begun : addr[c] \in 1..named
  /\ \A c, d \in Begun : addr[c] = addr[d] => c = d

\* A request waits once, at the service it was sent to, before its callback
\* ran; responses wait at the socket of their call, after it.
Undelivered(c) == pc[c] \in {"new", "send", "refused"}
WaitingRequest(p, i) ==
  LET m == queue[p][i]
  IN  /\ m.kind = "request" /\ p = To[m.call] /\ m.from = addr[m.call]
      /\ runs[m.call] = 0 /\ ~Undelivered(m.call)
      /\ \A j \in DOMAIN queue[p] : queue[p][j].call = m.call => j = i
WaitingResponse(a, i) ==
  LET m == queue[a][i]
  IN  m = Response(m.call) /\ a = addr[m.call] /\ runs[m.call] = 1
RunningRequest(p) ==
  LET m == thread[p]
  IN  m.kind = "request" => m.from = addr[m.call] /\ runs[m.call] = 1
QueueInv ==
  /\ \A p \in Procs : \A i \in DOMAIN queue[p] : WaitingRequest(p, i)
  /\ \A a \in Addresses : \A i \in DOMAIN queue[a] : WaitingResponse(a, i)
  /\ \A p \in Procs : RunningRequest(p)

\* What callers may conclude from how their calls ended.
OutcomeInv ==
  \A c \in Calls :
    /\ runs[c] \in {0, 1}
    /\ Undelivered(c) => runs[c] = 0
    /\ pc[c] = "ok" => runs[c] = 1 /\ answer[c] = Response(c)

AnswerInv == NameInv /\ QueueInv /\ OutcomeInv
=============================================================================
