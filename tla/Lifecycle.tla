------------------------------ MODULE Lifecycle ------------------------------
(***************************************************************************)
(* The processes of the bus and their names in the directory of A-Bus      *)
(* (abus/abus.c, abus/sock_un.c): abus_init(), the socket and the A-Bus    *)
(* thread made on first use, the path of a service, abus_set_conf(),       *)
(* abus_cleanup(), and processes that die.                                 *)
(*                                                                         *)
(* The directory has the socket "_<pid>" of each process and a symbolic    *)
(* link to it for each service.  A pid has one handle, used by several     *)
(* threads of its process, which run the same function on shared fields    *)
(* without a lock where the code does.  Between two starts of a pid, what  *)
(* its process left in the directory stays there.                          *)
(*                                                                         *)
(* Allowed names what applications may do beyond what libabus can stand:   *)
(*   "race"   several threads make the first use of a handle at once       *)
(*   "share"  a service is provided by several processes at once           *)
(*   "reuse"  a pid comes back that a dead process left in the directory   *)
(*   "fall"   poll operation is switched off again                         *)
(*   "poll"   abus_cleanup() is called in poll operation                   *)
(*   "cancel" callbacks of exclusive methods reach a cancellation point    *)
(***************************************************************************)
EXTENDS Naturals, FiniteSets

CONSTANTS
  Pids,      \* the process ids
  NoPid,     \* a link that does not exist
  Services,  \* the names of services
  NoService, \* no service
  Threads,   \* the threads of applications
  Owner,     \* the pid of the process of each thread
  Provides,  \* the services that each process may declare
  Allowed,   \* see above
  MaxStarts  \* bound: starts of processes

ASSUME LifecycleAssumption ==
  /\ NoPid \notin Pids /\ NoService \notin Services
  /\ Owner \in [Threads -> Pids]
  /\ Provides \in [Pids -> SUBSET Services]
  /\ Allowed \subseteq {"race", "share", "reuse", "fall", "poll", "cancel"}
  /\ MaxStarts \in Nat

VARIABLES
  node,    \* node[p]: the file "_<pid>" exists
  link,    \* link[s]: the process that the path of a service leads to
  life,    \* "dead", "up", or how far abus_cleanup() is
  starts,  \* the number of starts
  sock,    \* abus->sock: "-1", "fd" or "error", a negative errno
  open,    \* the process has an open socket bound to "_<pid>"
  poll,    \* abus->conf.poll_operation
  table,   \* abus->service_htab
  mutex,   \* abus->mutex is held
  srv,     \* srv[p][k]: progress of the k-th A-Bus thread of a process
  handle,  \* abus->srv_thread: the last one, 0 if none, Joined
  cancel,  \* pthread_cancel() was called
  orphan,  \* the mutex of an exclusive method was lost with its thread
  pc,      \* progress of each thread of the application
  arg,     \* the service it declares
  got,     \* what un_sock_create() returned to it
  refused, \* the system refused the handle a socket or a thread
  fault    \* a thread was cancelled that is not there

files == <<node, link>>
abus == <<sock, open, poll, table, handle, cancel>>
locals == <<pc, arg, got>>
errs == <<refused, fault>>
vars == <<files, life, starts, abus, mutex, srv, orphan, locals, errs>>

Slots == {1, 2}
Joined == 3
ThreadsOf(p) == {t \in Threads : Owner[t] = p}
Idle(p) == \A t \in ThreadsOf(p) : pc[t] = "idle"

Init ==
  /\ node = [p \in Pids |-> FALSE]
  /\ link = [s \in Services |-> NoPid]
  /\ life = [p \in Pids |-> "dead"]
  /\ starts = 0
  /\ sock = [p \in Pids |-> "-1"]
  /\ open = [p \in Pids |-> FALSE]
  /\ poll = [p \in Pids |-> FALSE]
  /\ table = [p \in Pids |-> {}]
  /\ mutex = [p \in Pids |-> FALSE]
  /\ srv = [p \in Pids |-> [k \in Slots |-> "none"]]
  /\ handle = [p \in Pids |-> 0]
  /\ cancel = [p \in Pids |-> FALSE]
  /\ orphan = [p \in Pids |-> FALSE]
  /\ pc = [t \in Threads |-> "idle"]
  /\ arg = [t \in Threads |-> NoService]
  /\ got = [t \in Threads |-> "-1"]
  /\ refused = [p \in Pids |-> FALSE]
  /\ fault = [p \in Pids |-> FALSE]

-----------------------------------------------------------------------------
(* Processes *)

\* What is left of a process that is gone: nothing but its files.
Gone(p) ==
  /\ life' = [life EXCEPT ![p] = "dead"]
  /\ sock' = [sock EXCEPT ![p] = "-1"]
  /\ open' = [open EXCEPT ![p] = FALSE]
  /\ poll' = [poll EXCEPT ![p] = FALSE]
  /\ table' = [table EXCEPT ![p] = {}]
  /\ mutex' = [mutex EXCEPT ![p] = FALSE]
  /\ srv' = [srv EXCEPT ![p] = [k \in Slots |-> "none"]]
  /\ handle' = [handle EXCEPT ![p] = 0]
  /\ cancel' = [cancel EXCEPT ![p] = FALSE]
  /\ orphan' = [orphan EXCEPT ![p] = FALSE]
  /\ refused' = [refused EXCEPT ![p] = FALSE]
  /\ fault' = [fault EXCEPT ![p] = FALSE]
  /\ pc' = [t \in Threads |-> IF Owner[t] = p THEN "idle" ELSE pc[t]]
  /\ arg' = [t \in Threads |-> IF Owner[t] = p THEN NoService ELSE arg[t]]
  /\ got' = [t \in Threads |-> IF Owner[t] = p THEN "-1" ELSE got[t]]

LeftOver(p) == node[p] \/ \E s \in Services : link[s] = p

\* A process begins and calls abus_init().
abus_init(p, polls) ==
  /\ life[p] = "dead" /\ starts < MaxStarts
  /\ LeftOver(p) => "reuse" \in Allowed
  /\ life' = [life EXCEPT ![p] = "up"]
  /\ starts' = starts + 1
  /\ poll' = [poll EXCEPT ![p] = polls]
  /\ UNCHANGED <<files, sock, open, table, handle, cancel, mutex, srv, orphan, locals, errs>>

Die(p) ==
  /\ life[p] # "dead"
  /\ Gone(p)
  /\ UNCHANGED <<files, starts>>

-----------------------------------------------------------------------------
(* First use of a handle *)

Goto(t, label) == pc' = [pc EXCEPT ![t] = label]
Ready(t, label) == life[Owner[t]] = "up" /\ pc[t] = label

\* A function returns; one that declares a service holds abus->mutex.
Return(t) ==
  /\ Goto(t, "idle")
  /\ arg' = [arg EXCEPT ![t] = NoService]
  /\ mutex' = IF arg[t] # NoService THEN [mutex EXCEPT ![Owner[t]] = FALSE] ELSE mutex

Launched(t) ==
  IF arg[t] = NoService THEN Return(t) ELSE Goto(t, "unlink") /\ UNCHANGED <<arg, mutex>>

Provided(s, p) ==
  \E q \in Pids \ {p} : s \in table[q] \/ \E t \in ThreadsOf(q) : arg[t] = s

\* service_lookup() for a service that is not in the table, under abus->mutex.
DeclService(t, s) ==
  LET p == Owner[t]
  IN  /\ Ready(t, "idle") /\ ~mutex[p]
      /\ s \in Provides[p] \ table[p]
      /\ Provided(s, p) => "share" \in Allowed
      /\ Idle(p) \/ "race" \in Allowed
      /\ mutex' = [mutex EXCEPT ![p] = TRUE]
      /\ arg' = [arg EXCEPT ![t] = s]
      /\ Goto(t, "launch")
      /\ UNCHANGED <<files, life, starts, abus, srv, orphan, got, errs>>

\* An asynchronous request, an event or a subscription needs the socket too,
\* without abus->mutex.
UseSocket(t) ==
  LET p == Owner[t]
  IN  /\ Ready(t, "idle")
      /\ sock[p] = "-1"
      /\ Idle(p) \/ "race" \in Allowed
      /\ Goto(t, "launch")
      /\ UNCHANGED <<files, life, starts, abus, mutex, srv, orphan, arg, got, errs>>

\* A socket is created by every use.  Mutant.
LaunchAlways(t) ==
  /\ Ready(t, "launch")
  /\ Goto(t, "bind")
  /\ UNCHANGED <<files, life, starts, abus, mutex, srv, orphan, arg, got, errs>>

\* abus_launch_thread_ondemand(): launched already?
LaunchTest(t) ==
  /\ Ready(t, "launch")
  /\ IF sock[Owner[t]] # "-1" THEN Launched(t)
     ELSE Goto(t, "bind") /\ UNCHANGED <<arg, mutex>>
  /\ UNCHANGED <<files, life, starts, abus, srv, orphan, got, errs>>

\* un_sock_create(): bind() fails if "_<pid>" is there.
un_sock_create(t) ==
  LET p == Owner[t]
  IN  /\ Ready(t, "bind")
      /\ got' = [got EXCEPT ![t] = IF node[p] THEN "error" ELSE "fd"]
      /\ open' = [open EXCEPT ![p] = @ \/ ~node[p]]
      /\ node' = [node EXCEPT ![p] = TRUE]
      /\ Goto(t, "assign")
      /\ UNCHANGED <<link, life, starts, sock, poll, table, handle, cancel, mutex, srv, orphan, arg, errs>>

\* The system refuses socket(), setsockopt() or bind(); what is open is closed.
SocketRefused(t) ==
  /\ Ready(t, "bind")
  /\ got' = [got EXCEPT ![t] = "error"]
  /\ refused' = [refused EXCEPT ![Owner[t]] = TRUE]
  /\ Goto(t, "assign")
  /\ UNCHANGED <<files, life, starts, abus, mutex, srv, orphan, arg, fault>>

LaunchAssign(t) ==
  /\ Ready(t, "assign")
  /\ sock' = [sock EXCEPT ![Owner[t]] = got[t]]
  /\ Goto(t, "created")
  /\ UNCHANGED <<files, life, starts, open, poll, table, handle, cancel, mutex, srv, orphan, arg, got, errs>>

\* The error is kept in abus->sock.
LaunchCreated(t) ==
  LET p == Owner[t]
  IN  /\ Ready(t, "created")
      /\ IF sock[p] = "error" THEN Return(t)
         ELSE IF poll[p] THEN Launched(t)
         ELSE Goto(t, "spawn") /\ UNCHANGED <<arg, mutex>>
      /\ UNCHANGED <<files, life, starts, abus, srv, orphan, got, errs>>

LaunchThread(t) ==
  LET p == Owner[t]
      k == IF srv[p][1] = "none" THEN 1 ELSE 2
  IN  /\ Ready(t, "spawn")
      /\ srv' = [srv EXCEPT ![p][k] = "loop"]
      /\ handle' = [handle EXCEPT ![p] = k]
      /\ Launched(t)
      /\ UNCHANGED <<files, life, starts, sock, open, poll, table, cancel, orphan, got, errs>>

\* pthread_create() fails; the socket stays in abus->sock.
ThreadRefused(t) ==
  /\ Ready(t, "spawn")
  /\ refused' = [refused EXCEPT ![Owner[t]] = TRUE]
  /\ Return(t)
  /\ UNCHANGED <<files, life, starts, abus, srv, orphan, got, fault>>

-----------------------------------------------------------------------------
(* The path of a service *)

\* create_service_path(): the path is removed, whoever it leads to...
create_unlink(t) ==
  /\ Ready(t, "unlink")
  /\ link' = [link EXCEPT ![arg[t]] = NoPid]
  /\ Goto(t, "symlink")
  /\ UNCHANGED <<node, life, starts, abus, mutex, srv, orphan, arg, got, errs>>

\* ...and made again; EEXIST ends the declaration.  Else the service is new.
create_symlink(t) ==
  LET p == Owner[t]
      s == arg[t]
  IN  /\ Ready(t, "symlink")
      /\ IF link[s] = NoPid
         THEN /\ link' = [link EXCEPT ![s] = p]
              /\ table' = [table EXCEPT ![p] = @ \union {s}]
         ELSE UNCHANGED <<link, table>>
      /\ Return(t)
      /\ UNCHANGED <<node, life, starts, sock, open, poll, handle, cancel, srv, orphan, got, errs>>

-----------------------------------------------------------------------------
(* The A-Bus thread *)

\* One turn of the loop of abus_thread_routine().
SrvLoop(p, k) ==
  /\ srv[p][k] = "loop"
  /\ srv' = [srv EXCEPT ![p][k] = IF poll[p] \/ sock[p] # "fd" THEN "ended" ELSE "recv"]
  /\ UNCHANGED <<files, life, starts, abus, mutex, orphan, locals, errs>>

\* A message comes and its callback begins.  recvfrom() looks for a pending
\* cancellation first.
SrvReceive(p, k) ==
  /\ srv[p][k] = "recv" /\ node[p] /\ open[p]
  /\ ~(cancel[p] /\ handle[p] = k)
  /\ srv' = [srv EXCEPT ![p][k] = "callback"]
  /\ UNCHANGED <<files, life, starts, abus, mutex, orphan, locals, errs>>

\* A callback of an exclusive method whose mutex was lost never ends.
SrvDone(p, k) ==
  /\ srv[p][k] = "callback" /\ ~orphan[p]
  /\ srv' = [srv EXCEPT ![p][k] = "loop"]
  /\ UNCHANGED <<files, life, starts, abus, mutex, orphan, locals, errs>>

\* The thread ends where it may be cancelled.
SrvCancelled(p, k) ==
  /\ cancel[p] /\ handle[p] = k
  /\ srv[p][k] = "recv" \/ (srv[p][k] = "callback" /\ "cancel" \in Allowed)
  /\ orphan' = [orphan EXCEPT ![p] = @ \/ srv[p][k] = "callback"]
  /\ srv' = [srv EXCEPT ![p][k] = "ended"]
  /\ UNCHANGED <<files, life, starts, abus, mutex, locals, errs>>

\* The thread is only expected to see that it is no longer wanted.  Mutant.
ThreadAsk(p) == fault' = fault /\ cancel' = cancel

\* abus_thread_stop(): pthread_cancel()...
ThreadCancel(p) ==
  /\ cancel' = [cancel EXCEPT ![p] = TRUE]
  /\ fault' = [fault EXCEPT ![p] = @ \/ handle[p] \notin Slots]

\* ...and pthread_join().
ThreadJoin(p) ==
  /\ handle[p] \in Slots /\ srv[p][handle[p]] = "ended"
  /\ handle' = [handle EXCEPT ![p] = Joined]
  /\ cancel' = [cancel EXCEPT ![p] = FALSE]

-----------------------------------------------------------------------------
(* abus_set_conf() *)

SetConf(t, polls) ==
  LET p == Owner[t]
      stop == ~poll[p] /\ polls /\ sock[p] # "-1"
  IN  /\ Ready(t, "idle") /\ ~mutex[p] /\ ~fault[p]
      /\ poll[p] # polls
      /\ ~polls => "fall" \in Allowed
      /\ Idle(p) \/ "race" \in Allowed
      /\ poll' = [poll EXCEPT ![p] = polls]
      /\ IF stop THEN ThreadCancel(p) /\ Goto(t, "join")
         ELSE UNCHANGED <<cancel, fault, pc>>
      /\ UNCHANGED <<files, life, starts, sock, open, table, handle, mutex, srv, orphan, arg, got, refused>>

SetConfJoin(t) ==
  /\ Ready(t, "join")
  /\ ThreadJoin(Owner[t])
  /\ Goto(t, "idle")
  /\ UNCHANGED <<files, life, starts, sock, open, poll, table, mutex, srv, orphan, arg, got, errs>>

-----------------------------------------------------------------------------
(* abus_cleanup(), called when no thread uses the handle *)

\* The tables are freed without stopping the thread.  Mutant.
abus_cleanup_at_once(p) ==
  /\ life[p] = "up" /\ Idle(p) /\ ~fault[p]
  /\ poll[p] => "poll" \in Allowed
  /\ life' = [life EXCEPT ![p] = "remove"]
  /\ UNCHANGED <<files, starts, abus, mutex, srv, orphan, locals, errs>>

abus_cleanup(p) ==
  /\ life[p] = "up" /\ Idle(p) /\ ~fault[p]
  /\ poll[p] => "poll" \in Allowed
  /\ IF sock[p] = "-1"
     THEN life' = [life EXCEPT ![p] = "remove"] /\ UNCHANGED <<cancel, fault>>
     ELSE life' = [life EXCEPT ![p] = "stop"] /\ ThreadCancel(p)
  /\ UNCHANGED <<files, starts, sock, open, poll, table, handle, mutex, srv, orphan, locals, refused>>

\* The thread is joined, the socket closed and its file removed.
un_sock_close(p) ==
  /\ life[p] = "stop"
  /\ ThreadJoin(p)
  /\ life' = [life EXCEPT ![p] = "remove"]
  /\ sock' = [sock EXCEPT ![p] = "-1"]
  /\ open' = [open EXCEPT ![p] = FALSE]
  /\ node' = [node EXCEPT ![p] = FALSE]
  /\ UNCHANGED <<link, starts, poll, table, mutex, srv, orphan, locals, errs>>

\* The path of a service is removed, whoever it leads to.
remove_service_path(p, s) ==
  /\ life[p] = "remove" /\ s \in table[p]
  /\ link' = [link EXCEPT ![s] = NoPid]
  /\ table' = [table EXCEPT ![p] = @ \ {s}]
  /\ UNCHANGED <<node, life, starts, sock, open, poll, handle, cancel, mutex, srv, orphan, locals, errs>>

CleanupEnd(p) ==
  /\ life[p] = "remove" /\ table[p] = {}
  /\ Gone(p)
  /\ UNCHANGED <<files, starts>>

-----------------------------------------------------------------------------

App(t) ==
  \/ LaunchTest(t) \/ un_sock_create(t) \/ SocketRefused(t) \/ LaunchAssign(t)
  \/ LaunchCreated(t) \/ LaunchThread(t) \/ ThreadRefused(t)
  \/ create_unlink(t) \/ create_symlink(t) \/ SetConfJoin(t)
Srv(p) == \E k \in Slots : SrvLoop(p, k) \/ SrvDone(p, k) \/ SrvCancelled(p, k)
Cleanup(p) == un_sock_close(p) \/ CleanupEnd(p) \/ \E s \in Services : remove_service_path(p, s)

Next ==
  \/ \E t \in Threads :
       \/ App(t) \/ UseSocket(t)
       \/ \E s \in Services : DeclService(t, s)
       \/ \E polls \in BOOLEAN : SetConf(t, polls)
  \/ \E p \in Pids :
       \/ Srv(p) \/ Cleanup(p) \/ Die(p) \/ abus_cleanup(p)
       \/ \E k \in Slots : SrvReceive(p, k)
       \/ \E polls \in BOOLEAN : abus_init(p, polls)

Spec == Init /\ [][Next]_vars

\* A thread that can run does, and callbacks return.
FairSpec ==
  /\ Spec
  /\ \A t \in Threads : WF_vars(App(t))
  /\ \A p \in Pids : WF_vars(Cleanup(p)) /\ \A k \in Slots :
       /\ WF_vars(SrvLoop(p, k)) /\ WF_vars(SrvDone(p, k)) /\ WF_vars(SrvCancelled(p, k))

-----------------------------------------------------------------------------
(* Properties *)

Runs(p, k) == srv[p][k] \in {"loop", "recv", "callback"}

\* Fields have their types, and abus->mutex is held exactly while a service
\* is being declared.
TypeOK ==
  /\ node \in [Pids -> BOOLEAN] /\ link \in [Services -> Pids \union {NoPid}]
  /\ life \in [Pids -> {"dead", "up", "stop", "remove"}] /\ starts \in 0..MaxStarts
  /\ sock \in [Pids -> {"-1", "fd", "error"}] /\ open \in [Pids -> BOOLEAN]
  /\ poll \in [Pids -> BOOLEAN] /\ table \in [Pids -> SUBSET Services]
  /\ srv \in [Pids -> [Slots -> {"none", "loop", "recv", "callback", "ended"}]]
  /\ handle \in [Pids -> {0, Joined} \union Slots]
  /\ cancel \in [Pids -> BOOLEAN] /\ orphan \in [Pids -> BOOLEAN]
  /\ pc \in [Threads -> {"idle", "launch", "bind", "assign", "created", "spawn",
                         "unlink", "symlink", "join"}]
  /\ arg \in [Threads -> Services \union {NoService}]
  /\ got \in [Threads -> {"-1", "fd", "error"}]
  /\ refused \in [Pids -> BOOLEAN] /\ fault \in [Pids -> BOOLEAN]
  /\ \A p \in Pids : mutex[p] = (\E t \in ThreadsOf(p) : arg[t] # NoService)

\* The path of a service that a process declared leads to that process,
\* whatever processes died before, were in the middle of a declaration or were
\* cleaned up (create_service_path(), remove_service_path()).  There is a
\* socket and somebody reads from it, unless the system refused the handle its
\* socket or its thread (abus_launch_thread_ondemand()).
DeclaredReachable ==
  \A p \in Pids : \A s \in table[p] : life[p] = "up" =>
    /\ link[s] = p
    /\ \/ refused[p]
       \/ /\ node[p] /\ open[p] /\ sock[p] = "fd"
          /\ poll[p] \/ \E k \in Slots : Runs(p, k)

\* A handle never has two A-Bus threads, and none once abus_cleanup() begins
\* to free the tables.
OneReader ==
  \A p \in Pids :
    /\ Cardinality({k \in Slots : Runs(p, k)}) <= 1
    /\ life[p] = "remove" => \A k \in Slots : ~Runs(p, k)

\* What abus_cleanup() leaves behind when it ends: no socket, and no path
\* that leads to it.
NothingLeft ==
  \A p \in Pids : life[p] = "remove" /\ table[p] = {} =>
    ~LeftOver(p)

\* abus_thread_stop() cancels a thread that was made and was not joined
\* before, unless the system refused the handle its socket or its thread.
NoFault == \A p \in Pids : fault[p] => refused[p]

\* Handles are started and stopped cleanly, whatever dies meanwhile.
CleanStop == TypeOK /\ OneReader /\ NothingLeft /\ NoFault

\* Every call returns: a declaration, abus_set_conf() and abus_cleanup(),
\* which wait for the A-Bus thread to end.  Only a call that would stop a
\* thread that is not there (fault) may do anything.
CallsReturn ==
  /\ \A t \in Threads : pc[t] # "idle" ~> pc[t] = "idle" \/ fault[Owner[t]]
  /\ \A p \in Pids : life[p] # "up" ~> life[p] \in {"dead", "up"} \/ fault[p]

\* A declared service is read from, always.  Violated where the system refuses
\* a socket or a thread: the second use takes the handle for launched.
AlwaysRead ==
  \A p \in Pids : table[p] # {} /\ life[p] = "up" =>
    node[p] /\ (poll[p] \/ \E k \in Slots : Runs(p, k))

\* The thread that is cancelled is there, always.  Violated likewise.
NeverFaults == \A p \in Pids : ~fault[p]

\* A handle that has a socket knows it.  Violated where two threads make the
\* first use: the error of the one that cannot bind replaces the socket.
SocketKept == \A p \in Pids : life[p] = "up" /\ open[p] => sock[p] # "error"

\* Stopping the A-Bus thread leaves no mutex locked.  Violated where a
\* callback is cancelled.
NoOrphan == \A p \in Pids : ~orphan[p]

-----------------------------------------------------------------------------
(* The inductive invariant behind the safety properties *)

\* The types of the variables.
TypeInv ==
  /\ node \in [Pids -> BOOLEAN] /\ link \in [Services -> Pids \union {NoPid}]
  /\ life \in [Pids -> {"dead", "up", "stop", "remove"}] /\ starts \in 0..MaxStarts
  /\ sock \in [Pids -> {"-1", "fd", "error"}] /\ open \in [Pids -> BOOLEAN]
  /\ poll \in [Pids -> BOOLEAN] /\ table \in [Pids -> SUBSET Services]
  /\ mutex \in [Pids -> BOOLEAN]
  /\ srv \in [Pids -> [Slots -> {"none", "loop", "recv", "callback", "ended"}]]
  /\ handle \in [Pids -> {0, Joined} \union Slots]
  /\ cancel \in [Pids -> BOOLEAN] /\ orphan \in [Pids -> BOOLEAN]
  /\ pc \in [Threads -> {"idle", "launch", "bind", "assign", "created", "spawn",
                         "unlink", "symlink", "join"}]
  /\ arg \in [Threads -> Services \union {NoService}]
  /\ got \in [Threads -> {"-1", "fd", "error"}]
  /\ refused \in [Pids -> BOOLEAN] /\ fault \in [Pids -> BOOLEAN]

\* The A-Bus thread of a handle: not made, running, told to stop, or joined.
Quiet(p) == handle[p] = 0 /\ ~cancel[p] /\ srv[p][1] = "none" /\ srv[p][2] = "none"
Serving(p) == handle[p] = 1 /\ ~cancel[p] /\ Runs(p, 1) /\ srv[p][2] = "none"
Stopping(p) ==
  handle[p] = 1 /\ cancel[p] /\ (Runs(p, 1) \/ srv[p][1] = "ended") /\ srv[p][2] = "none"
Stopped(p) == handle[p] = Joined /\ ~cancel[p] /\ srv[p][1] = "ended" /\ srv[p][2] = "none"

\* A handle is used by one thread of the application at a time.
Alone(t) ==
  \A u \in ThreadsOf(Owner[t]) : pc[t] # "idle" /\ pc[u] # "idle" => u = t

\* The thread relies on what it found in abus->sock, and holds abus->mutex
\* while it declares a service.
ThreadState(t) ==
  LET p == Owner[t]
  IN  /\ pc[t] # "idle" => life[p] = "up"
      /\ pc[t] \in {"idle", "join"} => arg[t] = NoService
      /\ pc[t] \in {"unlink", "symlink"} => arg[t] # NoService
      /\ pc[t] \in {"bind", "assign"} => sock[p] = "-1"
      /\ pc[t] = "assign" => got[t] = IF refused[p] THEN "error" ELSE "fd"
      /\ pc[t] = "created" => sock[p] = IF refused[p] THEN "error" ELSE "fd"
      /\ pc[t] \in {"bind", "spawn"} => ~refused[p]
      /\ pc[t] = "spawn" => sock[p] = "fd"
      /\ pc[t] \in {"unlink", "symlink", "join"} => sock[p] # "-1"
      /\ arg[t] # NoService => mutex[p]

At(p, label) == \E t \in ThreadsOf(p) : pc[t] = label

\* A handle that was refused its socket or its thread has no thread, and is
\* never freed.
RefusedInv(p) ==
  /\ handle[p] = 0 /\ srv[p][1] = "none" /\ srv[p][2] = "none"
  /\ life[p] = "up" \/ life[p] = "stop"
  /\ sock[p] = "-1" => life[p] = "up" /\ At(p, "assign")

\* The socket, its file and the A-Bus thread of another handle go together.
SoundInv(p) ==
  /\ sock[p] # "error" /\ ~fault[p]
  /\ life[p] = "dead" =>
       Quiet(p) /\ sock[p] = "-1" /\ ~open[p] /\ ~poll[p] /\ table[p] = {}
  /\ life[p] = "up" /\ sock[p] = "-1" =>
       /\ Quiet(p) /\ table[p] = {}
       /\ node[p] <=> At(p, "assign")
       /\ open[p] <=> node[p]
  /\ life[p] = "up" /\ sock[p] = "fd" =>
       /\ node[p] /\ open[p]
       /\ At(p, "created") => Quiet(p) /\ table[p] = {}
       /\ At(p, "spawn") => Quiet(p) /\ table[p] = {} /\ ~poll[p]
       /\ At(p, "join") => Stopping(p) /\ poll[p]
       /\ ~At(p, "created") /\ ~At(p, "spawn") /\ ~At(p, "join") =>
            IF poll[p] THEN Quiet(p) \/ Stopped(p) ELSE Serving(p)
  /\ life[p] = "stop" => Stopping(p) /\ sock[p] = "fd"
  /\ life[p] = "remove" =>
       /\ sock[p] = "-1" /\ ~node[p] /\ ~open[p]
       /\ srv[p][1] \in {"none", "ended"} /\ srv[p][2] = "none"

HandleInv(p) ==
  /\ mutex[p] => \E t \in ThreadsOf(p) : arg[t] # NoService
  /\ IF refused[p] THEN RefusedInv(p) ELSE SoundInv(p)

\* A service has one provider, whose socket its path leads to, and a process
\* that lives has no other paths.
ClaimInv ==
  /\ \A t \in Threads : \A p \in Pids : arg[t] \notin table[p]
  /\ \A t, u \in Threads : arg[t] = arg[u] /\ arg[t] # NoService => Owner[t] = Owner[u]
  /\ \A p, q \in Pids : \A s \in Services : s \in table[p] /\ s \in table[q] => p = q
  /\ \A p \in Pids : \A s \in table[p] : link[s] = p
  /\ \A p \in Pids : \A s \in Services : link[s] = p /\ life[p] # "dead" => s \in table[p]

LifeInv ==
  /\ TypeInv
  /\ \A t \in Threads : Alone(t) /\ ThreadState(t)
  /\ \A p \in Pids : HandleInv(p)
  /\ ClaimInv
=============================================================================
