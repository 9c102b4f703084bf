--------------------------- MODULE LifecycleProofs ---------------------------
(***************************************************************************)
(* Proofs about Lifecycle, for any number of processes, threads, services  *)
(* and starts.                                                             *)
(***************************************************************************)
EXTENDS Lifecycle, FiniteSetTheorems, TLAPS

-----------------------------------------------------------------------------
(* Types *)

(* A change of one entry keeps the type of a table.                        *)
LEMMA ExceptType ==
  ASSUME NEW S, NEW T, NEW f \in [S -> T], NEW x, NEW v \in T
  PROVE  [f EXCEPT ![x] = v] \in [S -> T]
  OBVIOUS

(* It changes no other entry.                                              *)
LEMMA ExceptValue ==
  ASSUME NEW S, NEW T, NEW f \in [S -> T], NEW x \in S, NEW v
  PROVE  /\ [f EXCEPT ![x] = v][x] = v
         /\ \A y \in S \ {x} : [f EXCEPT ![x] = v][y] = f[y]
  OBVIOUS

(* A change of one thread keeps the type of the table of A-Bus threads.    *)
LEMMA SrvType ==
  ASSUME NEW T, NEW f \in [Pids -> [Slots -> T]], NEW p, NEW k, NEW v \in T
  PROVE  [f EXCEPT ![p][k] = v] \in [Pids -> [Slots -> T]]
  OBVIOUS

(* The types of what a process that is gone leaves.                        *)
LEMMA GoneType ==
  ASSUME TypeInv, NEW p \in Pids, Gone(p), UNCHANGED <<files, starts>>
  PROVE  TypeInv'
<1> USE DEF Gone, TypeInv
<1>1. life' \in [Pids -> {"dead", "up", "stop", "remove"}]
  OBVIOUS
<1>2. sock' \in [Pids -> {"-1", "fd", "error"}]
  OBVIOUS
<1>3. open' \in [Pids -> BOOLEAN]
  BY ExceptType
<1>4. poll' \in [Pids -> BOOLEAN]
  BY ExceptType
<1>5. mutex' \in [Pids -> BOOLEAN]
  BY ExceptType
<1>6. cancel' \in [Pids -> BOOLEAN]
  BY ExceptType
<1>7. orphan' \in [Pids -> BOOLEAN]
  BY ExceptType
<1>8. table' \in [Pids -> SUBSET Services]
  OBVIOUS
<1>9. srv' \in [Pids -> [Slots -> {"none", "loop", "recv", "callback", "ended"}]]
  <2>1. [k \in Slots |-> "none"] \in [Slots -> {"none", "loop", "recv", "callback", "ended"}]
    OBVIOUS
  <2> QED  BY <2>1, ExceptType
<1>10. handle' \in [Pids -> {0, Joined} \union Slots]
  OBVIOUS
<1>11. pc' \in [Threads -> {"idle", "launch", "bind", "assign", "created", "spawn",
                            "unlink", "symlink", "join"}]
  OBVIOUS
<1>12. arg' \in [Threads -> Services \union {NoService}]
  OBVIOUS
<1>13. got' \in [Threads -> {"-1", "fd", "error"}]
  OBVIOUS
<1>14. UNCHANGED <<node, link, starts>>
  BY DEF files
<1>15. refused' \in [Pids -> BOOLEAN]
  BY ExceptType
<1>16. fault' \in [Pids -> BOOLEAN]
  BY ExceptType
<1> HIDE DEF Gone
<1> QED
  BY <1>1, <1>2, <1>3, <1>4, <1>5, <1>6, <1>7, <1>8, <1>9, <1>10, <1>11, <1>12, <1>13, <1>14,
     <1>15, <1>16

(* The types after a step of a thread that changes its own progress only,  *)
(* or returns from a declaration.                                          *)
LEMMA GotoType ==
  ASSUME TypeInv, NEW t \in Threads,
         NEW label \in {"idle", "launch", "bind", "assign", "created", "spawn",
                        "unlink", "symlink", "join"},
         Goto(t, label)
  PROVE  pc' \in [Threads -> {"idle", "launch", "bind", "assign", "created", "spawn",
                              "unlink", "symlink", "join"}]
  BY DEF Goto, TypeInv

(* The same for a function that returns.                                   *)
LEMMA ReturnType ==
  ASSUME TypeInv, NEW t \in Threads, Return(t)
  PROVE  /\ pc' \in [Threads -> {"idle", "launch", "bind", "assign", "created", "spawn",
                                 "unlink", "symlink", "join"}]
         /\ arg' \in [Threads -> Services \union {NoService}]
         /\ mutex' \in [Pids -> BOOLEAN]
<1>1. arg' \in [Threads -> Services \union {NoService}]
  BY DEF Return, TypeInv
<1>2. mutex' \in [Pids -> BOOLEAN]
  <2>1. mutex' = mutex \/ mutex' = [mutex EXCEPT ![Owner[t]] = FALSE]
    BY DEF Return
  <2> QED  BY <2>1, ExceptType DEF TypeInv
<1> QED  BY <1>1, <1>2, GotoType DEF Return

(* The same once the socket is there.                                      *)
LEMMA LaunchedType ==
  ASSUME TypeInv, NEW t \in Threads, Launched(t)
  PROVE  /\ pc' \in [Threads -> {"idle", "launch", "bind", "assign", "created", "spawn",
                                 "unlink", "symlink", "join"}]
         /\ arg' \in [Threads -> Services \union {NoService}]
         /\ mutex' \in [Pids -> BOOLEAN]
<1>1. CASE arg[t] = NoService
  BY <1>1, ReturnType DEF Launched
<1>2. CASE arg[t] # NoService
  BY <1>2, GotoType DEF Launched, TypeInv
<1> QED  BY <1>1, <1>2

(* The same for a thread that is cancelled.                                *)
LEMMA CancelType ==
  ASSUME TypeInv, NEW p \in Pids, ThreadCancel(p)
  PROVE  fault' \in [Pids -> BOOLEAN]
<1>1. (fault[p] \/ handle[p] \notin Slots) \in BOOLEAN
  OBVIOUS
<1>2. fault' = [fault EXCEPT ![p] = fault[p] \/ handle[p] \notin Slots]
  BY DEF ThreadCancel
<1> QED  BY <1>1, <1>2, ExceptType DEF TypeInv

(* Every step keeps the types.                                             *)
LEMMA TypeStep ==
  ASSUME TypeInv, \A t \in Threads : ThreadState(t), [Next]_vars
  PROVE  TypeInv'
<1> USE DEF files, abus, locals, errs
<1>0. CASE UNCHANGED vars
  BY <1>0 DEF vars, TypeInv
<1>1. ASSUME NEW t \in Threads, UseSocket(t) PROVE TypeInv'
  <2>1. Goto(t, "launch")
    BY <1>1 DEF UseSocket
  <2> QED  BY <1>1, <2>1, GotoType DEF UseSocket, TypeInv
<1>2. ASSUME NEW t \in Threads, NEW s \in Services, DeclService(t, s) PROVE TypeInv'
  <2>1. Goto(t, "launch")
    BY <1>2 DEF DeclService
  <2>2. mutex' \in [Pids -> BOOLEAN]
    BY <1>2, ExceptType DEF DeclService, TypeInv
  <2>3. arg' \in [Threads -> Services \union {NoService}]
    BY <1>2 DEF DeclService, TypeInv
  <2> QED  BY <1>2, <2>1, <2>2, <2>3, GotoType DEF DeclService, TypeInv
<1>3. ASSUME NEW t \in Threads, LaunchTest(t) PROVE TypeInv'
  <2>1. CASE Launched(t)
    BY <1>3, <2>1, LaunchedType DEF LaunchTest, TypeInv
  <2>2. CASE Goto(t, "bind") /\ UNCHANGED <<arg, mutex>>
    BY <1>3, <2>2, GotoType DEF LaunchTest, TypeInv
  <2> QED  BY <1>3, <2>1, <2>2 DEF LaunchTest
<1>4. ASSUME NEW t \in Threads, un_sock_create(t) PROVE TypeInv'
  <2>1. Goto(t, "assign") /\ Owner[t] \in Pids
    BY <1>4, LifecycleAssumption DEF un_sock_create
  <2>2. got' \in [Threads -> {"-1", "fd", "error"}]
    BY <1>4 DEF un_sock_create, TypeInv
  <2>3. node' \in [Pids -> BOOLEAN]
    BY <1>4, ExceptType DEF un_sock_create, TypeInv
  <2>4. open' \in [Pids -> BOOLEAN]
    <3>1. (open[Owner[t]] \/ ~node[Owner[t]]) \in BOOLEAN
      OBVIOUS
    <3>2. open' = [open EXCEPT ![Owner[t]] = open[Owner[t]] \/ ~node[Owner[t]]]
      BY <1>4 DEF un_sock_create
    <3> QED  BY <3>1, <3>2, ExceptType DEF TypeInv
  <2> QED  BY <1>4, <2>1, <2>2, <2>3, <2>4, GotoType DEF un_sock_create, TypeInv
<1>5. ASSUME NEW t \in Threads, LaunchAssign(t) PROVE TypeInv'
  <2>1. Goto(t, "created")
    BY <1>5 DEF LaunchAssign
  <2>2. sock' \in [Pids -> {"-1", "fd", "error"}]
    BY <1>5 DEF LaunchAssign, TypeInv
  <2> QED  BY <1>5, <2>1, <2>2, GotoType DEF LaunchAssign, TypeInv
<1>6. ASSUME NEW t \in Threads, LaunchCreated(t) PROVE TypeInv'
  <2>1. CASE Launched(t)
    BY <1>6, <2>1, LaunchedType DEF LaunchCreated, TypeInv
  <2>2. CASE Return(t)
    BY <1>6, <2>2, ReturnType DEF LaunchCreated, TypeInv
  <2>3. CASE Goto(t, "spawn") /\ UNCHANGED <<arg, mutex>>
    BY <1>6, <2>3, GotoType DEF LaunchCreated, TypeInv
  <2> QED  BY <1>6, <2>1, <2>2, <2>3 DEF LaunchCreated
<1>7. ASSUME NEW t \in Threads, LaunchThread(t) PROVE TypeInv'
  <2>1. srv' \in [Pids -> [Slots -> {"none", "loop", "recv", "callback", "ended"}]]
    BY <1>7, SrvType DEF LaunchThread, TypeInv
  <2>2. handle' \in [Pids -> {0, Joined} \union Slots]
    BY <1>7 DEF LaunchThread, TypeInv, Slots
  <2>3. Launched(t)
    BY <1>7 DEF LaunchThread
  <2> QED  BY <1>7, <2>1, <2>2, <2>3, LaunchedType DEF LaunchThread, TypeInv
<1>18. ASSUME NEW t \in Threads, SocketRefused(t) PROVE TypeInv'
  <2>1. Goto(t, "assign") /\ Owner[t] \in Pids
    BY <1>18, LifecycleAssumption DEF SocketRefused
  <2>2. got' \in [Threads -> {"-1", "fd", "error"}]
    BY <1>18 DEF SocketRefused, TypeInv
  <2>3. refused' \in [Pids -> BOOLEAN]
    BY <1>18, ExceptType DEF SocketRefused, TypeInv
  <2> QED  BY <1>18, <2>1, <2>2, <2>3, GotoType DEF SocketRefused, TypeInv
<1>19. ASSUME NEW t \in Threads, ThreadRefused(t) PROVE TypeInv'
  <2>1. Return(t)
    BY <1>19 DEF ThreadRefused
  <2>2. refused' \in [Pids -> BOOLEAN]
    BY <1>19, ExceptType DEF ThreadRefused, TypeInv
  <2> QED  BY <1>19, <2>1, <2>2, ReturnType DEF ThreadRefused, TypeInv
<1>8. ASSUME NEW t \in Threads, create_unlink(t) PROVE TypeInv'
  <2>1. Goto(t, "symlink")
    BY <1>8 DEF create_unlink
  <2>2. link' \in [Services -> Pids \union {NoPid}]
    BY <1>8 DEF create_unlink, TypeInv
  <2> QED  BY <1>8, <2>1, <2>2, GotoType DEF create_unlink, TypeInv
<1>9. ASSUME NEW t \in Threads, create_symlink(t) PROVE TypeInv'
  <2>1. arg[t] \in Services /\ Owner[t] \in Pids
    BY <1>9, LifecycleAssumption DEF create_symlink, Ready, ThreadState, TypeInv
  <2>2. link' \in [Services -> Pids \union {NoPid}]
    <3>1. link' = link \/ link' = [link EXCEPT ![arg[t]] = Owner[t]]
      BY <1>9 DEF create_symlink
    <3> QED  BY <2>1, <3>1, ExceptType DEF TypeInv
  <2>3. table' \in [Pids -> SUBSET Services]
    <3>1. \/ table' = table
          \/ table' = [table EXCEPT ![Owner[t]] = table[Owner[t]] \union {arg[t]}]
      BY <1>9 DEF create_symlink
    <3>2. table[Owner[t]] \union {arg[t]} \in SUBSET Services
      BY <2>1 DEF TypeInv
    <3>3. table \in [Pids -> SUBSET Services]
      BY DEF TypeInv
    <3> QED  BY ONLY <3>1, <3>2, <3>3
  <2>4. Return(t)
    BY <1>9 DEF create_symlink
  <2> QED  BY <1>9, <2>2, <2>3, <2>4, ReturnType DEF create_symlink, TypeInv
<1>10. ASSUME NEW t \in Threads, SetConfJoin(t) PROVE TypeInv'
  <2>1. Goto(t, "idle")
    BY <1>10 DEF SetConfJoin
  <2>2. handle' \in [Pids -> {0, Joined} \union Slots]
    BY <1>10 DEF SetConfJoin, ThreadJoin, TypeInv
  <2>3. cancel' \in [Pids -> BOOLEAN]
    BY <1>10, ExceptType DEF SetConfJoin, ThreadJoin, TypeInv
  <2> QED  BY <1>10, <2>1, <2>2, <2>3, GotoType DEF SetConfJoin, TypeInv
<1>11. ASSUME NEW t \in Threads, NEW polls \in BOOLEAN, SetConf(t, polls) PROVE TypeInv'
  <2>1. poll' \in [Pids -> BOOLEAN]
    BY <1>11, ExceptType DEF SetConf, TypeInv
  <2>0. Owner[t] \in Pids
    BY LifecycleAssumption
  <2>2. CASE ThreadCancel(Owner[t]) /\ Goto(t, "join")
    <3>1. cancel' \in [Pids -> BOOLEAN]
      BY <2>2, ExceptType DEF ThreadCancel, TypeInv
    <3>2. fault' \in [Pids -> BOOLEAN]
      BY <2>0, <2>2, CancelType
    <3> QED  BY <1>11, <2>1, <2>2, <3>1, <3>2, GotoType DEF SetConf, TypeInv
  <2>3. CASE UNCHANGED <<cancel, fault, pc>>
    BY <1>11, <2>1, <2>3 DEF SetConf, TypeInv
  <2> QED  BY <1>11, <2>2, <2>3 DEF SetConf
<1>12. ASSUME NEW p \in Pids, NEW k \in Slots,
              SrvLoop(p, k) \/ SrvReceive(p, k) \/ SrvDone(p, k) \/ SrvCancelled(p, k)
       PROVE  TypeInv'
  <2>1. srv' \in [Pids -> [Slots -> {"none", "loop", "recv", "callback", "ended"}]]
    <3>1. PICK v \in {"none", "loop", "recv", "callback", "ended"} :
            srv' = [srv EXCEPT ![p][k] = v]
      BY <1>12 DEF SrvLoop, SrvReceive, SrvDone, SrvCancelled
    <3> QED  BY <3>1, SrvType DEF TypeInv
  <2>2. orphan' \in [Pids -> BOOLEAN]
    <3>1. (orphan[p] \/ srv[p][k] = "callback") \in BOOLEAN
      OBVIOUS
    <3>2. \/ orphan' = orphan
          \/ orphan' = [orphan EXCEPT ![p] = orphan[p] \/ srv[p][k] = "callback"]
      BY <1>12 DEF SrvLoop, SrvReceive, SrvDone, SrvCancelled
    <3> QED  BY <3>1, <3>2, ExceptType DEF TypeInv
  <2> QED  BY <1>12, <2>1, <2>2 DEF SrvLoop, SrvReceive, SrvDone, SrvCancelled, TypeInv
<1>13. ASSUME NEW p \in Pids, abus_cleanup(p) PROVE TypeInv'
  <2>1. life' \in [Pids -> {"dead", "up", "stop", "remove"}]
    <3>1. \/ life' = [life EXCEPT ![p] = "remove"]
          \/ life' = [life EXCEPT ![p] = "stop"]
      BY <1>13 DEF abus_cleanup
    <3> QED  BY <3>1 DEF TypeInv
  <2>2. cancel' \in [Pids -> BOOLEAN]
    <3>1. cancel' = cancel \/ cancel' = [cancel EXCEPT ![p] = TRUE]
      BY <1>13 DEF abus_cleanup, ThreadCancel
    <3> QED  BY <3>1, ExceptType DEF TypeInv
  <2>3. fault' \in [Pids -> BOOLEAN]
    BY <1>13, CancelType DEF abus_cleanup, TypeInv
  <2> QED  BY <1>13, <2>1, <2>2, <2>3 DEF abus_cleanup, TypeInv
<1>14. ASSUME NEW p \in Pids, un_sock_close(p) PROVE TypeInv'
  <2>1. life' \in [Pids -> {"dead", "up", "stop", "remove"}]
    BY <1>14 DEF un_sock_close, TypeInv
  <2>2. sock' \in [Pids -> {"-1", "fd", "error"}]
    BY <1>14 DEF un_sock_close, TypeInv
  <2>3. open' \in [Pids -> BOOLEAN]
    BY <1>14, ExceptType DEF un_sock_close, TypeInv
  <2>4. node' \in [Pids -> BOOLEAN]
    BY <1>14, ExceptType DEF un_sock_close, TypeInv
  <2>5. handle' \in [Pids -> {0, Joined} \union Slots]
    BY <1>14 DEF un_sock_close, ThreadJoin, TypeInv
  <2>6. cancel' \in [Pids -> BOOLEAN]
    BY <1>14, ExceptType DEF un_sock_close, ThreadJoin, TypeInv
  <2> QED  BY <1>14, <2>1, <2>2, <2>3, <2>4, <2>5, <2>6 DEF un_sock_close, TypeInv
<1>15. ASSUME NEW p \in Pids, NEW s \in Services, remove_service_path(p, s) PROVE TypeInv'
  <2>1. link' \in [Services -> Pids \union {NoPid}]
    BY <1>15 DEF remove_service_path, TypeInv
  <2>2. table' \in [Pids -> SUBSET Services]
    BY <1>15 DEF remove_service_path, TypeInv
  <2> QED  BY <1>15, <2>1, <2>2 DEF remove_service_path, TypeInv
<1>16. ASSUME NEW p \in Pids, CleanupEnd(p) \/ Die(p) PROVE TypeInv'
  BY <1>16, GoneType DEF CleanupEnd, Die
<1>17. ASSUME NEW p \in Pids, NEW polls \in BOOLEAN, abus_init(p, polls) PROVE TypeInv'
  <2>1. life' \in [Pids -> {"dead", "up", "stop", "remove"}]
    BY <1>17 DEF abus_init, TypeInv
  <2>2. poll' \in [Pids -> BOOLEAN]
    BY <1>17, ExceptType DEF abus_init, TypeInv
  <2>3. starts' \in 0..MaxStarts
    BY <1>17, LifecycleAssumption DEF abus_init, TypeInv
  <2> QED  BY <1>17, <2>1, <2>2, <2>3 DEF abus_init, TypeInv
<1> QED
  BY <1>0, <1>1, <1>2, <1>3, <1>4, <1>5, <1>6, <1>7, <1>8, <1>9, <1>10, <1>11, <1>12, <1>13,
     <1>14, <1>15, <1>16, <1>17, <1>18, <1>19 DEF Next, App, Srv, Cleanup

-----------------------------------------------------------------------------
(* Handles are independent of each other *)

(* A step changes nothing but the handle and the threads of p.             *)
Apart(p) ==
  /\ \A q \in Pids \ {p} :
       /\ node'[q] = node[q] /\ life'[q] = life[q] /\ sock'[q] = sock[q] /\ open'[q] = open[q]
       /\ poll'[q] = poll[q] /\ table'[q] = table[q] /\ mutex'[q] = mutex[q]
       /\ srv'[q] = srv[q] /\ handle'[q] = handle[q] /\ cancel'[q] = cancel[q]
       /\ refused'[q] = refused[q] /\ fault'[q] = fault[q]
  /\ \A t \in Threads :
       Owner[t] # p => pc'[t] = pc[t] /\ arg'[t] = arg[t] /\ got'[t] = got[t]

(* A step on one handle keeps the invariants of the others.                *)
LEMMA Elsewhere ==
  ASSUME LifeInv, NEW p \in Pids, Apart(p)
  PROVE  /\ \A q \in Pids \ {p} : HandleInv(q)'
         /\ \A t \in Threads : Owner[t] # p => Alone(t)' /\ ThreadState(t)'
<1>1. ASSUME NEW q \in Pids \ {p} PROVE HandleInv(q)'
  <2>1. HandleInv(q)
    BY DEF LifeInv
  <2>2. \A t \in ThreadsOf(q) : pc'[t] = pc[t] /\ arg'[t] = arg[t]
    BY DEF ThreadsOf, Apart
  <2>3. \A label : At(q, label)' <=> At(q, label)
    BY <2>2 DEF At, ThreadsOf
  <2>4. /\ node'[q] = node[q] /\ life'[q] = life[q] /\ sock'[q] = sock[q] /\ open'[q] = open[q]
        /\ poll'[q] = poll[q] /\ table'[q] = table[q] /\ mutex'[q] = mutex[q]
        /\ srv'[q] = srv[q] /\ handle'[q] = handle[q] /\ cancel'[q] = cancel[q]
        /\ refused'[q] = refused[q] /\ fault'[q] = fault[q]
    BY DEF Apart
  <2>5. /\ Quiet(q)' <=> Quiet(q)
        /\ Serving(q)' <=> Serving(q)
        /\ Stopping(q)' <=> Stopping(q)
        /\ Stopped(q)' <=> Stopped(q)
    BY <2>4 DEF Quiet, Serving, Stopping, Stopped, Runs
  <2>6. mutex'[q] => \E t \in ThreadsOf(q) : arg'[t] # NoService
    BY <2>1, <2>2, <2>4 DEF HandleInv
  <2>7. (\E t \in ThreadsOf(q) : arg[t] # NoService)' <=> \E t \in ThreadsOf(q) : arg'[t] # NoService
    BY DEF ThreadsOf
  <2> QED  BY <2>1, <2>3, <2>4, <2>5, <2>6, <2>7 DEF HandleInv, RefusedInv, SoundInv
<1>2. ASSUME NEW t \in Threads, Owner[t] # p PROVE Alone(t)' /\ ThreadState(t)'
  <2>1. Alone(t) /\ ThreadState(t) /\ Owner[t] \in Pids \ {p}
    BY <1>2, LifecycleAssumption DEF LifeInv
  <2>2. \A u \in ThreadsOf(Owner[t]) : pc'[u] = pc[u]
    BY <1>2 DEF ThreadsOf, Apart
  <2>3. Alone(t)'
    BY <2>1, <2>2, <1>2 DEF Alone, ThreadsOf, Apart
  <2>4. ThreadState(t)'
    BY <2>1, <1>2 DEF ThreadState, Apart
  <2> QED  BY <2>3, <2>4
<1> QED  BY <1>1, <1>2

(* What is left to show of a step on one handle.                           *)
LEMMA Local ==
  ASSUME LifeInv, TypeInv', NEW p \in Pids, Apart(p), HandleInv(p)',
         \A t \in ThreadsOf(p) : Alone(t)' /\ ThreadState(t)', ClaimInv'
  PROVE  LifeInv'
  BY Elsewhere DEF LifeInv, ThreadsOf

(* Whoever uses a handle is its only user.                                 *)
LEMMA Sole ==
  ASSUME LifeInv, NEW t \in Threads, pc[t] # "idle" \/ Idle(Owner[t])
  PROVE  /\ \A u \in ThreadsOf(Owner[t]) \ {t} : pc[u] = "idle" /\ arg[u] = NoService
         /\ t \in ThreadsOf(Owner[t]) /\ Owner[t] \in Pids
         /\ \A label : label # "idle" => (At(Owner[t], label) <=> pc[t] = label)
<1>1. Alone(t) /\ \A u \in Threads : ThreadState(u)
  BY DEF LifeInv
<1>2. t \in ThreadsOf(Owner[t]) /\ Owner[t] \in Pids
  BY LifecycleAssumption DEF ThreadsOf
<1>3. \A u \in ThreadsOf(Owner[t]) \ {t} : pc[u] = "idle"
  BY <1>1 DEF Alone, Idle
<1>4. \A u \in ThreadsOf(Owner[t]) \ {t} : arg[u] = NoService
  BY <1>1, <1>3 DEF ThreadState, ThreadsOf
<1>5. \A label : label # "idle" => (At(Owner[t], label) <=> pc[t] = label)
  BY <1>2, <1>3 DEF At
<1> QED  BY <1>2, <1>3, <1>4, <1>5

(* What is left to show of a step of a thread that is the only user.       *)
LEMMA AppLocal ==
  ASSUME LifeInv, TypeInv', NEW t \in Threads, pc[t] # "idle" \/ Idle(Owner[t]),
         \A u \in Threads \ {t} : pc'[u] = pc[u] /\ arg'[u] = arg[u] /\ got'[u] = got[u],
         \A q \in Pids \ {Owner[t]} :
           /\ node'[q] = node[q] /\ life'[q] = life[q] /\ sock'[q] = sock[q]
           /\ open'[q] = open[q] /\ poll'[q] = poll[q] /\ table'[q] = table[q]
           /\ mutex'[q] = mutex[q] /\ srv'[q] = srv[q] /\ handle'[q] = handle[q]
           /\ cancel'[q] = cancel[q] /\ refused'[q] = refused[q] /\ fault'[q] = fault[q],
         ThreadState(t)',
         (\A label : label # "idle" => (At(Owner[t], label)' <=> pc'[t] = label)) => HandleInv(Owner[t])',
         ClaimInv'
  PROVE  LifeInv'
<1> DEFINE p == Owner[t]
<1>1. /\ \A u \in ThreadsOf(p) \ {t} : pc'[u] = "idle" /\ arg'[u] = NoService
      /\ t \in ThreadsOf(p) /\ p \in Pids
  BY Sole DEF ThreadsOf
<1>2. \A label : label # "idle" => (At(p, label)' <=> pc'[t] = label)
  BY <1>1 DEF At, ThreadsOf
<1>3. Apart(p)
  BY DEF Apart
<1>4. ASSUME NEW u \in ThreadsOf(p) PROVE Alone(u)' /\ ThreadState(u)'
  <2>0. Owner[u] = p /\ u \in Threads
    BY DEF ThreadsOf
  <2>1. Alone(u)'
    BY <1>1, <2>0 DEF Alone, ThreadsOf
  <2>2. ThreadState(u)'
    BY <1>1, <2>0 DEF ThreadState
  <2> QED  BY <2>1, <2>2
<1> QED  BY <1>1, <1>2, <1>3, <1>4, Local

(* A handle without a socket was refused nothing, unless a thread just     *)
(* learns it.                                                              *)
LEMMA NotRefused ==
  ASSUME LifeInv, NEW p \in Pids, sock[p] = "-1", ~At(p, "assign")
  PROVE  ~refused[p] /\ SoundInv(p)
  BY DEF LifeInv, HandleInv, RefusedInv

(* A handle is either sound or was refused something.                      *)
LEMMA EitherWay ==
  ASSUME LifeInv, NEW p \in Pids
  PROVE  IF refused[p] THEN RefusedInv(p) ELSE SoundInv(p)
  BY DEF LifeInv, HandleInv

(* A step that leaves a handle that was refused something without a thread *)
(* and with what stands for its socket keeps what is known of it.          *)
LEMMA RefusedKept ==
  ASSUME NEW p \in Pids, RefusedInv(p), refused'[p], handle'[p] = handle[p], srv'[p] = srv[p],
         life'[p] \in {"up", "stop"}, sock'[p] # "-1",
         mutex'[p] => (\E t \in ThreadsOf(p) : arg[t] # NoService)'
  PROVE  HandleInv(p)'
  BY DEF HandleInv, RefusedInv

(* A step that declares nothing and starts no process keeps ClaimInv.      *)
LEMMA ClaimKept ==
  ASSUME LifeInv, UNCHANGED <<table, link>>,
         \A p \in Pids : life'[p] # "dead" => life[p] # "dead",
         \A t \in Threads : arg'[t] = arg[t] \/ arg'[t] = NoService
  PROVE  ClaimInv'
<1>1. ClaimInv
  BY DEF LifeInv
<1>2. \A p \in Pids : NoService \notin table[p]
  BY LifecycleAssumption DEF LifeInv, TypeInv
<1>3. \A t \in Threads : \A p \in Pids : arg'[t] \notin table'[p]
  BY <1>1, <1>2 DEF ClaimInv
<1>4. \A t, u \in Threads : arg'[t] = arg'[u] /\ arg'[t] # NoService => Owner[t] = Owner[u]
  BY <1>1 DEF ClaimInv
<1> QED  BY <1>1, <1>3, <1>4 DEF ClaimInv

-----------------------------------------------------------------------------
(* Steps of the application *)

(* The first use of a handle.                                              *)
LEMMA UseSocketStep ==
  ASSUME LifeInv, TypeInv', NEW t \in Threads, UseSocket(t), "race" \notin Allowed
  PROVE  LifeInv'
<1> DEFINE p == Owner[t]
<1>1. Idle(p) /\ pc[t] = "idle" /\ life[p] = "up" /\ sock[p] = "-1" /\ p \in Pids
  BY LifecycleAssumption DEF UseSocket, Ready
<1>2. /\ pc'[t] = "launch" /\ (\A u \in Threads \ {t} : pc'[u] = pc[u])
      /\ UNCHANGED <<node, link, life, sock, open, poll, table, handle, cancel, mutex, srv,
                     arg, got, refused, fault>>
  BY DEF UseSocket, Goto, LifeInv, TypeInv, files, abus, errs
<1>3. ThreadState(t) /\ HandleInv(p)
  BY <1>1 DEF LifeInv
<1>7. ~refused[p] /\ SoundInv(p)
  BY <1>1, Sole, NotRefused
<1>4. ThreadState(t)'
  BY <1>1, <1>2, <1>3 DEF ThreadState
<1>5. ASSUME \A label : label # "idle" => (At(p, label)' <=> pc'[t] = label) PROVE HandleInv(p)'
  <2>1. ~At(p, "assign") /\ ~At(p, "assign")'
    BY <1>1, <1>2, <1>5, Sole
  <2> QED  BY <1>1, <1>2, <1>3, <1>7, <2>1 DEF HandleInv, SoundInv, Quiet, ThreadsOf
<1>6. ClaimInv'
  BY <1>2, ClaimKept
<1> QED  BY <1>1, <1>2, <1>3, <1>4, <1>5, <1>6, AppLocal

(* A declaration begins: nobody else provides the service.                 *)
LEMMA DeclServiceStep ==
  ASSUME LifeInv, TypeInv', NEW t \in Threads, NEW s \in Services, DeclService(t, s),
         "race" \notin Allowed, "share" \notin Allowed
  PROVE  LifeInv'
<1> DEFINE p == Owner[t]
<1>1. /\ Idle(p) /\ pc[t] = "idle" /\ life[p] = "up" /\ p \in Pids
      /\ s \notin table[p] /\ ~Provided(s, p)
  BY LifecycleAssumption DEF DeclService, Ready
<1>2. /\ pc'[t] = "launch" /\ (\A u \in Threads \ {t} : pc'[u] = pc[u])
      /\ arg'[t] = s /\ (\A u \in Threads \ {t} : arg'[u] = arg[u])
      /\ mutex'[p] /\ (\A q \in Pids \ {p} : mutex'[q] = mutex[q])
      /\ UNCHANGED <<node, link, life, sock, open, poll, table, handle, cancel, srv, got, refused, fault>>
  <2>1. mutex'[p] /\ (\A q \in Pids \ {p} : mutex'[q] = mutex[q])
    <3>1. mutex \in [Pids -> BOOLEAN] /\ mutex' = [mutex EXCEPT ![p] = TRUE]
      BY DEF DeclService, LifeInv, TypeInv
    <3> QED  BY ONLY <1>1, <3>1, ExceptValue
  <2>2. pc'[t] = "launch" /\ (\A u \in Threads \ {t} : pc'[u] = pc[u])
    BY DEF DeclService, Goto, LifeInv, TypeInv
  <2>3. arg'[t] = s /\ (\A u \in Threads \ {t} : arg'[u] = arg[u])
    BY DEF DeclService, LifeInv, TypeInv
  <2> QED  BY <2>1, <2>2, <2>3 DEF DeclService, files, abus, errs
<1>3. HandleInv(p) /\ s # NoService /\ ClaimInv
  BY <1>1, LifecycleAssumption DEF LifeInv
<1>4. ThreadState(t)'
  BY <1>1, <1>2 DEF ThreadState
<1>5. ASSUME \A label : label # "idle" => (At(p, label)' <=> pc'[t] = label) PROVE HandleInv(p)'
  <2>1. \A label \in {"assign", "created", "spawn", "join"} : ~At(p, label) /\ ~At(p, label)'
    BY <1>1, <1>2, <1>5, Sole
  <2>2. \E u \in ThreadsOf(p) : arg'[u] # NoService
    BY <1>2, <1>3 DEF ThreadsOf
  <2>3. mutex'[p] => (\E u \in ThreadsOf(p) : arg[u] # NoService)'
    BY <2>2 DEF ThreadsOf
  <2>4. CASE refused[p]
    <3>1. RefusedInv(p) /\ sock[p] # "-1"
      BY <1>1, <2>1, <2>4, EitherWay, NotRefused
    <3> QED  BY <1>1, <1>2, <2>3, <2>4, <3>1, RefusedKept
  <2>5. CASE ~refused[p]
    <3>1. SoundInv(p)
      BY <1>1, <2>5, EitherWay
    <3>2. SoundInv(p)'
      BY <1>1, <1>2, <2>1, <3>1 DEF SoundInv, Quiet, Serving, Stopped, Runs
    <3> QED  BY <1>2, <2>3, <2>5, <3>2 DEF HandleInv
  <2> QED  BY <2>4, <2>5
<1>6. ClaimInv'
  <2>1. \A q \in Pids \ {p} : s \notin table[q] /\ \A u \in ThreadsOf(q) : arg[u] # s
    BY <1>1 DEF Provided
  <2>2. \A u \in Threads : arg[u] = s => Owner[u] = p
    BY <2>1, LifecycleAssumption DEF ThreadsOf
  <2>3. \A u \in Threads : \A q \in Pids : arg'[u] \notin table'[q]
    BY <1>1, <1>2, <1>3, <2>1 DEF ClaimInv
  <2>4. \A u, v \in Threads : arg'[u] = arg'[v] /\ arg'[u] # NoService => Owner[u] = Owner[v]
    BY <1>2, <1>3, <2>2 DEF ClaimInv
  <2> QED  BY <1>2, <1>3, <2>3, <2>4 DEF ClaimInv
<1> QED  BY <1>1, <1>2, <1>3, <1>4, <1>5, <1>6, AppLocal

(* A thread whose socket is there goes on with its declaration or returns. *)
LEMMA LaunchedFacts ==
  ASSUME LifeInv, NEW t \in Threads, pc[t] # "idle", Launched(t) \/ Return(t)
  PROVE  LET p == Owner[t]
         IN  /\ \A u \in Threads \ {t} : pc'[u] = pc[u] /\ arg'[u] = arg[u]
             /\ \A q \in Pids \ {p} : mutex'[q] = mutex[q]
             /\ pc'[t] \in {"idle", "unlink"}
             /\ pc'[t] = "idle" => arg'[t] = NoService /\ ~mutex'[p]
             /\ pc'[t] = "unlink" => arg'[t] # NoService /\ mutex'[p] /\ arg'[t] = arg[t]
<1> DEFINE p == Owner[t]
<1>1. p \in Pids /\ ThreadState(t) /\ HandleInv(p)
  BY LifecycleAssumption DEF LifeInv
<1>2. arg[t] # NoService => mutex[p]
  BY <1>1 DEF ThreadState
<1>3. arg[t] = NoService => ~mutex[p]
  BY <1>1, Sole DEF HandleInv
<1>4. CASE Return(t)
  BY <1>1, <1>3, <1>4 DEF Return, Goto, LifeInv, TypeInv
<1>5. CASE arg[t] # NoService /\ Launched(t)
  BY <1>1, <1>2, <1>5 DEF Launched, Goto, LifeInv, TypeInv
<1> QED  BY <1>4, <1>5 DEF Launched

(* abus_launch_thread_ondemand() finds a socket or goes on to make one.    *)
LEMMA LaunchTestStep ==
  ASSUME LifeInv, TypeInv', NEW t \in Threads, LaunchTest(t)
  PROVE  LifeInv'
<1> DEFINE p == Owner[t]
<1>1. pc[t] = "launch" /\ life[p] = "up" /\ p \in Pids
  BY LifecycleAssumption DEF LaunchTest, Ready
<1>2. UNCHANGED <<node, link, life, sock, open, poll, table, handle, cancel, srv, got, refused, fault>>
  BY DEF LaunchTest, files, abus, errs
<1>3. ThreadState(t) /\ TypeInv
  BY <1>1 DEF LifeInv
<1>4. \A label \in {"assign", "created", "spawn", "join"} : ~At(p, label)
  BY <1>1, Sole
<1>5. CASE sock[p] # "-1"
  <2>1. /\ \A u \in Threads \ {t} : pc'[u] = pc[u] /\ arg'[u] = arg[u]
        /\ \A q \in Pids \ {p} : mutex'[q] = mutex[q]
        /\ pc'[t] \in {"idle", "unlink"}
        /\ pc'[t] = "idle" => arg'[t] = NoService /\ ~mutex'[p]
        /\ pc'[t] = "unlink" => arg'[t] # NoService /\ mutex'[p] /\ arg'[t] = arg[t]
    BY <1>1, <1>5, LaunchedFacts DEF LaunchTest
  <2>2. ThreadState(t)'
    BY <1>1, <1>2, <1>5, <2>1 DEF ThreadState
  <2>3. ASSUME \A label : label # "idle" => (At(p, label)' <=> pc'[t] = label) PROVE HandleInv(p)'
    <3>1. \A label \in {"assign", "created", "spawn", "join"} : ~At(p, label)'
      BY <2>1, <2>3
    <3>2. mutex'[p] => \E u \in ThreadsOf(p) : arg'[u] # NoService
      BY <2>1 DEF ThreadsOf
    <3>3. mutex'[p] => (\E u \in ThreadsOf(p) : arg[u] # NoService)'
      BY <3>2 DEF ThreadsOf
    <3>4. CASE refused[p]
      <4>1. RefusedInv(p)
        BY <1>1, <3>4, EitherWay
      <4> QED  BY <1>1, <1>2, <1>5, <3>3, <3>4, <4>1, RefusedKept
    <3>5. CASE ~refused[p]
      <4>1. SoundInv(p)
        BY <1>1, <3>5, EitherWay
      <4>2. SoundInv(p)'
        BY <1>1, <1>2, <1>4, <1>5, <3>1, <4>1 DEF SoundInv, Quiet, Serving, Stopped, Runs
      <4> QED  BY <1>2, <3>3, <3>5, <4>2 DEF HandleInv
    <3> QED  BY <3>4, <3>5
  <2>4. ClaimInv'
    BY <1>2, <2>1, ClaimKept
  <2> QED  BY <1>1, <1>2, <1>3, <2>1, <2>2, <2>3, <2>4, AppLocal
<1>6. CASE sock[p] = "-1"
  <2>0. ~refused[p] /\ SoundInv(p) /\ HandleInv(p)
    BY <1>1, <1>4, <1>6, NotRefused DEF LifeInv
  <2>1. /\ pc'[t] = "bind" /\ (\A u \in Threads \ {t} : pc'[u] = pc[u])
        /\ UNCHANGED <<arg, mutex>>
    BY <1>6 DEF LaunchTest, Goto, LifeInv, TypeInv
  <2>2. ThreadState(t)'
    BY <1>1, <1>2, <1>3, <1>6, <2>0, <2>1 DEF ThreadState
  <2>3. ASSUME \A label : label # "idle" => (At(p, label)' <=> pc'[t] = label) PROVE HandleInv(p)'
    <3>1. ~At(p, "assign")'
      BY <2>1, <2>3
    <3> QED
      BY <1>1, <1>2, <1>3, <1>4, <1>6, <2>0, <2>1, <3>1 DEF HandleInv, SoundInv, Quiet, ThreadsOf
  <2>4. ClaimInv'
    BY <1>2, <2>1, ClaimKept
  <2> QED  BY <1>1, <1>2, <1>3, <2>1, <2>2, <2>3, <2>4, AppLocal
<1> QED  BY <1>5, <1>6

(* un_sock_create() can bind: the file is not there.                       *)
LEMMA CreateStep ==
  ASSUME LifeInv, TypeInv', NEW t \in Threads, un_sock_create(t)
  PROVE  LifeInv'
<1> DEFINE p == Owner[t]
<1>1. pc[t] = "bind" /\ life[p] = "up" /\ p \in Pids
  BY LifecycleAssumption DEF un_sock_create, Ready
<1>2. ThreadState(t) /\ HandleInv(p)
  BY <1>1 DEF LifeInv
<1>3. sock[p] = "-1" /\ ~At(p, "assign") /\ ~node[p] /\ ~refused[p] /\ SoundInv(p)
  <2>1. sock[p] = "-1" /\ ~At(p, "assign")
    BY <1>1, <1>2, Sole DEF ThreadState
  <2>2. ~refused[p] /\ SoundInv(p)
    BY <1>1, <2>1, NotRefused
  <2> QED  BY <1>1, <2>1, <2>2 DEF SoundInv
<1>4. /\ pc'[t] = "assign" /\ got'[t] = "fd" /\ node'[p] /\ open'[p]
      /\ \A u \in Threads \ {t} : pc'[u] = pc[u] /\ got'[u] = got[u]
      /\ \A q \in Pids \ {p} : node'[q] = node[q] /\ open'[q] = open[q]
      /\ UNCHANGED <<link, life, sock, poll, table, handle, cancel, mutex, srv, arg, refused,
                     fault>>
  <2>1. node'[p] /\ (\A q \in Pids \ {p} : node'[q] = node[q])
    <3>1. node \in [Pids -> BOOLEAN] /\ node' = [node EXCEPT ![p] = TRUE]
      BY DEF un_sock_create, LifeInv, TypeInv
    <3> QED  BY ONLY <1>1, <3>1, ExceptValue
  <2>2. open'[p] /\ (\A q \in Pids \ {p} : open'[q] = open[q])
    <3>1. open \in [Pids -> BOOLEAN] /\ open' = [open EXCEPT ![p] = open[p] \/ ~node[p]]
      BY DEF un_sock_create, LifeInv, TypeInv
    <3>2. /\ open'[p] = (open[p] \/ ~node[p])
          /\ \A q \in Pids \ {p} : open'[q] = open[q]
      BY ONLY <1>1, <3>1, ExceptValue
    <3> QED  BY ONLY <1>3, <3>2
  <2>3. pc'[t] = "assign" /\ (\A u \in Threads \ {t} : pc'[u] = pc[u])
    BY DEF un_sock_create, Goto, LifeInv, TypeInv
  <2>4. got'[t] = "fd" /\ (\A u \in Threads \ {t} : got'[u] = got[u])
    BY <1>3 DEF un_sock_create, LifeInv, TypeInv
  <2> QED  BY <2>1, <2>2, <2>3, <2>4 DEF un_sock_create, errs
<1>5. ThreadState(t)'
  BY <1>1, <1>2, <1>3, <1>4 DEF ThreadState
<1>6. ASSUME \A label : label # "idle" => (At(p, label)' <=> pc'[t] = label) PROVE HandleInv(p)'
  <2>1. At(p, "assign")'
    BY <1>4, <1>6
  <2> QED
    BY <1>1, <1>2, <1>3, <1>4, <2>1 DEF HandleInv, SoundInv, Quiet, ThreadsOf
<1>7. ClaimInv'
  BY <1>4, ClaimKept
<1> QED  BY <1>1, <1>2, <1>4, <1>5, <1>6, <1>7, AppLocal

(* A handle that is refused a socket has nothing else.                     *)
LEMMA SocketRefusedStep ==
  ASSUME LifeInv, TypeInv', NEW t \in Threads, SocketRefused(t)
  PROVE  LifeInv'
<1> DEFINE p == Owner[t]
<1>1. pc[t] = "bind" /\ life[p] = "up" /\ p \in Pids
  BY LifecycleAssumption DEF SocketRefused, Ready
<1>2. ThreadState(t) /\ HandleInv(p)
  BY <1>1 DEF LifeInv
<1>3. sock[p] = "-1" /\ Quiet(p)
  <2>1. sock[p] = "-1" /\ ~At(p, "assign")
    BY <1>1, <1>2, Sole DEF ThreadState
  <2> QED  BY <1>1, <2>1, NotRefused DEF SoundInv
<1>4. /\ pc'[t] = "assign" /\ got'[t] = "error"
      /\ \A u \in Threads \ {t} : pc'[u] = pc[u] /\ got'[u] = got[u]
      /\ UNCHANGED <<node, link, life, sock, open, poll, table, handle, cancel, mutex, srv, arg,
                     fault>>
  BY DEF SocketRefused, Goto, LifeInv, TypeInv, files, abus
<1>5. refused'[p] /\ \A q \in Pids \ {p} : refused'[q] = refused[q]
  <2>1. refused \in [Pids -> BOOLEAN] /\ refused' = [refused EXCEPT ![p] = TRUE]
    BY DEF SocketRefused, LifeInv, TypeInv
  <2> QED  BY ONLY <1>1, <2>1, ExceptValue
<1>6. ThreadState(t)'
  BY <1>1, <1>2, <1>3, <1>4, <1>5 DEF ThreadState
<1>7. ASSUME \A label : label # "idle" => (At(p, label)' <=> pc'[t] = label) PROVE HandleInv(p)'
  <2>1. At(p, "assign")'
    BY <1>4, <1>7
  <2> QED
    BY <1>1, <1>2, <1>3, <1>4, <1>5, <2>1 DEF HandleInv, RefusedInv, Quiet, ThreadsOf
<1>8. ClaimInv'
  BY <1>4, ClaimKept
<1> QED  BY <1>1, <1>4, <1>5, <1>6, <1>7, <1>8, AppLocal

(* abus->sock gets the socket, or the error.                               *)
LEMMA AssignStep ==
  ASSUME LifeInv, TypeInv', NEW t \in Threads, LaunchAssign(t)
  PROVE  LifeInv'
<1> DEFINE p == Owner[t]
<1>1. pc[t] = "assign" /\ life[p] = "up" /\ p \in Pids
  BY LifecycleAssumption DEF LaunchAssign, Ready
<1>2. ThreadState(t) /\ HandleInv(p)
  BY <1>1 DEF LifeInv
<1>3. /\ sock[p] = "-1" /\ At(p, "assign")
      /\ got[t] = IF refused[p] THEN "error" ELSE "fd"
  BY <1>1, <1>2, Sole DEF ThreadState
<1>5. /\ pc'[t] = "created" /\ sock'[p] = IF refused[p] THEN "error" ELSE "fd"
      /\ \A u \in Threads \ {t} : pc'[u] = pc[u]
      /\ \A q \in Pids \ {p} : sock'[q] = sock[q]
      /\ UNCHANGED <<node, link, life, open, poll, table, handle, cancel, mutex, srv, arg, got,
                     refused, fault>>
  BY <1>1, <1>3 DEF LaunchAssign, Goto, LifeInv, TypeInv, files, errs
<1>6. ThreadState(t)'
  BY <1>1, <1>2, <1>5 DEF ThreadState
<1>7. ASSUME \A label : label # "idle" => (At(p, label)' <=> pc'[t] = label) PROVE HandleInv(p)'
  <2>1. At(p, "created")' /\ ~At(p, "spawn")' /\ ~At(p, "join")'
    BY <1>5, <1>7
  <2>2. mutex'[p] => (\E u \in ThreadsOf(p) : arg[u] # NoService)'
    BY <1>2, <1>5 DEF HandleInv, ThreadsOf
  <2>3. CASE refused[p]
    <3>1. RefusedInv(p)
      BY <1>1, <2>3, EitherWay
    <3> QED  BY <1>1, <1>5, <2>2, <2>3, <3>1, RefusedKept
  <2>4. CASE ~refused[p]
    <3>1. SoundInv(p)
      BY <1>1, <2>4, EitherWay
    <3>2. Quiet(p) /\ table[p] = {} /\ node[p] /\ open[p]
      BY <1>1, <1>3, <3>1 DEF SoundInv
    <3> QED  BY <1>1, <1>5, <2>1, <2>2, <2>4, <3>1, <3>2 DEF HandleInv, SoundInv, Quiet
  <2> QED  BY <2>3, <2>4
<1>8. ClaimInv'
  BY <1>5, ClaimKept
<1> QED  BY <1>1, <1>2, <1>5, <1>6, <1>7, <1>8, AppLocal

(* In poll operation no thread is made.                                    *)
LEMMA CreatedStep ==
  ASSUME LifeInv, TypeInv', NEW t \in Threads, LaunchCreated(t)
  PROVE  LifeInv'
<1> DEFINE p == Owner[t]
<1>1. pc[t] = "created" /\ life[p] = "up" /\ p \in Pids
  BY LifecycleAssumption DEF LaunchCreated, Ready
<1>2. UNCHANGED <<node, link, life, sock, open, poll, table, handle, cancel, srv, got, refused, fault>>
  BY DEF LaunchCreated, files, abus, errs
<1>3. ThreadState(t) /\ HandleInv(p)
  BY <1>1 DEF LifeInv
<1>4. sock[p] = (IF refused[p] THEN "error" ELSE "fd") /\ At(p, "created")
  BY <1>1, <1>3, Sole DEF ThreadState
<1>5. ASSUME ~refused[p] PROVE SoundInv(p) /\ Quiet(p) /\ table[p] = {} /\ node[p] /\ open[p]
  BY <1>1, <1>4, <1>5, EitherWay DEF SoundInv
<1>6. CASE refused[p] \/ poll[p]
  <2>1. /\ \A u \in Threads \ {t} : pc'[u] = pc[u] /\ arg'[u] = arg[u]
        /\ \A q \in Pids \ {p} : mutex'[q] = mutex[q]
        /\ pc'[t] \in {"idle", "unlink"}
        /\ pc'[t] = "idle" => arg'[t] = NoService /\ ~mutex'[p]
        /\ pc'[t] = "unlink" => arg'[t] # NoService /\ mutex'[p] /\ arg'[t] = arg[t]
    BY <1>1, <1>4, <1>6, LaunchedFacts DEF LaunchCreated
  <2>2. ThreadState(t)'
    BY <1>1, <1>2, <1>4, <2>1 DEF ThreadState
  <2>3. ASSUME \A label : label # "idle" => (At(p, label)' <=> pc'[t] = label) PROVE HandleInv(p)'
    <3>1. \A label \in {"assign", "created", "spawn", "join"} : ~At(p, label)'
      BY <2>1, <2>3
    <3>2. mutex'[p] => \E u \in ThreadsOf(p) : arg'[u] # NoService
      BY <2>1 DEF ThreadsOf
    <3>3. mutex'[p] => (\E u \in ThreadsOf(p) : arg[u] # NoService)'
      BY <3>2 DEF ThreadsOf
    <3>4. CASE refused[p]
      <4>1. RefusedInv(p)
        BY <1>1, <3>4, EitherWay
      <4> QED  BY <1>1, <1>2, <1>4, <3>3, <3>4, <4>1, RefusedKept
    <3>5. CASE ~refused[p]
      BY <1>1, <1>2, <1>4, <1>5, <1>6, <3>1, <3>3, <3>5 DEF HandleInv, SoundInv, Quiet
    <3> QED  BY <3>4, <3>5
  <2>4. ClaimInv'
    BY <1>2, <2>1, ClaimKept
  <2> QED  BY <1>1, <1>2, <1>3, <2>1, <2>2, <2>3, <2>4, AppLocal
<1>7. CASE ~refused[p] /\ ~poll[p]
  <2>1. /\ pc'[t] = "spawn" /\ (\A u \in Threads \ {t} : pc'[u] = pc[u])
        /\ UNCHANGED <<arg, mutex>>
    BY <1>4, <1>7 DEF LaunchCreated, Goto, LifeInv, TypeInv
  <2>2. ThreadState(t)'
    BY <1>1, <1>2, <1>3, <1>4, <1>7, <2>1 DEF ThreadState
  <2>3. ASSUME \A label : label # "idle" => (At(p, label)' <=> pc'[t] = label) PROVE HandleInv(p)'
    <3>1. At(p, "spawn")' /\ ~At(p, "created")' /\ ~At(p, "join")'
      BY <2>1, <2>3
    <3> QED
      BY <1>1, <1>2, <1>3, <1>4, <1>5, <1>7, <2>1, <3>1 DEF HandleInv, SoundInv, Quiet, ThreadsOf
  <2>4. ClaimInv'
    BY <1>2, <2>1, ClaimKept
  <2> QED  BY <1>1, <1>2, <1>3, <2>1, <2>2, <2>3, <2>4, AppLocal
<1> QED  BY <1>6, <1>7

(* The A-Bus thread is the first of its handle.                            *)
LEMMA LaunchThreadStep ==
  ASSUME LifeInv, TypeInv', NEW t \in Threads, LaunchThread(t)
  PROVE  LifeInv'
<1> DEFINE p == Owner[t]
<1>1. pc[t] = "spawn" /\ life[p] = "up" /\ p \in Pids
  BY LifecycleAssumption DEF LaunchThread, Ready
<1>2. ThreadState(t) /\ HandleInv(p)
  BY <1>1 DEF LifeInv
<1>3. sock[p] = "fd" /\ At(p, "spawn") /\ ~refused[p]
  BY <1>1, <1>2, Sole DEF ThreadState
<1>4. SoundInv(p) /\ Quiet(p) /\ table[p] = {} /\ node[p] /\ open[p] /\ ~poll[p]
  BY <1>1, <1>3, EitherWay DEF SoundInv
<1>5. /\ \A u \in Threads \ {t} : pc'[u] = pc[u] /\ arg'[u] = arg[u]
      /\ \A q \in Pids \ {p} : mutex'[q] = mutex[q]
      /\ pc'[t] \in {"idle", "unlink"}
      /\ pc'[t] = "idle" => arg'[t] = NoService /\ ~mutex'[p]
      /\ pc'[t] = "unlink" => arg'[t] # NoService /\ mutex'[p] /\ arg'[t] = arg[t]
  BY <1>1, LaunchedFacts DEF LaunchThread
<1>6. UNCHANGED <<node, link, life, sock, open, poll, table, cancel, got, refused, fault>>
  BY DEF LaunchThread, files, errs
<1>7. handle'[p] = 1 /\ srv'[p][1] = "loop" /\ srv'[p][2] = "none"
      /\ \A q \in Pids \ {p} : handle'[q] = handle[q] /\ srv'[q] = srv[q]
  BY <1>1, <1>4 DEF LaunchThread, Quiet, LifeInv, TypeInv, Slots
<1>8. ThreadState(t)'
  BY <1>1, <1>3, <1>5, <1>6 DEF ThreadState
<1>9. ASSUME \A label : label # "idle" => (At(p, label)' <=> pc'[t] = label) PROVE HandleInv(p)'
  <2>1. \A label \in {"assign", "created", "spawn", "join"} : ~At(p, label)'
    BY <1>5, <1>9
  <2>2. mutex'[p] => \E u \in ThreadsOf(p) : arg'[u] # NoService
    BY <1>5 DEF ThreadsOf
  <2>3. Serving(p)'
    BY <1>4, <1>6, <1>7 DEF Serving, Quiet, Runs
  <2> QED
    BY <1>1, <1>2, <1>3, <1>4, <1>6, <2>1, <2>2, <2>3 DEF HandleInv, SoundInv, ThreadsOf
<1>10. ClaimInv'
  BY <1>5, <1>6, ClaimKept
<1> QED  BY <1>1, <1>2, <1>5, <1>6, <1>7, <1>8, <1>9, <1>10, AppLocal

(* A handle that is refused a thread keeps its socket.                     *)
LEMMA ThreadRefusedStep ==
  ASSUME LifeInv, TypeInv', NEW t \in Threads, ThreadRefused(t)
  PROVE  LifeInv'
<1> DEFINE p == Owner[t]
<1>1. pc[t] = "spawn" /\ life[p] = "up" /\ p \in Pids
  BY LifecycleAssumption DEF ThreadRefused, Ready
<1>2. ThreadState(t) /\ HandleInv(p)
  BY <1>1 DEF LifeInv
<1>3. sock[p] = "fd" /\ At(p, "spawn") /\ ~refused[p]
  BY <1>1, <1>2, Sole DEF ThreadState
<1>4. Quiet(p)
  BY <1>1, <1>3, EitherWay DEF SoundInv
<1>5. /\ \A u \in Threads \ {t} : pc'[u] = pc[u] /\ arg'[u] = arg[u]
      /\ \A q \in Pids \ {p} : mutex'[q] = mutex[q]
      /\ pc'[t] = "idle" /\ arg'[t] = NoService /\ ~mutex'[p]
  <2>1. Return(t)
    BY DEF ThreadRefused
  <2>2. pc'[t] = "idle"
    BY <2>1 DEF Return, Goto, LifeInv, TypeInv
  <2> QED  BY <1>1, <2>1, <2>2, LaunchedFacts
<1>6. UNCHANGED <<node, link, life, sock, open, poll, table, handle, cancel, srv, got, fault>>
  BY DEF ThreadRefused, files, abus
<1>7. refused'[p] /\ \A q \in Pids \ {p} : refused'[q] = refused[q]
  <2>1. refused \in [Pids -> BOOLEAN] /\ refused' = [refused EXCEPT ![p] = TRUE]
    BY DEF ThreadRefused, LifeInv, TypeInv
  <2> QED  BY ONLY <1>1, <2>1, ExceptValue
<1>8. ThreadState(t)'
  BY <1>5 DEF ThreadState
<1>9. HandleInv(p)'
  BY <1>1, <1>3, <1>4, <1>5, <1>6, <1>7 DEF HandleInv, RefusedInv, Quiet
<1>10. ClaimInv'
  BY <1>5, <1>6, ClaimKept
<1> QED  BY <1>1, <1>5, <1>6, <1>7, <1>8, <1>9, <1>10, AppLocal

(* The path that a declaration removes leads to no provider.               *)
LEMMA UnlinkStep ==
  ASSUME LifeInv, TypeInv', NEW t \in Threads, create_unlink(t)
  PROVE  LifeInv'
<1> DEFINE p == Owner[t]
<1>1. pc[t] = "unlink" /\ life[p] = "up" /\ p \in Pids
  BY LifecycleAssumption DEF create_unlink, Ready
<1>2. ThreadState(t) /\ HandleInv(p) /\ ClaimInv /\ TypeInv
  BY <1>1 DEF LifeInv
<1>3. sock[p] # "-1" /\ \A label \in {"created", "spawn", "join"} : ~At(p, label)
  BY <1>1, <1>2, Sole DEF ThreadState
<1>4. /\ pc'[t] = "symlink" /\ (\A u \in Threads \ {t} : pc'[u] = pc[u])
      /\ UNCHANGED <<node, life, sock, open, poll, table, handle, cancel, mutex, srv, arg, got,
                     refused, fault>>
  BY <1>2 DEF create_unlink, Goto, TypeInv, abus, errs
<1>5. \A s \in Services : link'[s] = IF s = arg[t] THEN NoPid ELSE link[s]
  BY <1>2 DEF create_unlink, TypeInv
<1>6. ThreadState(t)'
  BY <1>1, <1>2, <1>3, <1>4 DEF ThreadState
<1>7. ASSUME \A label : label # "idle" => (At(p, label)' <=> pc'[t] = label) PROVE HandleInv(p)'
  <2>1. \A label \in {"created", "spawn", "join"} : ~At(p, label)'
    BY <1>4, <1>7
  <2>2. mutex'[p] => (\E u \in ThreadsOf(p) : arg[u] # NoService)'
    BY <1>2, <1>4 DEF HandleInv, ThreadsOf
  <2>3. CASE refused[p]
    <3>1. RefusedInv(p)
      BY <1>1, <2>3, EitherWay
    <3> QED  BY <1>1, <1>3, <1>4, <2>2, <2>3, <3>1, RefusedKept
  <2>4. CASE ~refused[p]
    <3>1. SoundInv(p)
      BY <1>1, <2>4, EitherWay
    <3>2. SoundInv(p)'
      BY <1>1, <1>3, <1>4, <2>1, <3>1 DEF SoundInv, Quiet, Serving, Stopped, Runs
    <3> QED  BY <1>4, <2>2, <2>4, <3>2 DEF HandleInv
  <2> QED  BY <2>3, <2>4
<1>8. ClaimInv'
  <2>1. \A q \in Pids : table[q] \subseteq Services /\ arg[t] \notin table[q] /\ q # NoPid
    BY <1>2, LifecycleAssumption DEF ClaimInv, TypeInv
  <2>2. \A q \in Pids : \A s \in table[q] : link'[s] = q
    BY <1>2, <1>5, <2>1 DEF ClaimInv
  <2>3. \A q \in Pids : \A s \in Services : link'[s] = q /\ life[q] # "dead" => s \in table[q]
    BY <1>2, <1>5, <2>1 DEF ClaimInv
  <2> QED  BY <1>2, <1>4, <2>2, <2>3 DEF ClaimInv
<1> QED  BY <1>1, <1>2, <1>4, <1>6, <1>7, <1>8, AppLocal

(* The service enters the table together with its path.                    *)
LEMMA SymlinkStep ==
  ASSUME LifeInv, TypeInv', NEW t \in Threads, create_symlink(t)
  PROVE  LifeInv'
<1> DEFINE p == Owner[t]
           s == arg[t]
<1>1. pc[t] = "symlink" /\ life[p] = "up" /\ p \in Pids
  BY LifecycleAssumption DEF create_symlink, Ready
<1>2. ThreadState(t) /\ HandleInv(p) /\ ClaimInv /\ TypeInv
  BY <1>1 DEF LifeInv
<1>3. sock[p] # "-1" /\ \A label \in {"created", "spawn", "join"} : ~At(p, label)
  BY <1>1, <1>2, Sole DEF ThreadState
<1>4. s \in Services
  BY <1>1, <1>2 DEF ThreadState, TypeInv
<1>5. /\ \A u \in Threads \ {t} : pc'[u] = pc[u] /\ arg'[u] = arg[u]
      /\ \A q \in Pids \ {p} : mutex'[q] = mutex[q]
      /\ pc'[t] = "idle" /\ arg'[t] = NoService /\ ~mutex'[p]
  <2>1. Return(t)
    BY DEF create_symlink
  <2>2. pc'[t] = "idle"
    BY <1>2, <2>1 DEF Return, Goto, TypeInv
  <2> QED  BY <1>1, <2>1, <2>2, LaunchedFacts
<1>6. UNCHANGED <<node, life, sock, open, poll, handle, cancel, srv, got, refused, fault>>
  BY DEF create_symlink, errs
<1>7. \A q \in Pids \ {p} : table'[q] = table[q]
  BY <1>1, <1>2 DEF create_symlink, TypeInv
<1>8. ThreadState(t)'
  BY <1>5 DEF ThreadState
<1>9. ASSUME \A label : label # "idle" => (At(p, label)' <=> pc'[t] = label) PROVE HandleInv(p)'
  <2>1. \A label \in {"created", "spawn", "join"} : ~At(p, label)'
    BY <1>5, <1>9
  <2>2. mutex'[p] => (\E u \in ThreadsOf(p) : arg[u] # NoService)'
    BY <1>5 DEF HandleInv, ThreadsOf
  <2>3. CASE refused[p]
    <3>1. RefusedInv(p)
      BY <1>1, <2>3, EitherWay
    <3> QED  BY <1>1, <1>3, <1>6, <2>2, <2>3, <3>1, RefusedKept
  <2>4. CASE ~refused[p]
    <3>1. SoundInv(p)
      BY <1>1, <2>4, EitherWay
    <3>2. SoundInv(p)'
      BY <1>1, <1>3, <1>6, <2>1, <3>1 DEF SoundInv, Quiet, Serving, Stopped, Runs
    <3> QED  BY <1>6, <2>2, <2>4, <3>2 DEF HandleInv
  <2> QED  BY <2>3, <2>4
<1>10. ClaimInv'
  <2>1. CASE UNCHANGED <<link, table>>
    BY <1>5, <1>6, <2>1, ClaimKept
  <2>2. CASE link[s] = NoPid
    <3>1. /\ \A r \in Services : link'[r] = IF r = s THEN p ELSE link[r]
          /\ table'[p] = table[p] \union {s}
      BY <1>1, <1>2, <1>4, <2>2 DEF create_symlink, TypeInv
    <3>2. \A u \in Threads : arg'[u] # s
      <4> SUFFICES ASSUME NEW u \in Threads, arg'[u] = s PROVE FALSE
        OBVIOUS
      <4>1. u # t /\ arg[u] = s /\ s # NoService
        BY <1>1, <1>2, <1>4, <1>5, LifecycleAssumption
      <4>2. Owner[u] = p
        BY <1>2, <4>1 DEF ClaimInv
      <4> QED  BY <1>1, <1>4, <4>1, <4>2, Sole DEF ThreadsOf
    <3>3. \A q \in Pids : s \notin table[q] /\ table[q] \subseteq Services /\ q # NoPid
                          /\ NoService \notin table'[q]
      BY <1>2, <1>4, <1>7, <3>1, LifecycleAssumption DEF ClaimInv, TypeInv
    <3>4. \A u \in Threads : \A q \in Pids : arg'[u] \notin table'[q]
      BY <1>2, <1>5, <1>7, <3>1, <3>2, <3>3 DEF ClaimInv
    <3>5. \A u, v \in Threads : arg'[u] = arg'[v] /\ arg'[u] # NoService => Owner[u] = Owner[v]
      BY <1>2, <1>5 DEF ClaimInv
    <3>6. \A q, r \in Pids : \A x \in Services : x \in table'[q] /\ x \in table'[r] => q = r
      BY <1>2, <1>7, <3>1, <3>3 DEF ClaimInv
    <3>7. ASSUME NEW q \in Pids, NEW x \in table'[q] PROVE link'[x] = q
      <4>1. CASE x = s
        BY <1>4, <1>7, <3>1, <3>3, <4>1
      <4>2. CASE x # s
        <5>1. x \in table[q]
          BY <1>7, <3>1, <3>7, <4>2
        <5>2. x \in Services /\ link[x] = q
          BY <1>2, <3>3, <5>1 DEF ClaimInv
        <5> QED  BY <3>1, <4>2, <5>2
      <4> QED  BY <4>1, <4>2
    <3>8. \A q \in Pids : \A x \in Services : link'[x] = q /\ life'[q] # "dead" => x \in table'[q]
      BY <1>2, <1>6, <1>7, <3>1 DEF ClaimInv
    <3> QED  BY <3>4, <3>5, <3>6, <3>7, <3>8 DEF ClaimInv
  <2> QED  BY <2>1, <2>2 DEF create_symlink
<1> QED  BY <1>1, <1>2, <1>5, <1>6, <1>7, <1>8, <1>9, <1>10, AppLocal

(* abus_set_conf() stops a thread that is there.                           *)
LEMMA SetConfStep ==
  ASSUME LifeInv, TypeInv', NEW t \in Threads, NEW polls \in BOOLEAN, SetConf(t, polls),
         "race" \notin Allowed, "fall" \notin Allowed
  PROVE  LifeInv'
<1> DEFINE p == Owner[t]
<1>1. Idle(p) /\ pc[t] = "idle" /\ life[p] = "up" /\ p \in Pids /\ polls /\ ~poll[p]
  <2>1. Idle(p) /\ pc[t] = "idle" /\ life[p] = "up" /\ p \in Pids
    BY LifecycleAssumption DEF SetConf, Ready
  <2>2. polls /\ poll[p] # polls
    BY DEF SetConf
  <2>3. poll[p] \in BOOLEAN
    BY <2>1 DEF LifeInv, TypeInv
  <2> QED  BY <2>1, <2>2, <2>3
<1>2. /\ ThreadState(t) /\ HandleInv(p) /\ TypeInv
      /\ mutex[p] => \E u \in ThreadsOf(p) : arg[u] # NoService
  BY <1>1 DEF LifeInv, HandleInv
<1>3. \A label \in {"assign", "created", "spawn", "join"} : ~At(p, label)
  BY <1>1, Sole
<1>4. poll'[p] /\ \A q \in Pids \ {p} : poll'[q] = poll[q]
  <2>1. poll \in [Pids -> BOOLEAN] /\ poll' = [poll EXCEPT ![p] = polls]
    BY <1>2 DEF SetConf, TypeInv
  <2>2. poll'[p] = polls /\ \A q \in Pids \ {p} : poll'[q] = poll[q]
    BY ONLY <1>1, <2>1, ExceptValue
  <2> QED  BY ONLY <1>1, <2>2
<1>5. UNCHANGED <<node, link, life, sock, open, table, handle, mutex, srv, arg, got, refused>>
  BY DEF SetConf, files
<1>6. ClaimInv'
  BY <1>5, ClaimKept
<1>7. CASE sock[p] = "-1"
  <2>1. UNCHANGED <<cancel, fault, pc>>
    BY <1>7 DEF SetConf
  <2>2. ThreadState(t)'
    BY <1>2, <1>5, <2>1 DEF ThreadState
  <2>3. ASSUME \A label : label # "idle" => (At(p, label)' <=> pc'[t] = label) PROVE HandleInv(p)'
    <3>1. ~At(p, "assign")'
      BY <1>1, <2>1, <2>3
    <3>2. ~refused[p] /\ SoundInv(p)
      BY <1>1, <1>3, <1>7, NotRefused
    <3> QED
      BY <1>1, <1>2, <1>3, <1>5, <1>7, <2>1, <3>1, <3>2 DEF HandleInv, SoundInv, Quiet, ThreadsOf
  <2> QED  BY <1>1, <1>2, <1>4, <1>5, <1>6, <2>1, <2>2, <2>3, AppLocal
<1>8. CASE sock[p] # "-1"
  <2>1. ASSUME ~refused[p]
        PROVE  SoundInv(p) /\ Serving(p) /\ node[p] /\ open[p] /\ sock[p] = "fd"
    <3>1. SoundInv(p) /\ sock[p] = "fd"
      BY <1>1, <1>2, <1>8, <2>1, EitherWay DEF SoundInv, TypeInv
    <3> QED  BY <1>1, <1>3, <3>1 DEF SoundInv
  <2>2. ThreadCancel(p) /\ Goto(t, "join")
    BY <1>1, <1>8 DEF SetConf
  <2>3. pc'[t] = "join" /\ (\A u \in Threads \ {t} : pc'[u] = pc[u])
    BY <1>2, <2>2 DEF Goto, TypeInv
  <2>4. cancel'[p] /\ (\A q \in Pids \ {p} : cancel'[q] = cancel[q])
    <3>1. cancel \in [Pids -> BOOLEAN] /\ cancel' = [cancel EXCEPT ![p] = TRUE]
      BY <1>2, <2>2 DEF ThreadCancel, TypeInv
    <3> QED  BY ONLY <1>1, <3>1, ExceptValue
  <2>5. /\ \A q \in Pids \ {p} : fault'[q] = fault[q]
        /\ ~refused[p] => ~fault'[p]
    <3>1. /\ fault \in [Pids -> BOOLEAN]
          /\ fault' = [fault EXCEPT ![p] = fault[p] \/ handle[p] \notin Slots]
      BY <1>2, <2>2 DEF ThreadCancel, TypeInv
    <3>2. /\ fault'[p] = (fault[p] \/ handle[p] \notin Slots)
          /\ \A q \in Pids \ {p} : fault'[q] = fault[q]
      BY ONLY <1>1, <3>1, ExceptValue
    <3>3. ASSUME ~refused[p] PROVE handle[p] \in Slots /\ ~fault[p]
      BY <2>1, <3>3 DEF Serving, Slots, SoundInv
    <3> QED  BY ONLY <3>2, <3>3
  <2>6. ThreadState(t)'
    BY <1>1, <1>2, <1>5, <1>8, <2>3 DEF ThreadState
  <2>7. ASSUME \A label : label # "idle" => (At(p, label)' <=> pc'[t] = label) PROVE HandleInv(p)'
    <3>1. At(p, "join")' /\ ~At(p, "created")' /\ ~At(p, "spawn")'
      BY <2>3, <2>7
    <3>2. mutex'[p] => (\E u \in ThreadsOf(p) : arg[u] # NoService)'
      BY <1>2, <1>5 DEF ThreadsOf
    <3>3. CASE refused[p]
      <4>1. RefusedInv(p)
        BY <1>1, <3>3, EitherWay
      <4> QED  BY <1>1, <1>5, <1>8, <3>2, <3>3, <4>1, RefusedKept
    <3>4. CASE ~refused[p]
      <4>1. Stopping(p)'
        BY <1>5, <2>1, <2>4, <3>4 DEF Stopping, Serving, Runs
      <4>2. SoundInv(p)'
        BY <1>1, <1>4, <1>5, <2>1, <2>5, <3>1, <3>4, <4>1 DEF SoundInv
      <4> QED  BY <1>5, <3>2, <3>4, <4>2 DEF HandleInv
    <3> QED  BY <3>3, <3>4
  <2> QED  BY <1>1, <1>2, <1>4, <1>5, <1>6, <2>3, <2>4, <2>5, <2>6, <2>7, AppLocal
<1> QED  BY <1>7, <1>8

(* It joins the thread once.                                               *)
LEMMA SetConfJoinStep ==
  ASSUME LifeInv, TypeInv', NEW t \in Threads, SetConfJoin(t)
  PROVE  LifeInv'
<1> DEFINE p == Owner[t]
<1>1. pc[t] = "join" /\ life[p] = "up" /\ p \in Pids /\ ThreadJoin(p)
  BY LifecycleAssumption DEF SetConfJoin, Ready
<1>2. ThreadState(t) /\ HandleInv(p) /\ TypeInv
  BY <1>1 DEF LifeInv
<1>11. ~refused[p] /\ SoundInv(p)
  BY <1>1, EitherWay DEF RefusedInv, ThreadJoin, Slots
<1>3. sock[p] = "fd" /\ At(p, "join") /\ arg[t] = NoService
  <2>1. sock[p] # "-1" /\ arg[t] = NoService
    BY <1>1, <1>2 DEF ThreadState
  <2>2. At(p, "join")
    BY <1>1, Sole
  <2>3. sock[p] \in {"-1", "fd"}
    BY <1>1, <1>2, <1>11 DEF SoundInv, TypeInv
  <2> QED  BY <2>1, <2>2, <2>3
<1>4. Stopping(p) /\ poll[p] /\ node[p] /\ open[p]
  BY <1>1, <1>3, <1>11 DEF SoundInv
<1>5. /\ pc'[t] = "idle" /\ (\A u \in Threads \ {t} : pc'[u] = pc[u])
      /\ handle'[p] = Joined /\ (\A q \in Pids \ {p} : handle'[q] = handle[q])
      /\ UNCHANGED <<node, link, life, sock, open, poll, table, mutex, srv, arg, got, refused, fault>>
  BY <1>1, <1>2 DEF SetConfJoin, ThreadJoin, Goto, TypeInv, files, errs
<1>6. ~cancel'[p] /\ (\A q \in Pids \ {p} : cancel'[q] = cancel[q])
  <2>1. cancel \in [Pids -> BOOLEAN] /\ cancel' = [cancel EXCEPT ![p] = FALSE]
    BY <1>1, <1>2 DEF ThreadJoin, TypeInv
  <2> QED  BY ONLY <1>1, <2>1, ExceptValue
<1>7. Stopped(p)'
  BY <1>1, <1>4, <1>5, <1>6 DEF Stopped, Stopping, ThreadJoin
<1>8. ThreadState(t)'
  BY <1>2, <1>3, <1>5 DEF ThreadState
<1>9. ASSUME \A label : label # "idle" => (At(p, label)' <=> pc'[t] = label) PROVE HandleInv(p)'
  <2>1. \A label \in {"created", "spawn", "join"} : ~At(p, label)'
    BY <1>5, <1>9
  <2> QED  BY <1>1, <1>2, <1>3, <1>4, <1>5, <1>7, <1>11, <2>1 DEF HandleInv, SoundInv, ThreadsOf
<1>10. ClaimInv'
  BY <1>5, ClaimKept
<1> QED  BY <1>1, <1>2, <1>5, <1>6, <1>8, <1>9, <1>10, AppLocal

-----------------------------------------------------------------------------
(* Steps of the A-Bus thread and of abus_cleanup() *)

(* What is left to show of a step that moves no thread of the application. *)
LEMMA HandleLocal ==
  ASSUME LifeInv, TypeInv', NEW p \in Pids, UNCHANGED <<pc, arg, got, mutex>>,
         \A q \in Pids \ {p} :
           /\ node'[q] = node[q] /\ life'[q] = life[q] /\ sock'[q] = sock[q]
           /\ open'[q] = open[q] /\ poll'[q] = poll[q] /\ table'[q] = table[q]
           /\ srv'[q] = srv[q] /\ handle'[q] = handle[q] /\ cancel'[q] = cancel[q]
           /\ refused'[q] = refused[q] /\ fault'[q] = fault[q],
         Idle(p) \/ (life'[p] = life[p] /\ sock'[p] = sock[p] /\ refused'[p] = refused[p]),
         ((\A label : At(p, label)' <=> At(p, label)) /\
          (mutex'[p] => (\E t \in ThreadsOf(p) : arg[t] # NoService)'))
         => HandleInv(p)',
         ClaimInv'
  PROVE  LifeInv'
<1>1. \A label : At(p, label)' <=> At(p, label)
  BY DEF At, ThreadsOf
<1>2. mutex'[p] => (\E t \in ThreadsOf(p) : arg[t] # NoService)'
  BY DEF LifeInv, HandleInv, ThreadsOf
<1>3. Apart(p)
  BY DEF Apart
<1>4. ASSUME NEW t \in ThreadsOf(p) PROVE Alone(t)' /\ ThreadState(t)'
  <2>1. t \in Threads /\ Owner[t] = p /\ Alone(t) /\ ThreadState(t)
    BY DEF ThreadsOf, LifeInv
  <2>2. Alone(t)'
    BY <2>1 DEF Alone, ThreadsOf
  <2>3. ThreadState(t)'
    BY <2>1 DEF ThreadState, Idle
  <2> QED  BY <2>2, <2>3
<1> QED  BY <1>1, <1>2, <1>3, <1>4, Local

(* The A-Bus thread goes on until it is told to stop.                      *)
LEMMA SrvStep ==
  ASSUME LifeInv, TypeInv', NEW p \in Pids, NEW k \in Slots,
         SrvLoop(p, k) \/ SrvReceive(p, k) \/ SrvDone(p, k) \/ SrvCancelled(p, k)
  PROVE  LifeInv'
<1>1. HandleInv(p) /\ TypeInv
  BY DEF LifeInv
<1>2. UNCHANGED <<node, link, life, sock, open, poll, table, handle, cancel, mutex, pc, arg, got,
                  refused, fault>>
  BY DEF SrvLoop, SrvReceive, SrvDone, SrvCancelled, files, abus, locals, errs
<1>3. srv[p][k] \in {"loop", "recv", "callback"}
  BY DEF SrvLoop, SrvReceive, SrvDone, SrvCancelled
<1>13. ~refused[p] /\ SoundInv(p)
  BY <1>3, EitherWay DEF RefusedInv, Slots
<1>4. life[p] \in {"dead", "up", "stop", "remove"} /\ sock[p] \in {"-1", "fd"}
  BY <1>1, <1>13 DEF TypeInv, SoundInv
<1>5. \/ Stopping(p)
      \/ /\ Serving(p) /\ life[p] = "up" /\ sock[p] = "fd" /\ ~poll[p]
         /\ ~At(p, "created") /\ ~At(p, "spawn") /\ ~At(p, "join")
  BY <1>13, <1>3, <1>4 DEF SoundInv, Quiet, Stopped, Slots
<1>6. k = 1 /\ srv[p][2] = "none" /\ handle[p] = 1
  BY <1>3, <1>5 DEF Stopping, Serving, Slots
<1>7. PICK v \in {"loop", "recv", "callback", "ended"} :
        /\ srv' = [srv EXCEPT ![p][k] = v]
        /\ v = "ended" => cancel[p] \/ poll[p] \/ sock[p] # "fd"
  BY DEF SrvLoop, SrvReceive, SrvDone, SrvCancelled
<1>8. /\ srv'[p][1] = v /\ srv'[p][2] = "none"
      /\ \A q \in Pids \ {p} : srv'[q] = srv[q]
  BY <1>1, <1>6, <1>7 DEF TypeInv, Slots
<1>9. Stopping(p) => Stopping(p)'
  BY <1>2, <1>7, <1>8 DEF Stopping, Runs
<1>10. Serving(p) /\ sock[p] = "fd" /\ ~poll[p] => Serving(p)'
  BY <1>2, <1>7, <1>8 DEF Serving, Runs
<1>11. ASSUME \A label : At(p, label)' <=> At(p, label),
              mutex'[p] => (\E t \in ThreadsOf(p) : arg[t] # NoService)'
       PROVE  HandleInv(p)'
  <2>1. CASE Serving(p) /\ life[p] = "up" /\ sock[p] = "fd" /\ ~poll[p]
             /\ ~At(p, "created") /\ ~At(p, "spawn") /\ ~At(p, "join")
    BY <1>13, <1>2, <1>10, <1>11, <2>1 DEF HandleInv, SoundInv
  <2>2. CASE Stopping(p)
    <3>1. ~Quiet(p) /\ ~Serving(p) /\ ~Stopped(p) /\ Stopping(p)'
      BY <1>9, <2>2 DEF Stopping, Quiet, Serving, Stopped
    <3>2. life[p] = "stop" \/ (life[p] = "up" /\ sock[p] = "fd" /\ At(p, "join"))
      <4>1. life[p] # "dead" /\ ~(life[p] = "up" /\ sock[p] = "-1")
        BY <1>13, <3>1 DEF SoundInv
      <4>2. life[p] # "remove"
        BY <1>13, <1>3, <1>6 DEF SoundInv
      <4>3. life[p] = "up" /\ sock[p] = "fd" => At(p, "join")
        BY <1>13, <3>1 DEF SoundInv
      <4> QED  BY <1>4, <4>1, <4>2, <4>3
    <3> QED  BY <1>13, <1>2, <1>11, <3>1, <3>2 DEF HandleInv, SoundInv
  <2> QED  BY <1>5, <2>1, <2>2
<1>12. ClaimInv'
  BY <1>2, ClaimKept
<1> QED  BY <1>1, <1>2, <1>8, <1>11, <1>12, HandleLocal

(* abus_cleanup() cancels a thread that is there.                          *)
LEMMA CleanupStep ==
  ASSUME LifeInv, TypeInv', NEW p \in Pids, abus_cleanup(p), "poll" \notin Allowed
  PROVE  LifeInv'
<1>1. HandleInv(p) /\ TypeInv /\ life[p] = "up" /\ Idle(p) /\ ~poll[p]
  BY DEF LifeInv, abus_cleanup
<1>2. UNCHANGED <<node, link, sock, open, poll, table, handle, mutex, srv, pc, arg, got, refused>>
  BY DEF abus_cleanup, files, locals, errs
<1>3. \A label : label # "idle" => ~At(p, label)
  BY <1>1 DEF At, Idle
<1>5. CASE sock[p] = "-1"
  <2>1. UNCHANGED <<cancel, fault>>
    BY <1>5 DEF abus_cleanup
  <2>2. life'[p] = "remove" /\ \A q \in Pids \ {p} : life'[q] = life[q]
    BY <1>1, <1>5 DEF abus_cleanup, TypeInv
  <2>3. /\ ~refused[p] /\ SoundInv(p)
        /\ Quiet(p) /\ table[p] = {} /\ ~node[p] /\ ~open[p]
    BY <1>1, <1>3, <1>5, NotRefused DEF SoundInv
  <2>4. ASSUME mutex'[p] => (\E t \in ThreadsOf(p) : arg[t] # NoService)' PROVE HandleInv(p)'
    BY <2>4, <1>2, <1>5, <2>1, <2>2, <2>3 DEF HandleInv, SoundInv, Quiet
  <2>5. ClaimInv'
    BY <1>1, <1>2, <2>2, ClaimKept
  <2> QED  BY <1>1, <1>2, <2>1, <2>2, <2>4, <2>5, HandleLocal
<1>6. CASE sock[p] # "-1"
  <2>1. ASSUME ~refused[p] PROVE SoundInv(p) /\ Serving(p) /\ sock[p] = "fd"
    <3>1. SoundInv(p) /\ sock[p] = "fd"
      BY <1>1, <1>6, <2>1, EitherWay DEF SoundInv, TypeInv
    <3> QED  BY <1>1, <1>3, <3>1 DEF SoundInv
  <2>2. ThreadCancel(p)
    BY <1>6 DEF abus_cleanup
  <2>3. life'[p] = "stop" /\ \A q \in Pids \ {p} : life'[q] = life[q]
    BY <1>1, <1>6 DEF abus_cleanup, TypeInv
  <2>4. cancel'[p] /\ (\A q \in Pids \ {p} : cancel'[q] = cancel[q])
    <3>1. cancel \in [Pids -> BOOLEAN] /\ cancel' = [cancel EXCEPT ![p] = TRUE]
      BY <1>1, <2>2 DEF ThreadCancel, TypeInv
    <3> QED  BY ONLY <3>1, ExceptValue
  <2>5. /\ \A q \in Pids \ {p} : fault'[q] = fault[q]
        /\ ~refused[p] => ~fault'[p]
    <3>1. /\ fault \in [Pids -> BOOLEAN]
          /\ fault' = [fault EXCEPT ![p] = fault[p] \/ handle[p] \notin Slots]
      BY <1>1, <2>2 DEF ThreadCancel, TypeInv
    <3>2. /\ fault'[p] = (fault[p] \/ handle[p] \notin Slots)
          /\ \A q \in Pids \ {p} : fault'[q] = fault[q]
      BY ONLY <3>1, ExceptValue
    <3>3. ASSUME ~refused[p] PROVE handle[p] \in Slots /\ ~fault[p]
      BY <2>1, <3>3 DEF Serving, Slots, SoundInv
    <3> QED  BY ONLY <3>2, <3>3
  <2>7. ASSUME mutex'[p] => (\E t \in ThreadsOf(p) : arg[t] # NoService)' PROVE HandleInv(p)'
    <3>1. CASE refused[p]
      <4>1. RefusedInv(p)
        BY <3>1, EitherWay
      <4> QED  BY <1>2, <1>6, <2>3, <2>7, <3>1, <4>1, RefusedKept
    <3>2. CASE ~refused[p]
      <4>1. Stopping(p)'
        BY <1>2, <2>1, <2>4, <3>2 DEF Stopping, Serving, Runs
      <4>2. SoundInv(p)'
        BY <1>2, <2>1, <2>3, <2>5, <3>2, <4>1 DEF SoundInv
      <4> QED  BY <1>2, <2>7, <3>2, <4>2 DEF HandleInv
    <3> QED  BY <3>1, <3>2
  <2>8. ClaimInv'
    BY <1>1, <1>2, <2>3, ClaimKept
  <2> QED  BY <1>1, <1>2, <2>3, <2>4, <2>5, <2>7, <2>8, HandleLocal
<1> QED  BY <1>5, <1>6

(* Threads of a handle that is not up are idle.                            *)
LEMMA IdleUnlessUp ==
  ASSUME LifeInv, NEW p \in Pids, life[p] # "up"
  PROVE  /\ Idle(p) /\ \A t \in ThreadsOf(p) : arg[t] = NoService
         /\ \A label : label # "idle" => ~At(p, label)
<1>1. ASSUME NEW t \in ThreadsOf(p) PROVE pc[t] = "idle" /\ arg[t] = NoService
  BY DEF LifeInv, ThreadState, ThreadsOf
<1> QED  BY <1>1 DEF Idle, At

(* The socket goes with its file, once the thread is joined.               *)
LEMMA CloseStep ==
  ASSUME LifeInv, TypeInv', NEW p \in Pids, un_sock_close(p)
  PROVE  LifeInv'
<1>1. HandleInv(p) /\ TypeInv /\ life[p] = "stop" /\ ThreadJoin(p)
  BY DEF LifeInv, un_sock_close
<1>10. ~refused[p] /\ SoundInv(p)
  BY <1>1, EitherWay DEF RefusedInv, ThreadJoin, Slots
<1>2. Stopping(p) /\ srv[p][1] = "ended" /\ Idle(p)
  BY <1>1, <1>10, IdleUnlessUp DEF SoundInv, Stopping, ThreadJoin
<1>3. UNCHANGED <<link, poll, table, mutex, srv, pc, arg, got, refused, fault>>
  BY DEF un_sock_close, locals, errs
<1>4. /\ life'[p] = "remove" /\ (\A q \in Pids \ {p} : life'[q] = life[q])
      /\ sock'[p] = "-1" /\ (\A q \in Pids \ {p} : sock'[q] = sock[q])
      /\ \A q \in Pids \ {p} : handle'[q] = handle[q]
  BY <1>1 DEF un_sock_close, ThreadJoin, TypeInv
<1>5. ~open'[p] /\ \A q \in Pids \ {p} : open'[q] = open[q]
  <2>1. open \in [Pids -> BOOLEAN] /\ open' = [open EXCEPT ![p] = FALSE]
    BY <1>1 DEF un_sock_close, TypeInv
  <2> QED  BY ONLY <2>1, ExceptValue
<1>6. ~node'[p] /\ \A q \in Pids \ {p} : node'[q] = node[q]
  <2>1. node \in [Pids -> BOOLEAN] /\ node' = [node EXCEPT ![p] = FALSE]
    BY <1>1 DEF un_sock_close, TypeInv
  <2> QED  BY ONLY <2>1, ExceptValue
<1>7. \A q \in Pids \ {p} : cancel'[q] = cancel[q]
  <2>1. cancel \in [Pids -> BOOLEAN] /\ cancel' = [cancel EXCEPT ![p] = FALSE]
    BY <1>1 DEF ThreadJoin, TypeInv
  <2> QED  BY ONLY <2>1, ExceptValue
<1>8. ASSUME mutex'[p] => (\E t \in ThreadsOf(p) : arg[t] # NoService)' PROVE HandleInv(p)'
  BY <1>2, <1>3, <1>4, <1>5, <1>6, <1>8, <1>10 DEF HandleInv, SoundInv, Stopping
<1>9. ClaimInv'
  BY <1>1, <1>3, <1>4, ClaimKept
<1> QED  BY <1>1, <1>2, <1>3, <1>4, <1>5, <1>6, <1>7, <1>8, <1>9, HandleLocal

(* The path that is removed leads to the process that removes it.          *)
LEMMA RemoveStep ==
  ASSUME LifeInv, TypeInv', NEW p \in Pids, NEW s \in Services, remove_service_path(p, s)
  PROVE  LifeInv'
<1>1. HandleInv(p) /\ TypeInv /\ ClaimInv /\ life[p] = "remove" /\ s \in table[p]
  BY DEF LifeInv, remove_service_path
<1>2. UNCHANGED <<node, life, sock, open, poll, handle, cancel, mutex, srv, pc, arg, got, refused, fault>>
  BY DEF remove_service_path, locals, errs
<1>3. /\ table'[p] = table[p] \ {s} /\ (\A q \in Pids \ {p} : table'[q] = table[q])
      /\ \A x \in Services : link'[x] = IF x = s THEN NoPid ELSE link[x]
  BY <1>1 DEF remove_service_path, TypeInv
<1>6. ~refused[p] /\ SoundInv(p)
  BY <1>1, EitherWay DEF RefusedInv
<1>4. ASSUME mutex'[p] => (\E t \in ThreadsOf(p) : arg[t] # NoService)' PROVE HandleInv(p)'
  BY <1>1, <1>2, <1>4, <1>6 DEF HandleInv, SoundInv
<1>5. ClaimInv'
  <2>1. \A q \in Pids : /\ table[q] \subseteq Services /\ q # NoPid
                        /\ table'[q] = table[q] \ {s}
    <3>1. \A q \in Pids : table[q] \subseteq Services /\ q # NoPid
      BY <1>1, LifecycleAssumption DEF TypeInv
    <3>2. \A q \in Pids \ {p} : s \notin table[q]
      BY <1>1 DEF ClaimInv
    <3>3. \A q \in Pids : table'[q] = table[q] \ {s}
      BY <1>3, <3>2
    <3> QED  BY <3>1, <3>3
  <2>2. \A q \in Pids : \A x \in table'[q] : link'[x] = q
    BY <1>1, <1>3, <2>1 DEF ClaimInv
  <2>3. \A q \in Pids : \A x \in Services : link'[x] = q /\ life'[q] # "dead" => x \in table'[q]
    BY <1>1, <1>2, <1>3, <2>1 DEF ClaimInv
  <2> QED  BY <1>1, <1>2, <2>1, <2>2, <2>3 DEF ClaimInv
<1> QED  BY <1>1, <1>2, <1>3, <1>4, <1>5, HandleLocal

(* A process that is gone has no handle; its files are not its own.        *)
LEMMA GoneStep ==
  ASSUME LifeInv, TypeInv', NEW p \in Pids, Gone(p), UNCHANGED <<files, starts>>
  PROVE  LifeInv'
<1>1. TypeInv /\ ClaimInv
  BY DEF LifeInv
<1>2. /\ life'[p] = "dead" /\ (\A q \in Pids \ {p} : life'[q] = life[q])
      /\ sock'[p] = "-1" /\ (\A q \in Pids \ {p} : sock'[q] = sock[q])
      /\ table'[p] = {} /\ (\A q \in Pids \ {p} : table'[q] = table[q])
      /\ srv'[p] = [k \in Slots |-> "none"] /\ (\A q \in Pids \ {p} : srv'[q] = srv[q])
      /\ handle'[p] = 0 /\ (\A q \in Pids \ {p} : handle'[q] = handle[q])
  BY <1>1 DEF Gone, TypeInv
<1>3. /\ \A t \in Threads : Owner[t] = p => pc'[t] = "idle" /\ arg'[t] = NoService
      /\ \A t \in Threads : Owner[t] # p => pc'[t] = pc[t] /\ arg'[t] = arg[t] /\ got'[t] = got[t]
  BY DEF Gone
<1>4. ~open'[p] /\ \A q \in Pids \ {p} : open'[q] = open[q]
  <2>1. open \in [Pids -> BOOLEAN] /\ open' = [open EXCEPT ![p] = FALSE]
    BY <1>1 DEF Gone, TypeInv
  <2> QED  BY ONLY <2>1, ExceptValue
<1>5. ~poll'[p] /\ \A q \in Pids \ {p} : poll'[q] = poll[q]
  <2>1. poll \in [Pids -> BOOLEAN] /\ poll' = [poll EXCEPT ![p] = FALSE]
    BY <1>1 DEF Gone, TypeInv
  <2> QED  BY ONLY <2>1, ExceptValue
<1>6. ~mutex'[p] /\ \A q \in Pids \ {p} : mutex'[q] = mutex[q]
  <2>1. mutex \in [Pids -> BOOLEAN] /\ mutex' = [mutex EXCEPT ![p] = FALSE]
    BY <1>1 DEF Gone, TypeInv
  <2> QED  BY ONLY <2>1, ExceptValue
<1>7. ~cancel'[p] /\ \A q \in Pids \ {p} : cancel'[q] = cancel[q]
  <2>1. cancel \in [Pids -> BOOLEAN] /\ cancel' = [cancel EXCEPT ![p] = FALSE]
    BY <1>1 DEF Gone, TypeInv
  <2> QED  BY ONLY <2>1, ExceptValue
<1>13. /\ ~refused'[p] /\ (\A q \in Pids \ {p} : refused'[q] = refused[q])
       /\ ~fault'[p] /\ (\A q \in Pids \ {p} : fault'[q] = fault[q])
  <2>1. refused \in [Pids -> BOOLEAN] /\ refused' = [refused EXCEPT ![p] = FALSE]
    BY <1>1 DEF Gone, TypeInv
  <2>2. fault \in [Pids -> BOOLEAN] /\ fault' = [fault EXCEPT ![p] = FALSE]
    BY <1>1 DEF Gone, TypeInv
  <2>3. ~refused'[p] /\ (\A q \in Pids \ {p} : refused'[q] = refused[q])
    BY ONLY <2>1, ExceptValue
  <2>4. ~fault'[p] /\ (\A q \in Pids \ {p} : fault'[q] = fault[q])
    BY ONLY <2>2, ExceptValue
  <2> QED  BY <2>3, <2>4
<1>8. UNCHANGED <<node, link>>
  BY DEF files
<1>9. Apart(p)
  BY <1>2, <1>3, <1>4, <1>5, <1>6, <1>7, <1>8, <1>13 DEF Apart
<1>10. HandleInv(p)'
  <2>1. Quiet(p)'
    BY <1>2, <1>7 DEF Quiet, Slots
  <2> QED  BY <1>2, <1>4, <1>5, <1>6, <1>13, <2>1 DEF HandleInv, SoundInv
<1>11. ASSUME NEW t \in ThreadsOf(p) PROVE Alone(t)' /\ ThreadState(t)'
  BY <1>3 DEF ThreadsOf, Alone, ThreadState
<1>12. ClaimInv'
  <2>1. \A q \in Pids : /\ NoService \notin table'[q] /\ table'[q] \subseteq table[q]
                        /\ q = p \/ table'[q] = table[q]
    BY <1>1, <1>2, LifecycleAssumption DEF TypeInv
  <2>2. \A t \in Threads : arg'[t] = arg[t] \/ arg'[t] = NoService
    BY <1>3
  <2>3. \A t \in Threads : \A q \in Pids : arg'[t] \notin table'[q]
    BY <1>1, <2>1, <2>2 DEF ClaimInv
  <2>4. \A t, u \in Threads : arg'[t] = arg'[u] /\ arg'[t] # NoService => Owner[t] = Owner[u]
    BY <1>1, <2>2 DEF ClaimInv
  <2>5. \A q, r \in Pids : \A s \in Services : s \in table'[q] /\ s \in table'[r] => q = r
    BY <1>1, <2>1 DEF ClaimInv
  <2>6. \A q \in Pids : \A s \in table'[q] : link'[s] = q
    BY <1>1, <1>8, <2>1 DEF ClaimInv
  <2>7. \A q \in Pids : \A s \in Services : link'[s] = q /\ life'[q] # "dead" => s \in table'[q]
    BY <1>1, <1>2, <1>8 DEF ClaimInv
  <2> QED  BY <2>3, <2>4, <2>5, <2>6, <2>7 DEF ClaimInv
<1> QED  BY <1>1, <1>8, <1>9, <1>10, <1>11, <1>12, Local

(* A process starts where nothing was left with its pid.                   *)
LEMMA StartStep ==
  ASSUME LifeInv, TypeInv', NEW p \in Pids, NEW polls \in BOOLEAN, abus_init(p, polls),
         "reuse" \notin Allowed
  PROVE  LifeInv'
<1>1. HandleInv(p) /\ TypeInv /\ ClaimInv /\ life[p] = "dead" /\ ~LeftOver(p)
  BY DEF LifeInv, abus_init
<1>2. UNCHANGED <<node, link, sock, open, table, handle, cancel, mutex, srv, pc, arg, got, refused, fault>>
  BY DEF abus_init, files, locals, errs
<1>3. life'[p] = "up" /\ \A q \in Pids \ {p} : life'[q] = life[q]
  BY <1>1 DEF abus_init, TypeInv
<1>4. \A q \in Pids \ {p} : poll'[q] = poll[q]
  <2>1. poll \in [Pids -> BOOLEAN] /\ poll' = [poll EXCEPT ![p] = polls]
    BY <1>1 DEF abus_init, TypeInv
  <2> QED  BY ONLY <2>1, ExceptValue
<1>8. ~refused[p] /\ SoundInv(p)
  BY <1>1, EitherWay DEF RefusedInv
<1>5. Idle(p) /\ ~At(p, "assign")
  BY <1>1, IdleUnlessUp
<1>6. ASSUME \A label : At(p, label)' <=> At(p, label),
             mutex'[p] => (\E t \in ThreadsOf(p) : arg[t] # NoService)'
      PROVE  HandleInv(p)'
  <2>1. ~node[p] /\ ~At(p, "assign")'
    BY <1>1, <1>5, <1>6 DEF LeftOver
  <2> QED  BY <1>1, <1>2, <1>3, <1>6, <1>8, <2>1 DEF HandleInv, SoundInv, Quiet
<1>7. ClaimInv'
  <2>1. \A s \in Services : link[s] # p
    BY <1>1 DEF LeftOver
  <2> QED  BY <1>1, <1>2, <1>3, <2>1 DEF ClaimInv
<1> QED  BY <1>1, <1>2, <1>3, <1>4, <1>5, <1>6, <1>7, HandleLocal

-----------------------------------------------------------------------------
(* The invariant and the theorems *)

(* LifeInv is an invariant where applications keep to what libabus can     *)
(* stand; callbacks may be cancelled.                                      *)
LEMMA LifeInvariant ==
  ASSUME Allowed \subseteq {"cancel"}
  PROVE  Spec => []LifeInv
<1>1. /\ "race" \notin Allowed /\ "share" \notin Allowed /\ "reuse" \notin Allowed
      /\ "fall" \notin Allowed /\ "poll" \notin Allowed
  OBVIOUS
<1>2. ASSUME Init PROVE LifeInv
  <2> USE <1>2 DEF Init
  <2>1. TypeInv
    <3>1. starts \in 0..MaxStarts
      BY LifecycleAssumption
    <3>2. srv \in [Pids -> [Slots -> {"none", "loop", "recv", "callback", "ended"}]]
      OBVIOUS
    <3>3. handle \in [Pids -> {0, Joined} \union Slots]
      OBVIOUS
    <3> QED  BY <3>1, <3>2, <3>3 DEF TypeInv
  <2>2. \A t \in Threads : Alone(t) /\ ThreadState(t)
    BY DEF Alone, ThreadState, ThreadsOf
  <2>3. ASSUME NEW p \in Pids PROVE HandleInv(p)
    BY DEF HandleInv, SoundInv, Quiet, Slots
  <2>4. ClaimInv
    BY LifecycleAssumption DEF ClaimInv
  <2> QED  BY <2>1, <2>2, <2>3, <2>4 DEF LifeInv
<1>3. ASSUME LifeInv, [Next]_vars PROVE LifeInv'
  <2>1. TypeInv'
    BY <1>3, TypeStep DEF LifeInv
  <2>2. CASE UNCHANGED vars
    <3> USE <2>2 DEF vars, files, abus, locals, errs
    <3>1. \A t \in Threads : Alone(t)'
      BY <1>3 DEF LifeInv, Alone, At, ThreadsOf
    <3>2. \A t \in Threads : ThreadState(t)'
      BY <1>3 DEF LifeInv, ThreadState, At, ThreadsOf
    <3>3. \A p \in Pids : HandleInv(p)'
      BY <1>3 DEF LifeInv, HandleInv, RefusedInv, SoundInv, Quiet, Serving, Stopping, Stopped, Runs,
                  At, ThreadsOf
    <3>4. ClaimInv'
      BY <1>3 DEF LifeInv, ClaimInv
    <3> QED  BY <2>1, <3>1, <3>2, <3>3, <3>4 DEF LifeInv
  <2>3. ASSUME NEW t \in Threads, App(t) PROVE LifeInv'
    BY <1>3, <2>1, <2>3, LaunchTestStep, CreateStep, SocketRefusedStep, AssignStep, CreatedStep,
       LaunchThreadStep, ThreadRefusedStep, UnlinkStep, SymlinkStep, SetConfJoinStep DEF App
  <2>4. ASSUME NEW t \in Threads, UseSocket(t) PROVE LifeInv'
    BY <1>1, <1>3, <2>1, <2>4, UseSocketStep
  <2>5. ASSUME NEW t \in Threads, NEW s \in Services, DeclService(t, s) PROVE LifeInv'
    BY <1>1, <1>3, <2>1, <2>5, DeclServiceStep
  <2>6. ASSUME NEW t \in Threads, NEW polls \in BOOLEAN, SetConf(t, polls) PROVE LifeInv'
    BY <1>1, <1>3, <2>1, <2>6, SetConfStep
  <2>7. ASSUME NEW p \in Pids, Srv(p) \/ \E k \in Slots : SrvReceive(p, k) PROVE LifeInv'
    BY <1>3, <2>1, <2>7, SrvStep DEF Srv
  <2>8. ASSUME NEW p \in Pids, Cleanup(p) PROVE LifeInv'
    BY <1>3, <2>1, <2>8, CloseStep, RemoveStep, GoneStep DEF Cleanup, CleanupEnd
  <2>9. ASSUME NEW p \in Pids, Die(p) PROVE LifeInv'
    BY <1>3, <2>1, <2>9, GoneStep DEF Die
  <2>10. ASSUME NEW p \in Pids, abus_cleanup(p) PROVE LifeInv'
    BY <1>1, <1>3, <2>1, <2>10, CleanupStep
  <2>11. ASSUME NEW p \in Pids, NEW polls \in BOOLEAN, abus_init(p, polls) PROVE LifeInv'
    BY <1>1, <1>3, <2>1, <2>11, StartStep
  <2> QED
    BY <1>3, <2>2, <2>3, <2>4, <2>5, <2>6, <2>7, <2>8, <2>9, <2>10, <2>11 DEF Next
<1> QED  BY <1>2, <1>3, PTL DEF Spec

(* Whatever processes die, are in the middle of a declaration or are       *)
(* cleaned up, the path of a declared service leads to the process that    *)
(* declared it (create_service_path(), remove_service_path()).  There is a *)
(* socket and somebody reads from it, unless the system refused the handle *)
(* a socket or a thread (abus_launch_thread_ondemand(), abus_set_conf()).  *)
THEOREM DeclaredStayReachable ==
  ASSUME Allowed \subseteq {"cancel"}
  PROVE  Spec => []DeclaredReachable
<1>1. ASSUME LifeInv PROVE DeclaredReachable
  <2> SUFFICES ASSUME NEW p \in Pids, NEW s \in table[p], life[p] = "up"
               PROVE  /\ link[s] = p
                      /\ \/ refused[p]
                         \/ /\ node[p] /\ open[p] /\ sock[p] = "fd"
                            /\ poll[p] \/ \E k \in Slots : Runs(p, k)
    BY DEF DeclaredReachable
  <2>1. ClaimInv /\ TypeInv
    BY <1>1 DEF LifeInv
  <2>2. link[s] = p
    BY <2>1 DEF ClaimInv
  <2>3. ASSUME ~refused[p]
        PROVE  node[p] /\ open[p] /\ sock[p] = "fd" /\ (poll[p] \/ \E k \in Slots : Runs(p, k))
    <3>1. SoundInv(p)
      BY <1>1, <2>3, EitherWay
    <3>2. sock[p] = "fd"
      BY <2>1, <3>1 DEF SoundInv, TypeInv
    <3>3. node[p] /\ open[p] /\ ~At(p, "created") /\ ~At(p, "spawn")
      BY <3>1, <3>2 DEF SoundInv
    <3>4. poll[p] \/ Serving(p)
      BY <3>1, <3>2, <3>3 DEF SoundInv
    <3> QED  BY <3>2, <3>3, <3>4 DEF Serving, Slots
  <2> QED  BY <2>2, <2>3
<1> QED  BY <1>1, LifeInvariant, PTL

(* Handles are stopped cleanly: one A-Bus thread at most, none when        *)
(* abus_cleanup() frees the tables, nothing left in the directory when it  *)
(* ends, no thread cancelled that is not there unless the system refused   *)
(* the handle a socket or a thread, and abus->mutex held exactly while a   *)
(* service is being declared.                                              *)
THEOREM HandlesStopCleanly ==
  ASSUME Allowed \subseteq {"cancel"}
  PROVE  Spec => []CleanStop
<1>1. ASSUME LifeInv PROVE CleanStop
  <2>1. TypeOK
    <3>1. ASSUME NEW p \in Pids PROVE mutex[p] = (\E t \in ThreadsOf(p) : arg[t] # NoService)
      <4>1. mutex[p] \in BOOLEAN
        BY <1>1 DEF LifeInv, TypeInv
      <4>2. mutex[p] => \E t \in ThreadsOf(p) : arg[t] # NoService
        BY <1>1 DEF LifeInv, HandleInv
      <4>3. ASSUME NEW t \in ThreadsOf(p), arg[t] # NoService PROVE mutex[p]
        BY <1>1, <4>3 DEF LifeInv, ThreadState, ThreadsOf
      <4> QED  BY ONLY <4>1, <4>2, <4>3
    <3>2. TypeInv
      BY <1>1 DEF LifeInv
    <3> QED  BY <3>1, <3>2 DEF TypeOK, TypeInv
  <2>2. ASSUME NEW p \in Pids
        PROVE  /\ Cardinality({k \in Slots : Runs(p, k)}) <= 1
               /\ life[p] = "remove" => \A k \in Slots : ~Runs(p, k)
    <3>1. HandleInv(p) /\ TypeInv
      BY <1>1 DEF LifeInv
    <3>7. refused[p] => RefusedInv(p)
      BY <1>1, EitherWay
    <3>8. ~refused[p] => SoundInv(p)
      BY <1>1, EitherWay
    <3>2. srv[p][2] = "none"
      <4>1. /\ life[p] \in {"dead", "up", "stop", "remove"}
            /\ ~refused[p] => sock[p] \in {"-1", "fd"}
        BY <3>1, <3>8 DEF SoundInv, TypeInv
      <4> QED  BY <3>7, <3>8, <4>1 DEF RefusedInv, SoundInv, Quiet, Serving, Stopping, Stopped
    <3>3. {k \in Slots : Runs(p, k)} = {} \/ {k \in Slots : Runs(p, k)} = {1}
      BY <3>2 DEF Slots, Runs
    <3>4. Cardinality({}) = 0 /\ Cardinality({1}) = 1
      BY FS_EmptySet, FS_Singleton
    <3>5. Cardinality({k \in Slots : Runs(p, k)}) <= 1
      BY <3>3, <3>4
    <3>6. life[p] = "remove" => \A k \in Slots : ~Runs(p, k)
      BY <3>7, <3>8, <3>2 DEF RefusedInv, SoundInv, Slots, Runs
    <3> QED  BY <3>5, <3>6
  <2>3. ASSUME NEW p \in Pids, life[p] = "remove", table[p] = {} PROVE ~LeftOver(p)
    <3>1. SoundInv(p) /\ ClaimInv
      BY <1>1, <2>3, EitherWay DEF LifeInv, RefusedInv
    <3> QED  BY <2>3, <3>1 DEF SoundInv, ClaimInv, LeftOver
  <2>4. NoFault
    BY <1>1, EitherWay DEF NoFault, SoundInv
  <2> QED  BY <2>1, <2>2, <2>3, <2>4 DEF CleanStop, OneReader, NothingLeft
<1> QED  BY <1>1, LifeInvariant, PTL
=============================================================================
