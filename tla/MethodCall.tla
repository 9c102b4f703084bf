----------------------------- MODULE MethodCall -----------------------------
(***************************************************************************)
(* The service side of libabus (abus/abus.c): the method table of one      *)
(* service, the declaration of methods by threads of the application, and  *)
(* the execution of incoming requests by the A-Bus thread, in place or in  *)
(* a detached thread per request (ABUS_RPC_THREADED), one at a time if the *)
(* method is ABUS_RPC_EXCL.                                                *)
(*                                                                         *)
(* The table is the dictionary with a current position of module           *)
(* Dictionary, which HashTabUse shows hashtab.c to implement.  Critical    *)
(* sections under abus->mutex are single steps; what the code does with a  *)
(* method between them is not protected.  A method object that was freed   *)
(* is recognised by the generation of the pointer to it.                   *)
(***************************************************************************)
EXTENDS Naturals, FiniteSets

CONSTANTS
  Methods,     \* the names of the methods
  NoMethod,    \* no current item in the method table
  DeclFlags,   \* the flags each method is declared with
  Reqs,        \* the requests that arrive, one json_rpc_t each
  NoReq,       \* no request
  Target,      \* the method each request names
  WithId,      \* the requests that have an id; the others are notifications
  Apps,        \* the threads of the application that declare methods
  Changes,     \* what they do meanwhile: subset of {"decl", "redecl", "undecl"}
  Serial,      \* TRUE: poll operation, one thread declares and serves
  MaxGen,      \* bound: objects allocated for one method name
  MaxThreads   \* threads that pthread_create() can give

ASSUME MethodAssumption ==
  /\ NoMethod \notin Methods /\ NoReq \notin Reqs
  /\ DeclFlags \in [Methods -> SUBSET {"threaded", "excl"}]
  /\ Target \in [Reqs -> Methods]
  /\ WithId \subseteq Reqs
  /\ Changes \subseteq {"decl", "redecl", "undecl"}
  /\ Serial \in BOOLEAN
  /\ MaxGen \in Nat /\ MaxThreads \in Nat

VARIABLES
  table,    \* service->method_htab: the names in it
  cur,      \* the name at its current position
  gen,      \* the number of objects allocated for a name
  flags,    \* method->flags
  callback, \* method->callback # NULL
  excl,     \* the request that holds method->excl_mutex
  reg,      \* progress of each application thread
  apc,      \* progress of the A-Bus thread
  areq,     \* the request it processes
  ptr,      \* generation of the method object that a request holds
  run,      \* progress of abus_call_callback() for a request
  inThread, \* the request runs in a thread of its own
  errors,   \* the requests whose json_rpc->error_code is set
  calls,    \* the callback ran for the request (history)
  replies,  \* responses sent to the request, up to 2 (history)
  noMethod, \* the response was an error for want of a method (history)
  rpcFreed, \* the json_rpc of the request was freed
  fault     \* freed or null memory was used

registry == <<table, cur, gen, flags, callback>>
rpc == <<ptr, run, inThread, errors, calls, replies, noMethod, rpcFreed>>
vars == <<registry, excl, reg, apc, areq, rpc, fault>>

Free == [op |-> "none", m |-> NoMethod, g |-> 0]

Init ==
  /\ table = IF "decl" \in Changes THEN {} ELSE Methods
  /\ cur \in IF table = {} THEN {NoMethod} ELSE table
  /\ gen = [m \in Methods |-> IF m \in table THEN 1 ELSE 0]
  /\ flags = [m \in Methods |-> IF m \in table THEN DeclFlags[m] ELSE {}]
  /\ callback = [m \in Methods |-> m \in table]
  /\ excl = [m \in Methods |-> NoReq]
  /\ reg = [a \in Apps |-> Free]
  /\ apc = "idle"
  /\ areq = NoReq
  /\ ptr = [r \in Reqs |-> 0]
  /\ run = [r \in Reqs |-> "none"]
  /\ inThread = [r \in Reqs |-> FALSE]
  /\ errors = {}
  /\ calls = [r \in Reqs |-> FALSE]
  /\ replies = [r \in Reqs |-> 0]
  /\ noMethod = [r \in Reqs |-> FALSE]
  /\ rpcFreed = [r \in Reqs |-> FALSE]
  /\ fault = FALSE

(* The pointer to an object of m of generation g is dangling.              *)
Dangling(m, g) == ~(m \in table /\ gen[m] = g)
Stale(r) == Dangling(Target[r], ptr[r])

(* What a step does is guarded by the memory it reads: a read of freed     *)
(* memory ends the behaviour in a fault.                                   *)
Fails == fault' = TRUE /\ UNCHANGED <<registry, excl, reg, apc, areq, rpc>>

OnSomeItem(s) == IF s = {} THEN cur' = NoMethod ELSE cur' \in s

-----------------------------------------------------------------------------
(* Threads of the application.                                             *)

Working == {r \in Reqs : run[r] \in {"enter", "in", "ran"}}
MayServe == Serial => \A a \in Apps : reg[a] = Free
MayRegister(a) ==
  /\ ~fault
  /\ reg[a] = Free
  /\ Serial => apc = "idle" /\ \A b \in Apps : reg[b] = Free

(* method_lookup() with CreateIfNotThere: a new object has no callback and *)
(* no flags.                                                               *)
DeclLookup(a, m) ==
  /\ MayRegister(a)
  /\ cur' = m
  /\ \/ /\ m \in table /\ "redecl" \in Changes
        /\ UNCHANGED <<table, gen, flags, callback, excl>>
     \/ /\ m \notin table /\ gen[m] < MaxGen
        /\ table' = table \cup {m}
        /\ gen' = [gen EXCEPT ![m] = @ + 1]
        /\ flags' = [flags EXCEPT ![m] = {}]
        /\ callback' = [callback EXCEPT ![m] = FALSE]
        /\ excl' = [excl EXCEPT ![m] = NoReq]
  /\ reg' = [reg EXCEPT ![a] = [op |-> "decl", m |-> m, g |-> gen'[m]]]
  /\ UNCHANGED <<apc, areq, rpc, fault>>

(* The rest of abus_decl_method(): pthread_mutex_init() makes a mutex that *)
(* is held look free.                                                      *)
DeclAssign(a) ==
  LET m == reg[a].m IN
  /\ ~fault /\ reg[a].op = "decl"
  /\ IF Dangling(m, reg[a].g) THEN Fails
     ELSE /\ flags' = [flags EXCEPT ![m] = DeclFlags[m]]
          /\ callback' = [callback EXCEPT ![m] = TRUE]
          /\ excl' = [excl EXCEPT ![m] = IF "excl" \in DeclFlags[m] THEN NoReq ELSE @]
          /\ reg' = [reg EXCEPT ![a] = Free]
          /\ UNCHANGED <<table, cur, gen, apc, areq, rpc, fault>>

(* method_lookup() with LookupOnly, in abus_undecl_method().               *)
UndeclLookup(a, m) ==
  /\ MayRegister(a)
  /\ "undecl" \in Changes
  /\ m \in table
  /\ cur' = m
  /\ reg' = [reg EXCEPT ![a] = [op |-> "undecl", m |-> m, g |-> gen[m]]]
  /\ UNCHANGED <<table, gen, flags, callback, excl, apc, areq, rpc, fault>>

(* A delete of some other item.  Mutant.                                   *)
DeletedOther(a) ==
  IF table = {cur} THEN cur ELSE CHOOSE m \in table : m # cur

(* The item that the second half of abus_undecl_method() deletes.          *)
Deleted(a) == cur

(* The rest of abus_undecl_method(): frees and deletes the item at the     *)
(* current position.  The methods that libabus declares for itself keep    *)
(* service_may_cleanup() from removing the service.                        *)
UndeclDelete(a) ==
  /\ ~fault /\ reg[a].op = "undecl"
  /\ IF Dangling(reg[a].m, reg[a].g) \/ cur = NoMethod THEN Fails
     ELSE /\ table' = table \ {Deleted(a)}
          /\ OnSomeItem(table')
          /\ reg' = [reg EXCEPT ![a] = Free]
          /\ UNCHANGED <<gen, flags, callback, excl, apc, areq, rpc, fault>>

-----------------------------------------------------------------------------
(* The A-Bus thread.                                                       *)

Reply(r) == replies' = [replies EXCEPT ![r] = IF @ < 2 THEN @ + 1 ELSE @]
FreeRpc(r) == rpcFreed' = [rpcFreed EXCEPT ![r] = TRUE]

(* abus_process_msg() looks the method up.  A request for a method that is *)
(* not there gets an error response, which json_rpc_resp_finalize() gives  *)
(* the id null if it was a notification.                                   *)
Receive(r) ==
  LET m == Target[r] IN
  /\ ~fault /\ apc = "idle" /\ MayServe
  /\ run[r] = "none"
  /\ IF m \in table
     THEN /\ cur' = m
          /\ ptr' = [ptr EXCEPT ![r] = gen[m]]
          /\ run' = [run EXCEPT ![r] = "found"]
          /\ apc' = "rpc"
          /\ areq' = r
          /\ UNCHANGED <<replies, noMethod, errors, rpcFreed>>
     ELSE /\ Reply(r)
          /\ noMethod' = [noMethod EXCEPT ![r] = TRUE]
          /\ errors' = errors \cup {r}
          /\ FreeRpc(r)
          /\ run' = [run EXCEPT ![r] = "end"]
          /\ UNCHANGED <<cur, ptr, apc, areq>>
  /\ UNCHANGED <<table, gen, flags, callback, excl, reg, inThread, calls, fault>>

(* abus_do_rpc(), with the threads that there are.                         *)
DoRpc ==
  LET r == areq
      threads == {q \in Working : inThread[q]} IN
  /\ ~fault /\ apc = "rpc"
  /\ IF Stale(r) THEN Fails
     ELSE /\ IF "threaded" \in flags[Target[r]]
             THEN /\ apc' = "recheck"
                  /\ inThread' = [inThread EXCEPT ![r] = TRUE]
                  /\ run' = [run EXCEPT ![r] = IF Cardinality(threads) < MaxThreads
                                               THEN "enter" ELSE "lost"]
             ELSE /\ apc' = "inline"
                  /\ run' = [run EXCEPT ![r] = "enter"]
                  /\ UNCHANGED inThread
          /\ UNCHANGED <<registry, excl, reg, areq, ptr, errors, calls, replies,
                         noMethod, rpcFreed, fault>>

(* The A-Bus thread forgets which request it processes.  Mutant.           *)
ReturnedToNone ==
  /\ ~fault /\ apc = "inline" /\ run[areq] = "ran"
  /\ apc' = "idle"
  /\ run' = [run EXCEPT ![areq] = "end"]
  /\ UNCHANGED <<registry, excl, reg, areq, ptr, inThread, errors, calls, replies, noMethod,
                 rpcFreed, fault>>

(* abus_call_callback() returns to abus_do_rpc() in the A-Bus thread.      *)
Returned ==
  /\ ~fault /\ apc = "inline" /\ run[areq] = "ran"
  /\ apc' = "recheck"
  /\ run' = [run EXCEPT ![areq] = "end"]
  /\ UNCHANGED <<registry, excl, reg, areq, ptr, inThread, errors, calls, replies, noMethod,
                 rpcFreed, fault>>

(* A freed notification that is also returned to the caller.  Mutant.      *)
RecheckFallsThrough ==
  LET r == areq IN
  /\ ~fault /\ apc = "recheck" /\ ~Stale(r)
  /\ apc' = "check"
  /\ IF "threaded" \in flags[Target[r]] \/ r \in WithId
     THEN UNCHANGED rpcFreed
     ELSE FreeRpc(r)
  /\ UNCHANGED <<registry, excl, reg, areq, ptr, run, inThread, errors, calls, replies,
                 noMethod, fault>>

(* abus_process_msg() looks at the flags of the method again: a threaded   *)
(* request belongs to its thread, a notification is freed.                 *)
Recheck ==
  LET r == areq IN
  /\ ~fault /\ apc = "recheck"
  /\ IF Stale(r) \/ ("threaded" \notin flags[Target[r]] /\ rpcFreed[r]) THEN Fails
     ELSE /\ IF "threaded" \in flags[Target[r]] \/ r \in WithId
             THEN apc' = "check" /\ UNCHANGED <<areq, rpcFreed>>
             ELSE apc' = "idle" /\ areq' = NoReq /\ FreeRpc(r)
          /\ UNCHANGED <<registry, excl, reg, ptr, run, inThread, errors, calls, replies,
                         noMethod, fault>>

(* Who answers: json_rpc->cb_context is the method for a request that got  *)
(* a thread, and null otherwise.                                           *)
AnsweredByThread(r) == inThread[r] /\ "threaded" \in flags[Target[r]]

(* abus_process_incoming() reads json_rpc->cb_context, which the thread of *)
(* the request may have freed, and the flags of the method for a third     *)
(* time.                                                                   *)
Check ==
  LET r == areq IN
  /\ ~fault /\ apc = "check"
  /\ IF rpcFreed[r] \/ (inThread[r] /\ Stale(r)) THEN Fails
     ELSE /\ apc' = "idle"
          /\ areq' = NoReq
          /\ IF AnsweredByThread(r)
             THEN UNCHANGED <<replies, rpcFreed>>
             ELSE Reply(r) /\ FreeRpc(r)
          /\ UNCHANGED <<registry, excl, reg, ptr, run, inThread, errors, calls, noMethod, fault>>

-----------------------------------------------------------------------------
(* abus_call_callback(), in the A-Bus thread or in a thread of its own.    *)

(* No wait.  Mutant.                                                       *)
AlwaysEnter(m) == TRUE

(* The wait for method->excl_mutex.                                        *)
MayEnter(m) == "excl" \in flags[m] => excl[m] = NoReq

Locks(m, r) == IF "excl" \in flags[m] THEN [excl EXCEPT ![m] = r] ELSE excl

(* The mutex is not released.  Mutant.                                     *)
KeepsLock(m) == excl

Unlocks(m) == IF "excl" \in flags[m] THEN [excl EXCEPT ![m] = NoReq] ELSE excl

EnterCallback(r) ==
  LET m == Target[r] IN
  /\ ~fault /\ run[r] = "enter"
  /\ IF Stale(r) THEN Fails
     ELSE /\ IF callback[m]
             THEN /\ MayEnter(m)
                  /\ excl' = Locks(m, r)
                  /\ run' = [run EXCEPT ![r] = "in"]
                  /\ calls' = [calls EXCEPT ![r] = TRUE]
             ELSE run' = [run EXCEPT ![r] = "ran"] /\ UNCHANGED <<excl, calls>>
          /\ UNCHANGED <<registry, reg, apc, areq, ptr, inThread, errors, replies, noMethod,
                         rpcFreed, fault>>

(* The callback returns, after it set an error or not.                     *)
LeaveCallback(r) ==
  /\ ~fault /\ run[r] = "in"
  /\ IF Stale(r) THEN Fails
     ELSE /\ excl' = Unlocks(Target[r])
          /\ errors' \in {errors, errors \cup {r}}
          /\ run' = [run EXCEPT ![r] = "ran"]
          /\ UNCHANGED <<registry, reg, apc, areq, ptr, inThread, calls, replies,
                         noMethod, rpcFreed, fault>>

(* A thread that answers before it runs the callback.  Mutant.             *)
ReplyFirst(r) ==
  /\ ~fault /\ inThread[r] /\ run[r] = "enter" /\ ~rpcFreed[r]
  /\ Reply(r)
  /\ FreeRpc(r)
  /\ run' = [run EXCEPT ![r] = "end"]
  /\ UNCHANGED <<registry, excl, reg, apc, areq, ptr, inThread, errors, calls, noMethod, fault>>

(* A thread answers a request with an id, and a notification whose         *)
(* callback set an error.                                                  *)
Replies(r) == r \in WithId \/ r \in errors

(* The end of abus_threaded_rpc_routine().                                 *)
ThreadReply(r) ==
  /\ ~fault /\ inThread[r] /\ run[r] = "ran"
  /\ IF rpcFreed[r] THEN Fails
     ELSE /\ IF Replies(r) THEN Reply(r) ELSE UNCHANGED replies
          /\ FreeRpc(r)
          /\ run' = [run EXCEPT ![r] = "end"]
          /\ UNCHANGED <<registry, excl, reg, apc, areq, ptr, inThread, errors, calls, noMethod,
                         fault>>

AbusStep == DoRpc \/ Returned \/ Recheck \/ Check
CallStep(r) == EnterCallback(r) \/ LeaveCallback(r) \/ ThreadReply(r)

(* Everything was served, or the program crashed.                          *)
Terminating ==
  /\ fault \/ (apc = "idle" /\ \A r \in Reqs : run[r] \in {"end", "lost"})
  /\ UNCHANGED vars

Next ==
  \/ \E a \in Apps :
       \/ \E m \in Methods : DeclLookup(a, m) \/ UndeclLookup(a, m)
       \/ DeclAssign(a)
       \/ UndeclDelete(a)
  \/ \E r \in Reqs : Receive(r) \/ CallStep(r)
  \/ DoRpc
  \/ Returned
  \/ Recheck
  \/ Check
  \/ Terminating

Spec == Init /\ [][Next]_vars

(* The threads that serve requests run on, and callbacks return.           *)
FairSpec ==
  /\ Spec
  /\ WF_vars(AbusStep)
  /\ \A r \in Reqs : WF_vars(Receive(r)) /\ WF_vars(CallStep(r))

-----------------------------------------------------------------------------
(* Variables have their types, and the A-Bus thread has a request exactly  *)
(* while it is not receiving.                                              *)
TypeOK ==
  /\ table \subseteq Methods
  /\ cur \in Methods \cup {NoMethod}
  /\ gen \in [Methods -> Nat]
  /\ flags \in [Methods -> SUBSET {"threaded", "excl"}]
  /\ callback \in [Methods -> BOOLEAN]
  /\ excl \in [Methods -> Reqs \cup {NoReq}]
  /\ reg \in [Apps -> [op : {"none", "decl", "undecl"}, m : Methods \cup {NoMethod},
                       g : Nat]]
  /\ apc \in {"idle", "rpc", "inline", "recheck", "check"}
  /\ areq \in Reqs \cup {NoReq}
  /\ apc = "idle" <=> areq = NoReq
  /\ ptr \in [Reqs -> Nat]
  /\ run \in [Reqs -> {"none", "found", "enter", "in", "ran", "end", "lost"}]
  /\ inThread \in [Reqs -> BOOLEAN]
  /\ errors \subseteq Reqs
  /\ calls \in [Reqs -> BOOLEAN]
  /\ replies \in [Reqs -> 0 .. 2]
  /\ noMethod \in [Reqs -> BOOLEAN]
  /\ rpcFreed \in [Reqs -> BOOLEAN]
  /\ fault \in BOOLEAN

(* "ABUS_RPC_EXCL ... guarantee only one outstanding callback at a time"   *)
(* (abus.c): no two requests are inside the callback of an exclusive       *)
(* method, whichever threads they run in.                                  *)
ExclOne ==
  \A q, r \in Reqs :
    /\ Target[q] = Target[r] /\ "excl" \in DeclFlags[Target[q]]
    /\ run[q] = "in" /\ run[r] = "in"
    => q = r

(* A request is answered at most once, by the A-Bus thread or by its own   *)
(* thread and never by both.  A notification for a method that exists gets *)
(* no answer from the A-Bus thread ("no response for notification",        *)
(* abus_process_msg()), and from a thread of its own at most the error     *)
(* that the callback set.  A response that is not an error means that the  *)
(* callback of the method was called and has returned.  No json_rpc is     *)
(* used after it was freed, except that the A-Bus thread reads once more   *)
(* the one it gave to a thread (abus_process_incoming()).                  *)
AnsweredOnce ==
  /\ \A r \in Reqs :
       /\ replies[r] <= 1
       /\ r \notin WithId /\ ~noMethod[r] /\ replies[r] > 0 => inThread[r] /\ r \in errors
       /\ replies[r] > 0 /\ ~noMethod[r] => calls[r] /\ run[r] = "end"
  /\ fault => apc = "check" /\ inThread[areq] /\ rpcFreed[areq]

(* No freed method, freed json_rpc or empty table is read, and no json_rpc *)
(* is freed twice.                                                         *)
NoFault == ~fault

(* abus_undecl_method() removes the method it was called for ("name of     *)
(* method to be unexposed"): only a method that some thread is undeclaring *)
(* leaves the table.                                                       *)
UndeclRemovesOwn ==
  [][\A m \in table \ table' : \E a \in Apps : reg[a].op = "undecl" /\ reg[a].m = m]_vars

(* Every request with an id is answered, also while others hold the mutex  *)
(* of an exclusive method, unless pthread_create() fails for it ("TODO act *)
(* upon failed ret?", abus_process_msg()) or the program crashes.          *)
Answered ==
  \A r \in WithId : run[r] = "none" ~> (replies[r] > 0 \/ run[r] = "lost" \/ fault)

-----------------------------------------------------------------------------
(* The inductive invariants behind the safety properties                   *)

Active == {"enter", "in", "ran"}

(* The thread declares a method again.                                    *)
Redeclares(a) == reg[a].op = "decl" /\ reg[a].m \in Methods /\ reg[a].g = 1

(* Methods that are all declared before the first request, and at most     *)
(* declared again: what a request found is there to stay.                  *)
StaticInv ==
  /\ table = Methods
  /\ gen = [m \in Methods |-> 1]
  /\ flags = DeclFlags
  /\ \A m \in Methods : callback[m]
  /\ \A a \in Apps : reg[a] = Free \/ Redeclares(a)

(* Who owns a request: the A-Bus thread from its reception on, until it    *)
(* is answered or a thread of its own takes over.                          *)
ServeInv(r) ==
  /\ run[r] # "none" => ptr[r] = 1
  /\ run[r] = "none" => ~inThread[r] /\ replies[r] = 0 /\ areq # r
  /\ run[r] = "found" => apc = "rpc" /\ areq = r /\ ~inThread[r] /\ replies[r] = 0
  /\ run[r] = "lost" => inThread[r] /\ replies[r] = 0
  /\ run[r] \in Active =>
       replies[r] = 0 /\ (inThread[r] \/ (apc = "inline" /\ areq = r))
  /\ run[r] \in {"in", "ran", "end"} => calls[r]
  /\ inThread[r] => "threaded" \in DeclFlags[Target[r]]
  /\ ~noMethod[r]
  /\ replies[r] <= 1
  /\ r \notin WithId /\ replies[r] > 0 => inThread[r] /\ r \in errors
  /\ rpcFreed[r] => run[r] = "end" /\ (areq = r => inThread[r])
  /\ areq = r /\ apc = "rpc" => run[r] = "found"
  /\ areq = r /\ apc = "inline" => run[r] \in Active /\ ~inThread[r]
  /\ areq = r /\ apc = "inline" => "threaded" \notin DeclFlags[Target[r]]
  /\ areq = r /\ apc \in {"recheck", "check"} /\ ~inThread[r] =>
       /\ run[r] = "end" /\ replies[r] = 0
       /\ "threaded" \notin DeclFlags[Target[r]]
  /\ areq = r /\ apc = "check" /\ ~inThread[r] => r \in WithId

AnswerInv == StaticInv /\ \A r \in Reqs : ServeInv(r)

(* A freed request is used nowhere but at the end of the A-Bus thread's    *)
(* turn.                                                                   *)
LateReadInv == fault => apc = "check" /\ inThread[areq] /\ rpcFreed[areq]

(* Methods that are declared once: nobody is in a callback before the      *)
(* declaration is complete, and who is inside that of an exclusive method  *)
(* has its mutex.                                                          *)
ExclInv ==
  /\ \A m \in Methods : callback[m] => m \in table /\ flags[m] = DeclFlags[m]
  /\ \A a \in Apps : reg[a] # Free =>
       /\ reg[a].op = "decl"
       /\ reg[a].m \in table /\ ~callback[reg[a].m]
       /\ \A b \in Apps : reg[b].m = reg[a].m => b = a
  /\ \A r \in Reqs : run[r] = "in" =>
       /\ callback[Target[r]]
       /\ "excl" \in DeclFlags[Target[r]] => excl[Target[r]] = r

(* Poll operation: one thread declares methods and serves requests in      *)
(* turn, so that whoever has a pointer to a method is alone.               *)
PollInv ==
  /\ \A a \in Apps : reg[a] # Free =>
       /\ apc = "idle"
       /\ \A b \in Apps : reg[b] # Free => b = a
       /\ reg[a].m \in table /\ reg[a].g = gen[reg[a].m]
       /\ reg[a].op = "undecl" => cur = reg[a].m
       /\ reg[a].op # "none"
  /\ \A m \in Methods : "threaded" \notin flags[m]
  /\ \A r \in Reqs :
       /\ ~inThread[r]
       /\ run[r] \in Active => apc = "inline" /\ areq = r
       /\ run[r] = "none" => ~rpcFreed[r]
       /\ areq = r =>
            /\ Target[r] \in table /\ ptr[r] = gen[Target[r]]
            /\ run[r] # "none" /\ ~rpcFreed[r]
  /\ ~fault
=============================================================================
