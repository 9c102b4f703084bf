-------------------------- MODULE MethodCallProofs --------------------------
(***************************************************************************)
(* Proofs about MethodCall, for any number of methods, requests and        *)
(* threads.                                                                *)
(***************************************************************************)
EXTENDS MethodCall, TLAPS

(* The types of the tables and of the threads, and those of requests.      *)
RegistryType ==
  /\ table \subseteq Methods
  /\ cur \in Methods \cup {NoMethod}
  /\ gen \in [Methods -> Nat]
  /\ flags \in [Methods -> SUBSET {"threaded", "excl"}]
  /\ callback \in [Methods -> BOOLEAN]
  /\ excl \in [Methods -> Reqs \cup {NoReq}]
  /\ reg \in [Apps -> [op : {"none", "decl", "undecl"}, m : Methods \cup {NoMethod},
                       g : Nat]]
ServerType ==
  /\ apc \in {"idle", "rpc", "inline", "recheck", "check"}
  /\ areq \in Reqs \cup {NoReq}
  /\ apc = "idle" <=> areq = NoReq
  /\ fault \in BOOLEAN
RequestType ==
  /\ ptr \in [Reqs -> Nat]
  /\ run \in [Reqs -> {"none", "found", "enter", "in", "ran", "end", "lost"}]
  /\ inThread \in [Reqs -> BOOLEAN]
  /\ errors \subseteq Reqs
  /\ calls \in [Reqs -> BOOLEAN]
  /\ replies \in [Reqs -> 0 .. 2]
  /\ noMethod \in [Reqs -> BOOLEAN]
  /\ rpcFreed \in [Reqs -> BOOLEAN]

(* TypeOK in three parts: the table of methods, the threads that serve,    *)
(* and the requests.  The proofs below cite the part they need.            *)
LEMMA TypeParts == TypeOK <=> RegistryType /\ ServerType /\ RequestType
  BY DEF TypeOK, RegistryType, ServerType, RequestType

(* Every reachable state is of the type TypeOK states, whatever is         *)
(* declared meanwhile, and the A-Bus thread has a request exactly while it *)
(* is not receiving.                                                       *)
THEOREM TypeCorrect == Spec => []TypeOK
<1>1. Init => TypeOK
  <2> SUFFICES ASSUME Init PROVE RegistryType /\ ServerType /\ RequestType
    BY TypeParts
  <2>1. RegistryType
    <3>1. table \subseteq Methods /\ cur \in Methods \cup {NoMethod}
      BY DEF Init
    <3>2. flags \in [Methods -> SUBSET {"threaded", "excl"}]
      BY MethodAssumption DEF Init
    <3>3. reg \in [Apps -> [op : {"none", "decl", "undecl"},
                            m : Methods \cup {NoMethod}, g : Nat]]
      BY DEF Init, Free
    <3>4. gen \in [Methods -> Nat] /\ excl \in [Methods -> Reqs \cup {NoReq}]
      BY DEF Init
    <3>5. callback \in [Methods -> BOOLEAN]
      BY DEF Init
    <3> QED  BY <3>1, <3>2, <3>3, <3>4, <3>5 DEF RegistryType
  <2>2. ServerType
    BY MethodAssumption DEF Init, ServerType
  <2>3. RequestType
    BY DEF Init, RequestType
  <2> QED  BY <2>1, <2>2, <2>3
<1>2. TypeOK /\ [Next]_vars => TypeOK'
  <2> SUFFICES ASSUME RegistryType, ServerType, RequestType, [Next]_vars
               PROVE  RegistryType' /\ ServerType' /\ RequestType'
    BY DEF TypeOK, RegistryType, ServerType, RequestType
  <2>1. CASE UNCHANGED vars
    BY <2>1 DEF vars, registry, rpc, RegistryType, ServerType, RequestType
  <2>2. CASE Fails
    <3>1. RegistryType'
      BY <2>2 DEF Fails, registry, RegistryType
    <3>2. ServerType'
      BY <2>2 DEF Fails, ServerType
    <3>3. RequestType'
      BY <2>2 DEF Fails, rpc, RequestType
    <3> QED  BY <3>1, <3>2, <3>3
  <2>3. ASSUME NEW a \in Apps, NEW m \in Methods, DeclLookup(a, m)
        PROVE  RegistryType' /\ ServerType' /\ RequestType'
    <3> USE <2>3 DEF DeclLookup
    <3>1. gen' \in [Methods -> Nat]
      BY DEF RegistryType
    <3>2. reg' \in [Apps -> [op : {"none", "decl", "undecl"},
                             m : Methods \cup {NoMethod}, g : Nat]]
      BY <3>1 DEF RegistryType
    <3>3. table' \subseteq Methods /\ cur' \in Methods \cup {NoMethod}
      BY DEF RegistryType
    <3>4. flags' \in [Methods -> SUBSET {"threaded", "excl"}]
      BY DEF RegistryType
    <3>5. callback' \in [Methods -> BOOLEAN]
      BY DEF RegistryType
    <3>6. excl' \in [Methods -> Reqs \cup {NoReq}]
      BY DEF RegistryType
    <3>7. ServerType'
      BY DEF ServerType
    <3>8. RequestType'
      BY DEF rpc, RequestType
    <3> QED  BY ONLY <3>1, <3>2, <3>3, <3>4, <3>5, <3>6, <3>7, <3>8 DEF RegistryType
  <2>4. ASSUME NEW a \in Apps, NEW m \in Methods, UndeclLookup(a, m)
        PROVE  RegistryType' /\ ServerType' /\ RequestType'
    <3>1. RegistryType'
      BY <2>4 DEF UndeclLookup, RegistryType
    <3>2. ServerType'
      BY <2>4 DEF UndeclLookup, ServerType
    <3>3. RequestType'
      BY <2>4 DEF UndeclLookup, rpc, RequestType
    <3> QED  BY <3>1, <3>2, <3>3
  <2>5. ASSUME NEW a \in Apps, DeclAssign(a), ~Fails
        PROVE  RegistryType' /\ ServerType' /\ RequestType'
    <3> USE <2>5 DEF DeclAssign
    <3>1. flags' \in [Methods -> SUBSET {"threaded", "excl"}]
      BY MethodAssumption DEF RegistryType
    <3>2. reg' \in [Apps -> [op : {"none", "decl", "undecl"},
                             m : Methods \cup {NoMethod}, g : Nat]]
      BY DEF RegistryType, Free
    <3>3. callback' \in [Methods -> BOOLEAN]
      BY DEF RegistryType
    <3>4. excl' \in [Methods -> Reqs \cup {NoReq}]
      BY DEF RegistryType
    <3>5. table' \subseteq Methods /\ cur' \in Methods \cup {NoMethod} /\ gen' \in [Methods -> Nat]
      BY DEF RegistryType
    <3>6. ServerType'
      BY DEF ServerType
    <3>7. RequestType'
      BY DEF rpc, RequestType
    <3> QED  BY ONLY <3>1, <3>2, <3>3, <3>4, <3>5, <3>6, <3>7 DEF RegistryType
  <2>6. ASSUME NEW a \in Apps, UndeclDelete(a), ~Fails
        PROVE  RegistryType' /\ ServerType' /\ RequestType'
    <3> USE <2>6 DEF UndeclDelete
    <3>1. table' \subseteq Methods /\ cur' \in Methods \cup {NoMethod}
      BY DEF RegistryType, OnSomeItem
    <3>2. reg' \in [Apps -> [op : {"none", "decl", "undecl"},
                             m : Methods \cup {NoMethod}, g : Nat]]
      BY DEF RegistryType, Free
    <3>3. gen' = gen /\ flags' = flags /\ callback' = callback /\ excl' = excl
      OBVIOUS
    <3>4. RegistryType'
      BY ONLY RegistryType, <3>1, <3>2, <3>3 DEF RegistryType
    <3>5. ServerType'
      BY DEF ServerType
    <3>6. RequestType'
      BY DEF rpc, RequestType
    <3> QED  BY <3>4, <3>5, <3>6
  <2>7. ASSUME NEW r \in Reqs, Receive(r)
        PROVE  RegistryType' /\ ServerType' /\ RequestType'
    <3> USE <2>7 DEF Receive
    <3>1. cur' \in Methods \cup {NoMethod}
      BY MethodAssumption DEF RegistryType
    <3>2. RegistryType'
      BY <3>1 DEF RegistryType
    <3>3. ServerType'
      BY MethodAssumption DEF ServerType
    <3>4. ptr' \in [Reqs -> Nat]
      BY MethodAssumption DEF RegistryType, RequestType
    <3>5. run' \in [Reqs -> {"none", "found", "enter", "in", "ran", "end", "lost"}]
      BY DEF RequestType
    <3>6. inThread' \in [Reqs -> BOOLEAN] /\ calls' \in [Reqs -> BOOLEAN] /\ errors' \subseteq Reqs
      BY DEF RequestType
    <3>7. replies' \in [Reqs -> 0 .. 2]
      BY DEF RequestType, Reply
    <3>8. noMethod' \in [Reqs -> BOOLEAN]
      BY DEF RequestType
    <3>9. rpcFreed' \in [Reqs -> BOOLEAN]
      BY DEF RequestType, FreeRpc
    <3> QED  BY ONLY <3>2, <3>3, <3>4, <3>5, <3>6, <3>7, <3>8, <3>9 DEF RequestType
  <2>8. ASSUME NEW r \in Reqs, EnterCallback(r), ~Fails
        PROVE  RegistryType' /\ ServerType' /\ RequestType'
    <3> USE <2>8 DEF EnterCallback
    <3>1. excl' \in [Methods -> Reqs \cup {NoReq}]
      BY DEF RegistryType, Locks
    <3>2. run' \in [Reqs -> {"none", "found", "enter", "in", "ran", "end", "lost"}]
      BY DEF RequestType
    <3>3. calls' \in [Reqs -> BOOLEAN]
      BY DEF RequestType
    <3>4. RegistryType'
      BY <3>1 DEF RegistryType, registry
    <3>5. ServerType'
      BY DEF ServerType
    <3>6. UNCHANGED <<ptr, inThread, errors, replies, noMethod, rpcFreed>>
      OBVIOUS
    <3>7. RequestType'
      BY ONLY RequestType, <3>2, <3>3, <3>6 DEF RequestType
    <3> QED  BY <3>4, <3>5, <3>7
  <2>9. ASSUME NEW r \in Reqs, LeaveCallback(r), ~Fails
        PROVE  RegistryType' /\ ServerType' /\ RequestType'
    <3> USE <2>9 DEF LeaveCallback
    <3>1. excl' \in [Methods -> Reqs \cup {NoReq}]
      BY DEF RegistryType, Unlocks
    <3>2. RegistryType'
      BY <3>1 DEF RegistryType, registry
    <3>3. ServerType'
      BY DEF ServerType
    <3>4. RequestType'
      BY DEF RequestType
    <3> QED  BY <3>2, <3>3, <3>4
  <2>10. ASSUME NEW r \in Reqs, ThreadReply(r), ~Fails
         PROVE  RegistryType' /\ ServerType' /\ RequestType'
    <3> USE <2>10 DEF ThreadReply
    <3>1. RegistryType'
      BY DEF RegistryType, registry
    <3>2. ServerType'
      BY DEF ServerType
    <3>3. replies' \in [Reqs -> 0 .. 2]
      BY DEF RequestType, Reply
    <3>4. rpcFreed' \in [Reqs -> BOOLEAN]
      BY DEF RequestType, FreeRpc
    <3>5. run' \in [Reqs -> {"none", "found", "enter", "in", "ran", "end", "lost"}]
      BY DEF RequestType
    <3>6. UNCHANGED <<ptr, inThread, errors, calls, noMethod>>
      OBVIOUS
    <3>7. RequestType'
      BY ONLY RequestType, <3>3, <3>4, <3>5, <3>6 DEF RequestType
    <3> QED  BY <3>1, <3>2, <3>7
  <2>11. ASSUME DoRpc, ~Fails
         PROVE  RegistryType' /\ ServerType' /\ RequestType'
    <3> USE <2>11 DEF DoRpc
    <3>1. RegistryType'
      BY DEF RegistryType, registry
    <3>2. ServerType'
      BY DEF ServerType
    <3>3. run' \in [Reqs -> {"none", "found", "enter", "in", "ran", "end", "lost"}]
      BY DEF RequestType
    <3>4. inThread' \in [Reqs -> BOOLEAN]
      BY DEF RequestType
    <3>5. UNCHANGED <<ptr, errors, calls, replies, noMethod, rpcFreed>>
      OBVIOUS
    <3>6. RequestType'
      BY ONLY RequestType, <3>3, <3>4, <3>5 DEF RequestType
    <3> QED  BY <3>1, <3>2, <3>6
  <2>12. CASE Returned
    <3> USE <2>12 DEF Returned
    <3>1. RegistryType'
      BY DEF RegistryType, registry
    <3>2. ServerType'
      BY DEF ServerType
    <3>3. RequestType'
      BY DEF RequestType
    <3> QED  BY <3>1, <3>2, <3>3
  <2>13. ASSUME Recheck, ~Fails
         PROVE  RegistryType' /\ ServerType' /\ RequestType'
    <3> USE <2>13 DEF Recheck
    <3>1. RegistryType'
      BY DEF RegistryType, registry
    <3>2. ServerType'
      BY DEF ServerType
    <3>3. rpcFreed' \in [Reqs -> BOOLEAN]
      BY DEF RequestType, FreeRpc
    <3>4. UNCHANGED <<ptr, run, inThread, errors, calls, replies, noMethod>>
      OBVIOUS
    <3>5. RequestType'
      BY ONLY RequestType, <3>3, <3>4 DEF RequestType
    <3> QED  BY <3>1, <3>2, <3>5
  <2>14. ASSUME Check, ~Fails
         PROVE  RegistryType' /\ ServerType' /\ RequestType'
    <3> USE <2>14 DEF Check
    <3>1. RegistryType'
      BY DEF RegistryType, registry
    <3>2. ServerType'
      BY DEF ServerType
    <3>3. rpcFreed' \in [Reqs -> BOOLEAN]
      BY DEF RequestType, FreeRpc
    <3>4. replies' \in [Reqs -> 0 .. 2]
      BY DEF RequestType, Reply
    <3>5. UNCHANGED <<ptr, run, inThread, errors, calls, noMethod>>
      OBVIOUS
    <3>6. RequestType'
      BY ONLY RequestType, <3>3, <3>4, <3>5 DEF RequestType
    <3> QED  BY <3>1, <3>2, <3>6
  <2>15. CASE Terminating
    BY <2>15, <2>1 DEF Terminating
  <2> QED
    BY <2>1, <2>2, <2>3, <2>4, <2>5, <2>6, <2>7, <2>8, <2>9, <2>10, <2>11, <2>12, <2>13,
       <2>14, <2>15 DEF Next, CallStep
<1> QED
  BY <1>1, <1>2, PTL DEF Spec

-----------------------------------------------------------------------------
(* Who owns a request                                                      *)

(* The steps that leave alone all that AnswerInv speaks of keep it.        *)
LEMMA AnswerKept ==
  ASSUME AnswerInv,
         UNCHANGED <<table, gen, flags, callback, apc, areq, ptr, run, inThread, errors,
                     calls, replies, noMethod, rpcFreed>>,
         \A a \in Apps : reg'[a] = Free \/ Redeclares(a)'
  PROVE  AnswerInv'
  BY DEF AnswerInv, StaticInv, ServeInv

(* Init gives requests to nobody.                                          *)
LEMMA AnswerInit ==
  ASSUME Changes \subseteq {"redecl"}, Init
  PROVE  AnswerInv
<1>1. StaticInv
  BY MethodAssumption DEF Init, StaticInv, Free
<1>2. ASSUME NEW r \in Reqs PROVE ServeInv(r)
  BY MethodAssumption DEF Init, ServeInv, Active
<1> QED  BY <1>1, <1>2 DEF AnswerInv

(* A step of any thread keeps the ownership of requests.                   *)
LEMMA AnswerStep ==
  ASSUME Changes \subseteq {"redecl"}, TypeOK, AnswerInv, [Next]_vars
  PROVE  AnswerInv'
<1> USE DEF AnswerInv
<1>1. CASE UNCHANGED vars
  BY <1>1, AnswerKept DEF vars, registry, rpc, StaticInv, Redeclares
<1>2. CASE Fails
  BY <1>2, AnswerKept DEF Fails, registry, rpc, StaticInv, Redeclares
<1>3. ASSUME NEW a \in Apps, NEW m \in Methods, DeclLookup(a, m)
      PROVE  AnswerInv'
  <2>1. m \in table /\ gen' = gen /\ gen[m] = 1
    BY <1>3 DEF DeclLookup, StaticInv
  <2>2. reg' = [reg EXCEPT ![a] = [op |-> "decl", m |-> m, g |-> gen'[m]]]
    BY <1>3 DEF DeclLookup
  <2>3. \A b \in Apps : reg'[b] = Free \/ Redeclares(b)'
    BY <2>1, <2>2 DEF StaticInv, Redeclares, TypeOK
  <2> QED BY <1>3, <2>1, <2>3, AnswerKept DEF DeclLookup, rpc, StaticInv
<1>4. ASSUME NEW a \in Apps, NEW m \in Methods, UndeclLookup(a, m)
      PROVE  FALSE
  BY <1>4 DEF UndeclLookup
<1>5. ASSUME NEW a \in Apps, DeclAssign(a), ~Fails
      PROVE  AnswerInv'
  <2>1. flags' = flags
    BY <1>5, MethodAssumption DEF DeclAssign, StaticInv, Dangling
  <2>2. callback' = callback
    <3>1. callback' = [callback EXCEPT ![reg[a].m] = TRUE]
      BY <1>5 DEF DeclAssign
    <3>2. callback \in [Methods -> BOOLEAN] /\ \A m \in Methods : callback[m] = TRUE
      BY <1>5 DEF StaticInv, TypeOK
    <3> QED  BY <3>1, <3>2
  <2>3. \A b \in Apps : reg'[b] = Free \/ Redeclares(b)'
    BY <1>5 DEF DeclAssign, StaticInv, Redeclares, TypeOK
  <2> QED  BY <1>5, <2>1, <2>2, <2>3, AnswerKept DEF DeclAssign, rpc
<1>6. ASSUME NEW a \in Apps, UndeclDelete(a)
      PROVE  FALSE
  BY <1>6 DEF UndeclDelete, StaticInv, Redeclares, Free
<1>7. ASSUME NEW q \in Reqs, Receive(q)
      PROVE  AnswerInv'
  <2>1. Target[q] \in table
    BY MethodAssumption DEF StaticInv
  <2>2. StaticInv'
    BY <1>7 DEF Receive, StaticInv, Redeclares
  <2>3. ASSUME NEW r \in Reqs PROVE ServeInv(r)'
    <3>1. ServeInv(r) /\ ServeInv(q)
      OBVIOUS
    <3>2. CASE r = q
      BY <1>7, <2>1, <3>1, <3>2, MethodAssumption DEF Receive, FreeRpc, ServeInv, StaticInv, TypeOK, Active
    <3>3. CASE r # q
      BY <1>7, <2>1, <3>1, <3>3, MethodAssumption DEF Receive, FreeRpc, ServeInv, TypeOK, Active
    <3> QED  BY <3>2, <3>3
  <2> QED  BY <2>2, <2>3
<1>8. ASSUME NEW q \in Reqs, EnterCallback(q), ~Fails
      PROVE  AnswerInv'
  <2>1. callback[Target[q]]
    BY MethodAssumption DEF StaticInv
  <2>2. StaticInv'
    BY <1>8 DEF EnterCallback, registry, StaticInv, Redeclares
  <2>3. ASSUME NEW r \in Reqs PROVE ServeInv(r)'
    <3>1. ServeInv(r)
      OBVIOUS
    <3> QED  BY <1>8, <2>1, <3>1 DEF EnterCallback, ServeInv, TypeOK, Active
  <2> QED  BY <2>2, <2>3
<1>9. ASSUME NEW q \in Reqs, LeaveCallback(q), ~Fails
      PROVE  AnswerInv'
  <2>2. StaticInv'
    BY <1>9 DEF LeaveCallback, registry, StaticInv, Redeclares
  <2>3. ASSUME NEW r \in Reqs PROVE ServeInv(r)'
    <3>1. ServeInv(r)
      OBVIOUS
    <3> QED  BY <1>9, <3>1 DEF LeaveCallback, ServeInv, TypeOK, Active
  <2> QED  BY <2>2, <2>3
<1>10. ASSUME NEW q \in Reqs, ThreadReply(q), ~Fails
       PROVE  AnswerInv'
  <2>2. StaticInv'
    BY <1>10 DEF ThreadReply, registry, StaticInv, Redeclares
  <2>3. ASSUME NEW r \in Reqs PROVE ServeInv(r)'
    <3>1. ServeInv(r)
      OBVIOUS
    <3> QED  BY <1>10, <3>1 DEF ThreadReply, Reply, Replies, FreeRpc, ServeInv, TypeOK, Active
  <2> QED  BY <2>2, <2>3
<1>11. ASSUME DoRpc, ~Fails
       PROVE  AnswerInv'
  <2>1. areq \in Reqs
    BY <1>11, MethodAssumption DEF DoRpc, TypeOK
  <2>2. StaticInv'
    BY <1>11 DEF DoRpc, registry, StaticInv, Redeclares
  <2>3. ASSUME NEW r \in Reqs PROVE ServeInv(r)'
    <3>1. ServeInv(r) /\ flags = DeclFlags
      BY DEF StaticInv
    <3>2. CASE r = areq
      BY <1>11, <2>1, <3>1, <3>2 DEF DoRpc, ServeInv, TypeOK, Active
    <3>3. CASE r # areq
      BY <1>11, <2>1, <3>1, <3>3 DEF DoRpc, ServeInv, TypeOK, Active
    <3> QED  BY <3>2, <3>3
  <2> QED  BY <2>2, <2>3
<1>12. CASE Returned
  <2>1. areq \in Reqs
    BY <1>12, MethodAssumption DEF Returned, TypeOK
  <2>2. StaticInv'
    BY <1>12 DEF Returned, registry, StaticInv, Redeclares
  <2>3. ASSUME NEW r \in Reqs PROVE ServeInv(r)'
    <3>1. ServeInv(r)
      OBVIOUS
    <3> QED  BY <1>12, <2>1, <3>1 DEF Returned, ServeInv, TypeOK, Active
  <2> QED  BY <2>2, <2>3
<1>13. ASSUME Recheck, ~Fails
       PROVE  AnswerInv'
  <2>1. areq \in Reqs
    BY <1>13, MethodAssumption DEF Recheck, TypeOK
  <2>2. StaticInv'
    BY <1>13 DEF Recheck, registry, StaticInv, Redeclares
  <2>3. ASSUME NEW r \in Reqs PROVE ServeInv(r)'
    <3>1. ServeInv(r) /\ flags = DeclFlags
      BY DEF StaticInv
    <3> QED  BY <1>13, <2>1, <3>1, MethodAssumption DEF Recheck, FreeRpc, ServeInv, TypeOK, Active
  <2> QED  BY <2>2, <2>3
<1>14. ASSUME Check, ~Fails
       PROVE  AnswerInv'
  <2>1. areq \in Reqs
    BY <1>14, MethodAssumption DEF Check, TypeOK
  <2>2. StaticInv'
    BY <1>14 DEF Check, registry, StaticInv, Redeclares
  <2>3. ASSUME NEW r \in Reqs PROVE ServeInv(r)'
    <3>1. ServeInv(r) /\ flags = DeclFlags
      BY DEF StaticInv
    <3> QED
      BY <1>14, <2>1, <3>1, MethodAssumption
         DEF Check, AnsweredByThread, Reply, FreeRpc, ServeInv, TypeOK, Active
  <2> QED  BY <2>2, <2>3
<1>15. CASE Terminating
  BY <1>15, <1>1 DEF Terminating
<1> QED
  BY <1>1, <1>2, <1>3, <1>4, <1>5, <1>6, <1>7, <1>8, <1>9, <1>10, <1>11, <1>12, <1>13,
     <1>14, <1>15 DEF Next, CallStep

(* No freed request is used but by the A-Bus thread for a request that it  *)
(* gave to a thread, when its turn ends.                                   *)
LEMMA LateReadStep ==
  ASSUME Changes \subseteq {"redecl"}, TypeOK, AnswerInv, LateReadInv, [Next]_vars
  PROVE  LateReadInv'
<1>1. CASE fault
  BY <1>1 DEF Next, DeclLookup, MayRegister, UndeclLookup, DeclAssign, UndeclDelete, Receive,
              CallStep, EnterCallback, LeaveCallback, ThreadReply, DoRpc, Returned, Recheck,
              Check, Terminating, vars, rpc, LateReadInv
<1>2. CASE ~fault
  <2>1. \A r \in Reqs : /\ ServeInv(r)
                        /\ run[r] # "none" => ~Stale(r)
    BY MethodAssumption DEF AnswerInv, StaticInv, ServeInv, Stale, Dangling
  <2>2. ASSUME NEW a \in Apps, DeclAssign(a) PROVE fault' = FALSE
    <3>1. ~Dangling(reg[a].m, reg[a].g)
      BY <2>2 DEF DeclAssign, Dangling, AnswerInv, StaticInv, Redeclares, Free
    <3> QED BY <1>2, <2>2, <3>1 DEF DeclAssign
  <2>3. ASSUME NEW a \in Apps, UndeclDelete(a) PROVE FALSE
    BY <2>3 DEF UndeclDelete, AnswerInv, StaticInv, Redeclares, Free
  <2>4. ASSUME NEW r \in Reqs, CallStep(r) PROVE fault' = FALSE
    <3>1. run[r] \in Active
      BY <2>4 DEF CallStep, EnterCallback, LeaveCallback, ThreadReply, Active
    <3>2. ~Stale(r) /\ ~rpcFreed[r]
      BY <2>1, <3>1 DEF ServeInv, Active
    <3> QED BY <1>2, <2>4, <3>2 DEF CallStep, EnterCallback, LeaveCallback, ThreadReply
  <2>5. CASE DoRpc \/ Recheck \/ Check
    <3>1. areq \in Reqs /\ run[areq] # "none"
      BY <2>1, <2>5, MethodAssumption DEF DoRpc, Recheck, Check, TypeOK, ServeInv
    <3>2. CASE DoRpc
      BY <1>2, <2>1, <3>1, <3>2 DEF DoRpc, LateReadInv
    <3>3. CASE Recheck
      <4>1. flags = DeclFlags /\ ~Stale(areq)
        BY <2>1, <3>1 DEF AnswerInv, StaticInv
      <4>2. rpcFreed[areq] => "threaded" \in flags[Target[areq]]
        BY <2>1, <3>1, <4>1 DEF ServeInv
      <4> QED BY <1>2, <3>3, <4>1, <4>2 DEF Recheck, LateReadInv
    <3>4. CASE Check
      <4>1. ~Stale(areq) /\ (rpcFreed[areq] => inThread[areq])
        BY <2>1, <3>1 DEF ServeInv
      <4>2. CASE rpcFreed[areq]
        BY <3>4, <4>1, <4>2 DEF Check, Fails, rpc, LateReadInv
      <4>3. CASE ~rpcFreed[areq]
        BY <1>2, <3>4, <4>1, <4>3 DEF Check, LateReadInv
      <4> QED BY <4>2, <4>3
    <3> QED BY <2>5, <3>2, <3>3, <3>4
  <2>6. CASE fault' = fault
    BY <1>2, <2>6 DEF LateReadInv
  <2> QED
    BY <2>2, <2>3, <2>4, <2>5, <2>6
       DEF Next, DeclLookup, UndeclLookup, Receive, Returned, Terminating, vars, LateReadInv
<1> QED BY <1>1, <1>2

(* While methods are at most declared again, a request is answered at most *)
(* once, by the A-Bus thread or by its own thread; a notification gets at  *)
(* most the error that its callback set in a thread of its own; a response *)
(* follows the return of the callback; and the only use of a freed request *)
(* is the last look of the A-Bus thread at one it gave to a thread.        *)
THEOREM AnswersOnce ==
  ASSUME Changes \subseteq {"redecl"}
  PROVE  Spec => []AnsweredOnce
<1>1. Init => AnswerInv /\ LateReadInv
  BY AnswerInit DEF Init, LateReadInv
<1>2. TypeOK /\ AnswerInv /\ LateReadInv /\ [Next]_vars => AnswerInv' /\ LateReadInv'
  BY AnswerStep, LateReadStep
<1>3. TypeOK /\ AnswerInv /\ LateReadInv => AnsweredOnce
  <2> SUFFICES ASSUME TypeOK, AnswerInv, LateReadInv, NEW r \in Reqs
               PROVE  /\ replies[r] <= 1
                      /\ r \notin WithId /\ ~noMethod[r] /\ replies[r] > 0
                           => inThread[r] /\ r \in errors
                      /\ replies[r] > 0 /\ ~noMethod[r] => calls[r] /\ run[r] = "end"
    BY DEF AnsweredOnce, LateReadInv
  <2>1. ServeInv(r)
    BY DEF AnswerInv
  <2> QED  BY <2>1 DEF ServeInv, TypeOK, Active
<1> QED
  BY <1>1, <1>2, <1>3, TypeCorrect, PTL DEF Spec

-----------------------------------------------------------------------------
(* Exclusive methods                                                       *)

(* The steps that leave the method table, the mutexes, the declarations    *)
(* and the requests inside a callback as they are keep ExclInv.            *)
LEMMA ExclKept ==
  ASSUME ExclInv, UNCHANGED <<table, flags, callback, excl, reg>>,
         \A r \in Reqs : run'[r] = "in" => run[r] = "in"
  PROVE  ExclInv'
  BY DEF ExclInv

(* A step of any thread keeps the mutex of an exclusive method with the    *)
(* request that is inside its callback.                                    *)
LEMMA ExclStep ==
  ASSUME Changes \subseteq {"decl"}, TypeOK, ExclInv, [Next]_vars
  PROVE  ExclInv'
<1>1. CASE UNCHANGED vars
  BY <1>1, ExclKept DEF vars, registry, rpc
<1>2. CASE Fails
  BY <1>2, ExclKept DEF Fails, registry, rpc
<1>3. ASSUME NEW a \in Apps, NEW m \in Methods, DeclLookup(a, m)
      PROVE  ExclInv'
  <2>1. m \notin table /\ table' = table \cup {m}
    BY <1>3 DEF DeclLookup
  <2>2. ~callback[m] /\ ~callback'[m] /\ \A k \in Methods \ {m} : callback'[k] = callback[k]
    BY <1>3, <2>1 DEF DeclLookup, ExclInv, TypeOK
  <2>3. \A k \in Methods \ {m} : flags'[k] = flags[k] /\ excl'[k] = excl[k]
    BY <1>3, <2>1 DEF DeclLookup, TypeOK
  <2>4. reg'[a].op = "decl" /\ reg'[a].m = m /\ \A b \in Apps \ {a} : reg'[b] = reg[b]
    BY <1>3 DEF DeclLookup, TypeOK
  <2>5. \A b \in Apps : reg[b].m # m
    <3> SUFFICES ASSUME NEW b \in Apps PROVE reg[b].m # m
      OBVIOUS
    <3>1. CASE reg[b] = Free  BY <3>1, MethodAssumption DEF Free
    <3>2. CASE reg[b] # Free  BY <3>2, <2>1 DEF ExclInv
    <3> QED  BY <3>1, <3>2
  <2>6. run' = run
    BY <1>3 DEF DeclLookup, rpc
  <2>7. ASSUME NEW r \in Reqs, run[r] = "in" PROVE Target[r] \in Methods \ {m}
    BY <2>2, <2>7, MethodAssumption DEF ExclInv
  <2>8. \A k \in Methods : callback'[k] => k \in table' /\ flags'[k] = DeclFlags[k]
    BY <2>1, <2>2, <2>3 DEF ExclInv
  <2>9. ASSUME NEW b \in Apps, reg'[b] # Free
        PROVE  /\ reg'[b].op = "decl"
               /\ reg'[b].m \in table' /\ ~callback'[reg'[b].m]
               /\ \A c \in Apps : reg'[c].m = reg'[b].m => c = b
    <3>1. CASE b = a  BY <3>1, <2>1, <2>2, <2>4, <2>5
    <3>2. CASE b # a
      <4>1. reg'[b] = reg[b] /\ reg[b].m \in table /\ reg[b].m # m
        BY <3>2, <2>9, <2>4, <2>5 DEF ExclInv
      <4> QED  BY <4>1, <3>2, <2>1, <2>2, <2>4, <2>9 DEF ExclInv, TypeOK
    <3> QED  BY <3>1, <3>2
  <2>10. \A r \in Reqs : run'[r] = "in" =>
           /\ callback'[Target[r]]
           /\ "excl" \in DeclFlags[Target[r]] => excl'[Target[r]] = r
    BY <2>2, <2>3, <2>6, <2>7 DEF ExclInv
  <2> QED  BY <2>8, <2>9, <2>10 DEF ExclInv
<1>4. ASSUME NEW a \in Apps, NEW m \in Methods, UndeclLookup(a, m)
      PROVE  FALSE
  BY <1>4 DEF UndeclLookup
<1>5. ASSUME NEW a \in Apps, DeclAssign(a), ~Fails
      PROVE  ExclInv'
  <2> DEFINE m == reg[a].m
  <2>1. reg[a] # Free
    BY <1>5 DEF DeclAssign, Free
  <2>2. m \in Methods /\ m \in table /\ ~callback[m] /\ \A b \in Apps : reg[b].m = m => b = a
    BY <2>1 DEF ExclInv, TypeOK
  <2>3. /\ table' = table /\ run' = run /\ reg'[a] = Free
        /\ flags'[m] = DeclFlags[m]
        /\ \A k \in Methods \ {m} : /\ flags'[k] = flags[k] /\ excl'[k] = excl[k]
                                    /\ callback'[k] = callback[k]
        /\ \A b \in Apps \ {a} : reg'[b] = reg[b]
    BY <1>5, <2>2 DEF DeclAssign, TypeOK, rpc
  <2>4. \A k \in Methods : callback'[k] => k \in table' /\ flags'[k] = DeclFlags[k]
    BY <2>2, <2>3 DEF ExclInv
  <2>5. ASSUME NEW b \in Apps, reg'[b] # Free
        PROVE  /\ reg'[b].op = "decl"
               /\ reg'[b].m \in table' /\ ~callback'[reg'[b].m]
               /\ \A c \in Apps : reg'[c].m = reg'[b].m => c = b
    <3>1. b # a /\ reg'[b] = reg[b]
      BY <2>3, <2>5
    <3>2. reg[b].m \in Methods \ {m} /\ reg[b].m # NoMethod
      BY <3>1, <2>2, <2>5, MethodAssumption DEF ExclInv, TypeOK
    <3> QED  BY <3>1, <3>2, <2>3, <2>5 DEF ExclInv, Free
  <2>6. ASSUME NEW r \in Reqs, run'[r] = "in"
        PROVE  /\ callback'[Target[r]]
               /\ "excl" \in DeclFlags[Target[r]] => excl'[Target[r]] = r
    <3>1. Target[r] \in Methods \ {m}
      BY <2>2, <2>3, <2>6, MethodAssumption DEF ExclInv
    <3> QED  BY <3>1, <2>3, <2>6 DEF ExclInv
  <2> QED  BY <2>4, <2>5, <2>6 DEF ExclInv
<1>6. ASSUME NEW a \in Apps, UndeclDelete(a)
      PROVE  FALSE
  BY <1>6 DEF UndeclDelete, ExclInv, Free
<1>7. ASSUME NEW q \in Reqs, Receive(q)
      PROVE  ExclInv'
  BY <1>7, ExclKept DEF Receive, TypeOK
<1>8. ASSUME NEW q \in Reqs, EnterCallback(q), ~Fails
      PROVE  ExclInv'
  <2>1. CASE ~callback[Target[q]]
    BY <1>8, <2>1, ExclKept DEF EnterCallback, registry, TypeOK
  <2>2. CASE callback[Target[q]]
    <3>1. Target[q] \in Methods /\ flags[Target[q]] = DeclFlags[Target[q]]
      BY <2>2, MethodAssumption DEF ExclInv
    <3>2. ASSUME NEW r \in Reqs, run'[r] = "in"
          PROVE  /\ callback[Target[r]]
                 /\ "excl" \in DeclFlags[Target[r]] => excl'[Target[r]] = r
      <4>1. CASE r = q
        BY <1>8, <2>2, <3>1, <4>1 DEF EnterCallback, Locks, TypeOK
      <4>2. CASE r # q
        <5>1. run[r] = "in" /\ Target[r] \in Methods
          BY <1>8, <2>2, <3>2, <4>2, MethodAssumption DEF EnterCallback, TypeOK
        <5>2. Target[r] = Target[q] => "excl" \notin DeclFlags[Target[r]]
          BY <1>8, <2>2, <3>1, <5>1, MethodAssumption DEF EnterCallback, MayEnter, ExclInv
        <5> QED
          BY <1>8, <2>2, <3>1, <5>1, <5>2 DEF EnterCallback, Locks, ExclInv, TypeOK
      <4> QED  BY <4>1, <4>2
    <3>3. UNCHANGED <<table, flags, callback, reg>>
      BY <1>8 DEF EnterCallback, registry
    <3> QED  BY <3>2, <3>3 DEF ExclInv
  <2> QED  BY <2>1, <2>2
<1>9. ASSUME NEW q \in Reqs, LeaveCallback(q), ~Fails
      PROVE  ExclInv'
  <2>1. Target[q] \in Methods /\ flags[Target[q]] = DeclFlags[Target[q]]
    BY <1>9, MethodAssumption DEF LeaveCallback, ExclInv
  <2>2. ASSUME NEW r \in Reqs, run'[r] = "in"
        PROVE  /\ callback[Target[r]]
               /\ "excl" \in DeclFlags[Target[r]] => excl'[Target[r]] = r
    <3>1. r # q /\ run[r] = "in" /\ Target[r] \in Methods
      BY <1>9, <2>2, MethodAssumption DEF LeaveCallback, TypeOK
    <3>2. Target[r] = Target[q] => "excl" \notin DeclFlags[Target[r]]
      BY <1>9, <3>1 DEF LeaveCallback, ExclInv
    <3> QED  BY <1>9, <2>1, <3>1, <3>2 DEF LeaveCallback, Unlocks, ExclInv, TypeOK
  <2>3. UNCHANGED <<table, flags, callback, reg>>
    BY <1>9 DEF LeaveCallback, registry
  <2> QED  BY <2>2, <2>3 DEF ExclInv
<1>10. ASSUME NEW q \in Reqs, ThreadReply(q), ~Fails
       PROVE  ExclInv'
  BY <1>10, ExclKept DEF ThreadReply, registry, TypeOK
<1>11. ASSUME DoRpc, ~Fails
       PROVE  ExclInv'
  BY <1>11, ExclKept DEF DoRpc, registry, TypeOK
<1>12. CASE Returned
  BY <1>12, ExclKept DEF Returned, registry, TypeOK
<1>13. ASSUME Recheck, ~Fails
       PROVE  ExclInv'
  BY <1>13, ExclKept DEF Recheck, registry
<1>14. ASSUME Check, ~Fails
       PROVE  ExclInv'
  BY <1>14, ExclKept DEF Check, registry
<1>15. CASE Terminating
  BY <1>15, <1>1 DEF Terminating
<1> QED
  BY <1>1, <1>2, <1>3, <1>4, <1>5, <1>6, <1>7, <1>8, <1>9, <1>10, <1>11, <1>12, <1>13,
     <1>14, <1>15 DEF Next, CallStep

(* While methods are declared at most once, before or after requests       *)
(* arrive, no two requests are inside the callback of a method that is     *)
(* declared ABUS_RPC_EXCL.                                                 *)
THEOREM ExclusiveAlone ==
  ASSUME Changes \subseteq {"decl"}
  PROVE  Spec => []ExclOne
<1>1. Init => ExclInv
  <2> SUFFICES ASSUME Init PROVE ExclInv
    OBVIOUS
  <2>1. \A m \in Methods : callback[m] => m \in table /\ flags[m] = DeclFlags[m]
    BY DEF Init
  <2>2. \A a \in Apps : reg[a] = Free
    BY DEF Init
  <2>3. \A r \in Reqs : run[r] # "in"
    BY DEF Init
  <2> QED  BY <2>1, <2>2, <2>3 DEF ExclInv
<1>2. TypeOK /\ ExclInv /\ [Next]_vars => ExclInv'
  BY ExclStep
<1>3. ExclInv => ExclOne
  BY DEF ExclInv, ExclOne
<1> QED
  BY <1>1, <1>2, <1>3, TypeCorrect, PTL DEF Spec

-----------------------------------------------------------------------------
(* Poll operation                                                          *)

(* A request that is received, and one that the A-Bus thread serves, keeps *)
(* its method: the parts of PollInv about the requests.                    *)
PollServe ==
  /\ \A m \in Methods : "threaded" \notin flags[m]
  /\ \A r \in Reqs :
       /\ ~inThread[r]
       /\ run[r] \in Active => apc = "inline" /\ areq = r
       /\ run[r] = "none" => ~rpcFreed[r]
       /\ areq = r =>
            /\ Target[r] \in table /\ ptr[r] = gen[Target[r]]
            /\ run[r] # "none" /\ ~rpcFreed[r]
  /\ ~fault

(* The parts about the thread that declares.                               *)
PollDecl ==
  \A a \in Apps : reg[a] # Free =>
    /\ apc = "idle"
    /\ \A b \in Apps : reg[b] # Free => b = a
    /\ reg[a].m \in table /\ reg[a].g = gen[reg[a].m]
    /\ reg[a].op = "undecl" => cur = reg[a].m
    /\ reg[a].op # "none"

(* PollInv is these two parts.                                             *)
LEMMA PollParts == PollInv <=> PollDecl /\ PollServe
  BY DEF PollInv, PollDecl, PollServe

(* In poll operation a step that uses memory finds it allocated.           *)
LEMMA PollSafe ==
  ASSUME Serial, TypeOK, PollDecl, PollServe, Next
  PROVE  ~Fails
<1> SUFFICES ASSUME Fails PROVE FALSE
  OBVIOUS
<1> USE DEF PollDecl, PollServe, TypeOK
<1>1. fault' /\ UNCHANGED <<table, cur, gen, flags, callback, excl, reg, apc, areq, ptr, run,
                            inThread, calls, replies, noMethod, rpcFreed>>
  BY DEF Fails, registry, rpc
<1>2. ASSUME NEW a \in Apps, NEW m \in Methods, DeclLookup(a, m) \/ UndeclLookup(a, m)
      PROVE  FALSE
  BY <1>1, <1>2 DEF DeclLookup, UndeclLookup
<1>3. ASSUME NEW a \in Apps, DeclAssign(a) \/ UndeclDelete(a) PROVE FALSE
  <2>1. reg[a] # Free
    BY <1>3 DEF DeclAssign, UndeclDelete, Free
  <2>2. ~Dangling(reg[a].m, reg[a].g) /\ reg[a].m # NoMethod
    BY <2>1, MethodAssumption DEF Dangling
  <2>3. CASE DeclAssign(a)
    BY <1>1, <2>2, <2>3 DEF DeclAssign
  <2>4. CASE UndeclDelete(a)
    <3>1. cur # NoMethod
      BY <2>1, <2>2, <2>4 DEF UndeclDelete
    <3> QED  BY <1>1, <2>2, <2>4, <3>1 DEF UndeclDelete
  <2> QED  BY <1>3, <2>3, <2>4
<1>5. ASSUME NEW r \in Reqs, Receive(r) PROVE FALSE
  BY <1>1, <1>5 DEF Receive
<1>6. ASSUME NEW r \in Reqs, CallStep(r) PROVE FALSE
  BY <1>1, <1>6 DEF CallStep, EnterCallback, LeaveCallback, ThreadReply, Stale, Dangling, Active
<1>7. CASE DoRpc \/ Returned \/ Recheck \/ Check
  <2>1. areq \in Reqs
    BY <1>7, MethodAssumption DEF DoRpc, Returned, Recheck, Check
  <2> QED  BY <1>1, <1>7, <2>1 DEF DoRpc, Returned, Recheck, Check, Stale, Dangling
<1>8. ~Terminating
  BY <1>1 DEF Terminating, vars
<1> QED  BY <1>2, <1>3, <1>5, <1>6, <1>7, <1>8 DEF Next

(* A step keeps whoever has a pointer to a method alone.                   *)
LEMMA PollStep ==
  ASSUME Serial, \A m \in Methods : "threaded" \notin DeclFlags[m],
         TypeOK, PollInv, [Next]_vars
  PROVE  PollInv'
<1> SUFFICES PollDecl' /\ PollServe'
  BY DEF PollInv, PollDecl, PollServe
<1> PollDecl /\ PollServe
  BY PollParts
<1>1. CASE UNCHANGED vars
  BY <1>1 DEF vars, registry, rpc, PollDecl, PollServe
<1> HIDE DEF PollInv
<1>2. ASSUME Next, Fails PROVE PollDecl' /\ PollServe'
  BY <1>1, <1>2, PollSafe
<1>3. ASSUME NEW a \in Apps, NEW m \in Methods, DeclLookup(a, m)
      PROVE  PollDecl' /\ PollServe'
  <2>1. apc = "idle" /\ areq = NoReq /\ \A b \in Apps : reg[b] = Free
    BY <1>3 DEF DeclLookup, MayRegister, TypeOK
  <2>2. PollDecl'
    BY <1>3, <2>1 DEF DeclLookup, PollDecl, TypeOK, Free
  <2>3. PollServe'
    BY <1>3, <2>1, MethodAssumption DEF DeclLookup, PollServe, TypeOK, rpc
  <2> QED  BY <2>2, <2>3
<1>4. ASSUME NEW a \in Apps, NEW m \in Methods, UndeclLookup(a, m)
      PROVE  PollDecl' /\ PollServe'
  <2>1. apc = "idle" /\ areq = NoReq /\ \A b \in Apps : reg[b] = Free
    BY <1>4 DEF UndeclLookup, MayRegister, TypeOK
  <2>2. PollDecl'
    BY <1>4, <2>1 DEF UndeclLookup, PollDecl, TypeOK, Free
  <2>3. PollServe'
    BY <1>4 DEF UndeclLookup, PollServe, rpc
  <2> QED  BY <2>2, <2>3
<1>5. ASSUME NEW a \in Apps, DeclAssign(a), ~Fails
      PROVE  PollDecl' /\ PollServe'
  <2>1. \A b \in Apps : reg'[b] = Free
    BY <1>5 DEF DeclAssign, PollDecl, TypeOK, Free
  <2>2. \A m \in Methods : "threaded" \notin flags'[m]
    BY <1>5 DEF DeclAssign, PollServe, TypeOK
  <2>3. UNCHANGED <<table, gen, apc, areq, ptr, run, inThread, rpcFreed, fault>>
    BY <1>5 DEF DeclAssign, rpc
  <2> QED  BY <2>1, <2>2, <2>3 DEF PollDecl, PollServe
<1>6. ASSUME NEW a \in Apps, UndeclDelete(a), ~Fails
      PROVE  PollDecl' /\ PollServe'
  <2>1. \A b \in Apps : reg'[b] = Free
    BY <1>6 DEF UndeclDelete, PollDecl, TypeOK, Free
  <2>2. areq = NoReq
    BY <1>6 DEF UndeclDelete, PollDecl, TypeOK, Free
  <2>3. UNCHANGED <<gen, flags, apc, areq, ptr, run, inThread, rpcFreed, fault>>
    BY <1>6 DEF UndeclDelete, rpc
  <2> QED  BY <2>1, <2>2, <2>3, MethodAssumption DEF PollDecl, PollServe
<1>7. ASSUME NEW q \in Reqs, Receive(q)
      PROVE  PollDecl' /\ PollServe'
  <2>1. PollDecl'
    BY <1>7 DEF Receive, MayServe, PollDecl
  <2>2. PollServe'
    BY <1>7, MethodAssumption DEF Receive, FreeRpc, PollServe, TypeOK, Active
  <2> QED  BY <2>1, <2>2
<1>8. ASSUME NEW q \in Reqs, CallStep(q), ~Fails
      PROVE  PollDecl' /\ PollServe'
  <2>1. ~ThreadReply(q)
    BY DEF ThreadReply, PollServe
  <2>2. UNCHANGED <<table, cur, gen, flags, reg, apc, areq, ptr, inThread, rpcFreed, fault>>
    BY <1>8, <2>1 DEF CallStep, EnterCallback, LeaveCallback, registry
  <2>3. /\ run[q] \in Active
        /\ \A r \in Reqs : run'[r] = run[r] \/ (r = q /\ run'[r] \in Active)
    BY <1>8, <2>1 DEF CallStep, EnterCallback, LeaveCallback, TypeOK, Active
  <2>4. PollDecl'
    BY <2>2 DEF PollDecl
  <2>5. PollServe'
    BY <2>2, <2>3 DEF PollServe, Active
  <2> QED  BY <2>4, <2>5
<1>9. ASSUME DoRpc \/ Returned \/ Recheck \/ Check, ~Fails
      PROVE  PollDecl' /\ PollServe'
  <2>1. areq \in Reqs /\ apc # "idle"
    BY <1>9, MethodAssumption DEF DoRpc, Returned, Recheck, Check, TypeOK
  <2>2. UNCHANGED <<table, cur, gen, flags, reg>>
    BY <1>9 DEF DoRpc, Returned, Recheck, Check, registry
  <2>3. PollDecl'
    BY <2>1, <2>2 DEF PollDecl
  <2>4. "threaded" \notin flags[Target[areq]]
    BY <2>1, MethodAssumption DEF PollServe
  <2>5. ASSUME NEW r \in Reqs, r # areq
        PROVE  /\ areq' # r /\ run[r] \notin Active /\ run'[r] = run[r] /\ ptr'[r] = ptr[r]
               /\ inThread'[r] = inThread[r] /\ rpcFreed'[r] = rpcFreed[r]
    BY <1>9, <2>1, <2>5, MethodAssumption
       DEF DoRpc, Returned, Recheck, Check, FreeRpc, PollServe, TypeOK
  <2>6. /\ ~inThread'[areq]
        /\ run'[areq] \in Active => apc' = "inline" /\ areq' = areq
        /\ run'[areq] # "none"
        /\ areq' = areq => ptr'[areq] = ptr[areq] /\ ~rpcFreed'[areq]
    <3>1. /\ ~inThread[areq] /\ ~rpcFreed[areq] /\ run[areq] # "none"
          /\ run[areq] \in Active => apc = "inline"
      BY <2>1 DEF PollServe
    <3>2. CASE DoRpc
      BY <1>9, <3>2, <3>1, <2>1, <2>4 DEF DoRpc, TypeOK
    <3>3. CASE Returned
      BY <3>3, <3>1, <2>1 DEF Returned, TypeOK, Active
    <3>4. CASE Recheck
      BY <1>9, <3>4, <3>1, <2>1, <2>4 DEF Recheck, TypeOK
    <3>5. CASE Check
      BY <1>9, <3>5, <3>1, <2>1, <2>4 DEF Check, TypeOK
    <3> QED  BY <1>9, <3>2, <3>3, <3>4, <3>5
  <2>7. fault' = fault
    BY <1>9 DEF DoRpc, Returned, Recheck, Check
  <2>8. PollServe'
    BY <2>1, <2>2, <2>5, <2>6, <2>7 DEF PollServe
  <2> QED  BY <2>3, <2>8
<1>10. CASE Terminating
  BY <1>10, <1>1 DEF Terminating
<1> QED
  BY <1>1, <1>2, <1>3, <1>4, <1>5, <1>6, <1>7, <1>8, <1>9, <1>10 DEF Next

(* PollInv is invariant in poll operation.                                 *)
LEMMA PollInvariant ==
  ASSUME Serial, \A m \in Methods : "threaded" \notin DeclFlags[m]
  PROVE  Spec => [](TypeOK /\ PollInv)
<1>1. Init => PollInv
  <2> SUFFICES ASSUME Init PROVE PollDecl /\ PollServe
    BY PollParts
  <2>1. PollDecl
    BY DEF Init, PollDecl
  <2>2. PollServe
    BY MethodAssumption DEF Init, PollServe, Active
  <2> QED  BY <2>1, <2>2
<1>2. TypeOK /\ PollInv /\ [Next]_vars => PollInv'
  BY PollStep
<1> QED
  BY <1>1, <1>2, TypeCorrect, PTL DEF Spec

(* In poll operation, with methods that run in place, no freed method,     *)
(* freed json_rpc or empty table is read, however methods come and go.     *)
THEOREM PollNoFault ==
  ASSUME Serial, \A m \in Methods : "threaded" \notin DeclFlags[m]
  PROVE  Spec => []NoFault
<1>1. PollInv => NoFault
  BY DEF PollInv, NoFault
<1> QED
  BY <1>1, PollInvariant, PTL

(* In poll operation abus_undecl_method() removes the method it was called *)
(* for, although it deletes at the current position of the table.          *)
THEOREM PollUndeclRemovesOwn ==
  ASSUME Serial, \A m \in Methods : "threaded" \notin DeclFlags[m]
  PROVE  Spec => UndeclRemovesOwn
<1> DEFINE Own == \A m \in table \ table' :
                    \E a \in Apps : reg[a].op = "undecl" /\ reg[a].m = m
<1>1. TypeOK /\ PollInv /\ [Next]_vars => [Own]_vars
  <2> SUFFICES ASSUME TypeOK, PollInv, Next, NEW m \in table, m \notin table'
               PROVE  \E a \in Apps : reg[a].op = "undecl" /\ reg[a].m = m
    OBVIOUS
  <2>1. PICK a \in Apps : UndeclDelete(a)
    BY DEF Next, DeclLookup, UndeclLookup, DeclAssign, Receive, CallStep, EnterCallback,
           LeaveCallback, ThreadReply, DoRpc, Returned, Recheck, Check, Terminating, Fails,
           registry, vars
  <2>2. m = cur
    BY <2>1 DEF UndeclDelete, Deleted, Fails, registry
  <2>3. reg[a].op = "undecl" /\ reg[a].m = cur
    BY <2>1 DEF UndeclDelete, PollInv, Free
  <2> QED  BY <2>2, <2>3
<1> QED
  BY <1>1, PollInvariant, PTL DEF Spec, UndeclRemovesOwn
=============================================================================
