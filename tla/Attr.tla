-------------------------------- MODULE Attr --------------------------------
(***************************************************************************)
(* Attributes of one service of libabus (abus/abus.c): typed variables     *)
(* that are read and written                                               *)
(*                                                                         *)
(*   - by threads of the process that owns the service, directly, through  *)
(*     abus_attr_get_*() and abus_attr_set_*();                            *)
(*   - by other processes, through the methods "get" and "set" of the      *)
(*     service, which the A-Bus thread serves and which take an array of   *)
(*     attributes.                                                         *)
(*                                                                         *)
(* service->attr_mutex covers a whole "get" or "set".  A set that changes  *)
(* a value publishes it as an event before the mutex is released; the      *)
(* application may also call abus_attr_changed(), which takes no mutex.    *)
(*                                                                         *)
(* The application declares and undeclares attributes too.  One is entered *)
(* in the table in one critical section and gets its type and memory in a  *)
(* second; it is looked up in one and removed in a second.                 *)
(*                                                                         *)
(* Subscribers are the subject of Events: here an event is the value it    *)
(* carries.                                                                *)
(***************************************************************************)
EXTENDS HashTab, Integers

CONSTANTS
  AbusThread,    \* the A-Bus thread
  LocalThreads,  \* threads of the application
  NoThread,      \* attr_mutex is free
  Type,          \* attr->ref.type: "int", "llint", or "str" for the others
  Flags,         \* attr->flags: a subset of {"rdonly", "const"}
  IntMin, IntMax,    \* the range of int
  LongMin, LongMax,  \* the range of long
  Empty,         \* the empty name
  Unknown,       \* a name that is not declared, or no name at all
  Declared,      \* the attributes declared at the start, in that order
  RemoteOps,     \* the requests other processes make
  LocalOps,      \* the calls of the application
  Alone          \* the calls made only while no other is under way

Attrs == Keys
Threads == LocalThreads \cup {AbusThread}
Names == Attrs \cup {Empty, Unknown}

ASSUME AttrAssumption ==
  /\ {Empty, Unknown} \cap Attrs = {}
  /\ Attrs \subseteq Stuff
  /\ Declared \in Seq(Attrs)
  /\ AbusThread \notin LocalThreads
  /\ NoThread \notin Threads
  /\ {IntMin, IntMax, LongMin, LongMax} \subseteq Int
  /\ IntMin <= 0 /\ 0 <= IntMax
  /\ LongMin <= IntMin /\ IntMax <= LongMax
  /\ Type \in [Attrs -> {"int", "llint", "str"}]
  /\ Flags \in [Attrs -> SUBSET {"rdonly", "const"}]

(* A call or request: what it does, its items, and for a get the type the  *)
(* caller reads the (last) attribute as.  An item of a set has a type and  *)
(* a value too.  The application names one attribute in each call.         *)
NameItems == [name : Names]
ValueItems == [name : Names, type : {"int", "llint", "str"}, v : Int]

ASSUME OpAssumption ==
  /\ \A o \in RemoteOps \cup LocalOps :
       o.items \in Seq(IF o.kind = "set" THEN ValueItems ELSE NameItems)
  /\ \A o \in RemoteOps : o.kind \in {"set", "get"}
  /\ \A o \in LocalOps :
       /\ o.kind \in {"set", "get", "notify", "decl", "undecl"}
       /\ Len(o.items) = 1 /\ o.items[1].name \in Attrs

VARIABLES
  value,      \* *attr->ref.u.data
  tab,        \* service->attr_htab
  ready,      \* the attributes that have a type and memory
  ptr,        \* the attribute that a thread has a pointer to
  lock,       \* the holder of service->attr_mutex
  pc,         \* progress of each thread
  op,         \* the operation each thread performs
  i,          \* the number of items handled
  ret,        \* the code returned or put in the response
  held,       \* the value abus_attr_changed() has put in its event
  key,        \* the key the walk over all attributes is at
  out,        \* the attributes put in the response to "get"
  got,        \* what a get returned to its caller, and what was there
  last,       \* the last event of each attribute, and who published it
  before,     \* the values when attr_mutex was taken (history)
  disturbed,  \* the position was moved under the walk (history)
  fault       \* memory was used or freed that was freed before

vars == <<value, tab, ready, ptr, lock, pc, op, i, ret, held, key, out, got, last,
          before, disturbed, fault>>
life == <<ready, ptr, fault>>
call == <<op, before>>
answer == <<out, got>>

NoOp == [kind |-> "none"]
Dangling == "dangling"
Ok(v) == [ret |-> "ok", v |-> v]
Fail(r) == [ret |-> r, v |-> 0]
NotGot == [ret |-> "none", v |-> 0, actual |-> 0]

(* The table when n attributes have been declared.                         *)
Filled[n \in 0 .. Len(Declared)] ==
  IF n = 0 THEN HCreate(8) ELSE HAdd(Filled[n - 1], Declared[n], Declared[n])

Init ==
  /\ value = [a \in Attrs |-> 0]
  /\ ready = {Declared[n] : n \in DOMAIN Declared}
  /\ ptr = [t \in Threads |-> NoKey]
  /\ tab = Filled[Len(Declared)]
  /\ lock = NoThread
  /\ pc = [t \in Threads |-> "idle"]
  /\ op = [t \in Threads |-> NoOp]
  /\ i = [t \in Threads |-> 0]
  /\ ret = [t \in Threads |-> "ok"]
  /\ held = [t \in Threads |-> 0]
  /\ key = NoKey
  /\ out = {}
  /\ got = [t \in Threads |-> NotGot]
  /\ last = [a \in Attrs |-> [v |-> 0, by |-> "set"]]
  /\ before = <<>>
  /\ disturbed = FALSE
  /\ fault = FALSE

-----------------------------------------------------------------------------
(* Conversions.                                                            *)

InInt(v) == IntMin <= v /\ v <= IntMax
InLong(v) == LongMin <= v /\ v <= LongMax

(* The assignment of a long to an int keeps the low bits.                  *)
Truncate(v) == ((v - IntMin) % (IntMax - IntMin + 1)) + IntMin

(* JSON has one type for int and long long.                                *)
WireType(ty) == IF ty = "str" THEN "str" ELSE "int"

(* json_rpc_get_int(), json_rpc_get_llint() and the getters of the other   *)
(* types, of a value v that was parsed as type wt.                         *)
JsonGet(ty, wt, v) ==
  IF wt # WireType(ty) THEN Fail("error")
  ELSE IF ty = "int" THEN IF InLong(v) THEN Ok(Truncate(v)) ELSE Fail("range")
  ELSE Ok(v)

(* An attribute without a type yet is of none, which equals no other.      *)
TypeOf(a) == IF a \in ready THEN Type[a] ELSE "none"

(* attr_get_local(): an attribute read as type ty.                         *)
GetLocal(ty, a) ==
  IF TypeOf(a) = "none" THEN Fail("error")
  ELSE IF ty = "int" /\ Type[a] = "llint"
  THEN IF InInt(value[a]) THEN Ok(value[a]) ELSE Fail("range")
  ELSE IF WireType(ty) = WireType(Type[a]) THEN Ok(value[a]) ELSE Fail("error")

(* attr_set_local(): the value to store.  An overflow is found first, then *)
(* a wrong type, then a constant.                                          *)
SetLocal(ty, a, v) ==
  IF TypeOf(a) = "none" THEN Fail("error")
  ELSE IF ty = "llint" /\ Type[a] = "int" /\ ~InInt(v) THEN Fail("range")
  ELSE IF WireType(ty) # WireType(Type[a]) \/ "const" \in Flags[a] THEN Fail("error")
  ELSE Ok(v)

(* One item of "set".  An empty name makes the callback return, and pass   *)
(* the 0 it got for the lookup of "name" to json_rpc_set_error(), which    *)
(* leaves the response without an error.                                   *)
SetRemote(it) ==
  IF it.name = Empty THEN Fail("ok")
  ELSE IF it.name \notin ready THEN Fail("error")
  ELSE IF Flags[it.name] # {} THEN Fail("error")
  ELSE LET r == JsonGet(Type[it.name], it.type, it.v)
       IN  IF r.ret = "ok" THEN SetLocal(Type[it.name], it.name, r.v) ELSE r

-----------------------------------------------------------------------------
(* The table of attributes.  attr_lookup() moves its position, under       *)
(* abus->mutex; the walk over all attributes does not take abus->mutex.    *)

Walking == pc[AbusThread] \in {"walk", "stuff", "next"}

Lookup(t, a) ==
  /\ tab' = IF a \in Attrs THEN HFind(tab, a) ELSE tab
  /\ disturbed' = (disturbed \/ (t # AbusThread /\ Walking))

Goto(t, l) == pc' = [pc EXCEPT ![t] = l]

(* Some calls are made only while no other is under way.                   *)
MayStart(t, o) ==
  /\ pc[t] = "idle"
  /\ o.kind \in Alone => \A u \in Threads : pc[u] = "idle"
  /\ \A u \in Threads : op[u].kind \notin Alone

(* The operation returns, and its local variables are gone.                *)
Return(t) ==
  /\ Goto(t, "idle")
  /\ op' = [op EXCEPT ![t] = NoOp]
  /\ i' = [i EXCEPT ![t] = 0]
  /\ ret' = [ret EXCEPT ![t] = "ok"]
  /\ held' = [held EXCEPT ![t] = 0]
  /\ got' = [got EXCEPT ![t] = NotGot]
  /\ ptr' = [ptr EXCEPT ![t] = NoKey]

(* A pointer is used that a lookup returned before.                        *)
Deref(t, a) == fault' = (fault \/ ptr[t] # a)

-----------------------------------------------------------------------------
(* The calls of the application.                                           *)

(* attr_get_type() and attr_set_type() of an attribute of this process.    *)
LocalCall(t) == \E o \in LocalOps :
  /\ MayStart(t, o)
  /\ o.kind \in {"set", "get"} /\ o.items[1].name \in Items(tab)
  /\ ptr' = [ptr EXCEPT ![t] = o.items[1].name]
  /\ op' = [op EXCEPT ![t] = o]
  /\ Lookup(t, o.items[1].name)
  /\ Goto(t, "lock")
  /\ UNCHANGED <<value, ready, fault, lock, i, ret, held, key, answer, last, before>>

(* abus_attr_changed() called by the application.                          *)
AttrChanged(t) == \E o \in LocalOps :
  /\ MayStart(t, o)
  /\ o.kind = "notify" /\ o.items[1].name \in ready
  /\ op' = [op EXCEPT ![t] = o]
  /\ i' = [i EXCEPT ![t] = 1]
  /\ Goto(t, "changed")
  /\ UNCHANGED <<value, tab, life, lock, ret, held, key, answer, last, before, disturbed>>

(* A request "get" or "set" reaches the A-Bus thread.  (Without an array   *)
(* "attr" it is answered with an error, and nothing else happens.)         *)
RemoteCall == \E o \in RemoteOps :
  LET t == AbusThread IN
  /\ MayStart(t, o)
  /\ op' = [op EXCEPT ![t] = o]
  /\ Goto(t, "lock")
  /\ UNCHANGED <<value, tab, life, lock, i, ret, held, key, answer, last, before, disturbed>>

(* A local access that does not take the mutex.  Mutant.                   *)
NoLock(t) ==
  /\ pc[t] = "lock"
  /\ lock = NoThread \/ t # AbusThread
  /\ lock' = IF t = AbusThread THEN t ELSE lock
  /\ before' = IF t = AbusThread THEN [value |-> value, ready |-> ready] ELSE before
  /\ Goto(t, "item")
  /\ UNCHANGED <<value, tab, life, op, i, ret, held, key, answer, last, disturbed>>

(* pthread_mutex_lock(&service->attr_mutex).                               *)
Lock(t) ==
  /\ pc[t] = "lock"
  /\ lock = NoThread
  /\ lock' = t
  /\ before' = [value |-> value, ready |-> ready]
  /\ Goto(t, "item")
  /\ UNCHANGED <<value, tab, life, op, i, ret, held, key, answer, last, disturbed>>

-----------------------------------------------------------------------------
(* The loop over the items.                                                *)

AtItem(t, k) ==
  /\ pc[t] = "item"
  /\ op[t].kind = k
  /\ i[t] < Len(op[t].items)

Item(t) == op[t].items[i[t] + 1]

(* An item that fails stops the loop; what was stored before it stays.     *)
Stop(t, r) ==
  /\ ret' = [ret EXCEPT ![t] = r]
  /\ Goto(t, "unlock")

(* A string that changed is not announced.  Mutant.                        *)
ForgetsString(a, v) == IF value[a] # v /\ Type[a] # "str" THEN "changed" ELSE "item"

(* Only a value that differs is stored and announced.                      *)
AfterStore(a, v) == IF value[a] # v THEN "changed" ELSE "item"

(* attr_set_local(), or one turn of the loop of abus_req_attr_set_cb().    *)
SetItem(t) ==
  /\ AtItem(t, "set")
  /\ LET it == Item(t)
         a  == it.name
         r  == IF t = AbusThread THEN SetRemote(it) ELSE SetLocal(it.type, a, it.v)
     IN  /\ IF t = AbusThread THEN Lookup(t, a) /\ UNCHANGED fault
                              ELSE Deref(t, a) /\ UNCHANGED <<tab, disturbed>>
         /\ IF r.ret # "ok" \/ a = Empty
            THEN Stop(t, r.ret) /\ UNCHANGED <<value, i>>
            ELSE /\ value' = [value EXCEPT ![a] = r.v]
                 /\ i' = [i EXCEPT ![t] = @ + 1]
                 /\ Goto(t, AfterStore(a, r.v))
                 /\ UNCHANGED ret
  /\ UNCHANGED <<ready, ptr, lock, call, held, key, answer, last>>

(* abus_attr_changed() looks the attribute up again and puts its value in  *)
(* the event ...                                                           *)
ReadChanged(t) ==
  /\ pc[t] = "changed"
  /\ LET a == op[t].items[i[t]].name
     IN  /\ Lookup(t, a)
         /\ held' = [held EXCEPT ![t] = value[a]]
         /\ ptr' = [ptr EXCEPT ![t] = a]
  /\ Goto(t, "publish")
  /\ UNCHANGED <<value, ready, fault, lock, call, i, ret, key, answer, last>>

(* ... which abus_request_event_publish() sends.  A constant has no event. *)
Publish(t) ==
  /\ pc[t] = "publish"
  /\ LET a == op[t].items[i[t]].name
     IN  /\ Deref(t, a)
         /\ last' = IF "const" \in Flags[a] THEN last
                    ELSE [last EXCEPT ![a] = [v |-> held[t], by |-> op[t].kind]]
  /\ IF op[t].kind = "notify"
     THEN Return(t)
     ELSE Goto(t, "item") /\ UNCHANGED <<op, i, ret, held, got, ptr>>
  /\ UNCHANGED <<value, tab, ready, lock, key, out, before, disturbed>>

(* attr_append_type(): without a type, the response becomes an error, and  *)
(* the loop goes on.                                                       *)
AppendType(t, a) ==
  /\ out' = IF a \in ready THEN out \cup {<<a, value[a]>>} ELSE out
  /\ ret' = IF a \in ready THEN ret ELSE [ret EXCEPT ![t] = "error"]

(* attr_get_local(), or one turn of the loop of abus_req_attr_get_cb() for *)
(* a name that is declared.  The caller converts what the response holds.  *)
GetItem(t) ==
  /\ AtItem(t, "get")
  /\ Item(t).name \in Items(tab) \/ t # AbusThread
  /\ LET a == Item(t).name
         r == IF t # AbusThread THEN GetLocal(op[t].want, a)
              ELSE IF a \in ready THEN JsonGet(op[t].want, WireType(Type[a]), value[a])
              ELSE Fail("error")
     IN  /\ got' = [got EXCEPT ![t] = [ret |-> r.ret, v |-> r.v, actual |-> value[a]]]
         /\ IF t = AbusThread THEN AppendType(t, a) /\ Lookup(t, a) /\ UNCHANGED fault
                              ELSE Deref(t, a) /\ UNCHANGED <<out, ret, tab, disturbed>>
  /\ i' = [i EXCEPT ![t] = @ + 1]
  /\ UNCHANGED <<value, ready, ptr, lock, pc, call, held, key, last>>

GetUnknown(t) ==
  /\ AtItem(t, "get")
  /\ t = AbusThread /\ Item(t).name \notin Items(tab) \cup {Empty}
  /\ Stop(t, "error")
  /\ UNCHANGED <<value, tab, life, lock, call, i, held, key, answer, last, disturbed>>

(* An empty name, or one that ends in a dot, is a prefix: attr_append()    *)
(* walks over all attributes.                                              *)
WalkFirst(t) ==
  /\ AtItem(t, "get")
  /\ Item(t).name = Empty
  /\ tab' = HFirst(tab)
  /\ IF HFirstRet(tab)
     THEN Goto(t, "walk") /\ UNCHANGED i
     ELSE i' = [i EXCEPT ![t] = @ + 1] /\ UNCHANGED pc
  /\ UNCHANGED <<value, life, lock, call, ret, held, key, answer, last, disturbed>>

WalkKey(t) ==
  /\ pc[t] = "walk"
  /\ key' = tab.ipos
  /\ Goto(t, "stuff")
  /\ UNCHANGED <<value, tab, life, lock, call, i, ret, held, answer, last, disturbed>>

WalkStuff(t) ==
  /\ pc[t] = "stuff"
  /\ IF tab.ipos \in ready
     THEN out' = out \cup {<<key, value[tab.ipos]>>} /\ UNCHANGED ret
     ELSE ret' = [ret EXCEPT ![t] = "error"] /\ UNCHANGED out
  /\ Goto(t, "next")
  /\ UNCHANGED <<value, tab, life, lock, call, i, held, key, got, last, disturbed>>

WalkNext(t) ==
  /\ pc[t] = "next"
  /\ tab' = HNext(tab)
  /\ IF HNextRet(tab)
     THEN Goto(t, "walk") /\ UNCHANGED i
     ELSE Goto(t, "item") /\ i' = [i EXCEPT ![t] = @ + 1]
  /\ UNCHANGED <<value, life, lock, call, ret, held, key, answer, last, disturbed>>

(* All items are handled.                                                  *)
ItemsDone(t) ==
  /\ pc[t] = "item"
  /\ i[t] = Len(op[t].items)
  /\ Goto(t, "unlock")
  /\ UNCHANGED <<value, tab, life, lock, call, i, ret, held, key, answer, last, disturbed>>

(* An error return that forgets the mutex.  Mutant.                        *)
UnlockOnOk(t) ==
  /\ pc[t] = "unlock"
  /\ lock' = IF ret[t] = "ok" THEN NoThread ELSE lock
  /\ before' = <<>>
  /\ IF t = AbusThread THEN key' = NoKey /\ out' = {} /\ disturbed' = FALSE
                       ELSE UNCHANGED <<key, out, disturbed>>
  /\ Return(t)
  /\ UNCHANGED <<value, tab, ready, fault, last>>

Unlock(t) ==
  /\ pc[t] = "unlock"
  /\ lock' = NoThread
  /\ before' = <<>>
  /\ IF t = AbusThread THEN key' = NoKey /\ out' = {} /\ disturbed' = FALSE
                       ELSE UNCHANGED <<key, out, disturbed>>
  /\ Return(t)
  /\ UNCHANGED <<value, tab, ready, fault, last>>

-----------------------------------------------------------------------------
(* Declaration and undeclaration.                                          *)

(* attr_lookup(CreateIfNotThere) of a new attribute.                       *)
DeclLookup(t) == \E o \in LocalOps :
  LET a == o.items[1].name IN
  /\ MayStart(t, o)
  /\ o.kind = "decl" /\ a \notin Items(tab)
  /\ op' = [op EXCEPT ![t] = o]
  /\ tab' = HAdd(tab, a, a)
  /\ disturbed' = (disturbed \/ Walking)
  /\ ptr' = [ptr EXCEPT ![t] = a]
  /\ Goto(t, "assign")
  /\ UNCHANGED <<value, ready, fault, lock, i, ret, held, key, answer, last, before>>

(* The rest of attr_decl_type(), with the event of the attribute.          *)
DeclAssign(t) ==
  LET a == op[t].items[1].name IN
  /\ pc[t] = "assign"
  /\ Deref(t, a)
  /\ ready' = ready \cup {a}
  /\ last' = [last EXCEPT ![a] = [v |-> 0, by |-> "set"]]
  /\ Return(t)
  /\ UNCHANGED <<value, tab, lock, key, out, before, disturbed>>

(* The position of the table is left where it was.  Mutant.                *)
UndeclPeek(t) == \E o \in LocalOps :
  LET a == o.items[1].name IN
  /\ MayStart(t, o)
  /\ o.kind = "undecl" /\ a \in Items(tab)
  /\ op' = [op EXCEPT ![t] = o]
  /\ ptr' = [ptr EXCEPT ![t] = a]
  /\ Goto(t, "delete")
  /\ UNCHANGED <<value, tab, ready, fault, lock, i, ret, held, key, answer, last,
                 before, disturbed>>

(* The attr_lookup() of abus_undecl_attr().                                *)
UndeclLookup(t) == \E o \in LocalOps :
  LET a == o.items[1].name IN
  /\ MayStart(t, o)
  /\ o.kind = "undecl" /\ a \in Items(tab)
  /\ op' = [op EXCEPT ![t] = o]
  /\ Lookup(t, a)
  /\ ptr' = [ptr EXCEPT ![t] = a]
  /\ Goto(t, "delete")
  /\ UNCHANGED <<value, ready, fault, lock, i, ret, held, key, answer, last, before>>

(* The memory of the attribute is freed, and with its entry the one at the *)
(* position of the table.  Its event is undeclared.  Pointers that others  *)
(* have to the attribute dangle.                                           *)
UndeclDelete(t) ==
  LET a == op[t].items[1].name IN
  /\ pc[t] = "delete"
  /\ fault' = (fault \/ tab.ipos # a \/ ptr[t] # a)
  /\ tab' = HDel(tab)
  /\ ready' = ready \ {a}
  /\ value' = [value EXCEPT ![a] = 0]
  /\ last' = [last EXCEPT ![a] = [v |-> 0, by |-> "set"]]
  /\ Goto(t, "idle")
  /\ op' = [op EXCEPT ![t] = NoOp]
  /\ ptr' = [u \in Threads |-> IF u = t THEN NoKey ELSE IF ptr[u] = a THEN Dangling ELSE ptr[u]]
  /\ UNCHANGED <<lock, i, ret, held, key, answer, before, disturbed>>

-----------------------------------------------------------------------------
Step(t) ==
  \/ Lock(t) \/ SetItem(t) \/ ReadChanged(t) \/ Publish(t)
  \/ GetItem(t) \/ GetUnknown(t)
  \/ WalkFirst(t) \/ WalkKey(t) \/ WalkStuff(t) \/ WalkNext(t)
  \/ ItemsDone(t) \/ Unlock(t) \/ DeclAssign(t) \/ UndeclDelete(t)

Next ==
  \/ RemoteCall
  \/ \E t \in LocalThreads : LocalCall(t) \/ AttrChanged(t) \/ DeclLookup(t) \/ UndeclLookup(t)
  \/ \E t \in Threads : Step(t)

Spec == Init /\ [][Next]_vars

(* Every thread is scheduled.  Nobody is obliged to call or to request.    *)
FairSpec == Spec /\ \A t \in Threads : WF_vars(Step(t))

-----------------------------------------------------------------------------
(* Variables have their types, and the table is sane.                      *)
TypeOK ==
  /\ value \in [Attrs -> Int]
  /\ before = <<>> \/ (before.value \in [Attrs -> Int] /\ before.ready \subseteq Attrs)
  /\ Sane(tab) /\ Items(tab) \subseteq Attrs /\ ready \subseteq Items(tab)
  /\ ptr \in [Threads -> Attrs \cup {NoKey, Dangling}] /\ fault \in BOOLEAN
  /\ lock \in Threads \cup {NoThread}
  /\ pc \in [Threads -> {"idle", "lock", "item", "changed", "publish", "walk",
                         "stuff", "next", "unlock", "assign", "delete"}]
  /\ op \in [Threads -> RemoteOps \cup LocalOps \cup {NoOp}]
  /\ i \in [Threads -> Nat]
  /\ ret \in [Threads -> {"ok", "error", "range"}]
  /\ held \in [Threads -> Int]
  /\ key \in Attrs \cup {NoKey}
  /\ out \subseteq Attrs \X Int
  /\ got \in [Threads -> [ret : {"none", "ok", "error", "range"}, v : Int, actual : Int]]
  /\ last \in [Attrs -> [v : Int, by : {"set", "notify"}]]
  /\ disturbed \in BOOLEAN

(* What a set leaves when it handled the first n items: the value of the   *)
(* last of them that names the attribute, if one does.                     *)
Stored(t, it) ==
  IF t = AbusThread THEN SetRemote(it).v ELSE SetLocal(it.type, it.name, it.v).v
Naming(t, n, a) == {m \in 1 .. n : op[t].items[m].name = a}
Applied(t, n) ==
  [a \in Attrs |->
     IF Naming(t, n, a) = {} THEN before.value[a]
     ELSE Stored(t, op[t].items[Max(Naming(t, n, a))])]

(* While a thread performs a get or a set, nothing changes the attributes  *)
(* but that set, and what it has changed is exactly the items it handled:  *)
(* a "set" that fails on its n-th item has stored the n - 1 before it.     *)
HolderAlone ==
  \A t \in Threads : lock = t =>
    value = IF op[t].kind = "set" THEN Applied(t, i[t]) ELSE before.value

Shown == {p[1] : p \in out}
Asked(t) == {op[t].items[n].name : n \in DOMAIN op[t].items}

(* The response to "get" shows the attributes that were asked at one       *)
(* moment, or, when an empty name was asked, all that were declared when   *)
(* it began, provided that no other thread looked an attribute up or       *)
(* declared one during the walk.                                           *)
GetShowsSnapshot ==
  LET t == AbusThread IN
  pc[t] = "unlock" /\ op[t].kind = "get" /\ ret[t] = "ok" /\ ~disturbed =>
    /\ \A p \in out : p[2] = value[p[1]]
    /\ IF Empty \in Asked(t) THEN before.ready \subseteq Shown ELSE Shown = Asked(t)

(* Whenever no set is under way, the last event of an attribute carries    *)
(* its value, unless that event came from abus_attr_changed() called by    *)
(* the application, which reads the value and publishes it without the     *)
(* mutex.                                                                  *)
LastEventCurrent ==
  lock = NoThread =>
    \A a \in Attrs : last[a].by = "set" => last[a].v = value[a]

(* No thread uses or frees an attribute, or its event, that was undeclared *)
(* after it looked it up, and undeclaration frees the attribute it names:  *)
(* accesses and first declarations may run at the same time, an            *)
(* undeclaration has to be alone (abus_undecl_attr(): "assumes the hashtab *)
(* still pointing at element found").                                      *)
NoFault == ~fault

(* The table of attributes and its users stay sound while attributes are   *)
(* declared and undeclared: types, the sanity of the table, and no use of  *)
(* what was freed.                                                         *)
AttrsSound == TypeOK /\ NoFault

(* attr_mutex is released on every path, as long as no other thread moves  *)
(* the position of the table under a walk over all attributes.             *)
MutexReleased == \A t \in Threads : lock = t ~> lock # t \/ disturbed

-----------------------------------------------------------------------------
(* What the tests and comments of the repository say, and the code does    *)
(* not do.                                                                 *)

(* "int overflow, shall fail": a get that succeeds returns the value of    *)
(* the attribute.                                                          *)
OverflowFails ==
  \A t \in Threads : got[t].ret = "ok" => got[t].v = got[t].actual

(* "allow empty attr name to retrieve all attributes".                     *)
GetRetrievesAll ==
  LET t == AbusThread IN
  pc[t] = "unlock" /\ op[t].kind = "get" /\ ret[t] = "ok"
    /\ (\E n \in DOMAIN op[t].items : op[t].items[n].name = Empty) =>
      before.ready \subseteq Shown

(* A "set" that is answered without an error has handled all its items.    *)
OkMeansHandled ==
  \A t \in Threads :
    pc[t] = "unlock" /\ ret[t] = "ok" => i[t] = Len(op[t].items)

-----------------------------------------------------------------------------
(* The inductive invariant behind the safety properties, when an           *)
(* undeclaration is alone.                                                 *)

(* Which operation may be at which point, and at which item.               *)
Critical(t) ==
  \/ pc[t] \in {"item", "walk", "stuff", "next", "unlock"}
  \/ pc[t] \in {"changed", "publish"} /\ op[t].kind = "set"

Announcing(t) == pc[t] \in {"changed", "publish"}
Target(t) == op[t].items[i[t]].name
Subject(t) == op[t].items[1].name

CallInv(t) ==
  /\ IF pc[t] = "idle" THEN op[t] = NoOp
     ELSE op[t] \in IF t = AbusThread THEN RemoteOps ELSE LocalOps
  /\ pc[t] \in {"idle", "lock", "assign", "delete"} => i[t] = 0
  /\ pc[t] \in {"lock", "item", "unlock"} =>
       op[t].kind \in {"set", "get"} /\ i[t] <= Len(op[t].items)
  /\ pc[t] \in {"walk", "stuff", "next"} =>
       /\ t = AbusThread /\ op[t].kind = "get" /\ Items(tab) # {}
       /\ i[t] < Len(op[t].items) /\ op[t].items[i[t] + 1].name = Empty
  /\ Announcing(t) =>
       /\ op[t].kind \in {"set", "notify"} /\ i[t] \in 1 .. Len(op[t].items)
       /\ Target(t) \in ready
       /\ op[t].kind = "set" => "const" \notin Flags[Target(t)]
  /\ pc[t] = "assign" => op[t].kind = "decl" /\ Subject(t) \in Items(tab) \ ready
  /\ pc[t] = "delete" => op[t].kind = "undecl" /\ tab.ipos = Subject(t)
  /\ pc[t] = "stuff" => key \in Attrs

(* A thread uses the attribute it looked up.                               *)
PtrInv(t) ==
  /\ t # AbusThread /\ pc[t] \in {"lock", "item"} /\ i[t] = 0 => ptr[t] = Subject(t)
  /\ pc[t] = "publish" => ptr[t] = Target(t)
  /\ pc[t] \in {"assign", "delete"} => ptr[t] = Subject(t)

(* The mutex is held in the critical sections, an undeclaration is alone,  *)
(* and no attribute is declared twice.                                     *)
SharedInv ==
  /\ \A t \in Threads : lock = t <=> Critical(t)
  /\ \A t, u \in Threads : pc[t] = "delete" /\ t # u => pc[u] = "idle"
  /\ \A t, u \in Threads :
       pc[t] = "assign" /\ pc[u] = "assign" /\ Subject(t) = Subject(u) => t = u
  /\ \A a \in Attrs \ ready : value[a] = 0

ControlInv ==
  /\ TypeOK /\ TableInv(tab) /\ ~fault
  /\ \A t \in Threads : CallInv(t) /\ PtrInv(t)
  /\ SharedInv

(* An attribute whose last event is not its value is being announced by    *)
(* the set that changed it.                                                *)
LastInv ==
  /\ \A a \in Attrs : last[a].by = "set" =>
       \/ last[a].v = value[a]
       \/ \E t \in Threads : Announcing(t) /\ op[t].kind = "set" /\ Target(t) = a
  /\ \A t \in Threads :
       pc[t] = "publish" /\ op[t].kind = "set" => held[t] = value[Target(t)]

(* What the holder of the mutex found stays, but for what it did itself.   *)
Exclusive(t) ==
  /\ before.ready \subseteq ready
  /\ op[t].kind = "get" => value = before.value
  /\ op[t].kind = "set" =>
       /\ \A m \in 1 .. i[t] : op[t].items[m].name \in ready
       /\ value = Applied(t, i[t])

HoldInv == \A t \in Threads : lock = t => Exclusive(t)

(* What the response to a get contains so far.                             *)
Collected ==
  LET t == AbusThread IN
  /\ \A p \in out : p[2] = value[p[1]]
  /\ Empty \notin Asked(t) => Shown \subseteq Asked(t)
  /\ \A m \in 1 .. i[t] :
       IF op[t].items[m].name = Empty THEN before.ready \subseteq Shown
       ELSE op[t].items[m].name \in Shown
  /\ pc[t] = "unlock" => i[t] = Len(op[t].items)
  /\ pc[t] \in {"walk", "stuff"} =>
       before.ready \cap (Walked(tab) \ {tab.ipos}) \subseteq Shown
  /\ pc[t] = "stuff" => key = tab.ipos
  /\ pc[t] = "next" => before.ready \cap Walked(tab) \subseteq Shown

ShownInv ==
  LET t == AbusThread IN
  /\ pc[t] \in {"idle", "lock"} => out = {}
  /\ lock = t /\ op[t].kind = "get" /\ ret[t] = "ok" /\ ~disturbed => Collected

AttrInv == ControlInv /\ LastInv /\ HoldInv /\ ShownInv
=============================================================================
