----------------------------- MODULE AttrProofs -----------------------------
(***************************************************************************)
(* Theorems about the attributes of a service (Attr): any attributes with  *)
(* their types and flags, any threads of the application, any requests and *)
(* calls, any range of the integers.  They hold when an undeclaration is   *)
(* made only while no other call is under way.                             *)
(***************************************************************************)
EXTENDS Attr, HashTabProofs

-----------------------------------------------------------------------------
(* The table at the start.                                                 *)

(* hadd(), of a key that is there or not.                                  *)
LEMMA AddSound ==
  ASSUME NEW h, TableInv(h), NEW k \in Keys, NEW s \in Stuff
  PROVE  TableInv(HAdd(h, k, s)) /\ Items(HAdd(h, k, s)) = Items(h) \cup {k}
<1>1. CASE k \in Items(h)
  <2>1. HAdd(h, k, s) = HFind(h, k)
    BY <1>1 DEF HAdd, HAddRet, Items
  <2>2. TableInv(HFind(h, k)) /\ Items(HFind(h, k)) = Items(h)
    BY FindSound
  <2> QED BY <1>1, <2>1, <2>2
<1>2. CASE k \notin Items(h)
  BY <1>2, AddNewSound
<1> QED BY <1>1, <1>2

(* The sound tables, as a set.                                             *)
Chains == UNION {[0 .. n - 1 -> Seq(Keys)] : n \in Nat \ {0}}
Tables ==
  {h \in [size : Nat \ {0}, chain : Chains, stuff : [Keys -> Stuff \cup {NoStuff}],
          count : Nat, apos : Nat, ipos : Keys \cup {NoKey}] : TableInv(h)}

(* Every sound table is in it.                                             *)
LEMMA TablesAre ==
  ASSUME NEW h, TableInv(h)
  PROVE  h \in Tables
<1>1. /\ h \in [size : Nat \ {0}, chain : [0 .. h.size - 1 -> Seq(Keys)],
                stuff : [Keys -> Stuff \cup {NoStuff}], count : Nat,
                apos : 0 .. h.size - 1, ipos : Keys \cup {NoKey}]
  BY DEF TableInv, TableType
<1>2. h.chain \in Chains
  BY <1>1 DEF Chains
<1>3. h.apos \in Nat
  BY <1>1
<1> QED BY <1>1, <1>2, <1>3 DEF Tables

(* The attributes are declared one after the other.                        *)
LEMMA FilledIs ==
  /\ Filled[0] = HCreate(8)
  /\ \A n \in 1 .. Len(Declared) : Filled[n] = HAdd(Filled[n - 1], Declared[n], Declared[n])
<1> DEFINE N == Len(Declared)
           Put(h, n) == HAdd(h, Declared[n], Declared[n])
           g == [p \in (1 .. N) \X Tables |-> Put(p[2], p[1])]
           Rec(f) == f = [n \in 0 .. N |-> IF n = 0 THEN HCreate(8) ELSE Put(f[n - 1], n)]
           F == CHOOSE f : Rec(f)
<1>1. N \in Nat /\ \A n \in 1 .. N : Declared[n] \in Keys /\ Declared[n] \in Stuff
  BY AttrAssumption DEF Attrs
<1>2. HCreate(8) \in Tables
  BY CreateSound, TablesAre
<1>3. g \in [(1 .. N) \X Tables -> Tables]
  <2>1. ASSUME NEW p \in (1 .. N) \X Tables PROVE Put(p[2], p[1]) \in Tables
    <3>1. TableInv(p[2]) /\ p[1] \in 1 .. N
      BY DEF Tables
    <3>2. TableInv(Put(p[2], p[1]))
      BY <1>1, <3>1, AddSound
    <3> QED BY <3>2, TablesAre
  <2> HIDE DEF Put
  <2> QED BY <2>1
<1>4. PICK f \in [0 .. N -> Tables] :
         f[0] = HCreate(8) /\ \A n \in 1 .. N : f[n] = g[<<n, f[n - 1]>>]
  <2>1. \E f \in [0 .. N -> Tables] : Iterates(f, N, HCreate(8), g)
    <3> HIDE DEF N, g
    <3> QED BY <1>1, <1>2, <1>3, RecursionExists
  <2> QED BY <2>1 DEF Iterates
<1> HIDE DEF Put
<1>5. ASSUME NEW n \in 1 .. N PROVE f[n] = Put(f[n - 1], n)
  <2>1. n - 1 \in 0 .. N
    BY <1>1
  <2>2. <<n, f[n - 1]>> \in (1 .. N) \X Tables
    BY <2>1
  <2> QED BY <1>4, <2>2
<1>6. Rec(f)
  <2> DEFINE h == [n \in 0 .. N |-> IF n = 0 THEN HCreate(8) ELSE Put(f[n - 1], n)]
  <2>1. ASSUME NEW n \in 0 .. N PROVE f[n] = h[n]
    <3>1. CASE n = 0
      BY <1>4, <3>1
    <3>2. CASE n # 0
      <4>1. n \in 1 .. N
        BY <3>2
      <4> QED BY <1>5, <3>2, <4>1
    <3> QED BY <3>1, <3>2
  <2>2. f = h
    BY <2>1
  <2> QED BY <2>2
<1>7. Rec(F)
  BY <1>6
<1>8. Filled = F
  BY DEF Filled, Put
<1> HIDE DEF F
<1>9. /\ F[0] = HCreate(8)
      /\ \A n \in 1 .. N : F[n] = Put(F[n - 1], n)
  <2> DEFINE G == F
  <2> HIDE DEF G
  <2>1. F = [n \in 0 .. N |-> IF n = 0 THEN HCreate(8) ELSE Put(G[n - 1], n)]
    BY <1>7 DEF G
  <2>2. 0 \in 0 .. N /\ \A n \in 1 .. N : n \in 0 .. N /\ n # 0
    BY <1>1
  <2>3. F[0] = HCreate(8) /\ \A n \in 1 .. N : F[n] = Put(G[n - 1], n)
    BY <2>1, <2>2
  <2> QED BY <2>3 DEF G
<1> QED BY <1>8, <1>9 DEF Put

(* The table at the start is sound and has the attributes declared.        *)
LEMMA FilledSound ==
  LET h == Filled[Len(Declared)]
  IN  TableInv(h) /\ Items(h) = {Declared[n] : n \in DOMAIN Declared}
<1> DEFINE N == Len(Declared)
           T == {n \in 0 .. N :
                   /\ TableInv(Filled[n])
                   /\ Items(Filled[n]) = {Declared[m] : m \in 1 .. n}}
<1>1. /\ N \in Nat /\ DOMAIN Declared = 1 .. N
      /\ \A n \in 1 .. N : Declared[n] \in Keys /\ Declared[n] \in Stuff
  BY AttrAssumption DEF Attrs
<1>2. 0 \in T
  <2>1. TableInv(Filled[0]) /\ Items(Filled[0]) = {}
    BY FilledIs, CreateSound
  <2> QED BY <1>1, <2>1
<1>3. ASSUME NEW n \in 1 .. N, n - 1 \in T PROVE n \in T
  <2>1. /\ TableInv(Filled[n]) /\ Items(Filled[n]) = Items(Filled[n - 1]) \cup {Declared[n]}
    BY <1>1, <1>3, FilledIs, AddSound
  <2>2. n - 1 \in 0 .. N /\ 1 .. n = (1 .. n - 1) \cup {n} /\ n \in 0 .. N
    BY <1>1
  <2>3. Items(Filled[n]) = {Declared[m] : m \in 1 .. n}
    BY <1>3, <2>1, <2>2
  <2> QED BY <2>1, <2>2, <2>3
<1>4. N \in T
  <2> HIDE DEF T, N
  <2>1. \A n \in 0 .. N : n \in T
    BY <1>1, <1>2, <1>3, IntervalInduction
  <2> QED BY <1>1, <2>1
<1> QED BY <1>1, <1>4
-----------------------------------------------------------------------------
(* What is stored.                                                         *)

(* A long that is assigned to an int is one.                               *)
LEMMA TruncateIs ==
  ASSUME NEW v \in Int
  PROVE  Truncate(v) \in Int
<1> DEFINE d == IntMax - IntMin + 1
<1>1. d \in Nat \ {0} /\ v - IntMin \in Int /\ IntMin \in Int
  BY AttrAssumption
<1> HIDE DEF d
<1>2. (v - IntMin) % d \in Int
  <2> DEFINE w == v - IntMin
  <2> HIDE DEF w
  <2>1. w \in Int
    BY <1>1 DEF w
  <2>2. w % d \in Int
    BY <1>1, <2>1
  <2> QED BY <2>2 DEF w
<1> QED BY <1>1, <1>2 DEF Truncate, d

(* What an operation returns.                                              *)
Codes == {"ok", "error", "range"}

(* A conversion succeeds or says why it does not.                          *)
LEMMA JsonGetIs ==
  ASSUME NEW ty, NEW wt, NEW v \in Int
  PROVE  JsonGet(ty, wt, v).ret \in Codes /\ JsonGet(ty, wt, v).v \in Int
BY TruncateIs DEF JsonGet, Codes, Ok, Fail

(* A value that is read.                                                   *)
LEMMA GetLocalIs ==
  ASSUME NEW ty, NEW a \in Attrs, value[a] \in Int
  PROVE  GetLocal(ty, a).ret \in Codes /\ GetLocal(ty, a).v \in Int
BY DEF GetLocal, Codes, Ok, Fail

(* Only an attribute that is ready and not a constant is stored to.        *)
LEMMA SetLocalIs ==
  ASSUME NEW ty, NEW a, NEW v \in Int
  PROVE  LET r == SetLocal(ty, a, v)
         IN  /\ r.ret \in Codes /\ r.v \in Int
             /\ r.ret = "ok" => a \in ready /\ "const" \notin Flags[a]
<1>1. SetLocal(ty, a, v) \in {Fail("error"), Fail("range"), Ok(v)}
  BY DEF SetLocal
<1>2. SetLocal(ty, a, v) = Ok(v) => TypeOf(a) # "none" /\ "const" \notin Flags[a]
  BY DEF SetLocal, Ok, Fail
<1>3. TypeOf(a) # "none" => a \in ready
  BY DEF TypeOf
<1>4. /\ Fail("error").ret = "error" /\ Fail("range").ret = "range" /\ Ok(v).ret = "ok"
      /\ Fail("error").v = 0 /\ Fail("range").v = 0 /\ Ok(v).v = v
  BY DEF Ok, Fail
<1> QED BY <1>1, <1>2, <1>3, <1>4 DEF Codes

(* The same for a request, which stops at an empty name.                   *)
LEMMA SetRemoteIs ==
  ASSUME NEW it \in ValueItems
  PROVE  LET r == SetRemote(it)
         IN  /\ r.ret \in Codes /\ r.v \in Int
             /\ r.ret = "ok" /\ it.name # Empty =>
                  it.name \in ready /\ "const" \notin Flags[it.name]
<1> DEFINE a == it.name
           j == JsonGet(Type[a], it.type, it.v)
<1>1. it.v \in Int
  BY DEF ValueItems
<1>2. j.ret \in Codes /\ j.v \in Int
  BY <1>1, JsonGetIs
<1>3. /\ Fail("error").ret = "error" /\ Fail("ok").ret = "ok"
      /\ Fail("error").v = 0 /\ Fail("ok").v = 0
  BY DEF Fail
<1>4. CASE a = Empty
  <2>1. SetRemote(it) = Fail("ok")
    BY <1>4 DEF SetRemote
  <2> QED BY <1>3, <1>4, <2>1 DEF Codes
<1>5. CASE a # Empty /\ (a \notin ready \/ Flags[a] # {})
  <2>1. SetRemote(it) = Fail("error")
    BY <1>5 DEF SetRemote
  <2> QED BY <1>3, <1>5, <2>1 DEF Codes
<1>6. CASE a # Empty /\ a \in ready /\ Flags[a] = {}
  <2>1. SetRemote(it) = IF j.ret = "ok" THEN SetLocal(Type[a], a, j.v) ELSE j
    BY <1>6 DEF SetRemote
  <2>2. /\ SetLocal(Type[a], a, j.v).ret \in Codes
        /\ SetLocal(Type[a], a, j.v).v \in Int
    BY <1>2, SetLocalIs
  <2> HIDE DEF j
  <2>3. SetRemote(it).ret \in Codes /\ SetRemote(it).v \in Int
    BY <1>2, <2>1, <2>2
  <2> QED BY <1>6, <2>3
<1> QED BY <1>4, <1>5, <1>6

(* One of them handles an item.                                            *)
LEMMA SetItemIs ==
  ASSUME NEW t, NEW it \in ValueItems
  PROVE  LET r == IF t = AbusThread THEN SetRemote(it)
                  ELSE SetLocal(it.type, it.name, it.v)
         IN  /\ r.ret \in Codes /\ r.v \in Int
             /\ r.ret = "ok" /\ it.name # Empty =>
                  it.name \in ready /\ "const" \notin Flags[it.name]
<1>1. it.v \in Int
  BY DEF ValueItems
<1>2. CASE t = AbusThread
  BY <1>2, SetRemoteIs
<1>3. CASE t # AbusThread
  BY <1>1, <1>3, SetLocalIs
<1> QED BY <1>2, <1>3

(* A set of numbers up to n that is not empty has a greatest member.       *)
LEMMA MaxIs ==
  ASSUME NEW n \in Nat, NEW S, S \subseteq 1 .. n, S # {}
  PROVE  Max(S) \in S /\ \A x \in S : x <= Max(S)
<1> DEFINE T == {n - x : x \in S}
<1>1. T \subseteq Nat /\ T # {}
  <2>1. \A x \in S : x \in 1 .. n /\ n - x \in Nat
    OBVIOUS
  <2> QED BY <2>1
<1>2. PICK y \in T : \A z \in T : y <= z
  BY <1>1, LeastNat
<1>3. PICK m \in S : y = n - m
  BY <1>2
<1>4. ASSUME NEW x \in S PROVE m >= x
  <2>1. n - m <= n - x
    <3>1. n - x \in T
      OBVIOUS
    <3> HIDE DEF T
    <3>2. y <= n - x
      BY <1>2, <3>1
    <3> QED BY <1>3, <3>2
  <2>2. x \in Int /\ m \in Int /\ n \in Int
    OBVIOUS
  <2> HIDE DEF T
  <2>3. \A p, q, k \in Int : k - p <= k - q => p >= q
    OBVIOUS
  <2> QED BY <2>1, <2>2, <2>3
<1>5. Max(S) \in S /\ \A x \in S : Max(S) >= x
  BY <1>4 DEF Max
<1> QED BY <1>5

(* One more item has been handled.                                         *)
LEMMA AppliedNext ==
  ASSUME NEW t, NEW n \in Nat, NEW a \in Attrs, op[t].items[n + 1].name = a
  PROVE  Applied(t, n + 1)
           = [Applied(t, n) EXCEPT ![a] = Stored(t, op[t].items[n + 1])]
<1> DEFINE I == op[t].items
           s == Stored(t, I[n + 1])
<1>1. ASSUME NEW b \in Attrs, b # a PROVE Naming(t, n + 1, b) = Naming(t, n, b)
  <2>1. \A m \in 1 .. n + 1 : m \in 1 .. n \/ m = n + 1
    OBVIOUS
  <2>2. \A m \in 1 .. n : m \in 1 .. n + 1
    OBVIOUS
  <2> QED BY <1>1, <2>1, <2>2 DEF Naming
<1>2. n + 1 \in Naming(t, n + 1, a) /\ Naming(t, n + 1, a) \subseteq 1 .. n + 1
  BY DEF Naming
<1>3. Max(Naming(t, n + 1, a)) = n + 1
  <2> DEFINE S == Naming(t, n + 1, a)
             k == Max(S)
  <2>1. k \in S /\ n + 1 <= k
    BY <1>2, MaxIs
  <2>2. k \in 1 .. n + 1
    BY <1>2, <2>1
  <2> HIDE DEF k
  <2>3. k = n + 1
    BY <2>1, <2>2
  <2> QED BY <2>3 DEF k
<1>4. Applied(t, n + 1)[a] = s
  BY <1>2, <1>3 DEF Applied
<1>5. \A b \in Attrs : b # a => Applied(t, n + 1)[b] = Applied(t, n)[b]
  BY <1>1 DEF Applied
<1>6. /\ Applied(t, n + 1) = [b \in Attrs |-> Applied(t, n + 1)[b]]
      /\ Applied(t, n) = [b \in Attrs |-> Applied(t, n)[b]]
  BY DEF Applied
<1> DEFINE f == Applied(t, n + 1)
           g == Applied(t, n)
<1> HIDE DEF f, g, s
<1>7. f = [g EXCEPT ![a] = s]
  BY <1>4, <1>5, <1>6 DEF f, g
<1> QED BY <1>7 DEF f, g, s
-----------------------------------------------------------------------------
(* Control: who may be where, and who has looked up what.                  *)

(* A function with one value changed.                                      *)
LEMMA ExceptIs ==
  ASSUME NEW D, NEW R, NEW f \in [D -> R], NEW x, NEW y \in R
  PROVE  [f EXCEPT ![x] = y] \in [D -> R]
OBVIOUS

(* The items of a request or call.                                         *)
LEMMA Shape ==
  ASSUME NEW o \in RemoteOps \cup LocalOps
  PROVE  /\ Len(o.items) \in Nat /\ DOMAIN o.items = 1 .. Len(o.items)
         /\ \A n \in 1 .. Len(o.items) :
              /\ o.items[n].name \in Names
              /\ o.kind = "set" => o.items[n] \in ValueItems
<1>1. CASE o.kind = "set"
  <2>1. o.items \in Seq(ValueItems)
    BY <1>1, OpAssumption
  <2>2. /\ Len(o.items) \in Nat /\ DOMAIN o.items = 1 .. Len(o.items)
        /\ \A n \in 1 .. Len(o.items) : o.items[n] \in ValueItems
    BY <2>1
  <2>3. \A it \in ValueItems : it.name \in Names
    BY DEF ValueItems
  <2> QED BY <2>2, <2>3
<1>2. CASE o.kind # "set"
  <2>1. o.items \in Seq(NameItems)
    BY <1>2, OpAssumption
  <2>2. /\ Len(o.items) \in Nat /\ DOMAIN o.items = 1 .. Len(o.items)
        /\ \A n \in 1 .. Len(o.items) : o.items[n] \in NameItems
    BY <2>1
  <2>3. \A it \in NameItems : it.name \in Names
    BY DEF NameItems
  <2> QED BY <1>2, <2>2, <2>3
<1> QED BY <1>1, <1>2

(* The operation of a thread that has one.                                 *)
LEMMA Working ==
  ASSUME NEW t \in Threads, CallInv(t), pc[t] # "idle"
  PROVE  /\ op[t] \in RemoteOps \cup LocalOps
         /\ t # AbusThread => op[t] \in LocalOps /\ Len(op[t].items) = 1 /\ Subject(t) \in Attrs
         /\ t = AbusThread => op[t] \in RemoteOps /\ op[t].kind \in {"set", "get"}
BY OpAssumption DEF CallInv, Subject

(* The item it is at.                                                      *)
LEMMA ItemIs ==
  ASSUME NEW t \in Threads, CallInv(t), i[t] \in Nat, pc[t] = "item",
         i[t] < Len(op[t].items)
  PROVE  /\ i[t] + 1 \in 1 .. Len(op[t].items) /\ Item(t) = op[t].items[i[t] + 1]
         /\ op[t].kind = "set" => Item(t) \in ValueItems
<1> DEFINE o == op[t]
           n == i[t]
<1>1. o \in RemoteOps \cup LocalOps
  BY Working
<1> HIDE DEF o, n
<1>2. Len(o.items) \in Nat
  BY <1>1, Shape
<1>3. n + 1 \in 1 .. Len(o.items)
  BY <1>2 DEF o, n
<1>4. Item(t) = o.items[n + 1]
  BY DEF Item, o, n
<1>5. o.kind = "set" => o.items[n + 1] \in ValueItems
  BY <1>1, <1>3, Shape
<1> QED BY <1>3, <1>4, <1>5 DEF o, n

(* Who starts finds no undeclaration under way, and an undeclaration finds *)
(* nothing under way.                                                      *)
LEMMA StartAlone ==
  ASSUME "undecl" \in Alone, ControlInv, NEW t \in Threads, NEW o, MayStart(t, o)
  PROVE  /\ pc[t] = "idle" /\ i[t] = 0
         /\ \A u \in Threads : pc[u] # "delete"
         /\ o.kind = "undecl" => \A u \in Threads : pc[u] = "idle"
<1>1. \A u \in Threads : pc[u] = "delete" => op[u].kind = "undecl"
  BY DEF ControlInv, CallInv
<1> QED BY <1>1 DEF MayStart, ControlInv, CallInv

(* Who goes on is no party to an undeclaration of another.                 *)
LEMMA StepAlone ==
  ASSUME ControlInv, NEW t \in Threads, pc[t] # "idle"
  PROVE  \A u \in Threads \ {t} : pc[u] # "delete"
BY DEF ControlInv, SharedInv

(* A thread that does nothing.                                             *)
LEMMA OtherKept ==
  ASSUME NEW u \in Threads, CallInv(u), PtrInv(u),
         pc'[u] = pc[u], op'[u] = op[u], i'[u] = i[u], ptr'[u] = ptr[u],
         Items(tab) \subseteq Items(tab'), ready \subseteq ready',
         pc[u] = "assign" => Subject(u) \notin ready',
         pc[u] # "delete", u = AbusThread => key' = key
  PROVE  CallInv(u)' /\ PtrInv(u)'
<1>1. Target(u)' = Target(u) /\ Subject(u)' = Subject(u) /\ (Announcing(u)' <=> Announcing(u))
  BY DEF Target, Subject, Announcing
<1>2. CallInv(u)'
  BY <1>1 DEF CallInv
<1>3. PtrInv(u)'
  BY <1>1 DEF PtrInv
<1> QED BY <1>2, <1>3

(* A thread that returns.                                                  *)
LEMMA ReturnTypes ==
  ASSUME TypeOK, NEW t \in Threads, Return(t)
  PROVE  /\ pc' \in [Threads -> {"idle", "lock", "item", "changed", "publish", "walk",
                                 "stuff", "next", "unlock", "assign", "delete"}]
         /\ op' \in [Threads -> RemoteOps \cup LocalOps \cup {NoOp}]
         /\ i' \in [Threads -> Nat] /\ ret' \in [Threads -> {"ok", "error", "range"}]
         /\ held' \in [Threads -> Int]
         /\ got' \in [Threads -> [ret : {"none", "ok", "error", "range"},
                                  v : Int, actual : Int]]
         /\ ptr' \in [Threads -> Attrs \cup {NoKey, Dangling}]
<1>1. /\ pc' \in [Threads -> {"idle", "lock", "item", "changed", "publish", "walk",
                              "stuff", "next", "unlock", "assign", "delete"}]
      /\ op' \in [Threads -> RemoteOps \cup LocalOps \cup {NoOp}]
  BY DEF TypeOK, Return, Goto
<1>2. i' \in [Threads -> Nat] /\ ret' \in [Threads -> {"ok", "error", "range"}]
  BY DEF TypeOK, Return
<1>3. held' \in [Threads -> Int] /\ ptr' \in [Threads -> Attrs \cup {NoKey, Dangling}]
  BY DEF TypeOK, Return
<1>4. got' \in [Threads -> [ret : {"none", "ok", "error", "range"}, v : Int, actual : Int]]
  <2>1. NotGot \in [ret : {"none", "ok", "error", "range"}, v : Int, actual : Int]
    BY DEF NotGot
  <2>2. got' = [got EXCEPT ![t] = NotGot]
    BY DEF Return
  <2>3. got \in [Threads -> [ret : {"none", "ok", "error", "range"}, v : Int, actual : Int]]
    BY DEF TypeOK
  <2> HIDE DEF NotGot
  <2> QED BY <2>1, <2>2, <2>3, ExceptIs
<1> QED BY <1>1, <1>2, <1>3, <1>4

(* It is nowhere any more.                                                 *)
LEMMA ReturnControl ==
  ASSUME TypeOK, NEW t \in Threads, Return(t)
  PROVE  /\ pc'[t] = "idle" /\ CallInv(t)' /\ PtrInv(t)' /\ ~Critical(t)'
         /\ \A u \in Threads \ {t} :
              pc'[u] = pc[u] /\ op'[u] = op[u] /\ i'[u] = i[u] /\ ptr'[u] = ptr[u]
<1>1. pc'[t] = "idle" /\ op'[t] = NoOp /\ i'[t] = 0
  BY DEF TypeOK, Return, Goto
<1>2. CallInv(t)' /\ PtrInv(t)' /\ ~Critical(t)'
  BY <1>1 DEF CallInv, PtrInv, Announcing, Critical
<1>3. \A u \in Threads \ {t} :
        pc'[u] = pc[u] /\ op'[u] = op[u] /\ i'[u] = i[u] /\ ptr'[u] = ptr[u]
  BY DEF TypeOK, Return, Goto
<1> QED BY <1>1, <1>2, <1>3

(* What a step of one thread has to keep.                                  *)
LEMMA Compose ==
  ASSUME ControlInv, NEW t \in Threads,
         \A u \in Threads \ {t} :
           /\ pc'[u] = pc[u] /\ op'[u] = op[u] /\ i'[u] = i[u] /\ ptr'[u] = ptr[u]
           /\ pc[u] # "delete"
           /\ pc[u] = "assign" => Subject(u) \notin ready'
           /\ lock' = u <=> lock = u,
         Items(tab) \subseteq Items(tab'), ready \subseteq ready',
         t = AbusThread \/ key' = key,
         TypeOK', TableInv(tab'), ~fault', CallInv(t)', PtrInv(t)',
         lock' = t <=> Critical(t)',
         pc'[t] = "delete" => \A u \in Threads \ {t} : pc[u] = "idle",
         pc'[t] = "assign" => Subject(t)' \notin Items(tab),
         \A a \in Attrs \ ready' : value'[a] = 0
  PROVE  ControlInv'
<1>1. ASSUME NEW u \in Threads PROVE CallInv(u)' /\ PtrInv(u)'
  <2>1. CASE u = t
    BY <2>1
  <2>2. CASE u # t
    <3>1. CallInv(u) /\ PtrInv(u) /\ (u = AbusThread => key' = key)
      BY <2>2 DEF ControlInv
    <3> QED BY <2>2, <3>1, OtherKept
  <2> QED BY <2>1, <2>2
<1>2. \A u \in Threads \ {t} : Critical(u)' = Critical(u) /\ Subject(u)' = Subject(u)
  BY DEF Critical, Subject
<1>3. ASSUME NEW u \in Threads PROVE lock' = u <=> Critical(u)'
  <2>1. CASE u = t
    BY <2>1
  <2>2. CASE u # t
    <3>1. lock = u <=> Critical(u)
      BY DEF ControlInv, SharedInv
    <3>2. Critical(u)' = Critical(u) /\ (lock' = u <=> lock = u)
      BY <1>2, <2>2
    <3> QED BY <3>1, <3>2
  <2> QED BY <2>1, <2>2
<1>4. ASSUME NEW u \in Threads, NEW v \in Threads, pc'[u] = "delete", u # v
      PROVE  pc'[v] = "idle"
  BY <1>4
<1>5. ASSUME NEW u \in Threads, NEW v \in Threads, pc'[u] = "assign", pc'[v] = "assign",
             Subject(u)' = Subject(v)'
      PROVE  u = v
  <2>1. \A w \in Threads \ {t} : pc[w] = "assign" => Subject(w) \in Items(tab)
    BY DEF ControlInv, CallInv
  <2>2. CASE u # t /\ v # t
    BY <1>2, <1>5, <2>2 DEF ControlInv, SharedInv
  <2>3. CASE u = t \/ v = t
    BY <1>2, <1>5, <2>1, <2>3
  <2> QED BY <2>2, <2>3
<1>6. SharedInv'
  BY <1>3, <1>4, <1>5 DEF SharedInv
<1> QED BY <1>1, <1>6 DEF ControlInv

(* Control is kept by every step.                                          *)
LEMMA ControlStep ==
  ASSUME "undecl" \in Alone, ControlInv, [Next]_vars
  PROVE  ControlInv'
<1>0. /\ TypeOK /\ TableInv(tab) /\ fault = FALSE /\ SharedInv
      /\ \A t \in Threads : CallInv(t) /\ PtrInv(t)
  BY DEF ControlInv, TypeOK
<1> USE DEF Threads
<1>a. AbusThread \in Threads /\ NoThread \notin Threads /\ LocalThreads \subseteq Threads
      /\ AbusThread \notin LocalThreads /\ NoKey \notin Attrs
  BY AttrAssumption, KeyAssumption DEF Attrs
<1> HIDE DEF Threads
<1>b. /\ \A a \in Attrs : TableInv(HFind(tab, a)) /\ Items(HFind(tab, a)) = Items(tab)
      /\ TableInv(HFirst(tab)) /\ Items(HFirst(tab)) = Items(tab)
      /\ TableInv(HNext(tab)) /\ Items(HNext(tab)) = Items(tab)
  BY <1>0, FindSound, FirstSound, NextSound DEF Attrs
<1>c. \A h : TableInv(h) => Sane(h) /\ Items(h) \subseteq Attrs
  BY SoundIsSane DEF Items, Attrs
<1>d. /\ value \in [Attrs -> Int] /\ i \in [Threads -> Nat]
      /\ got \in [Threads -> [ret : {"none", "ok", "error", "range"}, v : Int, actual : Int]]
  BY <1>0 DEF TypeOK
<1>e. /\ \A u \in Threads :
           (lock = u <=> Critical(u)) /\ (pc[u] = "assign" => Subject(u) \notin ready)
      /\ \A a \in Attrs \ ready : value[a] = 0
  BY <1>0 DEF SharedInv, CallInv
<1>1. ASSUME RemoteCall PROVE ControlInv'
  <2> DEFINE t == AbusThread
  <2>1. PICK o \in RemoteOps : MayStart(t, o) /\ op' = [op EXCEPT ![t] = o]
    BY <1>1 DEF RemoteCall
  <2>2. /\ pc' = [pc EXCEPT ![t] = "lock"]
        /\ UNCHANGED <<value, tab, ready, ptr, fault, lock, i, ret, held, key, out, got,
                       last, before, disturbed>>
    BY <1>1 DEF RemoteCall, Goto, life, answer
  <2>3. pc[t] = "idle" /\ i[t] = 0 /\ \A u \in Threads : pc[u] # "delete"
    BY <1>a, <2>1, StartAlone
  <2>4. o.kind \in {"set", "get"} /\ Len(o.items) \in Nat
    BY OpAssumption, Shape
  <2>5. TypeOK'
    BY <1>0, <1>a, <2>1, <2>2 DEF TypeOK
  <2>6. pc'[t] = "lock" /\ op'[t] = o
    BY <1>0, <1>a, <2>1, <2>2 DEF TypeOK
  <2>7. CallInv(t)' /\ PtrInv(t)'
    BY <1>a, <2>2, <2>3, <2>4, <2>6 DEF CallInv, PtrInv, Announcing
  <2>8. ~Critical(t) /\ ~Critical(t)'
    BY <2>3, <2>6 DEF Critical
  <2>9. \A u \in Threads \ {t} : pc'[u] = pc[u] /\ op'[u] = op[u]
    BY <1>0, <2>1, <2>2 DEF TypeOK
  <2> HIDE DEF t
  <2>10. t \in Threads /\ t = AbusThread
    BY <1>a DEF t
  <2> QED BY <1>0, <1>e, <2>2, <2>3, <2>5, <2>6, <2>7, <2>8, <2>9, <2>10, Compose
<1>2. ASSUME NEW t \in LocalThreads, LocalCall(t) PROVE ControlInv'
  <2>1. PICK o \in LocalOps :
          /\ MayStart(t, o) /\ o.kind \in {"set", "get"} /\ o.items[1].name \in Items(tab)
          /\ ptr' = [ptr EXCEPT ![t] = o.items[1].name] /\ op' = [op EXCEPT ![t] = o]
          /\ Lookup(t, o.items[1].name)
    BY <1>2 DEF LocalCall
  <2>2. /\ pc' = [pc EXCEPT ![t] = "lock"]
        /\ UNCHANGED <<value, ready, fault, lock, i, ret, held, key, out, got, last, before>>
    BY <1>2 DEF LocalCall, Goto, answer
  <2> DEFINE a == o.items[1].name
  <2>3. /\ t \in Threads /\ t # AbusThread /\ pc[t] = "idle" /\ i[t] = 0
        /\ \A u \in Threads : pc[u] # "delete"
    BY <1>a, <2>1, StartAlone
  <2>4. Len(o.items) = 1 /\ a \in Attrs
    BY OpAssumption
  <2>5. TableInv(tab') /\ Items(tab') = Items(tab) /\ disturbed' \in BOOLEAN
    BY <1>b, <2>1, <2>4 DEF Lookup
  <2>6. TypeOK'
    BY <1>0, <1>c, <2>1, <2>2, <2>3, <2>4, <2>5 DEF TypeOK
  <2>7. pc'[t] = "lock" /\ op'[t] = o /\ ptr'[t] = a
    BY <1>0, <2>1, <2>2, <2>3 DEF TypeOK
  <2>8. CallInv(t)' /\ PtrInv(t)'
    BY <2>1, <2>2, <2>3, <2>4, <2>7 DEF CallInv, PtrInv, Announcing, Subject
  <2>9. ~Critical(t) /\ ~Critical(t)'
    BY <2>3, <2>7 DEF Critical
  <2>10. \A u \in Threads \ {t} : pc'[u] = pc[u] /\ op'[u] = op[u] /\ ptr'[u] = ptr[u]
    BY <1>0, <2>1, <2>2 DEF TypeOK
  <2> QED BY <1>0, <1>e, <2>2, <2>3, <2>5, <2>6, <2>7, <2>8, <2>9, <2>10, Compose
<1>3. ASSUME NEW t \in LocalThreads, AttrChanged(t) PROVE ControlInv'
  <2>1. PICK o \in LocalOps :
          /\ MayStart(t, o) /\ o.kind = "notify" /\ o.items[1].name \in ready
          /\ op' = [op EXCEPT ![t] = o]
    BY <1>3 DEF AttrChanged
  <2>2. /\ pc' = [pc EXCEPT ![t] = "changed"] /\ i' = [i EXCEPT ![t] = 1]
        /\ UNCHANGED <<value, tab, ready, ptr, fault, lock, ret, held, key, out, got, last,
                       before, disturbed>>
    BY <1>3 DEF AttrChanged, Goto, life, answer
  <2>3. /\ t \in Threads /\ t # AbusThread /\ pc[t] = "idle" /\ i[t] = 0
        /\ \A u \in Threads : pc[u] # "delete"
    BY <1>a, <2>1, StartAlone
  <2>4. Len(o.items) = 1
    BY OpAssumption
  <2>5. TypeOK'
    BY <1>0, <2>1, <2>2, <2>3 DEF TypeOK
  <2>6. pc'[t] = "changed" /\ op'[t] = o /\ i'[t] = 1
    BY <1>0, <2>1, <2>2, <2>3 DEF TypeOK
  <2>7. CallInv(t)' /\ PtrInv(t)'
    BY <2>1, <2>2, <2>3, <2>4, <2>6 DEF CallInv, PtrInv, Announcing, Target
  <2>8. ~Critical(t) /\ ~Critical(t)'
    BY <2>1, <2>3, <2>6 DEF Critical
  <2>9. \A u \in Threads \ {t} : pc'[u] = pc[u] /\ op'[u] = op[u] /\ i'[u] = i[u]
    BY <1>0, <2>1, <2>2 DEF TypeOK
  <2> QED BY <1>0, <1>e, <2>2, <2>3, <2>5, <2>6, <2>7, <2>8, <2>9, Compose
<1>4. ASSUME NEW t \in LocalThreads, DeclLookup(t) PROVE ControlInv'
  <2>1. PICK o \in LocalOps :
          /\ MayStart(t, o) /\ o.kind = "decl" /\ o.items[1].name \notin Items(tab)
          /\ op' = [op EXCEPT ![t] = o] /\ ptr' = [ptr EXCEPT ![t] = o.items[1].name]
          /\ tab' = HAdd(tab, o.items[1].name, o.items[1].name)
          /\ disturbed' = (disturbed \/ Walking)
    BY <1>4 DEF DeclLookup
  <2>2. /\ pc' = [pc EXCEPT ![t] = "assign"]
        /\ UNCHANGED <<value, ready, fault, lock, i, ret, held, key, out, got, last, before>>
    BY <1>4 DEF DeclLookup, Goto, answer
  <2> DEFINE a == o.items[1].name
  <2>3. /\ t \in Threads /\ t # AbusThread /\ pc[t] = "idle" /\ i[t] = 0
        /\ \A u \in Threads : pc[u] # "delete"
    BY <1>a, <2>1, StartAlone
  <2>4. a \in Attrs /\ a \in Stuff
    BY OpAssumption, AttrAssumption
  <2>5. TableInv(tab') /\ Items(tab') = Items(tab) \cup {a}
    BY <1>0, <2>1, <2>4, AddSound DEF Attrs
  <2>6. TypeOK'
    BY <1>0, <1>c, <2>1, <2>2, <2>3, <2>4, <2>5 DEF TypeOK
  <2>7. pc'[t] = "assign" /\ op'[t] = o /\ ptr'[t] = a
    BY <1>0, <2>1, <2>2, <2>3 DEF TypeOK
  <2>8. a \notin ready /\ Subject(t)' = a
    BY <1>0, <2>1, <2>7 DEF TypeOK, Subject
  <2>9. CallInv(t)' /\ PtrInv(t)'
    BY <2>1, <2>2, <2>3, <2>5, <2>7, <2>8 DEF CallInv, PtrInv, Announcing
  <2>10. ~Critical(t) /\ ~Critical(t)'
    BY <2>3, <2>7 DEF Critical
  <2>11. \A u \in Threads \ {t} : pc'[u] = pc[u] /\ op'[u] = op[u] /\ ptr'[u] = ptr[u]
    BY <1>0, <2>1, <2>2 DEF TypeOK
  <2> QED BY <1>0, <1>e, <2>1, <2>2, <2>3, <2>5, <2>6, <2>7, <2>8, <2>9, <2>10, <2>11, Compose
<1>5. ASSUME NEW t \in LocalThreads, UndeclLookup(t) PROVE ControlInv'
  <2>1. PICK o \in LocalOps :
          /\ MayStart(t, o) /\ o.kind = "undecl" /\ o.items[1].name \in Items(tab)
          /\ op' = [op EXCEPT ![t] = o] /\ ptr' = [ptr EXCEPT ![t] = o.items[1].name]
          /\ Lookup(t, o.items[1].name)
    BY <1>5 DEF UndeclLookup
  <2>2. /\ pc' = [pc EXCEPT ![t] = "delete"]
        /\ UNCHANGED <<value, ready, fault, lock, i, ret, held, key, out, got, last, before>>
    BY <1>5 DEF UndeclLookup, Goto, answer
  <2> DEFINE a == o.items[1].name
  <2>3. /\ t \in Threads /\ t # AbusThread /\ i[t] = 0
        /\ \A u \in Threads : pc[u] = "idle"
    BY <1>a, <2>1, StartAlone
  <2>4. a \in Attrs
    BY OpAssumption
  <2>5. TableInv(tab') /\ Items(tab') = Items(tab) /\ tab'.ipos = a /\ disturbed' \in BOOLEAN
    BY <1>0, <1>b, <2>1, <2>4, FindSound DEF Lookup, Attrs
  <2>6. TypeOK'
    BY <1>0, <1>c, <2>1, <2>2, <2>3, <2>4, <2>5 DEF TypeOK
  <2>7. pc'[t] = "delete" /\ op'[t] = o /\ ptr'[t] = a
    BY <1>0, <2>1, <2>2, <2>3 DEF TypeOK
  <2>8. CallInv(t)' /\ PtrInv(t)'
    BY <2>1, <2>2, <2>3, <2>5, <2>7 DEF CallInv, PtrInv, Announcing, Subject
  <2>9. ~Critical(t) /\ ~Critical(t)'
    BY <2>3, <2>7 DEF Critical
  <2>10. \A u \in Threads \ {t} : pc'[u] = pc[u] /\ op'[u] = op[u] /\ ptr'[u] = ptr[u]
    BY <1>0, <2>1, <2>2 DEF TypeOK
  <2> QED BY <1>0, <1>e, <2>2, <2>3, <2>5, <2>6, <2>7, <2>8, <2>9, <2>10, Compose
<1>6. ASSUME NEW t \in Threads, Lock(t) PROVE ControlInv'
  <2>1. /\ pc[t] = "lock" /\ lock = NoThread /\ lock' = t /\ pc' = [pc EXCEPT ![t] = "item"]
        /\ before' = [value |-> value, ready |-> ready]
        /\ UNCHANGED <<value, tab, ready, ptr, fault, op, i, ret, held, key, out, got, last,
                       disturbed>>
    BY <1>6 DEF Lock, Goto, life, answer
  <2>2. \A u \in Threads \ {t} : pc[u] # "delete"
    BY <2>1, StepAlone
  <2>3. TypeOK'
    <3>1. before'.value \in [Attrs -> Int] /\ before'.ready \subseteq Attrs
      BY <1>0, <2>1 DEF TypeOK
    <3> QED BY <1>0, <2>1, <3>1 DEF TypeOK
  <2>4. pc'[t] = "item"
    BY <1>0, <2>1 DEF TypeOK
  <2>5. CallInv(t)' /\ PtrInv(t)'
    BY <1>0, <2>1, <2>4 DEF CallInv, PtrInv, Announcing, Subject
  <2>6. Critical(t)'
    BY <2>4 DEF Critical
  <2>7. \A u \in Threads \ {t} : pc'[u] = pc[u]
    BY <1>0, <2>1 DEF TypeOK
  <2>8. \A u \in Threads \ {t} : lock' = u <=> lock = u
    BY <1>a, <2>1
  <2> QED BY <1>0, <1>e, <2>1, <2>2, <2>3, <2>4, <2>5, <2>6, <2>7, <2>8, Compose
<1>7. ASSUME NEW t \in Threads, SetItem(t) PROVE ControlInv'
  <2> DEFINE it == Item(t)
             a == it.name
             r == IF t = AbusThread THEN SetRemote(it) ELSE SetLocal(it.type, a, it.v)
             n == i[t]
  <2>1. /\ pc[t] = "item" /\ op[t].kind = "set" /\ n < Len(op[t].items)
        /\ IF t = AbusThread THEN Lookup(t, a) /\ UNCHANGED fault
                             ELSE Deref(t, a) /\ UNCHANGED <<tab, disturbed>>
        /\ IF r.ret # "ok" \/ a = Empty
           THEN Stop(t, r.ret) /\ UNCHANGED <<value, i>>
           ELSE /\ value' = [value EXCEPT ![a] = r.v] /\ i' = [i EXCEPT ![t] = @ + 1]
                /\ Goto(t, AfterStore(a, r.v)) /\ UNCHANGED ret
        /\ UNCHANGED <<ready, ptr, lock, op, before, held, key, out, got, last>>
    BY <1>7 DEF SetItem, AtItem, call, answer
  <2>2. n \in Nat
    BY <1>d
  <2>3. n + 1 \in 1 .. Len(op[t].items) /\ it = op[t].items[n + 1] /\ it \in ValueItems
    BY <1>0, <2>1, <2>2, ItemIs
  <2>4. r.ret \in Codes /\ r.v \in Int
    BY <2>3, SetItemIs
  <2>5. r.ret = "ok" /\ a # Empty => a \in ready /\ "const" \notin Flags[a]
    BY <2>3, SetItemIs
  <2> HIDE DEF r
  <2>6. fault' = FALSE
    <3>1. CASE t = AbusThread
      BY <1>0, <2>1, <3>1
    <3>2. CASE t # AbusThread
      <4>1. n = 0 /\ a = Subject(t)
        <5>1. Len(op[t].items) = 1
          BY <1>0, <2>1, <3>2, Working
        <5>2. n = 0
          BY <2>1, <2>2, <2>3, <5>1
        <5> QED BY <2>3, <5>2 DEF Subject
      <4>2. ptr[t] = a
        BY <1>0, <2>1, <3>2, <4>1 DEF PtrInv
      <4> QED BY <1>0, <2>1, <3>2, <4>2 DEF Deref
    <3> QED BY <3>1, <3>2
  <2>7. TableInv(tab') /\ Items(tab') = Items(tab) /\ disturbed' \in BOOLEAN
    <3>1. disturbed \in BOOLEAN
      BY <1>0 DEF TypeOK
    <3>2. CASE t = AbusThread
      BY <1>0, <1>b, <2>1, <3>1, <3>2 DEF Lookup
    <3>3. CASE t # AbusThread
      BY <1>0, <2>1, <3>1, <3>3
    <3> QED BY <3>2, <3>3
  <2> HIDE DEF r, it
  <2>8. \A u \in Threads \ {t} : pc[u] # "delete"
    BY <2>1, StepAlone
  <2>9. CASE r.ret # "ok" \/ a = Empty
    <3>1. /\ ret' = [ret EXCEPT ![t] = r.ret] /\ pc' = [pc EXCEPT ![t] = "unlock"]
          /\ UNCHANGED <<value, i>>
      BY <2>1, <2>9 DEF Stop, Goto
    <3>2. TypeOK'
      BY <1>0, <1>c, <2>1, <2>4, <2>6, <2>7, <3>1 DEF TypeOK, Codes
    <3>3. pc'[t] = "unlock"
      BY <1>0, <3>1 DEF TypeOK
    <3>4. CallInv(t)' /\ PtrInv(t)'
      BY <1>0, <2>1, <3>1, <3>3 DEF CallInv, PtrInv, Announcing
    <3>5. Critical(t) /\ Critical(t)'
      BY <2>1, <3>3 DEF Critical
    <3>6. \A u \in Threads \ {t} : pc'[u] = pc[u]
      BY <1>0, <3>1 DEF TypeOK
    <3> QED BY <1>0, <1>e, <2>1, <2>6, <2>7, <2>8, <3>1, <3>2, <3>3, <3>4, <3>5, <3>6, Compose
  <2>10. CASE r.ret = "ok" /\ a # Empty
    <3>1. /\ value' = [value EXCEPT ![a] = r.v] /\ i' = [i EXCEPT ![t] = n + 1]
          /\ pc' = [pc EXCEPT ![t] = AfterStore(a, r.v)] /\ UNCHANGED ret
      BY <2>1, <2>10 DEF Goto
    <3>2. AfterStore(a, r.v) \in {"changed", "item"}
      BY DEF AfterStore
    <3>3. a \in ready /\ a \in Attrs /\ "const" \notin Flags[a]
      BY <1>0, <2>5, <2>10 DEF TypeOK
    <3>4. TypeOK'
      <4>1. value' \in [Attrs -> Int] /\ i' \in [Threads -> Nat]
        <5> DEFINE w == r.v
                   m == n + 1
        <5>1. w \in Int /\ m \in Nat
          BY <2>2, <2>4
        <5>2. value' = [value EXCEPT ![a] = w] /\ i' = [i EXCEPT ![t] = m]
          BY <3>1
        <5> HIDE DEF w, m
        <5> QED BY <1>d, <5>1, <5>2, ExceptIs
      <4>2. pc' \in [Threads -> {"idle", "lock", "item", "changed", "publish", "walk",
                                 "stuff", "next", "unlock", "assign", "delete"}]
        BY <1>0, <3>1, <3>2 DEF TypeOK
      <4> QED BY <1>0, <1>c, <2>1, <2>6, <2>7, <3>1, <4>1, <4>2 DEF TypeOK
    <3>5. pc'[t] \in {"changed", "item"} /\ i'[t] = n + 1
      BY <1>0, <3>1, <3>2 DEF TypeOK
    <3>6. CallInv(t)' /\ PtrInv(t)'
      <4>1. Target(t)' = a /\ op' = op /\ ready' = ready
        BY <2>1, <2>3, <3>5 DEF Target
      <4>2. i'[t] \in 1 .. Len(op'[t].items) /\ i'[t] # 0 /\ i'[t] <= Len(op'[t].items)
        BY <2>1, <2>2, <2>3, <3>5
      <4>3. CallInv(t)'
        BY <1>0, <2>1, <3>3, <3>5, <4>1, <4>2 DEF CallInv, Announcing
      <4> QED BY <3>5, <4>2, <4>3 DEF PtrInv
    <3>7. Critical(t) /\ Critical(t)'
      BY <2>1, <3>5 DEF Critical
    <3>8. \A u \in Threads \ {t} : pc'[u] = pc[u] /\ i'[u] = i[u]
      BY <1>0, <3>1 DEF TypeOK
    <3>9. \A b \in Attrs \ ready : value'[b] = 0
      BY <1>0, <3>1, <3>3 DEF TypeOK, SharedInv
    <3> QED BY <1>0, <1>e, <2>1, <2>6, <2>7, <2>8, <3>1, <3>4, <3>5, <3>6, <3>7, <3>8, <3>9,
               Compose
  <2> QED BY <2>9, <2>10
<1>8. ASSUME NEW t \in Threads, ReadChanged(t) PROVE ControlInv'
  <2> DEFINE a == op[t].items[i[t]].name
  <2>1. /\ pc[t] = "changed" /\ Lookup(t, a) /\ held' = [held EXCEPT ![t] = value[a]]
        /\ ptr' = [ptr EXCEPT ![t] = a] /\ pc' = [pc EXCEPT ![t] = "publish"]
        /\ UNCHANGED <<value, ready, fault, lock, op, before, i, ret, key, out, got, last>>
    BY <1>8 DEF ReadChanged, Goto, call, answer
  <2>2. \A u \in Threads \ {t} : pc[u] # "delete"
    BY <2>1, StepAlone
  <2>3. a = Target(t) /\ a \in ready /\ a \in Attrs
    BY <1>0, <2>1 DEF CallInv, Announcing, Target, TypeOK
  <2>4. TableInv(tab') /\ Items(tab') = Items(tab) /\ disturbed' \in BOOLEAN
    BY <1>b, <2>1, <2>3 DEF Lookup
  <2>5. TypeOK'
    BY <1>0, <1>c, <2>1, <2>3, <2>4 DEF TypeOK
  <2>6. pc'[t] = "publish" /\ ptr'[t] = a
    BY <1>0, <2>1 DEF TypeOK
  <2>7. CallInv(t)' /\ PtrInv(t)'
    BY <1>0, <2>1, <2>3, <2>6 DEF CallInv, PtrInv, Announcing, Target
  <2>8. Critical(t)' = Critical(t)
    BY <2>1, <2>6 DEF Critical
  <2>9. \A u \in Threads \ {t} : pc'[u] = pc[u] /\ ptr'[u] = ptr[u]
    BY <1>0, <2>1 DEF TypeOK
  <2> QED BY <1>0, <1>e, <2>1, <2>2, <2>4, <2>5, <2>6, <2>7, <2>8, <2>9, Compose
<1>9. ASSUME NEW t \in Threads, Publish(t) PROVE ControlInv'
  <2> DEFINE a == op[t].items[i[t]].name
  <2>1. /\ pc[t] = "publish" /\ Deref(t, a)
        /\ last' = IF "const" \in Flags[a] THEN last
                   ELSE [last EXCEPT ![a] = [v |-> held[t], by |-> op[t].kind]]
        /\ IF op[t].kind = "notify" THEN Return(t)
           ELSE Goto(t, "item") /\ UNCHANGED <<op, i, ret, held, got, ptr>>
        /\ UNCHANGED <<value, tab, ready, lock, key, out, before, disturbed>>
    BY <1>9 DEF Publish
  <2>2. \A u \in Threads \ {t} : pc[u] # "delete"
    BY <2>1, StepAlone
  <2>3. /\ a = Target(t) /\ a \in ready /\ a \in Attrs /\ op[t].kind \in {"set", "notify"}
        /\ i[t] \in 1 .. Len(op[t].items)
    BY <1>0, <2>1 DEF CallInv, Announcing, Target, TypeOK
  <2>4. fault' = FALSE
    BY <1>0, <2>1, <2>3 DEF PtrInv, Deref
  <2>5. last' \in [Attrs -> [v : Int, by : {"set", "notify"}]]
    <3>1. [v |-> held[t], by |-> op[t].kind] \in [v : Int, by : {"set", "notify"}]
      BY <1>0, <2>3 DEF TypeOK
    <3> QED BY <1>0, <2>1, <3>1 DEF TypeOK
  <2>6. CASE op[t].kind = "notify"
    <3>1. Return(t)
      BY <2>1, <2>6
    <3>2. TypeOK'
      <4>1. UNCHANGED <<value, tab, ready, lock, key, out, before, disturbed>>
        BY <2>1
      <4>2. /\ pc' \in [Threads -> {"idle", "lock", "item", "changed", "publish", "walk",
                                   "stuff", "next", "unlock", "assign", "delete"}]
            /\ op' \in [Threads -> RemoteOps \cup LocalOps \cup {NoOp}]
            /\ i' \in [Threads -> Nat] /\ ret' \in [Threads -> {"ok", "error", "range"}]
            /\ held' \in [Threads -> Int]
            /\ got' \in [Threads -> [ret : {"none", "ok", "error", "range"},
                                     v : Int, actual : Int]]
            /\ ptr' \in [Threads -> Attrs \cup {NoKey, Dangling}]
        BY <1>0, <3>1, ReturnTypes
      <4> QED BY <1>0, <2>4, <2>5, <4>1, <4>2 DEF TypeOK
    <3>3. ~Critical(t)
      BY <2>1, <2>6 DEF Critical
    <3>4. /\ pc'[t] = "idle" /\ CallInv(t)' /\ PtrInv(t)' /\ ~Critical(t)'
          /\ \A u \in Threads \ {t} :
               pc'[u] = pc[u] /\ op'[u] = op[u] /\ i'[u] = i[u] /\ ptr'[u] = ptr[u]
      BY <1>0, <3>1, ReturnControl
    <3> QED BY <1>0, <1>e, <2>1, <2>2, <2>4, <3>2, <3>3, <3>4, Compose
  <2>7. CASE op[t].kind = "set"
    <3>1. pc' = [pc EXCEPT ![t] = "item"] /\ UNCHANGED <<op, i, ret, held, got, ptr>>
      BY <2>1, <2>7 DEF Goto
    <3>2. TypeOK'
      BY <1>0, <2>1, <2>4, <2>5, <3>1 DEF TypeOK
    <3>3. pc'[t] = "item" /\ i[t] # 0 /\ i[t] <= Len(op[t].items)
      BY <1>0, <2>3, <3>1 DEF TypeOK
    <3>4. CallInv(t)' /\ PtrInv(t)'
      BY <1>0, <2>1, <2>3, <2>7, <3>1, <3>3 DEF CallInv, PtrInv, Announcing
    <3>5. Critical(t) /\ Critical(t)'
      BY <2>1, <2>7, <3>3 DEF Critical
    <3>6. \A u \in Threads \ {t} : pc'[u] = pc[u]
      BY <1>0, <3>1 DEF TypeOK
    <3> QED BY <1>0, <1>e, <2>1, <2>2, <2>4, <3>1, <3>2, <3>3, <3>4, <3>5, <3>6, Compose
  <2> QED BY <2>3, <2>6, <2>7
<1>10. ASSUME NEW t \in Threads, GetItem(t) PROVE ControlInv'
  <2> DEFINE a == Item(t).name
             r == IF t # AbusThread THEN GetLocal(op[t].want, a)
                  ELSE IF a \in ready THEN JsonGet(op[t].want, WireType(Type[a]), value[a])
                  ELSE Fail("error")
             n == i[t]
  <2>1. /\ pc[t] = "item" /\ op[t].kind = "get" /\ n < Len(op[t].items)
        /\ a \in Items(tab) \/ t # AbusThread
        /\ got' = [got EXCEPT ![t] = [ret |-> r.ret, v |-> r.v, actual |-> value[a]]]
        /\ IF t = AbusThread THEN AppendType(t, a) /\ Lookup(t, a) /\ UNCHANGED fault
                             ELSE Deref(t, a) /\ UNCHANGED <<out, ret, tab, disturbed>>
        /\ i' = [i EXCEPT ![t] = @ + 1]
        /\ UNCHANGED <<value, ready, ptr, lock, pc, op, before, held, key, last>>
    BY <1>10 DEF GetItem, AtItem, call
  <2>2. n \in Nat /\ n + 1 \in Nat /\ n + 1 <= Len(op[t].items) /\ Len(op[t].items) \in Nat
    <3>1. n \in Nat
      BY <1>0 DEF TypeOK
    <3>2. Len(op[t].items) \in Nat
      BY <1>0, <2>1, Working, Shape
    <3> QED BY <2>1, <3>1, <3>2
  <2>3. t # AbusThread => n = 0 /\ a = Subject(t) /\ a \in Attrs
    <3>1. ASSUME t # AbusThread PROVE n = 0 /\ a = Subject(t) /\ a \in Attrs
      <4>1. Len(op[t].items) = 1 /\ Subject(t) \in Attrs
        BY <1>0, <2>1, <3>1, Working
      <4>2. n = 0
        BY <2>1, <2>2, <4>1
      <4> QED BY <4>1, <4>2 DEF Item, Subject
    <3> QED BY <3>1
  <2>4. a \in Attrs
    BY <2>1, <2>3 DEF Items, Attrs
  <2>5. r.ret \in Codes /\ r.v \in Int /\ value[a] \in Int
    <3>1. value[a] \in Int
      BY <1>d, <2>4
    <3>2. Fail("error").ret \in Codes /\ Fail("error").v \in Int
      BY DEF Fail, Codes
    <3>3. CASE t # AbusThread
      BY <2>4, <3>1, <3>3, GetLocalIs
    <3>4. CASE t = AbusThread
      BY <3>1, <3>2, <3>4, JsonGetIs
    <3> QED BY <3>1, <3>3, <3>4
  <2> HIDE DEF r, a
  <2>6. fault' = FALSE
    <3>1. t # AbusThread => ptr[t] = a
      BY <1>0, <2>1, <2>3 DEF PtrInv
    <3> QED BY <1>0, <2>1, <3>1 DEF Deref
  <2>7. /\ TableInv(tab') /\ Items(tab') = Items(tab) /\ disturbed' \in BOOLEAN
    <3>1. disturbed \in BOOLEAN
      BY <1>0 DEF TypeOK
    <3>2. CASE t = AbusThread
      BY <1>b, <2>1, <2>4, <3>1, <3>2 DEF Lookup
    <3>3. CASE t # AbusThread
      BY <1>0, <2>1, <3>1, <3>3
    <3> QED BY <3>2, <3>3
  <2>8. out' \subseteq Attrs \X Int /\ ret' \in [Threads -> {"ok", "error", "range"}]
    <3>1. out \subseteq Attrs \X Int /\ ret \in [Threads -> {"ok", "error", "range"}]
      BY <1>0 DEF TypeOK
    <3>2. <<a, value[a]>> \in Attrs \X Int
      BY <2>4, <2>5
    <3> QED BY <2>1, <3>1, <3>2 DEF AppendType
  <2>9. got' \in [Threads -> [ret : {"none", "ok", "error", "range"}, v : Int, actual : Int]]
    <3> DEFINE g == [ret |-> r.ret, v |-> r.v, actual |-> value[a]]
    <3>1. g \in [ret : {"none", "ok", "error", "range"}, v : Int, actual : Int]
      BY <2>5 DEF Codes
    <3>2. got' = [got EXCEPT ![t] = g]
      BY <2>1
    <3> HIDE DEF g
    <3> QED BY <1>d, <3>1, <3>2, ExceptIs
  <2>10. i' \in [Threads -> Nat] /\ i'[t] = n + 1
    <3> DEFINE m == n + 1
    <3>1. i' = [i EXCEPT ![t] = m] /\ m \in Nat
      BY <2>1, <2>2
    <3> HIDE DEF m
    <3>2. i' \in [Threads -> Nat] /\ i'[t] = m
      BY <1>d, <3>1, ExceptIs
    <3> QED BY <3>2 DEF m
  <2>11. TypeOK'
    BY <1>0, <1>c, <2>1, <2>6, <2>7, <2>8, <2>9, <2>10 DEF TypeOK
  <2>12. CallInv(t)' /\ PtrInv(t)'
    BY <1>0, <2>1, <2>2, <2>10 DEF CallInv, PtrInv, Announcing
  <2>13. Critical(t) /\ Critical(t)'
    BY <2>1 DEF Critical
  <2>14. \A u \in Threads \ {t} : pc[u] # "delete" /\ i'[u] = i[u]
    BY <1>d, <2>1, StepAlone
  <2> QED BY <1>0, <1>e, <2>1, <2>6, <2>7, <2>11, <2>12, <2>13, <2>14, Compose
<1>11. ASSUME NEW t \in Threads, GetUnknown(t) PROVE ControlInv'
  <2>1. /\ pc[t] = "item" /\ op[t].kind = "get" /\ i[t] < Len(op[t].items)
        /\ ret' = [ret EXCEPT ![t] = "error"] /\ pc' = [pc EXCEPT ![t] = "unlock"]
        /\ UNCHANGED <<value, tab, ready, ptr, fault, lock, op, before, i, held, key, out,
                       got, last, disturbed>>
    BY <1>11 DEF GetUnknown, AtItem, Stop, Goto, life, call, answer
  <2>2. TypeOK'
    BY <1>0, <2>1 DEF TypeOK
  <2>3. pc'[t] = "unlock"
    BY <1>0, <2>1 DEF TypeOK
  <2>4. CallInv(t)' /\ PtrInv(t)'
    BY <1>0, <2>1, <2>3 DEF CallInv, PtrInv, Announcing
  <2>5. Critical(t) /\ Critical(t)'
    BY <2>1, <2>3 DEF Critical
  <2>6. \A u \in Threads \ {t} : pc[u] # "delete" /\ pc'[u] = pc[u]
    BY <1>0, <2>1, StepAlone DEF TypeOK
  <2> QED BY <1>0, <1>e, <2>1, <2>2, <2>3, <2>4, <2>5, <2>6, Compose
<1>12. ASSUME NEW t \in Threads, WalkFirst(t) PROVE ControlInv'
  <2> DEFINE n == i[t]
  <2>1. /\ pc[t] = "item" /\ op[t].kind = "get" /\ n < Len(op[t].items)
        /\ Item(t).name = Empty /\ tab' = HFirst(tab)
        /\ IF HFirstRet(tab) THEN pc' = [pc EXCEPT ![t] = "walk"] /\ UNCHANGED i
                             ELSE i' = [i EXCEPT ![t] = n + 1] /\ UNCHANGED pc
        /\ UNCHANGED <<value, ready, ptr, fault, lock, op, before, ret, held, key, out, got,
                       last, disturbed>>
    BY <1>12 DEF WalkFirst, AtItem, Goto, life, call, answer
  <2>2. n \in Nat /\ n + 1 \in Nat /\ n + 1 <= Len(op[t].items) /\ Len(op[t].items) \in Nat
    <3>1. n \in Nat
      BY <1>0 DEF TypeOK
    <3>2. Len(op[t].items) \in Nat
      BY <1>0, <2>1, Working, Shape
    <3> QED BY <2>1, <3>1, <3>2
  <2>3. t = AbusThread
    <3>1. ASSUME t # AbusThread PROVE FALSE
      <4>1. Len(op[t].items) = 1 /\ Subject(t) \in Attrs
        BY <1>0, <2>1, <3>1, Working
      <4>2. n = 0
        BY <2>1, <2>2, <4>1
      <4>3. Subject(t) = Empty
        BY <2>1, <4>2 DEF Item, Subject
      <4> QED BY <4>1, <4>3, AttrAssumption
    <3> QED BY <3>1
  <2>4. TableInv(tab') /\ Items(tab') = Items(tab)
    BY <1>b, <2>1
  <2>5. \A u \in Threads \ {t} : pc[u] # "delete"
    BY <2>1, StepAlone
  <2>6. CASE HFirstRet(tab)
    <3>1. pc' = [pc EXCEPT ![t] = "walk"] /\ UNCHANGED i
      BY <2>1, <2>6
    <3>2. TypeOK'
      BY <1>0, <1>c, <2>1, <2>4, <3>1 DEF TypeOK
    <3>3. pc'[t] = "walk"
      BY <1>0, <3>1 DEF TypeOK
    <3>4. Items(tab') # {}
      BY <1>0, <2>4, <2>6, SoundIsSane
    <3>5. CallInv(t)' /\ PtrInv(t)'
      BY <1>0, <2>1, <2>3, <3>1, <3>3, <3>4 DEF CallInv, PtrInv, Announcing, Item
    <3>6. Critical(t) /\ Critical(t)'
      BY <2>1, <3>3 DEF Critical
    <3>7. \A u \in Threads \ {t} : pc'[u] = pc[u]
      BY <1>0, <3>1 DEF TypeOK
    <3> QED BY <1>0, <1>e, <2>1, <2>4, <2>5, <3>1, <3>2, <3>3, <3>5, <3>6, <3>7, Compose
  <2>7. CASE ~HFirstRet(tab)
    <3>1. i' = [i EXCEPT ![t] = n + 1] /\ UNCHANGED pc
      BY <2>1, <2>7
    <3>2. i' \in [Threads -> Nat] /\ i'[t] = n + 1
      BY <1>d, <2>2, <3>1
    <3>3. TypeOK'
      BY <1>0, <1>c, <2>1, <2>4, <3>1, <3>2 DEF TypeOK
    <3>4. CallInv(t)' /\ PtrInv(t)'
      BY <1>0, <2>1, <2>2, <3>1, <3>2 DEF CallInv, PtrInv, Announcing
    <3>5. Critical(t) /\ Critical(t)'
      BY <2>1, <3>1 DEF Critical
    <3>6. \A u \in Threads \ {t} : i'[u] = i[u]
      BY <1>d, <3>1
    <3> QED BY <1>0, <1>e, <2>1, <2>4, <2>5, <3>1, <3>3, <3>4, <3>5, <3>6, Compose
  <2> QED BY <2>6, <2>7
<1>13. ASSUME NEW t \in Threads, WalkKey(t) PROVE ControlInv'
  <2>1. /\ pc[t] = "walk" /\ key' = tab.ipos /\ pc' = [pc EXCEPT ![t] = "stuff"]
        /\ UNCHANGED <<value, tab, ready, ptr, fault, lock, op, before, i, ret, held, out,
                       got, last, disturbed>>
    BY <1>13 DEF WalkKey, Goto, life, call, answer
  <2>2. t = AbusThread /\ Items(tab) # {}
    BY <1>0, <2>1 DEF CallInv
  <2>3. key' \in Attrs
    BY <1>0, <2>1, <2>2, PositionOnItem DEF TableInv, Items, Attrs
  <2>4. TypeOK'
    BY <1>0, <2>1, <2>3 DEF TypeOK
  <2>5. pc'[t] = "stuff"
    BY <1>0, <2>1 DEF TypeOK
  <2>6. CallInv(t)' /\ PtrInv(t)'
    BY <1>0, <2>1, <2>2, <2>3, <2>5 DEF CallInv, PtrInv, Announcing
  <2>7. Critical(t) /\ Critical(t)'
    BY <2>1, <2>5 DEF Critical
  <2>8. \A u \in Threads \ {t} : pc[u] # "delete" /\ pc'[u] = pc[u]
    BY <1>0, <2>1, StepAlone DEF TypeOK
  <2> QED BY <1>0, <1>e, <2>1, <2>2, <2>4, <2>5, <2>6, <2>7, <2>8, Compose
<1>14. ASSUME NEW t \in Threads, WalkStuff(t) PROVE ControlInv'
  <2>1. /\ pc[t] = "stuff"
        /\ IF tab.ipos \in ready
           THEN out' = out \cup {<<key, value[tab.ipos]>>} /\ UNCHANGED ret
           ELSE ret' = [ret EXCEPT ![t] = "error"] /\ UNCHANGED out
        /\ pc' = [pc EXCEPT ![t] = "next"]
        /\ UNCHANGED <<value, tab, ready, ptr, fault, lock, op, before, i, held, key, got,
                       last, disturbed>>
    BY <1>14 DEF WalkStuff, Goto, life, call
  <2>2. key \in Attrs
    BY <1>0, <2>1 DEF CallInv
  <2>3. out' \subseteq Attrs \X Int /\ ret' \in [Threads -> {"ok", "error", "range"}]
    <3>1. /\ out \subseteq Attrs \X Int /\ ret \in [Threads -> {"ok", "error", "range"}]
          /\ ready \subseteq Attrs
      BY <1>0 DEF TypeOK
    <3>2. tab.ipos \in ready => <<key, value[tab.ipos]>> \in Attrs \X Int
      BY <1>d, <2>2, <3>1
    <3> QED BY <2>1, <3>1, <3>2
  <2>4. TypeOK'
    BY <1>0, <2>1, <2>3 DEF TypeOK
  <2>5. pc'[t] = "next"
    BY <1>0, <2>1 DEF TypeOK
  <2>6. CallInv(t)' /\ PtrInv(t)'
    BY <1>0, <2>1, <2>5 DEF CallInv, PtrInv, Announcing
  <2>7. Critical(t) /\ Critical(t)'
    BY <2>1, <2>5 DEF Critical
  <2>8. \A u \in Threads \ {t} : pc[u] # "delete" /\ pc'[u] = pc[u]
    BY <1>0, <2>1, StepAlone DEF TypeOK
  <2> QED BY <1>0, <1>e, <2>1, <2>4, <2>5, <2>6, <2>7, <2>8, Compose
<1>15. ASSUME NEW t \in Threads, WalkNext(t) PROVE ControlInv'
  <2> DEFINE n == i[t]
  <2>1. /\ pc[t] = "next" /\ tab' = HNext(tab)
        /\ IF HNextRet(tab)
           THEN pc' = [pc EXCEPT ![t] = "walk"] /\ UNCHANGED i
           ELSE pc' = [pc EXCEPT ![t] = "item"] /\ i' = [i EXCEPT ![t] = n + 1]
        /\ UNCHANGED <<value, ready, ptr, fault, lock, op, before, ret, held, key, out, got,
                       last, disturbed>>
    BY <1>15 DEF WalkNext, Goto, life, call, answer
  <2>2. /\ t = AbusThread /\ op[t].kind = "get" /\ Items(tab) # {} /\ n < Len(op[t].items)
        /\ op[t].items[n + 1].name = Empty
    BY <1>0, <2>1 DEF CallInv
  <2>3. n \in Nat /\ n + 1 \in Nat /\ n + 1 <= Len(op[t].items)
    <3>1. n \in Nat
      BY <1>0 DEF TypeOK
    <3>2. Len(op[t].items) \in Nat
      BY <1>0, <2>1, Working, Shape
    <3> QED BY <2>2, <3>1, <3>2
  <2>4. TableInv(tab') /\ Items(tab') = Items(tab)
    BY <1>b, <2>1
  <2>5. \A u \in Threads \ {t} : pc[u] # "delete"
    BY <2>1, StepAlone
  <2>6. CASE HNextRet(tab)
    <3>1. pc' = [pc EXCEPT ![t] = "walk"] /\ UNCHANGED i
      BY <2>1, <2>6
    <3>2. TypeOK'
      BY <1>0, <1>c, <2>1, <2>4, <3>1 DEF TypeOK
    <3>3. pc'[t] = "walk"
      BY <1>0, <3>1 DEF TypeOK
    <3>4. CallInv(t)' /\ PtrInv(t)'
      BY <1>0, <2>1, <2>2, <2>4, <3>1, <3>3 DEF CallInv, PtrInv, Announcing
    <3>5. Critical(t) /\ Critical(t)'
      BY <2>1, <3>3 DEF Critical
    <3>6. \A u \in Threads \ {t} : pc'[u] = pc[u]
      BY <1>0, <3>1 DEF TypeOK
    <3> QED BY <1>0, <1>e, <2>1, <2>4, <2>5, <3>1, <3>2, <3>3, <3>4, <3>5, <3>6, Compose
  <2>7. CASE ~HNextRet(tab)
    <3>1. pc' = [pc EXCEPT ![t] = "item"] /\ i' = [i EXCEPT ![t] = n + 1]
      BY <2>1, <2>7
    <3>2. i' \in [Threads -> Nat] /\ i'[t] = n + 1
      BY <1>d, <2>3, <3>1
    <3>3. TypeOK'
      BY <1>0, <1>c, <2>1, <2>4, <3>1, <3>2 DEF TypeOK
    <3>4. pc'[t] = "item"
      BY <1>0, <3>1 DEF TypeOK
    <3>5. CallInv(t)' /\ PtrInv(t)'
      BY <1>0, <2>1, <2>2, <2>3, <3>2, <3>4 DEF CallInv, PtrInv, Announcing
    <3>6. Critical(t) /\ Critical(t)'
      BY <2>1, <3>4 DEF Critical
    <3>7. \A u \in Threads \ {t} : i'[u] = i[u] /\ pc'[u] = pc[u]
      BY <1>0, <1>d, <3>1 DEF TypeOK
    <3> QED BY <1>0, <1>e, <2>1, <2>4, <2>5, <3>1, <3>3, <3>4, <3>5, <3>6, <3>7, Compose
  <2> QED BY <2>6, <2>7
<1>16. ASSUME NEW t \in Threads, ItemsDone(t) PROVE ControlInv'
  <2>1. /\ pc[t] = "item" /\ i[t] = Len(op[t].items) /\ pc' = [pc EXCEPT ![t] = "unlock"]
        /\ UNCHANGED <<value, tab, ready, ptr, fault, lock, op, before, i, ret, held, key, out,
                       got, last, disturbed>>
    BY <1>16 DEF ItemsDone, Goto, life, call, answer
  <2>2. TypeOK'
    BY <1>0, <2>1 DEF TypeOK
  <2>3. pc'[t] = "unlock"
    BY <1>0, <2>1 DEF TypeOK
  <2>4. CallInv(t)' /\ PtrInv(t)'
    BY <1>0, <2>1, <2>3 DEF CallInv, PtrInv, Announcing
  <2>5. Critical(t) /\ Critical(t)'
    BY <2>1, <2>3 DEF Critical
  <2>6. \A u \in Threads \ {t} : pc[u] # "delete" /\ pc'[u] = pc[u]
    BY <1>0, <2>1, StepAlone DEF TypeOK
  <2> QED BY <1>0, <1>e, <2>1, <2>2, <2>3, <2>4, <2>5, <2>6, Compose
<1>17. ASSUME NEW t \in Threads, Unlock(t) PROVE ControlInv'
  <2>1. /\ pc[t] = "unlock" /\ lock' = NoThread /\ before' = <<>> /\ Return(t)
        /\ IF t = AbusThread THEN key' = NoKey /\ out' = {} /\ disturbed' = FALSE
                             ELSE UNCHANGED <<key, out, disturbed>>
        /\ UNCHANGED <<value, tab, ready, fault, last>>
    BY <1>17 DEF Unlock
  <2>2. key' \in Attrs \cup {NoKey} /\ out' \subseteq Attrs \X Int /\ disturbed' \in BOOLEAN
    BY <1>0, <2>1 DEF TypeOK
  <2>3. TypeOK'
    <3>1. /\ pc' \in [Threads -> {"idle", "lock", "item", "changed", "publish", "walk",
                                 "stuff", "next", "unlock", "assign", "delete"}]
          /\ op' \in [Threads -> RemoteOps \cup LocalOps \cup {NoOp}]
          /\ i' \in [Threads -> Nat] /\ ret' \in [Threads -> {"ok", "error", "range"}]
          /\ held' \in [Threads -> Int]
          /\ got' \in [Threads -> [ret : {"none", "ok", "error", "range"},
                                   v : Int, actual : Int]]
          /\ ptr' \in [Threads -> Attrs \cup {NoKey, Dangling}]
      BY <1>0, <2>1, ReturnTypes
    <3> QED BY <1>0, <2>1, <2>2, <3>1 DEF TypeOK
  <2>4. /\ pc'[t] = "idle" /\ CallInv(t)' /\ PtrInv(t)' /\ ~Critical(t)'
        /\ \A u \in Threads \ {t} :
             pc'[u] = pc[u] /\ op'[u] = op[u] /\ i'[u] = i[u] /\ ptr'[u] = ptr[u]
    BY <1>0, <2>1, ReturnControl
  <2>5. lock = t
    BY <1>e, <2>1 DEF Critical
  <2>6. \A u \in Threads \ {t} : pc[u] # "delete" /\ (lock' = u <=> lock = u)
    BY <1>a, <2>1, <2>5, StepAlone
  <2>7. lock' # t
    BY <1>a, <2>1
  <2> QED BY <1>0, <1>e, <2>1, <2>3, <2>4, <2>6, <2>7, Compose
<1>18. ASSUME NEW t \in Threads, DeclAssign(t) PROVE ControlInv'
  <2> DEFINE a == Subject(t)
  <2>1. /\ pc[t] = "assign" /\ Deref(t, a) /\ ready' = ready \cup {a}
        /\ last' = [last EXCEPT ![a] = [v |-> 0, by |-> "set"]] /\ Return(t)
        /\ UNCHANGED <<value, tab, lock, key, out, before, disturbed>>
    BY <1>18 DEF DeclAssign, Subject
  <2>2. a \in Items(tab) \ ready /\ a \in Attrs /\ ptr[t] = a
    BY <1>0, <2>1 DEF CallInv, PtrInv, Items, Attrs
  <2>3. fault' = FALSE
    BY <1>0, <2>1, <2>2 DEF Deref
  <2>4. TypeOK'
    <3>1. /\ pc' \in [Threads -> {"idle", "lock", "item", "changed", "publish", "walk",
                                 "stuff", "next", "unlock", "assign", "delete"}]
          /\ op' \in [Threads -> RemoteOps \cup LocalOps \cup {NoOp}]
          /\ i' \in [Threads -> Nat] /\ ret' \in [Threads -> {"ok", "error", "range"}]
          /\ held' \in [Threads -> Int]
          /\ got' \in [Threads -> [ret : {"none", "ok", "error", "range"},
                                   v : Int, actual : Int]]
          /\ ptr' \in [Threads -> Attrs \cup {NoKey, Dangling}]
      BY <1>0, <2>1, ReturnTypes
    <3>2. last' \in [Attrs -> [v : Int, by : {"set", "notify"}]]
      <4> DEFINE e == [v |-> 0, by |-> "set"]
      <4>1. e \in [v : Int, by : {"set", "notify"}]
        OBVIOUS
      <4>2. last \in [Attrs -> [v : Int, by : {"set", "notify"}]]
        BY <1>0 DEF TypeOK
      <4>3. last' = [last EXCEPT ![a] = e]
        BY <2>1
      <4> HIDE DEF e
      <4> QED BY <4>1, <4>2, <4>3, ExceptIs
    <3>3. ready' \subseteq Items(tab)
      BY <1>0, <2>1, <2>2 DEF TypeOK
    <3> QED BY <1>0, <2>1, <2>3, <3>1, <3>2, <3>3 DEF TypeOK
  <2>5. /\ pc'[t] = "idle" /\ CallInv(t)' /\ PtrInv(t)' /\ ~Critical(t)'
        /\ \A u \in Threads \ {t} :
             pc'[u] = pc[u] /\ op'[u] = op[u] /\ i'[u] = i[u] /\ ptr'[u] = ptr[u]
    BY <1>0, <2>1, ReturnControl
  <2>6. ~Critical(t)
    BY <2>1 DEF Critical
  <2>7. \A u \in Threads \ {t} : pc[u] = "assign" => Subject(u) \notin ready'
    BY <1>0, <1>e, <2>1 DEF SharedInv
  <2>8. \A u \in Threads \ {t} : pc[u] # "delete"
    BY <2>1, StepAlone
  <2> QED BY <1>0, <1>e, <2>1, <2>3, <2>4, <2>5, <2>6, <2>7, <2>8, Compose
<1>19. ASSUME NEW t \in Threads, UndeclDelete(t) PROVE ControlInv'
  <2> DEFINE a == Subject(t)
  <2>1. /\ pc[t] = "delete" /\ fault' = (fault \/ tab.ipos # a \/ ptr[t] # a)
        /\ tab' = HDel(tab) /\ ready' = ready \ {a} /\ value' = [value EXCEPT ![a] = 0]
        /\ last' = [last EXCEPT ![a] = [v |-> 0, by |-> "set"]]
        /\ pc' = [pc EXCEPT ![t] = "idle"] /\ op' = [op EXCEPT ![t] = NoOp]
        /\ ptr' = [u \in Threads |-> IF u = t THEN NoKey
                                     ELSE IF ptr[u] = a THEN Dangling ELSE ptr[u]]
        /\ UNCHANGED <<lock, i, ret, held, key, out, got, before, disturbed>>
    BY <1>19 DEF UndeclDelete, Goto, Subject, answer
  <2>2. /\ tab.ipos = a /\ ptr[t] = a /\ i[t] = 0
        /\ \A u \in Threads \ {t} : pc[u] = "idle" /\ op[u] = NoOp /\ i[u] = 0
    BY <1>0, <2>1 DEF CallInv, PtrInv, SharedInv
  <2>3. a \in Attrs
    <3>1. op[t].kind = "undecl"
      BY <1>0, <2>1 DEF CallInv
    <3>2. t # AbusThread
      BY <1>0, <2>1, <3>1, Working
    <3> QED BY <1>0, <2>1, <3>2, Working
  <2>4. TableInv(tab') /\ Items(tab') = Items(tab) \ {a}
    BY <1>0, <1>a, <2>1, <2>2, <2>3, DelSound
  <2>5. fault' = FALSE
    BY <1>0, <2>1, <2>2
  <2>6. TypeOK'
    <3>1. value' \in [Attrs -> Int]
      <4>1. 0 \in Int
        OBVIOUS
      <4> HIDE DEF a
      <4> QED BY <1>d, <2>1, <4>1, ExceptIs
    <3>2. last' \in [Attrs -> [v : Int, by : {"set", "notify"}]]
      <4> DEFINE e == [v |-> 0, by |-> "set"]
      <4>1. e \in [v : Int, by : {"set", "notify"}]
        OBVIOUS
      <4>2. last \in [Attrs -> [v : Int, by : {"set", "notify"}]]
        BY <1>0 DEF TypeOK
      <4>3. last' = [last EXCEPT ![a] = e]
        BY <2>1
      <4> HIDE DEF e
      <4> QED BY <4>1, <4>2, <4>3, ExceptIs
    <3>3. ready' \subseteq Items(tab')
      BY <1>0, <2>1, <2>4 DEF TypeOK
    <3>4. ptr' \in [Threads -> Attrs \cup {NoKey, Dangling}]
      BY <1>0, <2>1 DEF TypeOK
    <3>5. /\ pc' \in [Threads -> {"idle", "lock", "item", "changed", "publish", "walk",
                                 "stuff", "next", "unlock", "assign", "delete"}]
          /\ op' \in [Threads -> RemoteOps \cup LocalOps \cup {NoOp}]
      BY <1>0, <2>1 DEF TypeOK
    <3> QED BY <1>0, <1>c, <2>1, <2>4, <2>5, <3>1, <3>2, <3>3, <3>4, <3>5 DEF TypeOK
  <2>7. \A u \in Threads : pc'[u] = "idle" /\ op'[u] = NoOp /\ i'[u] = 0
    BY <1>0, <2>1, <2>2 DEF TypeOK
  <2>8. \A u \in Threads : CallInv(u)' /\ PtrInv(u)'
    BY <2>7 DEF CallInv, PtrInv, Announcing
  <2>9. SharedInv'
    <3>1. \A u \in Threads : ~Critical(u) /\ ~Critical(u)'
      BY <2>1, <2>2, <2>7 DEF Critical
    <3>2. \A u \in Threads : lock' = u <=> Critical(u)'
      BY <1>e, <2>1, <3>1
    <3>3. \A b \in Attrs \ ready' : value'[b] = 0
      BY <1>d, <1>e, <2>1
    <3> QED BY <2>7, <3>2, <3>3 DEF SharedInv
  <2> QED BY <2>4, <2>5, <2>6, <2>8, <2>9 DEF ControlInv
<1>20. CASE UNCHANGED vars
  <2>1. UNCHANGED <<value, tab, ready, ptr, lock, pc, op, i, ret, held, key, out, got, last,
                    before, disturbed, fault>>
    BY <1>20 DEF vars
  <2> QED BY <2>1 DEF ControlInv, TypeOK, SharedInv, CallInv, PtrInv, Critical, Announcing,
                      Target, Subject
<1>21. CASE \E t \in LocalThreads :
              LocalCall(t) \/ AttrChanged(t) \/ DeclLookup(t) \/ UndeclLookup(t)
  BY <1>2, <1>3, <1>4, <1>5, <1>21
<1>22. CASE \E t \in Threads : Step(t)
  BY <1>6, <1>7, <1>8, <1>9, <1>10, <1>11, <1>12, <1>13, <1>14, <1>15, <1>16, <1>17,
     <1>18, <1>19, <1>22 DEF Step
<1> QED BY <1>1, <1>20, <1>21, <1>22 DEF Next

(* It holds at the start.                                                  *)
LEMMA ControlInit == Init => ControlInv
<1> SUFFICES ASSUME Init PROVE ControlInv
  OBVIOUS
<1> DEFINE h == Filled[Len(Declared)]
<1>1. TableInv(h) /\ Items(h) = {Declared[n] : n \in DOMAIN Declared}
  BY FilledSound
<1>2. Sane(h) /\ Items(h) \subseteq Attrs
  BY <1>1, SoundIsSane DEF Items, Attrs
<1> HIDE DEF h
<1>3. tab = h /\ ready = Items(h)
  BY <1>1 DEF Init, h
<1>4. NoThread \notin Threads
  BY AttrAssumption DEF Threads
<1>5. \A t \in Threads : pc[t] = "idle" /\ op[t] = NoOp /\ i[t] = 0
  BY DEF Init
<1>6. TypeOK
  <2>1. got \in [Threads -> [ret : {"none", "ok", "error", "range"}, v : Int, actual : Int]]
    <3>1. NotGot \in [ret : {"none", "ok", "error", "range"}, v : Int, actual : Int]
      BY DEF NotGot
    <3> QED BY <3>1 DEF Init
  <2>2. last \in [Attrs -> [v : Int, by : {"set", "notify"}]]
    BY DEF Init
  <2>3. /\ value \in [Attrs -> Int] /\ held \in [Threads -> Int] /\ i \in [Threads -> Nat]
        /\ out \subseteq Attrs \X Int
    BY DEF Init
  <2>4. /\ pc \in [Threads -> {"idle", "lock", "item", "changed", "publish", "walk",
                              "stuff", "next", "unlock", "assign", "delete"}]
        /\ op \in [Threads -> RemoteOps \cup LocalOps \cup {NoOp}]
        /\ ret \in [Threads -> {"ok", "error", "range"}]
        /\ ptr \in [Threads -> Attrs \cup {NoKey, Dangling}]
    BY DEF Init
  <2>5. /\ before = <<>> /\ fault \in BOOLEAN /\ disturbed \in BOOLEAN
        /\ lock \in Threads \cup {NoThread} /\ key \in Attrs \cup {NoKey}
    BY DEF Init
  <2> QED BY <1>2, <1>3, <2>1, <2>2, <2>3, <2>4, <2>5 DEF TypeOK
<1>7. \A t \in Threads : CallInv(t) /\ PtrInv(t) /\ ~Critical(t)
  BY <1>5 DEF CallInv, PtrInv, Announcing, Critical
<1>8. SharedInv
  BY <1>4, <1>5, <1>7 DEF Init, SharedInv
<1> QED BY <1>1, <1>3, <1>6, <1>7, <1>8 DEF Init, ControlInv

(* Control is an invariant.                                                *)
LEMMA ControlAlways ==
  ASSUME "undecl" \in Alone
  PROVE  Spec => []ControlInv
<1>1. Init => ControlInv
  BY ControlInit
<1>2. ControlInv /\ [Next]_vars => ControlInv'
  BY ControlStep
<1> QED BY <1>1, <1>2, PTL DEF Spec

(* The table of attributes stays sound and no thread uses or frees what    *)
(* was freed, whatever threads declare, read, set and announce at the same *)
(* time, as long as abus_undecl_attr() is called alone.                    *)
THEOREM AttrsStaySound ==
  ASSUME "undecl" \in Alone
  PROVE  Spec => []AttrsSound
<1>1. ControlInv => AttrsSound
  BY DEF ControlInv, AttrsSound, NoFault
<1> QED BY <1>1, ControlAlways, PTL
-----------------------------------------------------------------------------
(* The last event of an attribute.                                         *)

(* What one thread does.                                                   *)
Act(t) ==
  \/ t = AbusThread /\ RemoteCall
  \/ /\ t \in LocalThreads
     /\ LocalCall(t) \/ AttrChanged(t) \/ DeclLookup(t) \/ UndeclLookup(t)
  \/ Step(t)

(* Every step is one.                                                      *)
LEMMA NextIs == Next => \E t \in Threads : Act(t)
BY DEF Next, Act, Threads

(* It changes nothing that belongs to another thread, but for pointers to  *)
(* what it undeclares.                                                     *)
LEMMA ActsAlone ==
  ASSUME TypeOK, NEW t \in Threads, Act(t)
  PROVE  \A u \in Threads \ {t} :
           /\ pc'[u] = pc[u] /\ op'[u] = op[u] /\ i'[u] = i[u]
           /\ held'[u] = held[u] /\ ret'[u] = ret[u]
<1> DEFINE Kept == \A u \in Threads \ {t} :
                     /\ pc'[u] = pc[u] /\ op'[u] = op[u] /\ i'[u] = i[u]
                     /\ held'[u] = held[u] /\ ret'[u] = ret[u]
<1>1. /\ DOMAIN pc = Threads /\ DOMAIN op = Threads /\ DOMAIN i = Threads
      /\ DOMAIN held = Threads /\ DOMAIN ret = Threads
  BY DEF TypeOK
<1>2. CASE t = AbusThread /\ RemoteCall
  BY <1>1, <1>2 DEF RemoteCall, Goto
<1>3. CASE LocalCall(t) \/ AttrChanged(t) \/ DeclLookup(t) \/ UndeclLookup(t)
  <2>1. CASE LocalCall(t)
    BY <1>1, <2>1 DEF LocalCall, Goto
  <2>2. CASE AttrChanged(t)
    BY <1>1, <2>2 DEF AttrChanged, Goto
  <2>3. CASE DeclLookup(t)
    BY <1>1, <2>3 DEF DeclLookup, Goto
  <2>4. CASE UndeclLookup(t)
    BY <1>1, <2>4 DEF UndeclLookup, Goto
  <2> QED BY <1>3, <2>1, <2>2, <2>3, <2>4
<1>4. CASE Step(t)
  <2>1. CASE Lock(t) \/ ReadChanged(t) \/ GetItem(t) \/ GetUnknown(t)
    BY <1>1, <2>1 DEF Lock, ReadChanged, GetItem, GetUnknown, AppendType, Stop, call, Goto
  <2>2. CASE SetItem(t)
    BY <1>1, <2>2 DEF SetItem, Stop, call, Goto
  <2>3. CASE WalkFirst(t) \/ WalkKey(t) \/ WalkStuff(t) \/ WalkNext(t) \/ ItemsDone(t)
    BY <1>1, <2>3 DEF WalkFirst, WalkKey, WalkStuff, WalkNext, ItemsDone, call, Goto
  <2>4. CASE Publish(t) \/ Unlock(t) \/ DeclAssign(t)
    BY <1>1, <2>4 DEF Publish, Unlock, DeclAssign, Return, Goto
  <2>5. CASE UndeclDelete(t)
    BY <1>1, <2>5 DEF UndeclDelete, Goto
  <2> QED BY <1>4, <2>1, <2>2, <2>3, <2>4, <2>5 DEF Step
<1> QED BY <1>2, <1>3, <1>4 DEF Act

(* Only one thread announces what it set.                                  *)
LEMMA OneAnnounces ==
  ASSUME ControlInv, NEW t \in Threads, Critical(t), NEW u \in Threads,
         Announcing(u), op[u].kind = "set"
  PROVE  u = t
<1>1. Critical(u)
  BY DEF Announcing, Critical
<1> QED BY <1>1 DEF ControlInv, SharedInv

(* A step that changes no value and no event, of a thread that announces   *)
(* nothing it set.                                                         *)
LEMMA LastKept ==
  ASSUME ControlInv, LastInv, NEW t \in Threads, Act(t), UNCHANGED <<value, last>>,
         ~(Announcing(t) /\ op[t].kind = "set"), pc'[t] # "publish"
  PROVE  LastInv'
<1>1. \A u \in Threads \ {t} :
        pc'[u] = pc[u] /\ op'[u] = op[u] /\ i'[u] = i[u] /\ held'[u] = held[u]
  BY ActsAlone DEF ControlInv
<1>2. \A u \in Threads \ {t} : Target(u)' = Target(u) /\ (Announcing(u)' <=> Announcing(u))
  BY <1>1 DEF Target, Announcing
<1>3. ASSUME NEW a \in Attrs, last'[a].by = "set", last'[a].v # value'[a]
      PROVE  \E u \in Threads : Announcing(u)' /\ op'[u].kind = "set" /\ Target(u)' = a
  <2>1. PICK u \in Threads : Announcing(u) /\ op[u].kind = "set" /\ Target(u) = a
    BY <1>3 DEF LastInv
  <2> QED BY <1>1, <1>2, <2>1
<1>4. ASSUME NEW u \in Threads, pc'[u] = "publish", op'[u].kind = "set"
      PROVE  held'[u] = value'[Target(u)']
  <2>1. u # t
    BY <1>4
  <2> QED BY <1>1, <1>2, <1>4, <2>1 DEF LastInv
<1> QED BY <1>3, <1>4 DEF LastInv

(* A value is stored, or is found to be there.                             *)
LEMMA LastSetItem ==
  ASSUME ControlInv, LastInv, NEW t \in Threads, SetItem(t)
  PROVE  LastInv'
<1> DEFINE it == Item(t)
           a == it.name
           r == IF t = AbusThread THEN SetRemote(it) ELSE SetLocal(it.type, a, it.v)
<1>1. /\ pc[t] = "item"
      /\ IF r.ret # "ok" \/ a = Empty
         THEN Stop(t, r.ret) /\ UNCHANGED <<value, i>>
         ELSE /\ value' = [value EXCEPT ![a] = r.v] /\ i' = [i EXCEPT ![t] = @ + 1]
              /\ Goto(t, AfterStore(a, r.v)) /\ UNCHANGED ret
      /\ UNCHANGED <<op, last>>
  BY DEF SetItem, AtItem, call
<1>2. DOMAIN pc = Threads /\ DOMAIN i = Threads /\ DOMAIN value = Attrs
  BY DEF ControlInv, TypeOK
<1>3. Act(t) /\ Critical(t) /\ ~Announcing(t)
  BY <1>1 DEF Act, Step, Critical, Announcing
<1> HIDE DEF r
<1>4. CASE r.ret # "ok" \/ a = Empty
  <2>1. pc'[t] = "unlock" /\ UNCHANGED value
    BY <1>1, <1>2, <1>4 DEF Stop, Goto
  <2> QED BY <1>1, <1>3, <2>1, LastKept
<1>5. CASE r.ret = "ok" /\ a # Empty
  <2>1. value' = [value EXCEPT ![a] = r.v] /\ i'[t] = i[t] + 1
    BY <1>1, <1>2, <1>5
  <2>2. pc'[t] = AfterStore(a, r.v)
    BY <1>1, <1>2, <1>5 DEF Goto
  <2>3. \A u \in Threads \ {t} : pc'[u] = pc[u] /\ op'[u] = op[u]
    BY <1>3, ActsAlone DEF ControlInv
  <2>4. \A u \in Threads : ~(Announcing(u) /\ op[u].kind = "set")
    BY <1>3, OneAnnounces
  <2>5. \A u \in Threads : ~(pc'[u] = "publish" /\ op'[u].kind = "set")
    BY <2>2, <2>3, <2>4 DEF AfterStore, Announcing
  <2>6. Target(t)' = a
    BY <1>1, <2>1 DEF Target, Item
  <2>7. op[t].kind = "set" /\ op' = op
    BY <1>1 DEF SetItem, AtItem
  <2>8. ASSUME NEW b \in Attrs, last'[b].by = "set", last'[b].v # value'[b]
        PROVE  Announcing(t)' /\ op'[t].kind = "set" /\ Target(t)' = b
    <3>1. last[b].v = value[b]
      BY <1>1, <2>4, <2>8 DEF LastInv
    <3>2. b = a /\ value[a] # r.v
      BY <1>1, <1>2, <2>1, <2>8, <3>1
    <3>3. Announcing(t)'
      BY <2>2, <3>2 DEF AfterStore, Announcing
    <3> QED BY <2>6, <2>7, <3>2, <3>3
  <2> QED BY <2>5, <2>8 DEF LastInv
<1> QED BY <1>4, <1>5

(* The value is read that will be announced.                               *)
LEMMA LastReadChanged ==
  ASSUME ControlInv, LastInv, NEW t \in Threads, ReadChanged(t)
  PROVE  LastInv'
<1>1. /\ pc[t] = "changed" /\ held' = [held EXCEPT ![t] = value[Target(t)]]
      /\ pc' = [pc EXCEPT ![t] = "publish"] /\ UNCHANGED <<value, op, i, last>>
  BY DEF ReadChanged, Goto, Target, call
<1>2. DOMAIN pc = Threads /\ DOMAIN held = Threads
  BY DEF ControlInv, TypeOK
<1>3. \A u \in Threads : Target(u)' = Target(u) /\ (Announcing(u)' <=> Announcing(u))
  BY <1>1, <1>2 DEF Target, Announcing
<1>4. ASSUME NEW u \in Threads, pc'[u] = "publish", op'[u].kind = "set"
      PROVE  held'[u] = value'[Target(u)']
  <2>1. CASE u = t
    BY <1>1, <1>2, <1>3, <2>1
  <2>2. CASE u # t
    BY <1>1, <1>2, <1>3, <1>4, <2>2 DEF LastInv
  <2> QED BY <2>1, <2>2
<1>5. ASSUME NEW a \in Attrs, last'[a].by = "set", last'[a].v # value'[a]
      PROVE  \E u \in Threads : Announcing(u)' /\ op'[u].kind = "set" /\ Target(u)' = a
  BY <1>1, <1>3, <1>5 DEF LastInv
<1> QED BY <1>4, <1>5 DEF LastInv

(* A value is announced.                                                   *)
LEMMA LastPublish ==
  ASSUME ControlInv, LastInv, NEW t \in Threads, Publish(t)
  PROVE  LastInv'
<1> DEFINE a == Target(t)
<1>1. /\ pc[t] = "publish" /\ UNCHANGED value
      /\ last' = IF "const" \in Flags[a] THEN last
                 ELSE [last EXCEPT ![a] = [v |-> held[t], by |-> op[t].kind]]
      /\ IF op[t].kind = "notify" THEN Return(t)
         ELSE Goto(t, "item") /\ UNCHANGED <<op, i, ret, held, got, ptr>>
  BY DEF Publish, Target
<1>2. DOMAIN pc = Threads /\ DOMAIN last = Attrs
  BY DEF ControlInv, TypeOK
<1>3. pc'[t] \notin {"changed", "publish"}
  BY <1>1, <1>2 DEF Return, Goto
<1>4. /\ Act(t) /\ Announcing(t) /\ op[t].kind \in {"set", "notify"}
      /\ op[t].kind = "set" => "const" \notin Flags[a]
  BY <1>1 DEF Act, Step, Announcing, ControlInv, CallInv
<1>5. \A u \in Threads \ {t} :
        /\ pc'[u] = pc[u] /\ op'[u] = op[u] /\ held'[u] = held[u]
        /\ Target(u)' = Target(u) /\ (Announcing(u)' <=> Announcing(u))
  BY <1>4, ActsAlone DEF ControlInv, Target, Announcing
<1>6. ASSUME NEW u \in Threads, pc'[u] = "publish", op'[u].kind = "set"
      PROVE  held'[u] = value'[Target(u)']
  BY <1>1, <1>3, <1>5, <1>6 DEF LastInv
<1>7. ASSUME NEW b \in Attrs, last'[b].by = "set", last'[b].v # value'[b]
      PROVE  \E u \in Threads : Announcing(u)' /\ op'[u].kind = "set" /\ Target(u)' = b
  <2>1. CASE op[t].kind = "notify"
    <3>1. last'[b] = last[b]
      BY <1>1, <1>2, <1>7, <2>1
    <3>2. PICK u \in Threads : Announcing(u) /\ op[u].kind = "set" /\ Target(u) = b
      BY <1>1, <1>7, <3>1 DEF LastInv
    <3>3. u # t
      BY <2>1, <3>2
    <3> QED BY <1>5, <3>2, <3>3
  <2>2. CASE op[t].kind = "set"
    <3>1. last' = [last EXCEPT ![a] = [v |-> held[t], by |-> "set"]] /\ held[t] = value[a]
      BY <1>1, <1>4, <2>2 DEF LastInv
    <3>2. b # a
      BY <1>1, <1>2, <1>7, <3>1
    <3>3. last'[b] = last[b]
      BY <1>2, <3>1, <3>2
    <3>4. PICK u \in Threads : Announcing(u) /\ op[u].kind = "set" /\ Target(u) = b
      BY <1>1, <1>7, <3>3 DEF LastInv
    <3>5. Critical(t)
      BY <1>1, <2>2 DEF Critical
    <3>6. u = t
      BY <3>4, <3>5, OneAnnounces
    <3> QED BY <3>2, <3>4, <3>6
  <2> QED BY <1>4, <2>1, <2>2
<1> QED BY <1>6, <1>7 DEF LastInv

(* An attribute begins with a new event ...                                *)
LEMMA LastDeclAssign ==
  ASSUME ControlInv, LastInv, NEW t \in Threads, DeclAssign(t)
  PROVE  LastInv'
<1> DEFINE a == Subject(t)
<1>1. /\ pc[t] = "assign" /\ last' = [last EXCEPT ![a] = [v |-> 0, by |-> "set"]]
      /\ Return(t) /\ UNCHANGED value
  BY DEF DeclAssign, Subject
<1>2. DOMAIN pc = Threads /\ DOMAIN last = Attrs
  BY DEF ControlInv, TypeOK
<1>3. a \in Attrs /\ value[a] = 0
  BY <1>1 DEF ControlInv, CallInv, SharedInv, Items, Attrs
<1>4. Act(t) /\ pc'[t] = "idle" /\ ~Announcing(t)
  BY <1>1, <1>2 DEF Act, Step, Announcing, Return, Goto
<1>5. \A u \in Threads \ {t} :
        /\ pc'[u] = pc[u] /\ op'[u] = op[u] /\ held'[u] = held[u]
        /\ Target(u)' = Target(u) /\ (Announcing(u)' <=> Announcing(u))
  BY <1>4, ActsAlone DEF ControlInv, Target, Announcing
<1>6. ASSUME NEW u \in Threads, pc'[u] = "publish", op'[u].kind = "set"
      PROVE  held'[u] = value'[Target(u)']
  BY <1>1, <1>4, <1>5, <1>6 DEF LastInv
<1>7. ASSUME NEW b \in Attrs, last'[b].by = "set", last'[b].v # value'[b]
      PROVE  \E u \in Threads : Announcing(u)' /\ op'[u].kind = "set" /\ Target(u)' = b
  <2>1. b # a
    BY <1>1, <1>2, <1>3, <1>7
  <2>2. PICK u \in Threads : Announcing(u) /\ op[u].kind = "set" /\ Target(u) = b
    BY <1>1, <1>2, <1>7, <2>1 DEF LastInv
  <2> QED BY <1>4, <1>5, <2>2
<1> QED BY <1>6, <1>7 DEF LastInv

(* ... that it loses when it is undeclared.                                *)
LEMMA LastUndeclDelete ==
  ASSUME ControlInv, LastInv, NEW t \in Threads, UndeclDelete(t)
  PROVE  LastInv'
<1> DEFINE a == Subject(t)
<1>1. /\ pc[t] = "delete" /\ last' = [last EXCEPT ![a] = [v |-> 0, by |-> "set"]]
      /\ value' = [value EXCEPT ![a] = 0] /\ pc' = [pc EXCEPT ![t] = "idle"]
  BY DEF UndeclDelete, Goto, Subject
<1>2. DOMAIN pc = Threads /\ DOMAIN last = Attrs /\ DOMAIN value = Attrs
  BY DEF ControlInv, TypeOK
<1>3. \A u \in Threads : ~Announcing(u) /\ pc'[u] = "idle"
  BY <1>1, <1>2 DEF ControlInv, SharedInv, Announcing
<1>4. ASSUME NEW b \in Attrs, last'[b].by = "set" PROVE last'[b].v = value'[b]
  <2>1. CASE b = a
    BY <1>1, <1>2, <2>1
  <2>2. CASE b # a
    BY <1>1, <1>2, <1>3, <1>4, <2>2 DEF LastInv
  <2> QED BY <2>1, <2>2
<1> QED BY <1>3, <1>4 DEF LastInv

(* Every step keeps it.                                                    *)
LEMMA LastStep ==
  ASSUME ControlInv, LastInv, [Next]_vars
  PROVE  LastInv'
<1>1. CASE UNCHANGED vars
  BY <1>1 DEF vars, LastInv, Announcing, Target
<1>2. CASE Next
  <2>1. PICK t \in Threads : Act(t)
    BY <1>2, NextIs
  <2>2. DOMAIN pc = Threads
    BY DEF ControlInv, TypeOK
  <2>3. CASE t = AbusThread /\ RemoteCall
    <3>1. pc[t] = "idle" /\ pc'[t] = "lock" /\ UNCHANGED <<value, last>>
      BY <2>2, <2>3 DEF RemoteCall, MayStart, Goto
    <3> QED BY <2>1, <3>1, LastKept DEF Announcing
  <2>4. CASE LocalCall(t) \/ AttrChanged(t) \/ DeclLookup(t) \/ UndeclLookup(t)
    <3>1. pc[t] = "idle" /\ pc'[t] # "publish" /\ UNCHANGED <<value, last>>
      BY <2>2, <2>4 DEF LocalCall, AttrChanged, DeclLookup, UndeclLookup, MayStart, Goto
    <3> QED BY <2>1, <3>1, LastKept DEF Announcing
  <2>5. CASE Lock(t) \/ GetItem(t) \/ GetUnknown(t) \/ WalkFirst(t) \/ WalkKey(t)
             \/ WalkStuff(t) \/ WalkNext(t) \/ ItemsDone(t)
    <3>1. /\ pc[t] \in {"lock", "item", "walk", "stuff", "next"} /\ pc'[t] # "publish"
          /\ UNCHANGED <<value, last>>
      BY <2>2, <2>5 DEF Lock, GetItem, GetUnknown, WalkFirst, WalkKey, WalkStuff, WalkNext,
                        ItemsDone, AtItem, Stop, Goto
    <3> QED BY <2>1, <3>1, LastKept DEF Announcing
  <2>6. CASE Unlock(t)
    <3>1. pc[t] = "unlock" /\ pc'[t] = "idle" /\ UNCHANGED <<value, last>>
      BY <2>2, <2>6 DEF Unlock, Return, Goto
    <3> QED BY <2>1, <3>1, LastKept DEF Announcing
  <2> QED BY <2>1, <2>3, <2>4, <2>5, <2>6, LastSetItem, LastReadChanged, LastPublish,
             LastDeclAssign, LastUndeclDelete DEF Act, Step
<1> QED BY <1>1, <1>2

(* Whenever no set is under way, the last event of an attribute carries    *)
(* its value, unless abus_attr_changed() published it: whatever threads    *)
(* set and announce at the same time, and however attributes come and go.  *)
THEOREM LastEventsAreCurrent ==
  ASSUME "undecl" \in Alone
  PROVE  Spec => []LastEventCurrent
<1>1. Init => ControlInv /\ LastInv
  <2>1. Init => LastInv
    BY DEF Init, LastInv, Announcing
  <2> QED BY <2>1, ControlInit
<1>2. ControlInv /\ LastInv /\ [Next]_vars => ControlInv' /\ LastInv'
  BY ControlStep, LastStep
<1>3. ControlInv /\ LastInv => LastEventCurrent
  <2> SUFFICES ASSUME ControlInv, LastInv, lock = NoThread,
                      NEW a \in Attrs, last[a].by = "set"
               PROVE  last[a].v = value[a]
    BY DEF LastEventCurrent
  <2>1. \A t \in Threads : ~Critical(t)
    BY AttrAssumption DEF ControlInv, SharedInv
  <2>2. \A t \in Threads : Announcing(t) /\ op[t].kind = "set" => Critical(t)
    BY DEF Announcing, Critical
  <2> QED BY <2>1, <2>2 DEF LastInv
<1> QED BY <1>1, <1>2, <1>3, PTL DEF Spec
-----------------------------------------------------------------------------
(* What the holder of attr_mutex finds.                                    *)

(* What an item stores does not depend on which other attributes there are. *)
LEMMA StoredKept ==
  ASSUME NEW t, NEW it, it.name \in ready, it.name \in ready'
  PROVE  Stored(t, it)' = Stored(t, it)
<1>1. TypeOf(it.name)' = TypeOf(it.name)
  BY DEF TypeOf
<1>2. \A ty, v : SetLocal(ty, it.name, v)' = SetLocal(ty, it.name, v)
  BY <1>1 DEF SetLocal
<1>3. SetRemote(it)' = SetRemote(it)
  BY <1>2 DEF SetRemote
<1> QED BY <1>2, <1>3 DEF Stored

(* So what a set has stored stays what it stored while others declare.     *)
LEMMA AppliedKept ==
  ASSUME NEW t, NEW n \in Nat, op'[t] = op[t], UNCHANGED before, ready \subseteq ready',
         \A m \in 1 .. n : op[t].items[m].name \in ready
  PROVE  Applied(t, n)' = Applied(t, n)
<1>1. \A a \in Attrs : Naming(t, n, a)' = Naming(t, n, a)
  BY DEF Naming
<1>2. ASSUME NEW a \in Attrs, Naming(t, n, a) # {}
      PROVE  Stored(t, op[t].items[Max(Naming(t, n, a))])'
               = Stored(t, op[t].items[Max(Naming(t, n, a))])
  <2> DEFINE m == Max(Naming(t, n, a))
             it == op[t].items[m]
  <2>1. m \in 1 .. n
    <3>1. Naming(t, n, a) \subseteq 1 .. n
      BY DEF Naming
    <3> QED BY <1>2, <3>1, MaxIs
  <2>2. it.name \in ready /\ it.name \in ready'
    BY <2>1
  <2>3. m' = m
    BY <1>1
  <2>4. op'[t].items[m'] = it
    BY <2>3
  <2> HIDE DEF m
  <2>5. Stored(t, it)' = Stored(t, it)
    <3>1. \A k : k.name \in ready /\ k.name \in ready' =>
                   Stored(t, k)' = Stored(t, k)
      BY StoredKept
    <3> QED BY <2>2, <2>4, <3>1
  <2> QED BY <2>5 DEF m
<1> QED BY <1>1, <1>2 DEF Applied

(* A step of another thread, or one of the holder that stores nothing.     *)
LEMMA HoldKept ==
  ASSUME ControlInv, HoldInv, NEW t \in Threads, Act(t),
         UNCHANGED <<value, before, lock>>, ready \subseteq ready',
         Critical(t) => op'[t] = op[t] /\ (op[t].kind = "set" => i'[t] = i[t])
  PROVE  HoldInv'
<1> SUFFICES ASSUME NEW u \in Threads, lock' = u PROVE Exclusive(u)'
  BY DEF HoldInv
<1>1. Exclusive(u) /\ Critical(u)
  BY DEF HoldInv, ControlInv, SharedInv
<1>2. op'[u] = op[u] /\ (op[u].kind = "set" => i'[u] = i[u])
  <2>1. CASE u = t
    BY <1>1, <2>1
  <2>2. CASE u # t
    BY <2>2, ActsAlone DEF ControlInv
  <2> QED BY <2>1, <2>2
<1>3. ASSUME op[u].kind = "set" PROVE Applied(u, i[u])' = Applied(u, i[u])
  <2> DEFINE n == i[u]
  <2>1. n \in Nat /\ n' = n
    BY <1>2, <1>3 DEF ControlInv, TypeOK
  <2>2. \A m \in 1 .. n : op[u].items[m].name \in ready
    BY <1>1, <1>3 DEF Exclusive
  <2>3. \A k \in Nat : (\A m \in 1 .. k : op[u].items[m].name \in ready)
                         => Applied(u, k)' = Applied(u, k)
    BY <1>2, AppliedKept
  <2>4. Applied(u, n)' = Applied(u, n)
    BY <2>1, <2>2, <2>3
  <2> QED BY <2>4
<1> QED BY <1>1, <1>2, <1>3 DEF Exclusive

(* Who takes the mutex has handled no item yet.                            *)
LEMMA HoldLock ==
  ASSUME ControlInv, HoldInv, NEW t \in Threads, Lock(t)
  PROVE  HoldInv'
<1>1. /\ pc[t] = "lock" /\ lock' = t /\ before' = [value |-> value, ready |-> ready]
      /\ UNCHANGED <<value, ready, op, i>>
  BY DEF Lock, life
<1>2. i[t] = 0 /\ value = [a \in Attrs |-> value[a]]
  BY <1>1 DEF ControlInv, CallInv, TypeOK
<1>3. Applied(t, 0)' = value'
  <2>1. \A a \in Attrs : Naming(t, 0, a)' = {}
    BY DEF Naming
  <2> QED BY <1>1, <1>2, <2>1 DEF Applied
<1>4. Exclusive(t)'
  <2>1. i'[t] = 0 /\ before'.value = value' /\ before'.ready = ready'
    BY <1>1, <1>2
  <2>2. Applied(t, i[t])' = value'
    BY <1>3, <2>1
  <2> QED BY <2>1, <2>2 DEF Exclusive
<1> QED BY <1>1, <1>4 DEF HoldInv

(* The holder stores an item, or finds that it cannot.                     *)
LEMMA HoldSetItem ==
  ASSUME ControlInv, HoldInv, NEW t \in Threads, SetItem(t)
  PROVE  HoldInv'
<1> DEFINE it == Item(t)
           a == it.name
           r == IF t = AbusThread THEN SetRemote(it) ELSE SetLocal(it.type, a, it.v)
           n == i[t]
<1>1. /\ pc[t] = "item" /\ op[t].kind = "set" /\ n < Len(op[t].items)
      /\ IF r.ret # "ok" \/ a = Empty
         THEN Stop(t, r.ret) /\ UNCHANGED <<value, i>>
         ELSE /\ value' = [value EXCEPT ![a] = r.v] /\ i' = [i EXCEPT ![t] = @ + 1]
              /\ Goto(t, AfterStore(a, r.v)) /\ UNCHANGED ret
      /\ UNCHANGED <<op, before, ready, lock>>
  BY DEF SetItem, AtItem, call
<1>2. Act(t) /\ Critical(t)
  BY <1>1 DEF Act, Step, Critical
<1>3. lock = t /\ Exclusive(t)
  BY <1>2 DEF ControlInv, SharedInv, HoldInv
<1>4. CASE r.ret # "ok" \/ a = Empty
  BY <1>1, <1>2, <1>4, HoldKept
<1>5. CASE r.ret = "ok" /\ a # Empty
  <2>1. n \in Nat
    BY DEF ControlInv, TypeOK
  <2>2. n + 1 \in 1 .. Len(op[t].items) /\ it = op[t].items[n + 1] /\ it \in ValueItems
    BY <1>1, <2>1, ItemIs DEF ControlInv
  <2>3. a \in ready
    BY <1>5, <2>2, SetItemIs
  <2>4. a \in Attrs
    BY <2>3 DEF ControlInv, TypeOK
  <2>5. r.v = Stored(t, op[t].items[n + 1])
    BY <2>2 DEF Stored
  <2> HIDE DEF r, it
  <2>6. value' = [value EXCEPT ![a] = r.v] /\ i' = [i EXCEPT ![t] = n + 1]
    BY <1>1, <1>5
  <2>7. i'[t] = n + 1
    BY <2>6 DEF ControlInv, TypeOK
  <2>8. \A m \in 1 .. n + 1 : op[t].items[m].name \in ready
    <3>1. \A m \in 1 .. n + 1 : m \in 1 .. n \/ m = n + 1
      BY <2>1
    <3> QED BY <1>1, <1>3, <2>2, <2>3, <3>1 DEF Exclusive
  <2>9. value' = Applied(t, n + 1)
    <3>1. Applied(t, n + 1) = [Applied(t, n) EXCEPT ![a] = Stored(t, op[t].items[n + 1])]
      BY <2>1, <2>2, <2>4, AppliedNext
    <3>2. value = Applied(t, n)
      BY <1>1, <1>3 DEF Exclusive
    <3> QED BY <2>5, <2>6, <3>1, <3>2
  <2>10. Applied(t, i[t])' = Applied(t, n + 1)
    <3> DEFINE k == n + 1
    <3>1. \A j \in Nat : (\A m \in 1 .. j : op[t].items[m].name \in ready)
                           => Applied(t, j)' = Applied(t, j)
      BY <1>1, AppliedKept
    <3>2. k \in Nat
      BY <2>1
    <3>3. \A j : j = i'[t] => Applied(t, i[t])' = Applied(t, j)'
      OBVIOUS
    <3> QED BY <2>7, <2>8, <3>1, <3>2, <3>3
  <2>11. Exclusive(t)'
    BY <1>1, <1>3, <2>7, <2>8, <2>9, <2>10 DEF Exclusive
  <2> QED BY <1>1, <1>3, <2>11 DEF HoldInv
<1> QED BY <1>4, <1>5

(* Every step keeps it.                                                    *)
LEMMA HoldStep ==
  ASSUME ControlInv, HoldInv, [Next]_vars
  PROVE  HoldInv'
<1>1. CASE UNCHANGED vars
  <2>1. UNCHANGED <<value, ready, lock, op, i, before>>
    BY <1>1 DEF vars
  <2>2. \A t \in Threads : Applied(t, i[t])' = Applied(t, i[t])
    BY <2>1 DEF Applied, Naming, Stored, SetRemote, SetLocal, TypeOf
  <2> QED BY <2>1, <2>2 DEF HoldInv, Exclusive
<1>2. CASE Next
  <2>1. PICK t \in Threads : Act(t)
    BY <1>2, NextIs
  <2>2. DOMAIN i = Threads
    BY DEF ControlInv, TypeOK
  <2>3. CASE t = AbusThread /\ RemoteCall
    <3>1. pc[t] = "idle" /\ UNCHANGED <<value, ready, before, lock>>
      BY <2>3 DEF RemoteCall, MayStart, life
    <3> QED BY <2>1, <3>1, HoldKept DEF Critical
  <2>4. CASE LocalCall(t) \/ AttrChanged(t) \/ DeclLookup(t) \/ UndeclLookup(t)
    <3>1. pc[t] = "idle" /\ UNCHANGED <<value, ready, before, lock>>
      BY <2>4 DEF LocalCall, AttrChanged, DeclLookup, UndeclLookup, MayStart, life
    <3> QED BY <2>1, <3>1, HoldKept DEF Critical
  <2>5. CASE ReadChanged(t) \/ GetUnknown(t) \/ WalkKey(t) \/ WalkStuff(t) \/ ItemsDone(t)
    <3>1. UNCHANGED <<value, ready, before, lock, op, i>>
      BY <2>5 DEF ReadChanged, GetUnknown, WalkKey, WalkStuff, ItemsDone, life, call
    <3> QED BY <2>1, <3>1, HoldKept
  <2>6. CASE GetItem(t) \/ WalkFirst(t) \/ WalkNext(t)
    <3>1. /\ AtItem(t, "get") \/ pc[t] = "next"
          /\ UNCHANGED <<value, ready, before, lock, op>>
      BY <2>6 DEF GetItem, WalkFirst, WalkNext, life, call
    <3>2. op[t].kind = "get"
      BY <3>1 DEF AtItem, ControlInv, CallInv
    <3> QED BY <2>1, <3>1, <3>2, HoldKept
  <2>7. CASE Publish(t)
    <3>1. /\ pc[t] = "publish" /\ UNCHANGED <<value, ready, before, lock>>
          /\ op[t].kind # "notify" => UNCHANGED <<op, i>>
      BY <2>7 DEF Publish
    <3>2. Critical(t) => op[t].kind # "notify"
      BY <3>1 DEF Critical
    <3> QED BY <2>1, <3>1, <3>2, HoldKept
  <2>8. CASE DeclAssign(t)
    <3>1. /\ pc[t] = "assign" /\ UNCHANGED <<value, before, lock>>
          /\ ready \subseteq ready'
      BY <2>8 DEF DeclAssign
    <3> QED BY <2>1, <3>1, HoldKept DEF Critical
  <2>9. CASE Unlock(t)
    <3>1. lock' = NoThread
      BY <2>9 DEF Unlock
    <3> QED BY <3>1, AttrAssumption DEF HoldInv
  <2>10. CASE UndeclDelete(t)
    <3>1. pc[t] = "delete" /\ lock' = lock
      BY <2>10 DEF UndeclDelete
    <3>2. \A u \in Threads : ~Critical(u)
      BY <3>1 DEF ControlInv, SharedInv, Critical
    <3> QED BY <3>1, <3>2 DEF ControlInv, SharedInv, HoldInv
  <2> QED BY <2>1, <2>3, <2>4, <2>5, <2>6, <2>7, <2>8, <2>9, <2>10, HoldLock, HoldSetItem
          DEF Act, Step
<1> QED BY <1>1, <1>2

(* It holds at the start.                                                  *)
LEMMA HoldInit == Init => HoldInv
BY AttrAssumption DEF Init, HoldInv

(* While a thread performs a get or a set, nothing but that set changes    *)
(* the attributes, and it has changed what the items it handled say: for   *)
(* any threads, any requests and any attributes that are declared in the   *)
(* meantime.                                                               *)
THEOREM HolderIsAlone ==
  ASSUME "undecl" \in Alone
  PROVE  Spec => []HolderAlone
<1>1. Init => ControlInv /\ HoldInv
  BY ControlInit, HoldInit
<1>2. ControlInv /\ HoldInv /\ [Next]_vars => ControlInv' /\ HoldInv'
  BY ControlStep, HoldStep
<1>3. ControlInv /\ HoldInv => HolderAlone
  <2> SUFFICES ASSUME ControlInv, HoldInv, NEW t \in Threads, lock = t
               PROVE  value = IF op[t].kind = "set" THEN Applied(t, i[t]) ELSE before.value
    BY DEF HolderAlone
  <2>1. Critical(t) /\ Exclusive(t)
    BY DEF ControlInv, SharedInv, HoldInv
  <2>2. op[t].kind \in {"set", "get"}
    BY <2>1 DEF Critical, ControlInv, CallInv
  <2> QED BY <2>1, <2>2 DEF Exclusive
<1> QED BY <1>1, <1>2, <1>3, PTL DEF Spec
-----------------------------------------------------------------------------
(* The response to a get.                                                  *)

(* A step of another thread, unless it moves the position under the walk.  *)
LEMMA ShownOther ==
  ASSUME ControlInv, HoldInv, HoldInv', ShownInv, NEW t \in Threads, Act(t), t # AbusThread
  PROVE  ShownInv'
<1> DEFINE g == AbusThread
<1>1. g \in Threads /\ NoThread # g
  BY AttrAssumption DEF Threads
<1>2. pc'[g] = pc[g] /\ op'[g] = op[g] /\ i'[g] = i[g] /\ ret'[g] = ret[g]
  BY <1>1, ActsAlone DEF ControlInv
<1>3. UNCHANGED <<out, key>>
  BY DEF Act, LocalCall, AttrChanged, DeclLookup, UndeclLookup, Step, Lock, SetItem, ReadChanged,
         Publish, GetItem, GetUnknown, WalkFirst, WalkKey, WalkStuff, WalkNext, ItemsDone,
         Unlock, DeclAssign, UndeclDelete, answer, ControlInv, CallInv
<1>4. pc'[g] \in {"idle", "lock"} => out' = {}
  BY <1>2, <1>3 DEF ShownInv
<1>5. ASSUME lock' = g, op'[g].kind = "get", ret'[g] = "ok", ~disturbed'
      PROVE  Collected'
  <2>1. lock = g /\ Critical(g) /\ ~Critical(t) /\ ~Lock(t) /\ pc[t] # "delete"
    <3>1. lock' = lock \/ (Lock(t) /\ lock' = t) \/ (Unlock(t) /\ lock' = NoThread)
      BY DEF Act, LocalCall, AttrChanged, DeclLookup, UndeclLookup, Step, Lock, SetItem,
             ReadChanged, Publish, GetItem, GetUnknown, WalkFirst, WalkKey, WalkStuff,
             WalkNext, ItemsDone, Unlock, DeclAssign, UndeclDelete
    <3>2. lock = g
      BY <1>1, <1>5, <3>1
    <3>3. Critical(g) /\ ~Critical(t)
      BY <1>1, <3>2 DEF ControlInv, SharedInv
    <3>4. pc[g] # "idle"
      BY <3>3 DEF Critical
    <3>5. pc[t] # "delete"
      BY <1>1, <3>4 DEF ControlInv, SharedInv
    <3>6. ~Lock(t)
      BY <1>1, <3>2 DEF Lock
    <3> QED BY <3>2, <3>3, <3>5, <3>6
  <2>2. \/ LocalCall(t) \/ AttrChanged(t) \/ DeclLookup(t) \/ UndeclLookup(t)
        \/ ReadChanged(t) \/ Publish(t) \/ DeclAssign(t)
    <3>1. pc[t] \notin {"item", "walk", "stuff", "next", "unlock"}
      BY <2>1 DEF Critical
    <3>2. /\ ~SetItem(t) /\ ~GetItem(t) /\ ~GetUnknown(t) /\ ~WalkFirst(t) /\ ~WalkKey(t)
          /\ ~WalkStuff(t) /\ ~WalkNext(t) /\ ~ItemsDone(t) /\ ~Unlock(t)
      BY <3>1 DEF SetItem, GetItem, GetUnknown, WalkFirst, WalkKey, WalkStuff, WalkNext,
                  ItemsDone, Unlock, AtItem
    <3>3. ~UndeclDelete(t)
      BY <2>1 DEF UndeclDelete
    <3> QED BY <2>1, <3>2, <3>3 DEF Act, Step
  <2>3. UNCHANGED before /\ ~disturbed /\ (UNCHANGED tab \/ ~Walking)
    <3>1. UNCHANGED before
      BY <2>2 DEF LocalCall, AttrChanged, DeclLookup, UndeclLookup, ReadChanged, Publish,
                  DeclAssign, call
    <3>2. CASE AttrChanged(t) \/ Publish(t) \/ DeclAssign(t)
      <4>1. UNCHANGED <<tab, disturbed>>
        BY <3>2 DEF AttrChanged, Publish, DeclAssign
      <4> QED BY <1>5, <3>1, <4>1
    <3>3. CASE LocalCall(t) \/ DeclLookup(t) \/ UndeclLookup(t) \/ ReadChanged(t)
      <4>1. disturbed' = (disturbed \/ Walking)
        BY <3>3 DEF LocalCall, DeclLookup, UndeclLookup, ReadChanged, Lookup
      <4>2. ~disturbed /\ ~Walking
        BY <1>5, <4>1
      <4> QED BY <3>1, <4>2
    <3> QED BY <2>2, <3>2, <3>3
  <2>4. UNCHANGED value
    BY <1>1, <1>2, <1>5, <2>1, <2>3 DEF HoldInv, Exclusive
  <2>5. Collected
    BY <1>2, <1>5, <2>1, <2>3 DEF ShownInv
  <2>6. Asked(g)' = Asked(g) /\ Shown' = Shown
    BY <1>2, <1>3 DEF Asked, Shown
  <2>7. pc[g] \in {"walk", "stuff", "next"} => UNCHANGED tab /\ Walked(tab)' = Walked(tab)
    BY <2>3 DEF Walking
  <2> QED BY <1>2, <1>3, <2>3, <2>4, <2>5, <2>6, <2>7 DEF Collected
<1> QED BY <1>4, <1>5 DEF ShownInv

(* An attribute is appended.                                               *)
LEMMA ShownAdds ==
  ASSUME NEW a, NEW v, out' = out \cup {<<a, v>>}
  PROVE  Shown' = Shown \cup {a}
<1> DEFINE q == <<a, v>>
<1>1. q[1] = a
  OBVIOUS
<1> HIDE DEF q
<1>2. out' = out \cup {q}
  BY DEF q
<1>3. {p[1] : p \in out \cup {q}} = {p[1] : p \in out} \cup {a}
  BY <1>1
<1> QED BY <1>2, <1>3 DEF Shown

(* The A-Bus thread appends an attribute.                                  *)
LEMMA CollectItem ==
  ASSUME ControlInv, Collected, GetItem(AbusThread), ret'[AbusThread] = "ok"
  PROVE  Collected'
<1> DEFINE t == AbusThread
           a == Item(t).name
           n == i[t]
<1>1. /\ pc[t] = "item" /\ op[t].kind = "get" /\ n < Len(op[t].items) /\ a \in Items(tab)
      /\ AppendType(t, a) /\ i' = [i EXCEPT ![t] = @ + 1]
      /\ UNCHANGED <<value, pc, op, before, key>>
  BY DEF GetItem, AtItem, call
<1>2. t \in Threads /\ Empty \notin Attrs /\ a \in Attrs
  BY <1>1, AttrAssumption DEF Threads, Items, Attrs
<1>3. n \in Nat /\ n + 1 \in 1 .. Len(op[t].items) /\ a = op[t].items[n + 1].name
      /\ DOMAIN op[t].items = 1 .. Len(op[t].items)
  <2>1. n \in Nat
    BY <1>2 DEF ControlInv, TypeOK
  <2>2. Len(op[t].items) \in Nat /\ DOMAIN op[t].items = 1 .. Len(op[t].items)
    BY <1>1, <1>2, Working, Shape DEF ControlInv
  <2> QED BY <1>1, <2>1, <2>2 DEF Item
<1>4. i'[t] = n + 1
  BY <1>1, <1>2 DEF ControlInv, TypeOK
<1>5. a \in ready /\ ret' = ret /\ out' = out \cup {<<a, value[a]>>}
  <2>1. DOMAIN ret = Threads
    BY DEF ControlInv, TypeOK
  <2> QED BY <1>1, <1>2, <2>1 DEF AppendType
<1>6. Shown' = Shown \cup {a} /\ Asked(t)' = Asked(t) /\ a \in Asked(t)
  BY <1>1, <1>3, <1>5, ShownAdds DEF Asked
<1>7. ASSUME NEW m \in 1 .. n + 1
      PROVE  IF op[t].items[m].name = Empty THEN before.ready \subseteq Shown'
             ELSE op[t].items[m].name \in Shown'
  <2>1. m \in 1 .. n \/ m = n + 1
    BY <1>3
  <2> QED BY <1>2, <1>3, <1>6, <2>1 DEF Collected
<1>8. \A p \in out' : p[2] = value[p[1]]
  BY <1>5 DEF Collected
<1>9. Empty \notin Asked(t) => Shown' \subseteq Asked(t)
  BY <1>6 DEF Collected
<1> HIDE DEF a, n
<1> QED BY <1>1, <1>4, <1>5, <1>6, <1>7, <1>8, <1>9 DEF Collected

(* It begins a walk over all attributes, if there are any ...              *)
LEMMA CollectFirst ==
  ASSUME ControlInv, HoldInv, lock = AbusThread, Collected, WalkFirst(AbusThread)
  PROVE  Collected'
<1> DEFINE t == AbusThread
           n == i[t]
<1>1. /\ pc[t] = "item" /\ op[t].kind = "get" /\ n < Len(op[t].items)
      /\ Item(t).name = Empty /\ tab' = HFirst(tab)
      /\ IF HFirstRet(tab) THEN pc' = [pc EXCEPT ![t] = "walk"] /\ UNCHANGED i
                           ELSE i' = [i EXCEPT ![t] = n + 1] /\ UNCHANGED pc
      /\ UNCHANGED <<value, op, before, key, out>>
  BY DEF WalkFirst, AtItem, Goto, call, answer
<1>2. t \in Threads /\ DOMAIN pc = Threads /\ DOMAIN i = Threads /\ n \in Nat /\ TableInv(tab)
  BY DEF Threads, ControlInv, TypeOK
<1>3. Shown' = Shown /\ Asked(t)' = Asked(t)
  BY <1>1 DEF Shown, Asked
<1>4. CASE HFirstRet(tab)
  <2>1. Items(tab) # {} /\ pc'[t] = "walk" /\ i' = i
    BY <1>1, <1>2, <1>4, SoundIsSane
  <2>2. Walked(tab') \ {tab'.ipos} = {}
    BY <1>1, <1>2, <2>1, WalkedFirst
  <2> QED BY <1>1, <1>3, <2>1, <2>2 DEF Collected
<1>5. CASE ~HFirstRet(tab)
  <2>1. Items(tab) = {} /\ pc' = pc /\ i'[t] = n + 1
    BY <1>1, <1>2, <1>5, SoundIsSane
  <2>2. before.ready = {}
    BY <1>2, <2>1 DEF HoldInv, Exclusive, ControlInv, TypeOK
  <2>3. op[t].items[n + 1].name = Empty
    BY <1>1 DEF Item
  <2>4. ASSUME NEW m \in 1 .. n + 1
        PROVE  IF op[t].items[m].name = Empty THEN before.ready \subseteq Shown
               ELSE op[t].items[m].name \in Shown
    <3>1. m \in 1 .. n \/ m = n + 1
      BY <1>2
    <3> QED BY <2>2, <2>3, <3>1 DEF Collected
  <2> HIDE DEF n
  <2> QED BY <1>1, <1>3, <2>1, <2>4 DEF Collected
<1> QED BY <1>4, <1>5

(* ... takes the key ...                                                   *)
LEMMA CollectKey ==
  ASSUME ControlInv, Collected, WalkKey(AbusThread)
  PROVE  Collected'
<1> DEFINE t == AbusThread
<1>1. /\ pc[t] = "walk" /\ key' = tab.ipos /\ pc' = [pc EXCEPT ![t] = "stuff"]
      /\ UNCHANGED <<value, op, before, tab, i, out>>
  BY DEF WalkKey, Goto, call, answer
<1>2. t \in Threads /\ pc'[t] = "stuff"
  BY <1>1 DEF Threads, ControlInv, TypeOK
<1>3. Shown' = Shown /\ Asked(t)' = Asked(t) /\ Walked(tab)' = Walked(tab)
  BY <1>1 DEF Shown, Asked
<1> QED BY <1>1, <1>2, <1>3 DEF Collected

(* ... and the attribute at the position ...                               *)
LEMMA CollectStuff ==
  ASSUME ControlInv, Collected, WalkStuff(AbusThread), ret'[AbusThread] = "ok"
  PROVE  Collected'
<1> DEFINE t == AbusThread
           a == tab.ipos
           n == i[t]
<1>1. /\ pc[t] = "stuff"
      /\ IF a \in ready THEN out' = out \cup {<<key, value[a]>>} /\ UNCHANGED ret
                        ELSE ret' = [ret EXCEPT ![t] = "error"] /\ UNCHANGED out
      /\ pc' = [pc EXCEPT ![t] = "next"]
      /\ UNCHANGED <<value, op, before, tab, i, key>>
  BY DEF WalkStuff, Goto, call
<1>2. /\ t \in Threads /\ DOMAIN pc = Threads /\ DOMAIN ret = Threads /\ n \in Nat
  BY DEF Threads, ControlInv, TypeOK
<1>3. out' = out \cup {<<a, value[a]>>} /\ ret' = ret
  BY <1>1, <1>2 DEF Collected
<1>4. pc'[t] = "next"
  BY <1>1, <1>2
<1>5. Shown' = Shown \cup {a} /\ Asked(t)' = Asked(t) /\ Walked(tab)' = Walked(tab)
  BY <1>1, <1>3, ShownAdds DEF Asked
<1>6. Empty \in Asked(t)
  <2>1. n + 1 \in 1 .. Len(op[t].items) /\ op[t].items[n + 1].name = Empty
        /\ DOMAIN op[t].items = 1 .. Len(op[t].items)
    <3>1. Len(op[t].items) \in Nat /\ DOMAIN op[t].items = 1 .. Len(op[t].items)
      BY <1>1, <1>2, Working, Shape DEF ControlInv
    <3> QED BY <1>1, <1>2, <3>1 DEF ControlInv, CallInv
  <2> QED BY <2>1 DEF Asked
<1>7. before.ready \cap Walked(tab) \subseteq Shown \cup {a}
  BY <1>1 DEF Collected
<1>8. \A p \in out' : p[2] = value[p[1]]
  BY <1>3 DEF Collected
<1> HIDE DEF a, n
<1> QED BY <1>1, <1>3, <1>4, <1>5, <1>6, <1>7, <1>8 DEF Collected

(* ... and goes on until it has seen them all.                             *)
LEMMA CollectNext ==
  ASSUME ControlInv, HoldInv, lock = AbusThread, Collected, WalkNext(AbusThread)
  PROVE  Collected'
<1> DEFINE t == AbusThread
           n == i[t]
<1>1. /\ pc[t] = "next" /\ tab' = HNext(tab)
      /\ IF HNextRet(tab)
         THEN pc' = [pc EXCEPT ![t] = "walk"] /\ UNCHANGED i
         ELSE pc' = [pc EXCEPT ![t] = "item"] /\ i' = [i EXCEPT ![t] = n + 1]
      /\ UNCHANGED <<value, op, before, key, out>>
  BY DEF WalkNext, Goto, call, answer
<1>2. t \in Threads /\ DOMAIN pc = Threads /\ DOMAIN i = Threads /\ n \in Nat /\ TableInv(tab)
  BY DEF Threads, ControlInv, TypeOK
<1>3. Shown' = Shown /\ Asked(t)' = Asked(t)
  BY <1>1 DEF Shown, Asked
<1>4. Items(tab) # {} /\ op[t].items[n + 1].name = Empty
  BY <1>1, <1>2 DEF ControlInv, CallInv
<1>5. tab.ipos # NoKey
  BY <1>2, <1>4, PositionOnItem DEF TableInv
<1>6. before.ready \cap Walked(tab) \subseteq Shown
  BY <1>1 DEF Collected
<1>7. CASE HNextRet(tab)
  <2>1. pc'[t] = "walk" /\ i' = i
    BY <1>1, <1>2, <1>7
  <2>2. Walked(tab') \ {tab'.ipos} \subseteq Walked(tab)
    BY <1>1, <1>2, <1>5, <1>7, WalkedNext
  <2>3. before.ready \cap (Walked(tab') \ {tab'.ipos}) \subseteq Shown
    BY <1>6, <2>2
  <2> QED BY <1>1, <1>3, <2>1, <2>3 DEF Collected
<1>8. CASE ~HNextRet(tab)
  <2>1. pc'[t] = "item" /\ i'[t] = n + 1
    BY <1>1, <1>2, <1>8
  <2>2. Walked(tab) = Items(tab)
    BY <1>2, <1>5, <1>8, WalkedNext
  <2>3. before.ready \subseteq Shown
    BY <1>2, <1>6, <2>2 DEF HoldInv, Exclusive, ControlInv, TypeOK
  <2>4. ASSUME NEW m \in 1 .. n + 1
        PROVE  IF op[t].items[m].name = Empty THEN before.ready \subseteq Shown
               ELSE op[t].items[m].name \in Shown
    <3>1. m \in 1 .. n \/ m = n + 1
      BY <1>2
    <3> QED BY <1>4, <2>3, <3>1 DEF Collected
  <2> HIDE DEF n
  <2> QED BY <1>1, <1>3, <2>1, <2>4 DEF Collected
<1> QED BY <1>7, <1>8

(* A step of the A-Bus thread.                                             *)
LEMMA ShownOwn ==
  ASSUME ControlInv, HoldInv, ShownInv, Act(AbusThread)
  PROVE  ShownInv'
<1> DEFINE t == AbusThread
<1>1. /\ t \in Threads /\ t \notin LocalThreads /\ NoThread # t
      /\ DOMAIN pc = Threads /\ DOMAIN op = Threads /\ DOMAIN ret = Threads
  BY AttrAssumption DEF Threads, ControlInv, TypeOK
<1>2. pc[t] # "idle" => op[t].kind \in {"set", "get"}
  BY <1>1, Working DEF ControlInv
<1>3. RemoteCall \/ Step(t)
  BY <1>1 DEF Act
<1> HIDE DEF t
<1>a. t = AbusThread
  BY DEF t
<1>4. CASE RemoteCall
  <2>1. pc[t] = "idle" /\ pc'[t] = "lock" /\ UNCHANGED <<lock, out>>
    BY <1>1, <1>a, <1>4 DEF RemoteCall, MayStart, Goto, answer
  <2>2. lock # t
    BY <1>1, <2>1 DEF ControlInv, SharedInv, Critical
  <2> QED BY <1>a, <2>1, <2>2 DEF ShownInv
<1>5. CASE Lock(t)
  <2>1. pc[t] = "lock" /\ pc'[t] = "item" /\ UNCHANGED <<i, out>>
    BY <1>1, <1>5 DEF Lock, Goto, answer
  <2>2. i[t] = 0 /\ out = {}
    BY <1>1, <1>a, <2>1 DEF ControlInv, CallInv, ShownInv
  <2>3. Shown' = {}
    BY <2>1, <2>2 DEF Shown
  <2>4. Collected'
    BY <1>a, <2>1, <2>2, <2>3 DEF Collected
  <2> QED BY <1>a, <2>1, <2>4 DEF ShownInv
<1>6. CASE SetItem(t) \/ ReadChanged(t) \/ Publish(t)
  <2>1. op[t].kind = "set"
    BY <1>1, <1>2, <1>6 DEF SetItem, AtItem, ReadChanged, Publish, ControlInv, CallInv, Announcing
  <2>2. UNCHANGED op /\ pc'[t] \notin {"idle", "lock"}
    BY <1>1, <1>6, <2>1 DEF SetItem, AfterStore, Stop, ReadChanged, Publish, Goto, call
  <2> QED BY <1>a, <2>1, <2>2 DEF ShownInv
<1>7. ASSUME UNCHANGED <<op, lock>>, pc'[t] \notin {"idle", "lock"},
             lock = t /\ op[t].kind = "get" /\ ret'[t] = "ok" /\ ~disturbed' => Collected'
      PROVE  ShownInv'
  BY <1>7, <1>a DEF ShownInv
<1>8. CASE GetItem(t)
  <2>1. /\ pc[t] = "item" /\ UNCHANGED <<op, lock, pc>> /\ AppendType(t, Item(t).name)
        /\ disturbed' = (disturbed \/ (t # AbusThread /\ Walking))
    BY <1>a, <1>8 DEF GetItem, AtItem, Lookup, call
  <2>2. ASSUME lock = t, op[t].kind = "get", ret'[t] = "ok", ~disturbed' PROVE Collected'
    <3>1. ret[t] = "ok"
      BY <1>1, <2>1, <2>2 DEF AppendType
    <3>2. ~disturbed
      BY <2>1, <2>2
    <3> QED BY <1>a, <1>8, <2>2, <3>1, <3>2, CollectItem DEF ShownInv
  <2> QED BY <1>7, <2>1, <2>2
<1>9. CASE GetUnknown(t)
  <2>1. pc'[t] = "unlock" /\ ret'[t] = "error" /\ UNCHANGED <<op, lock>>
    BY <1>1, <1>9 DEF GetUnknown, Stop, Goto, call
  <2> QED BY <1>7, <2>1
<1>10. CASE WalkFirst(t)
  <2>1. pc'[t] \in {"walk", "item"} /\ UNCHANGED <<op, lock, ret, disturbed>>
    BY <1>1, <1>10 DEF WalkFirst, AtItem, Goto, call
  <2>2. ASSUME lock = t, op[t].kind = "get", ret'[t] = "ok", ~disturbed' PROVE Collected'
    BY <1>a, <1>10, <2>1, <2>2, CollectFirst DEF ShownInv
  <2> QED BY <1>7, <2>1, <2>2
<1>11. CASE WalkKey(t)
  <2>1. pc'[t] = "stuff" /\ UNCHANGED <<op, lock, ret, disturbed>>
    BY <1>1, <1>11 DEF WalkKey, Goto, call
  <2>2. ASSUME lock = t, op[t].kind = "get", ret'[t] = "ok", ~disturbed' PROVE Collected'
    BY <1>a, <1>11, <2>1, <2>2, CollectKey DEF ShownInv
  <2> QED BY <1>7, <2>1, <2>2
<1>12. CASE WalkStuff(t)
  <2>1. /\ pc'[t] = "next" /\ UNCHANGED <<op, lock, disturbed>>
        /\ UNCHANGED ret \/ ret'[t] = "error"
    BY <1>1, <1>12 DEF WalkStuff, Goto, call
  <2>2. ASSUME lock = t, op[t].kind = "get", ret'[t] = "ok", ~disturbed' PROVE Collected'
    BY <1>a, <1>12, <2>1, <2>2, CollectStuff DEF ShownInv
  <2> QED BY <1>7, <2>1, <2>2
<1>13. CASE WalkNext(t)
  <2>1. pc'[t] \in {"walk", "item"} /\ UNCHANGED <<op, lock, ret, disturbed>>
    BY <1>1, <1>13 DEF WalkNext, Goto, call
  <2>2. ASSUME lock = t, op[t].kind = "get", ret'[t] = "ok", ~disturbed' PROVE Collected'
    BY <1>a, <1>13, <2>1, <2>2, CollectNext DEF ShownInv
  <2> QED BY <1>7, <2>1, <2>2
<1>14. CASE ItemsDone(t)
  <2>1. /\ pc[t] = "item" /\ i[t] = Len(op[t].items) /\ pc'[t] = "unlock"
        /\ UNCHANGED <<value, tab, before, op, i, key, out, lock, ret, disturbed>>
    BY <1>1, <1>14 DEF ItemsDone, Goto, call, answer
  <2>2. ASSUME lock = t, op[t].kind = "get", ret'[t] = "ok", ~disturbed' PROVE Collected'
    <3>1. Collected
      BY <1>a, <2>1, <2>2 DEF ShownInv
    <3>2. Shown' = Shown /\ Asked(t)' = Asked(t)
      BY <2>1 DEF Shown, Asked
    <3> QED BY <1>a, <2>1, <3>1, <3>2 DEF Collected
  <2> QED BY <1>7, <2>1, <2>2
<1>15. CASE Unlock(t)
  <2>1. lock' # t /\ out' = {}
    BY <1>1, <1>a, <1>15 DEF Unlock
  <2> QED BY <1>a, <2>1 DEF ShownInv
<1>16. ~DeclAssign(t) /\ ~UndeclDelete(t)
  <2>1. pc[t] = "assign" => op[t].kind = "decl"
    BY <1>1 DEF ControlInv, CallInv
  <2>2. pc[t] = "delete" => op[t].kind = "undecl"
    BY <1>1 DEF ControlInv, CallInv
  <2> QED BY <1>2, <2>1, <2>2 DEF DeclAssign, UndeclDelete
<1> QED BY <1>3, <1>a, <1>4, <1>5, <1>6, <1>8, <1>9, <1>10, <1>11, <1>12, <1>13, <1>14,
           <1>15, <1>16 DEF Step

(* Every step keeps it.                                                    *)
LEMMA ShownStep ==
  ASSUME ControlInv, HoldInv, HoldInv', ShownInv, [Next]_vars
  PROVE  ShownInv'
<1>1. CASE UNCHANGED vars
  <2>1. UNCHANGED <<value, ready, lock, pc, op, i, ret, key, out, before, disturbed, tab>>
    BY <1>1 DEF vars
  <2>2. Shown' = Shown /\ Asked(AbusThread)' = Asked(AbusThread) /\ Walked(tab)' = Walked(tab)
    BY <2>1 DEF Shown, Asked
  <2>3. Collected => Collected'
    BY <2>1, <2>2 DEF Collected
  <2> QED BY <2>1, <2>3 DEF ShownInv
<1>2. CASE Next
  <2>1. PICK t \in Threads : Act(t)
    BY <1>2, NextIs
  <2> QED BY <2>1, ShownOther, ShownOwn
<1> QED BY <1>1, <1>2

(* The response to a get without an error shows the attributes that were   *)
(* asked as they are at one moment, or all of them, unless another thread  *)
(* moved the position of the table under the walk: for any requests and    *)
(* any attributes, in tables of any shape.                                 *)
THEOREM GetsShowSnapshots ==
  ASSUME "undecl" \in Alone
  PROVE  Spec => []GetShowsSnapshot
<1>1. Init => ControlInv /\ HoldInv /\ ShownInv
  <2>1. Init => ShownInv
    BY AttrAssumption DEF Init, ShownInv, Threads
  <2> QED BY <2>1, ControlInit, HoldInit
<1>2. ControlInv /\ HoldInv /\ ShownInv /\ [Next]_vars => ControlInv' /\ HoldInv' /\ ShownInv'
  BY ControlStep, HoldStep, ShownStep
<1>3. ControlInv /\ ShownInv => GetShowsSnapshot
  <2> DEFINE t == AbusThread
  <2> SUFFICES ASSUME ControlInv, ShownInv, pc[t] = "unlock", op[t].kind = "get", ret[t] = "ok",
                      ~disturbed
               PROVE  /\ \A p \in out : p[2] = value[p[1]]
                      /\ IF Empty \in Asked(t) THEN before.ready \subseteq Shown
                         ELSE Shown = Asked(t)
    BY DEF GetShowsSnapshot
  <2>1. t \in Threads /\ Critical(t)
    BY DEF Threads, Critical
  <2>2. Collected
    BY <2>1 DEF ControlInv, SharedInv, ShownInv
  <2>3. DOMAIN op[t].items = 1 .. i[t]
    <3>1. DOMAIN op[t].items = 1 .. Len(op[t].items)
      BY <2>1, Working, Shape DEF ControlInv
    <3> QED BY <2>2, <3>1 DEF Collected
  <2>4. CASE Empty \in Asked(t)
    BY <2>2, <2>3, <2>4 DEF Collected, Asked
  <2>5. CASE Empty \notin Asked(t)
    <3>1. \A n \in 1 .. i[t] : op[t].items[n].name # Empty
      BY <2>3, <2>5 DEF Asked
    <3>2. Asked(t) \subseteq Shown
      BY <2>2, <2>3, <3>1 DEF Collected, Asked
    <3>3. Shown \subseteq Asked(t)
      BY <2>2, <2>5 DEF Collected
    <3>4. Shown = Asked(t)
      BY <3>2, <3>3
    <3>5. \A p \in out : p[2] = value[p[1]]
      BY <2>2 DEF Collected
    <3> QED BY <2>5, <3>4, <3>5
  <2> QED BY <2>4, <2>5
<1> QED BY <1>1, <1>2, <1>3, PTL DEF Spec
=============================================================================
