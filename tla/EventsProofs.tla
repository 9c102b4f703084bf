---------------------------- MODULE EventsProofs ----------------------------
(***************************************************************************)
(* Theorems about the subscribers of an event (Events), for any endpoints, *)
(* hash values and bounds, from the lemmas on the hash table.              *)
(***************************************************************************)
EXTENDS Events, HashTabProofs

Requests == [op : {"subscribe", "unsubscribe"}, from : Endpoints]

-----------------------------------------------------------------------------
(* Counting requests.                                                      *)

(* There are finitely many.                                                *)
LEMMA AsksFinite ==
  ASSUME NEW q, NEW n \in Nat, NEW op
  PROVE  IsFiniteSet(Asks(q, n, op)) /\ Asked(q, n, op) \in Nat
<1>1. IsFiniteSet(1 .. n)
  BY FS_Interval
<1>2. IsFiniteSet(Asks(q, n, op))
  BY <1>1, FS_Subset DEF Asks
<1> QED BY <1>2, FS_CardinalityType DEF Asked

(* A set with and without one member.                                      *)
LEMMA OneLess ==
  ASSUME NEW A, NEW B, NEW x, NEW d, IsFiniteSet(B), Cardinality(A) \in Nat,
         Cardinality(B) \in Nat, Cardinality(B \ {x}) = Cardinality(A),
         x \in B => d = 1, x \notin B => d = 0
  PROVE  Cardinality(B) = Cardinality(A) + d
<1>1. CASE x \in B
  <2>1. Cardinality(B \ {x}) = Cardinality(B) - 1
    BY <1>1, FS_RemoveElement
  <2> QED BY <1>1, <2>1
<1>2. CASE x \notin B
  <2>1. B \ {x} = B
    BY <1>2
  <2> QED BY <1>2, <2>1
<1> QED BY <1>1, <1>2

(* A request that is queued counts at the end only.                        *)
LEMMA AskedAppend ==
  ASSUME NEW q \in Seq(Requests), NEW r \in Requests, NEW op
  PROVE  LET p == Append(q, r)
         IN  /\ \A n \in 0 .. Len(q) : Asked(p, n, op) = Asked(q, n, op)
             /\ Asked(p, Len(q) + 1, op)
                  = Asked(q, Len(q), op) + IF r.op = op THEN 1 ELSE 0
<1> DEFINE p == Append(q, r)
           N == Len(q)
<1>1. N \in Nat /\ Len(p) = N + 1 /\ p[N + 1] = r /\ \A j \in 1 .. N : p[j] = q[j]
  OBVIOUS
<1>2. \A n \in 0 .. N : Asks(p, n, op) = Asks(q, n, op)
  BY <1>1 DEF Asks
<1>3. N + 1 \notin Asks(q, N, op)
  BY <1>1 DEF Asks
<1>4. Asks(p, N + 1, op) = Asks(q, N, op) \cup IF r.op = op THEN {N + 1} ELSE {}
  BY <1>1 DEF Asks
<1>5. IsFiniteSet(Asks(q, N, op)) /\ Asked(q, N, op) \in Nat
  BY <1>1, AsksFinite
<1>6. Asked(p, N + 1, op) = Asked(q, N, op) + IF r.op = op THEN 1 ELSE 0
  <2>1. CASE r.op = op
    BY <1>3, <1>4, <1>5, <2>1, FS_AddElement DEF Asked
  <2>2. CASE r.op # op
    <3>1. Asks(p, N + 1, op) = Asks(q, N, op)
      BY <1>4, <2>2
    <3> QED BY <1>5, <2>2, <3>1 DEF Asked
  <2> QED BY <2>1, <2>2
<1> QED BY <1>2, <1>6 DEF Asked

(* A request that is taken from the queue no longer counts.                *)
LEMMA AskedTail ==
  ASSUME NEW q \in Seq(Requests), q # <<>>, NEW op, NEW n \in 0 .. Len(q) - 1
  PROVE  Asked(q, n + 1, op) = Asked(Tail(q), n, op) + IF Head(q).op = op THEN 1 ELSE 0
<1> DEFINE p == Tail(q)
           N == Len(q)
           A == Asks(p, n, op)
           B == Asks(q, n + 1, op)
           f == [j \in A |-> j + 1]
<1>1. N \in Nat /\ Len(p) = N - 1 /\ \A j \in 1 .. N - 1 : p[j] = q[j + 1]
  OBVIOUS
<1>2. n \in Nat /\ n <= N - 1 /\ Head(q) = q[1]
  BY <1>1
<1>3. \A j \in 1 .. n : p[j] = q[j + 1]
  BY <1>1, <1>2
<1>4. \A j \in A : j \in 1 .. n /\ j + 1 \in B \ {1}
  BY <1>2, <1>3 DEF Asks
<1>5. \A k \in B \ {1} : k - 1 \in A /\ (k - 1) + 1 = k
  BY <1>2, <1>3 DEF Asks
<1>6. IsFiniteSet(A) /\ Cardinality(A) \in Nat /\ IsFiniteSet(B) /\ Cardinality(B) \in Nat
  BY <1>2, AsksFinite DEF Asked
<1>7. Cardinality(B \ {1}) = Cardinality(A)
  <2>1. f \in [A -> B \ {1}] /\ \A j \in A : f[j] = j + 1
    BY <1>4
  <2> HIDE DEF f
  <2>2. IsInjective(f)
    BY <1>4, <2>1 DEF IsInjective
  <2>3. \A k \in B \ {1} : \E j \in A : f[j] = k
    BY <1>5, <2>1
  <2>4. f \in Injection(A, B \ {1}) /\ f \in Surjection(A, B \ {1})
    <3> HIDE DEF A, B
    <3> QED BY <2>1, <2>2, <2>3 DEF Injection, Surjection
  <2>5. IsFiniteSet(B \ {1})
    BY <1>6, FS_Subset
  <2> HIDE DEF A, B
  <2> QED BY <2>4, <2>5, FS_Injection
<1> DEFINE d == IF Head(q).op = op THEN 1 ELSE 0
<1>8. (1 \in B => d = 1) /\ (1 \notin B => d = 0)
  BY <1>2 DEF Asks
<1>9. Cardinality(B) = Cardinality(A) + d
  <2> HIDE DEF A, B, d
  <2> QED BY <1>6, <1>7, <1>8, OneLess
<1> QED BY <1>9 DEF Asked

-----------------------------------------------------------------------------
(* Sequences of characters: two that are joined.                           *)
LEMMA Joined ==
  ASSUME NEW C, NEW s \in Seq(C), NEW e \in Seq(C)
  PROVE  s \o e \in Seq(C) /\ Len(s \o e) = Len(s) + Len(e) /\ Len(s) \in Nat
OBVIOUS

(* A sequence over more characters.                                        *)
LEMMA MoreCharacters ==
  ASSUME NEW S, NEW T, NEW s \in Seq(S)
  PROVE  s \in Seq(S \cup T) /\ Len(s) \in Nat /\ (s # <<>> => Len(s) # 0)
OBVIOUS

(* What was printed, without its first eight characters.                   *)
LEMMA Skipped ==
  ASSUME NEW C, NEW m \in Seq(C), Len(m) >= 8
  PROVE  Len(EventNameFromMethod(m)) = Len(m) - 8
<1>1. EvtPrefixStrlen + 1 = 9
  BY DEF EvtPrefixStrlen
<1>2. EventNameFromMethod(m) = SubSeq(m, 9, Len(m))
  BY <1>1 DEF EventNameFromMethod
<1>3. CASE Len(m) = 8
  BY <1>2, <1>3
<1>4. CASE Len(m) >= 9
  BY <1>2, <1>4
<1> DEFINE n == Len(m)
<1>5. n = 8 \/ n >= 9
  <2>1. n \in Nat /\ n >= 8
    OBVIOUS
  <2> HIDE DEF n
  <2> QED BY <2>1
<1> QED BY <1>3, <1>4, <1>5, Zenon

(* The name of the event is not found again in that of its method: eight   *)
(* characters are skipped where seven were printed, so the name of the     *)
(* service is left in front of it.                                         *)
LEMMA NameNotRecovered ==
  ASSUME ServiceName # <<>>
  PROVE  EventNameFromMethod(SnprintEventMethod(ServiceName, EventName)) # EventName
<1> DEFINE P == {"_", "e", "v", "n", "t", "%"}
           C == STRING \cup P
           m1 == EvtPrefix \o ServiceName
           m2 == m1 \o <<"%">>
           m == m2 \o EventName
<1>1. ServiceName \in Seq(STRING) /\ EventName \in Seq(STRING)
  BY EventAssumption
<1>2. EvtPrefix \in Seq(P) /\ Len(EvtPrefix) = 7
  BY DEF EvtPrefix
<1>3. <<"%">> \in Seq(P) /\ Len(<<"%">>) = 1
  OBVIOUS
<1> HIDE DEF P
<1>4. EvtPrefix \in Seq(C) /\ <<"%">> \in Seq(C)
  BY <1>2, <1>3
<1>5. /\ ServiceName \in Seq(C) /\ Len(ServiceName) \in Nat /\ Len(ServiceName) # 0
      /\ EventName \in Seq(C) /\ Len(EventName) \in Nat
  BY <1>1, MoreCharacters
<1> HIDE DEF C
<1>6. m1 \in Seq(C) /\ Len(m1) = 7 + Len(ServiceName)
  BY <1>2, <1>4, <1>5, Joined
<1> HIDE DEF m1
<1>7. m2 \in Seq(C) /\ Len(m2) = Len(m1) + 1
  BY <1>3, <1>4, <1>6, Joined
<1> HIDE DEF m2
<1>8. m \in Seq(C) /\ Len(m) = Len(m2) + Len(EventName)
  BY <1>5, <1>7, Joined
<1> HIDE DEF m
<1>9. Len(m) = 8 + Len(ServiceName) + Len(EventName)
  BY <1>5, <1>6, <1>7, <1>8
<1>10. Len(EventNameFromMethod(m)) = Len(ServiceName) + Len(EventName)
  BY <1>5, <1>8, <1>9, Skipped
<1>11. EventNameFromMethod(m) # EventName
  BY <1>5, <1>10
<1>12. SnprintEventMethod(ServiceName, EventName) = m
  BY DEF SnprintEventMethod, m, m1, m2
<1> QED BY <1>11, <1>12

-----------------------------------------------------------------------------
(* Types and the table, whoever publishes and whenever the event is        *)
(* undeclared.                                                             *)

(* Taking a request from the queue.                                        *)
LEMMA QueueTail ==
  ASSUME NEW q \in Seq(Requests), q # <<>>
  PROVE  /\ Head(q) \in Requests /\ Tail(q) \in Seq(Requests)
         /\ Len(Tail(q)) = Len(q) - 1 /\ Len(q) \in Nat \ {0}
         /\ \A op : Asked(q, Len(q), op)
                   = Asked(Tail(q), Len(q) - 1, op) + IF Head(q).op = op THEN 1 ELSE 0
<1>1. /\ Head(q) \in Requests /\ Tail(q) \in Seq(Requests)
      /\ Len(Tail(q)) = Len(q) - 1 /\ Len(q) \in Nat \ {0}
  OBVIOUS
<1>2. Len(q) - 1 \in 0 .. Len(q) - 1 /\ (Len(q) - 1) + 1 = Len(q)
  BY <1>1
<1>3. ASSUME NEW op
      PROVE  Asked(q, Len(q), op)
               = Asked(Tail(q), Len(q) - 1, op) + IF Head(q).op = op THEN 1 ELSE 0
  <2> DEFINE n == Len(q) - 1
  <2>1. n \in 0 .. Len(q) - 1 /\ n + 1 = Len(q)
    BY <1>2
  <2> HIDE DEF n
  <2>2. Asked(q, n + 1, op) = Asked(Tail(q), n, op) + IF Head(q).op = op THEN 1 ELSE 0
    BY <2>1, AskedTail
  <2> QED BY <2>1, <2>2 DEF n
<1> QED BY <1>1, <1>3

(* A table that is deleted from, also when there is nothing to delete.     *)
LEMMA DelAny ==
  ASSUME NEW h, TableInv(h)
  PROVE  /\ TableInv(HDel(h)) /\ Items(HDel(h)) = Items(h) \ {h.ipos}
         /\ h.ipos = NoKey => HDel(h) = h
<1>1. CASE h.ipos = NoKey
  <2>1. HDel(h) = h /\ NoKey \notin Items(h)
    BY <1>1, KeyAssumption DEF HDel, Items
  <2> QED BY <1>1, <2>1
<1>2. CASE h.ipos # NoKey
  BY <1>2, DelSound
<1> QED BY <1>1, <1>2

(* Types and the table are kept by every step.                             *)
LEMMA BaseStep == BaseInv /\ [Next]_vars => BaseInv'
<1> SUFFICES ASSUME BaseInv, [Next]_vars PROVE BaseInv'
  OBVIOUS
<1> USE EventAssumption
<1>0. /\ TypeOK /\ TableInv(tab) /\ KeysInv /\ inbox \in Seq(Requests)
      /\ tab.ipos \in Keys \cup {NoKey} /\ Items(tab) \subseteq Keys
      /\ \A op : Asked(inbox, Len(inbox), op) \in Nat
  <2>1. inbox \in Seq(Requests) /\ Len(inbox) \in Nat
    BY DEF BaseInv, TypeOK, Requests
  <2>2. tab.ipos \in Keys \cup {NoKey}
    BY DEF BaseInv, TableInv, TableType
  <2> QED BY <2>1, <2>2, AsksFinite DEF BaseInv, Items
<1>1. ASSUME NEW e \in Endpoints, SubscribeCall(e) PROVE BaseInv'
  <2> DEFINE r == [op |-> "subscribe", from |-> e]
  <2>1. r \in Requests /\ r.op = "subscribe" /\ inbox' = Append(inbox, r)
    BY <1>1 DEF SubscribeCall, Send, Requests
  <2> HIDE DEF r
  <2>2. inbox' \in Seq(Requests) /\ Len(inbox') = Len(inbox) + 1 /\ Len(inbox) \in Nat
    BY <1>0, <2>1
  <2>3. Asked(inbox', Len(inbox'), "subscribe") = Asked(inbox, Len(inbox), "subscribe") + 1
    BY <1>0, <2>1, <2>2, AskedAppend
  <2>4. Quantify(DOMAIN inbox, LAMBDA i : inbox[i].op = "subscribe")
          = Asked(inbox, Len(inbox), "subscribe")
    <3>1. DOMAIN inbox = 1 .. Len(inbox)
      BY <1>0
    <3>2. Quantify(DOMAIN inbox, LAMBDA i : inbox[i].op = "subscribe")
            = Cardinality({i \in DOMAIN inbox : inbox[i].op = "subscribe"})
      BY DEF Quantify
    <3> QED BY <3>1, <3>2 DEF Asked, Asks
  <2>5. cnt + Asked(inbox, Len(inbox), "subscribe") < MaxSubs
    BY <1>1, <2>4 DEF SubscribeCall
  <2>6. cnt \in Nat
    BY <1>0 DEF TypeOK
  <2>7. KeysInv'
    <3>1. cnt' = cnt /\ tab' = tab
      BY <1>1 DEF SubscribeCall, service
    <3>2. cnt + Asked(inbox', Len(inbox'), "subscribe") <= MaxSubs
      BY <1>0, <2>3, <2>5, <2>6
    <3> QED BY <1>0, <3>1, <3>2 DEF KeysInv
  <2>8. TypeOK'
    BY <1>0, <1>1, <2>2 DEF TypeOK, SubscribeCall, service, publication, Requests
  <2> QED BY <1>0, <1>1, <2>7, <2>8 DEF BaseInv, SubscribeCall, service
<1>2. ASSUME NEW e \in Endpoints, UnsubscribeCall(e) PROVE BaseInv'
  <2> DEFINE r == [op |-> "unsubscribe", from |-> e]
  <2>1. r \in Requests /\ r.op = "unsubscribe" /\ inbox' = Append(inbox, r)
    BY <1>2 DEF UnsubscribeCall, Send, Requests
  <2> HIDE DEF r
  <2>2. inbox' \in Seq(Requests) /\ Len(inbox') = Len(inbox) + 1 /\ Len(inbox) \in Nat
    BY <1>0, <2>1
  <2>3. Asked(inbox', Len(inbox'), "subscribe") = Asked(inbox, Len(inbox), "subscribe")
    BY <1>0, <2>1, <2>2, AskedAppend
  <2>4. KeysInv'
    BY <1>0, <1>2, <2>3 DEF KeysInv, UnsubscribeCall, service
  <2>5. TypeOK'
    BY <1>0, <1>2, <2>2 DEF TypeOK, UnsubscribeCall, service, publication, Requests
  <2> QED BY <1>0, <1>2, <2>4, <2>5 DEF BaseInv, UnsubscribeCall, service
<1>3. ASSUME NEW e \in Endpoints, Leave(e) PROVE BaseInv'
  <2>1. TypeOK'
    BY <1>0, <1>3 DEF TypeOK, Leave, service, publication
  <2> QED BY <1>0, <1>3, <2>1 DEF BaseInv, KeysInv, Leave, service
<1>15. ASSUME NEW e \in Endpoints, SubscribeFails(e) \/ UnsubscribeFails(e) PROVE BaseInv'
  <2>1. TypeOK'
    BY <1>0, <1>15 DEF TypeOK, SubscribeFails, UnsubscribeFails, service, publication
  <2> QED BY <1>0, <1>15, <2>1
          DEF BaseInv, KeysInv, SubscribeFails, UnsubscribeFails, service
<1>16. CASE LookupEvent
  <2>1. CASE inbox' = inbox
    <3>1. /\ dropped' \in BOOLEAN /\ found' \in {"none", "event", "freed"}
          /\ told' \in [Endpoints -> BOOLEAN]
      BY <1>0, <1>16 DEF TypeOK, LookupEvent, Answered
    <3>2. TypeOK'
      BY <1>0, <1>16, <2>1, <3>1 DEF TypeOK, LookupEvent, publication
    <3> QED BY <1>0, <1>16, <2>1, <3>2 DEF BaseInv, KeysInv, LookupEvent
  <2>2. CASE inbox' = Tail(inbox)
    <3>1. inbox # <<>>
      BY <1>16 DEF LookupEvent
    <3> DEFINE d == IF Head(inbox).op = "subscribe" THEN 1 ELSE 0
    <3>2. /\ Head(inbox) \in Requests /\ inbox' \in Seq(Requests) /\ Len(inbox') \in Nat
          /\ Asked(inbox, Len(inbox), "subscribe") = Asked(inbox', Len(inbox'), "subscribe") + d
      <4>1. /\ Head(inbox) \in Requests /\ inbox' \in Seq(Requests)
            /\ Len(inbox') = Len(inbox) - 1 /\ Len(inbox) \in Nat \ {0}
            /\ \A op : Asked(inbox, Len(inbox), op)
                  = Asked(inbox', Len(inbox) - 1, op) + IF Head(inbox).op = op THEN 1 ELSE 0
        BY <1>0, <2>2, <3>1, QueueTail
      <4> QED BY <4>1
    <3>8. d \in {0, 1}
      OBVIOUS
    <3> HIDE DEF d
    <3>3. Asked(inbox', Len(inbox'), "subscribe") \in Nat
      BY <3>2, AsksFinite
    <3>4. tab' = tab /\ cnt' = cnt
      BY <1>16 DEF LookupEvent
    <3>5. cnt + Asked(inbox', Len(inbox'), "subscribe") <= MaxSubs
      BY <1>0, <3>2, <3>3, <3>8 DEF KeysInv, TypeOK
    <3>6. /\ dropped' \in BOOLEAN /\ found' \in {"none", "event", "freed"}
          /\ told' \in [Endpoints -> BOOLEAN]
      BY <1>0, <1>16 DEF TypeOK, LookupEvent, Answered
    <3>7. TypeOK'
      BY <1>0, <1>16, <3>2, <3>4, <3>6 DEF TypeOK, LookupEvent, publication, Requests
    <3> QED BY <1>0, <3>4, <3>5, <3>7 DEF BaseInv, KeysInv
  <2> QED BY <1>16, <2>1, <2>2 DEF LookupEvent
<1>4. CASE DeclEvent
  <2>1. TypeOK'
    BY <1>0, <1>4 DEF TypeOK, DeclEvent, CreateIfNotThere, client, publication
  <2> QED BY <1>0, <1>4, <2>1 DEF BaseInv, KeysInv, DeclEvent, CreateIfNotThere, client
<1>5. CASE UndeclEvent
  <2>1. tab' = HCreate(2) /\ TableInv(tab') /\ Items(tab') = {} /\ cnt' = 0
    BY <1>5, CreateSound DEF UndeclEvent
  <2>2. TypeOK'
    <3>1. dropped' \in BOOLEAN /\ found' \in {"none", "event", "freed"}
      BY <1>0, <1>5 DEF TypeOK, UndeclEvent
    <3>2. cnt' \in 0 .. MaxSubs /\ declared' \in BOOLEAN
      <4>1. cnt' = 0 /\ declared' = FALSE
        BY <1>5 DEF UndeclEvent
      <4>2. MaxSubs \in Nat
        BY EventAssumption
      <4>3. cnt' \in 0 .. MaxSubs
        BY <4>1, <4>2
      <4>4. declared' \in BOOLEAN
        BY <4>1, Zenon
      <4> QED BY <4>3, <4>4
    <3>3. stale' \subseteq Publishers
      BY <1>5 DEF UndeclEvent
    <3> QED BY <1>0, <1>5, <3>1, <3>2, <3>3 DEF TypeOK, UndeclEvent, client
  <2>3. Asked(inbox, Len(inbox), "subscribe") <= MaxSubs
    BY <1>0 DEF KeysInv, TypeOK
  <2>4. KeysInv'
    BY <1>0, <1>5, <2>1, <2>3 DEF KeysInv, UndeclEvent, client
  <2> QED BY <2>1, <2>2, <2>4 DEF BaseInv
<1>6. CASE HandleSubscribe
  <2>1. inbox # <<>> /\ Head(inbox).op = "subscribe" /\ inbox' = Tail(inbox)
    BY <1>6 DEF HandleSubscribe, Received
  <2>2. /\ Head(inbox) \in Requests /\ inbox' \in Seq(Requests)
        /\ Asked(inbox, Len(inbox), "subscribe") = Asked(inbox', Len(inbox'), "subscribe") + 1
        /\ Len(inbox') \in Nat
    BY <1>0, <2>1, QueueTail
  <2>3. Asked(inbox', Len(inbox'), "subscribe") \in Nat
    BY <2>2, AsksFinite
  <2>4. Head(inbox).from \in Stuff
    BY <2>2 DEF Requests, Endpoints
  <2>7. told' \in [Endpoints -> BOOLEAN] /\ found' = "none" /\ dropped' = dropped
    BY <1>0, <1>6 DEF TypeOK, HandleSubscribe, Received, Answered
  <2>5. CASE found = "event"
    <3>1. cnt \in Nat /\ cnt + 1 + Asked(inbox', Len(inbox'), "subscribe") <= MaxSubs
      BY <1>0, <2>2, <2>3 DEF KeysInv, TypeOK
    <3>2. cnt \in Keys /\ cnt \notin Items(tab)
      BY <1>0, <2>3, <3>1 DEF KeysInv
    <3>3. tab' = HAdd(tab, cnt, Head(inbox).from) /\ cnt' = cnt + 1
      BY <1>6, <2>5 DEF HandleSubscribe, KeyAfter
    <3>4. TableInv(tab') /\ Items(tab') = Items(tab) \cup {cnt}
      BY <1>0, <2>4, <3>2, <3>3, AddNewSound
    <3>5. \A k \in Items(tab') : k < cnt'
      BY <1>0, <3>1, <3>3, <3>4 DEF KeysInv
    <3>6. KeysInv'
      BY <3>1, <3>3, <3>5 DEF KeysInv
    <3>7. cnt' \in 0 .. MaxSubs
      BY <2>3, <3>1, <3>3
    <3>8. TypeOK'
      BY <1>0, <1>6, <2>2, <2>5, <2>7, <3>7 DEF TypeOK, HandleSubscribe, publication, Requests, Endpoints
    <3> QED BY <3>4, <3>6, <3>8 DEF BaseInv
  <2>6. CASE found # "event"
    <3>1. tab' = tab /\ cnt' = cnt /\ fault' = TRUE
      BY <1>6, <2>6 DEF HandleSubscribe
    <3>2. cnt + Asked(inbox', Len(inbox'), "subscribe") <= MaxSubs
      BY <1>0, <2>2, <2>3 DEF KeysInv, TypeOK
    <3>3. TypeOK'
      BY <1>0, <1>6, <2>2, <2>7, <3>1 DEF TypeOK, HandleSubscribe, publication, Requests, Endpoints
    <3> QED BY <1>0, <3>1, <3>2, <3>3 DEF BaseInv, KeysInv
  <2> QED BY <2>5, <2>6
<1>7. CASE HandleUnsubscribe
  <2>1. inbox # <<>> /\ Head(inbox).op = "unsubscribe" /\ inbox' = Tail(inbox)
    BY <1>7 DEF HandleUnsubscribe, Received
  <2>2. /\ inbox' \in Seq(Requests)
        /\ Asked(inbox, Len(inbox), "subscribe") = Asked(inbox', Len(inbox'), "subscribe") + 0
        /\ Len(inbox') \in Nat
    BY <1>0, <2>1, QueueTail
  <2>3. Asked(inbox', Len(inbox'), "subscribe") \in Nat
    BY <2>2, AsksFinite
  <2>4. TableInv(tab') /\ Items(tab') \subseteq Items(tab) /\ fault' \in BOOLEAN
    <3>1. CASE found = "event"
      BY <1>0, <1>7, <3>1, DelAny DEF HandleUnsubscribe, DeleteCurrent
    <3>2. CASE found # "event"
      BY <1>0, <1>7, <3>2 DEF HandleUnsubscribe, TypeOK
    <3> QED BY <3>1, <3>2
  <2>5. cnt' = cnt /\ found' = "none"
    BY <1>7 DEF HandleUnsubscribe, Received
  <2>6. KeysInv'
    BY <1>0, <2>2, <2>3, <2>4, <2>5 DEF KeysInv
  <2>7. TypeOK'
    BY <1>0, <1>7, <2>2, <2>4, <2>5 DEF TypeOK, HandleUnsubscribe, publication, Requests
  <2> QED BY <2>4, <2>6, <2>7 DEF BaseInv
<1>8. ASSUME NEW p \in Publishers, EventInit(p) PROVE BaseInv'
  <2>1. TypeOK'
    BY <1>0, <1>8 DEF TypeOK, EventInit, CreateIfNotThere, client, Goto
  <2> QED BY <1>0, <1>8, <2>1 DEF BaseInv, KeysInv, EventInit, CreateIfNotThere, client
<1>9. ASSUME NEW p \in Publishers, PublishFirst(p) PROVE BaseInv'
  <2>1. TableInv(tab') /\ Items(tab') = Items(tab)
    BY <1>0, <1>9, FirstSound DEF PublishFirst
  <2>2. TypeOK'
    BY <1>0, <1>9 DEF TypeOK, PublishFirst, client, Goto
  <2> QED BY <1>0, <1>9, <2>1, <2>2 DEF BaseInv, KeysInv, PublishFirst, client
<1>10. ASSUME NEW p \in Publishers, PublishRead(p) PROVE BaseInv'
  <2>1. TypeOK'
    BY <1>0, <1>10 DEF TypeOK, PublishRead, client, service, Goto
  <2> QED BY <1>0, <1>10, <2>1 DEF BaseInv, KeysInv, PublishRead, client, service
<1>11. ASSUME NEW p \in Publishers, PublishSend(p) PROVE BaseInv'
  <2>1. TableInv(tab') /\ Items(tab') \subseteq Items(tab) /\ fault' \in BOOLEAN
    <3>1. CASE tab' = tab
      BY <1>0, <1>11, <3>1 DEF PublishSend, TypeOK, DeleteCurrent
    <3>2. CASE DeleteCurrent
      BY <1>0, <3>2, DelAny DEF DeleteCurrent
    <3> QED BY <1>11, <3>1, <3>2 DEF PublishSend
  <2>2. tried' \in [Publishers -> [Keys -> 0 .. 2]] /\ failed' \in [Publishers -> SUBSET Keys]
    <3>1. CASE addr[p] \notin Items(tab) \/ p \in stale
      BY <1>0, <1>11, <3>1 DEF PublishSend, TypeOK
    <3>2. CASE ~(addr[p] \notin Items(tab) \/ p \in stale)
      <4> DEFINE k == addr[p]
                 m == Min({tried[p][k] + 1, 2})
      <4>1. k \in Keys /\ tried[p][k] \in 0 .. 2
        BY <1>0, <3>2 DEF TypeOK
      <4>2. m \in 0 .. 2
        <5>1. {tried[p][k] + 1, 2} \subseteq Nat /\ 2 \in {tried[p][k] + 1, 2}
          BY <4>1
        <5>2. m \in {tried[p][k] + 1, 2} /\ m <= 2
          BY <5>1, MinIs
        <5> QED BY <4>1, <5>2
      <4>3. tried' = [tried EXCEPT ![p][k] = m]
        BY <1>11, <3>2 DEF PublishSend
      <4> DEFINE F == failed[p] \cup {k}
      <4>4. failed' = failed \/ failed' = [failed EXCEPT ![p] = F]
        BY <1>11, <3>2 DEF PublishSend
      <4>5. F \in SUBSET Keys
        BY <1>0, <4>1 DEF TypeOK
      <4> HIDE DEF k, m, F
      <4>6. tried' \in [Publishers -> [Keys -> 0 .. 2]]
        BY <1>0, <4>1, <4>2, <4>3 DEF TypeOK
      <4>7. failed' \in [Publishers -> SUBSET Keys]
        BY <1>0, <4>4, <4>5 DEF TypeOK
      <4> QED BY <4>6, <4>7
    <3> QED BY <3>1, <3>2
  <2>3. TypeOK'
    BY <1>0, <1>11, <2>1, <2>2 DEF TypeOK, PublishSend, client, Goto
  <2> QED BY <1>0, <1>11, <2>1, <2>3 DEF BaseInv, KeysInv, PublishSend, client
<1>12. ASSUME NEW p \in Publishers, PublishNext(p) PROVE BaseInv'
  <2>1. TableInv(tab') /\ Items(tab') = Items(tab)
    BY <1>0, <1>12, NextSound DEF PublishNext
  <2>2. TypeOK'
    BY <1>0, <1>12 DEF TypeOK, PublishNext, client, Goto
  <2> QED BY <1>0, <1>12, <2>1, <2>2 DEF BaseInv, KeysInv, PublishNext, client
<1>13. ASSUME NEW p \in Publishers, EventCleanup(p) PROVE BaseInv'
  <2>1. TypeOK'
    BY <1>0, <1>13 DEF TypeOK, EventCleanup, client, service, Goto, NoneTried
  <2> QED BY <1>0, <1>13, <2>1 DEF BaseInv, KeysInv, EventCleanup, client, service
<1>14. CASE UNCHANGED vars
  BY <1>0, <1>14 DEF BaseInv, KeysInv, TypeOK, vars
<1> QED BY <1>1, <1>2, <1>3, <1>4, <1>5, <1>6, <1>7, <1>8, <1>9, <1>10, <1>11, <1>12,
           <1>13, <1>14, <1>15, <1>16 DEF Next, Publish, Crashed

(* No request is in the empty queue.                                       *)
LEMMA AskedNone ==
  ASSUME NEW op
  PROVE  Len(<<>>) = 0 /\ Asked(<<>>, 0, op) = 0
<1>1. Asks(<<>>, 0, op) = {}
  BY DEF Asks
<1> QED BY <1>1, FS_EmptySet DEF Asked

(* Types and the table hold at the start.                                  *)
LEMMA BaseInit == Init => BaseInv
<1> SUFFICES ASSUME Init PROVE BaseInv
  OBVIOUS
<1>1. TableInv(tab) /\ Items(tab) = {}
  BY CreateSound DEF Init
<1>2. inbox = <<>> /\ Len(inbox) = 0 /\ Asked(inbox, 0, "subscribe") = 0
  BY AskedNone DEF Init
<1>3. MaxSubs \in Nat /\ cnt = 0
  BY EventAssumption DEF Init
<1>4. KeysInv
  BY <1>1, <1>2, <1>3 DEF KeysInv
<1>5. NoneTried \in [Keys -> 0 .. 2]
  BY DEF NoneTried
<1>6. cnt \in 0 .. MaxSubs /\ inbox \in Seq(Requests)
  BY <1>2, <1>3
<1>7. TypeOK
  BY <1>5, <1>6 DEF Init, TypeOK, Requests
<1> QED BY <1>1, <1>4, <1>7 DEF BaseInv

(* Whoever publishes, whenever the event is undeclared and whatever its    *)
(* name, the variables keep their types and the table stays sane           *)
(* (hsanity()).                                                            *)
THEOREM SubscribersTyped == Spec => [](TypeOK /\ TableSane)
<1>1. BaseInv => TypeOK /\ TableSane
  BY SoundIsSane DEF BaseInv, TableSane
<1> QED BY <1>1, BaseInit, BaseStep, PTL DEF Spec

-----------------------------------------------------------------------------
(* Publication by the A-Bus thread.                                        *)

(* The walk of a publication is kept by every step.                        *)
LEMMA WalkStep ==
  ASSUME Publishers \subseteq {AbusThread}, ~Overlap, ServiceName # <<>>,
         BaseInv, BaseInv', stale = {}, NEW p \in Publishers, WalkInv(p), [Next]_vars
  PROVE  WalkInv(p)'
<1>0. p = AbusThread /\ TypeOK /\ TableInv(tab) /\ TypeOK' /\ TableInv(tab')
  BY DEF BaseInv
<1>1. ASSUME pub'[p] = "idle", tried' = tried, pub[p] = "idle" PROVE WalkInv(p)'
  BY <1>1 DEF WalkInv
<1>2. ASSUME UNCHANGED <<tab, tried, addr, pub>> PROVE WalkInv(p)'
  BY <1>2 DEF WalkInv, SentTo
<1>3. ASSUME NEW e \in Endpoints,
             \/ SubscribeCall(e) \/ SubscribeFails(e)
             \/ UnsubscribeCall(e) \/ UnsubscribeFails(e) \/ Leave(e)
      PROVE  WalkInv(p)'
  <2>1. UNCHANGED <<tab, tried, addr, pub, stale>>
    BY <1>3 DEF SubscribeCall, SubscribeFails, UnsubscribeCall, UnsubscribeFails, Leave,
                service, publication
  <2> QED BY <1>2, <2>1
<1>4. CASE DeclEvent
  <2>1. UNCHANGED <<tab, tried, addr, pub, stale>>
    BY <1>4 DEF DeclEvent, CreateIfNotThere, publication
  <2> QED BY <1>2, <2>1
<1>5. CASE UndeclEvent
  BY <1>1, <1>5 DEF UndeclEvent
<1>14. CASE LookupEvent
  <2>1. UNCHANGED <<tab, tried, addr, pub, stale>>
    BY <1>14 DEF LookupEvent, publication
  <2> QED BY <1>2, <2>1
<1>6. CASE HandleSubscribe \/ HandleUnsubscribe
  <2>1. pub[p] = "idle" /\ UNCHANGED <<pub, tried, stale>>
    BY <1>0, <1>6 DEF HandleSubscribe, HandleUnsubscribe, Received, AbusIdle, publication
  <2> QED BY <1>1, <2>1
<1>7. CASE EventInit(p)
  <2>1. pub[p] = "idle" /\ pub'[p] = "ready" /\ UNCHANGED <<tried, stale>>
    BY <1>0, <1>7 DEF EventInit, At, Goto, TypeOK
  <2> QED BY <2>1 DEF WalkInv
<1>8. CASE PublishFirst(p)
  <2>1. /\ pub[p] = "ready" /\ tab' = HFirst(tab) /\ UNCHANGED <<tried, stale>>
        /\ pub'[p] = IF HFirstRet(tab) THEN "read" ELSE "done"
    BY <1>0, <1>8 DEF PublishFirst, At, Goto, TypeOK
  <2>2. Items(tab') = Items(tab) /\ Items(tab) \subseteq Keys
    BY <1>0, <2>1, FirstSound DEF Items
  <2>3. \A k \in Items(tab') : tried'[p][k] = 0
    BY <2>1, <2>2 DEF WalkInv, NoneTried
  <2>4. CASE HFirstRet(tab)
    <3>1. Items(tab) # {}
      BY <1>0, <2>4, SoundIsSane
    <3>2. tab'.ipos # NoKey /\ Walked(tab') = {tab'.ipos}
      BY <1>0, <2>1, <3>1, WalkedFirst
    <3>3. SentTo(p, Walked(tab) \ {tab.ipos})'
      BY <2>3, <3>2 DEF SentTo
    <3> QED BY <2>1, <2>4, <3>2, <3>3 DEF WalkInv
  <2>5. CASE ~HFirstRet(tab)
    <3>1. Items(tab') = {}
      BY <1>0, <2>2, <2>5, SoundIsSane
    <3>2. SentTo(p, Items(tab))'
      BY <3>1 DEF SentTo
    <3> QED BY <2>1, <2>5, <3>2 DEF WalkInv
  <2> QED BY <2>1, <2>4, <2>5
<1>9. CASE PublishRead(p)
  <2>1. /\ pub[p] = "read" /\ pub'[p] = "send" /\ addr'[p] = tab.ipos
        /\ UNCHANGED <<tab, tried, stale>>
    BY <1>0, <1>9 DEF PublishRead, At, Goto, TypeOK, service
  <2> QED BY <2>1 DEF WalkInv, SentTo
<1>10. CASE PublishSend(p)
  <2>1. pub[p] = "send" /\ pub'[p] = "next" /\ stale' = stale
    BY <1>0, <1>10 DEF PublishSend, At, Goto, TypeOK
  <2>2. /\ tab.ipos # NoKey /\ addr[p] = tab.ipos
        /\ SentTo(p, Walked(tab) \ {tab.ipos})
    BY <2>1 DEF WalkInv
  <2>3. tab.ipos \in Items(tab) /\ tab.ipos \in Walked(tab) /\ Items(tab) \subseteq Keys
    BY <1>0, <2>2, WalkedHere DEF Items
  <2>4. tab' = tab /\ tried' = [tried EXCEPT ![p][tab.ipos] = Min({@ + 1, 2})]
    <3>1. EventNameFromMethod(SnprintEventMethod(ServiceName, EventName)) # EventName
      BY NameNotRecovered
    <3> QED BY <1>10, <2>2, <2>3, <3>1 DEF PublishSend
  <2>5. tried[p][tab.ipos] = 0
    BY <2>2, <2>3 DEF SentTo
  <2>6. Min({0 + 1, 2}) = 1
    <3>1. Min({1, 2}) \in {1, 2} /\ Min({1, 2}) <= 1
      BY MinIs
    <3> QED BY <3>1
  <2>7. tried' = [tried EXCEPT ![p][tab.ipos] = 1]
    BY <2>4, <2>5, <2>6
  <2>8. SentTo(p, Walked(tab))'
    <3>1. tried \in [Publishers -> [Keys -> 0 .. 2]]
      BY <1>0 DEF TypeOK
    <3>2. \A k \in Items(tab) : tried'[p][k] = IF k = tab.ipos THEN 1 ELSE tried[p][k]
      BY <2>3, <2>7, <3>1
    <3> QED BY <2>2, <2>3, <2>4, <3>2 DEF SentTo
  <2> QED BY <2>1, <2>2, <2>4, <2>8 DEF WalkInv
<1>11. CASE PublishNext(p)
  <2>1. /\ pub[p] = "next" /\ tab' = HNext(tab) /\ UNCHANGED <<tried, stale>>
        /\ pub'[p] = IF HNextRet(tab) THEN "read" ELSE "done"
    BY <1>0, <1>11 DEF PublishNext, At, Goto, TypeOK
  <2>2. Items(tab') = Items(tab) /\ tab.ipos # NoKey /\ SentTo(p, Walked(tab))
    BY <1>0, <2>1, NextSound DEF WalkInv
  <2>3. CASE HNextRet(tab)
    <3>1. /\ tab'.ipos # NoKey /\ tab'.ipos \notin Walked(tab)
          /\ Walked(tab') = Walked(tab) \cup {tab'.ipos}
      BY <1>0, <2>1, <2>2, <2>3, WalkedNext
    <3>2. Walked(tab') \ {tab'.ipos} = Walked(tab)
      BY <3>1
    <3>3. SentTo(p, Walked(tab) \ {tab.ipos})'
      BY <2>1, <2>2, <3>2 DEF SentTo
    <3> QED BY <2>1, <2>3, <3>1, <3>3 DEF WalkInv
  <2>4. CASE ~HNextRet(tab)
    <3>1. Walked(tab) = Items(tab')
      BY <1>0, <2>2, <2>4, WalkedNext
    <3>2. SentTo(p, Items(tab))'
      BY <2>1, <2>2, <3>1 DEF SentTo
    <3> QED BY <2>1, <2>4, <3>2 DEF WalkInv
  <2> QED BY <2>3, <2>4
<1>12. CASE EventCleanup(p)
  <2>1. pub'[p] = "idle" /\ tried'[p] = NoneTried /\ stale' = {}
    BY <1>0, <1>12 DEF EventCleanup, At, Goto, TypeOK
  <2> QED BY <2>1 DEF WalkInv
<1>13. CASE UNCHANGED vars
  <2>1. UNCHANGED <<tab, tried, addr, pub, stale>>
    BY <1>13 DEF vars
  <2> QED BY <1>2, <2>1
<1> QED BY <1>3, <1>4, <1>5, <1>6, <1>7, <1>8, <1>9, <1>10, <1>11, <1>12, <1>13, <1>14
        DEF Next, Publish, Crashed

-----------------------------------------------------------------------------
(* Subscriptions and unsubscriptions.                                      *)

(* A sound table counts its items.                                         *)
LEMMA CountIs ==
  ASSUME NEW h, TableInv(h)
  PROVE  /\ h.count \in Nat /\ h.count = Cardinality(Items(h)) /\ IsFiniteSet(Items(h))
         /\ h.count = 0 <=> Items(h) = {}
         /\ h.ipos = NoKey <=> Items(h) = {}
<1>1. h.count \in Nat /\ h.count = Cardinality(Items(h)) /\ IsFiniteSet(Items(h))
  BY DEF TableInv, TableType, CountInv
<1>2. h.count = 0 <=> Items(h) = {}
  BY <1>1, FS_EmptySet
<1>3. h.ipos = NoKey <=> Items(h) = {}
  BY PositionOnItem DEF TableInv
<1> QED BY <1>1, <1>2, <1>3

(* A step that leaves the service, the queue and the endpoints alone.      *)
LEMMA BalanceKept ==
  ASSUME BalanceInv, UNCHANGED <<cb, inbox, dropped>>, tab'.count = tab.count,
         declared' \/ declared' = declared, ~dropped => ~fault',
         found' = found \/ found' # "freed"
  PROVE  BalanceInv'
BY DEF BalanceInv, MayUnsubscribe

(* A request that joins the queue.                                         *)
LEMMA BalanceAppend ==
  ASSUME BaseInv, BalanceInv, ~dropped, NEW r \in Requests, inbox' = Append(inbox, r),
         NEW m \in Nat,
         r.op = "subscribe" => m <= Cardinality(MayUnsubscribe) + 1,
         r.op = "unsubscribe" => m + 1 <= Cardinality(MayUnsubscribe)
  PROVE  /\ \A n \in 0 .. Len(inbox') :
              Asked(inbox', n, "unsubscribe") <= tab.count + Asked(inbox', n, "subscribe")
         /\ m + Asked(inbox', Len(inbox'), "unsubscribe")
              <= tab.count + Asked(inbox', Len(inbox'), "subscribe")
<1> DEFINE N == Len(inbox)
           c == tab.count
           s(n) == Asked(inbox, n, "subscribe")
           u(n) == Asked(inbox, n, "unsubscribe")
           sp(n) == Asked(inbox', n, "subscribe")
           up(n) == Asked(inbox', n, "unsubscribe")
           b == Cardinality(MayUnsubscribe)
<1>1. inbox \in Seq(Requests) /\ N \in Nat /\ Len(inbox') = N + 1 /\ c \in Nat
  BY CountIs DEF BaseInv, TypeOK, Requests
<1>2. b \in Nat
  BY FS_CardinalityType DEF BalanceInv
<1>3. \A n \in 0 .. N : s(n) \in Nat /\ u(n) \in Nat
  BY <1>1, AsksFinite
<1>4. \A n \in 0 .. N : sp(n) = s(n) /\ up(n) = u(n)
  BY <1>1, AskedAppend
<1>5. /\ r.op = "subscribe" => sp(N + 1) = s(N) + 1 /\ up(N + 1) = u(N)
      /\ r.op = "unsubscribe" => sp(N + 1) = s(N) /\ up(N + 1) = u(N) + 1
      /\ r.op \in {"subscribe", "unsubscribe"}
  <2>1. /\ sp(N + 1) = s(N) + IF r.op = "subscribe" THEN 1 ELSE 0
        /\ up(N + 1) = u(N) + IF r.op = "unsubscribe" THEN 1 ELSE 0
    BY <1>1, AskedAppend
  <2>2. r.op \in {"subscribe", "unsubscribe"}
    BY DEF Requests
  <2>3. N \in 0 .. N /\ s(N) \in Nat /\ u(N) \in Nat
    BY <1>1, <1>3
  <2> HIDE DEF s, u, sp, up, N
  <2> QED BY <2>1, <2>2, <2>3
<1>6. /\ \A n \in 0 .. N : u(n) <= c + s(n)
      /\ b + u(N) <= c + s(N)
  BY DEF BalanceInv
<1>7. N \in 0 .. N
  BY <1>1
<1> HIDE DEF s, u, sp, up, c, b, N
<1>8. up(N + 1) <= c + sp(N + 1) /\ m + up(N + 1) <= c + sp(N + 1)
  <2>1. s(N) \in Nat /\ u(N) \in Nat /\ u(N) <= c + s(N)
    BY <1>3, <1>6, <1>7
  <2>2. CASE r.op = "subscribe"
    <3>1. sp(N + 1) = s(N) + 1 /\ up(N + 1) = u(N) /\ m <= b + 1
      BY <1>5, <2>2 DEF b
    <3> QED BY <1>1, <1>2, <1>6, <2>1, <3>1
  <2>3. CASE r.op = "unsubscribe"
    <3>1. sp(N + 1) = s(N) /\ up(N + 1) = u(N) + 1 /\ m + 1 <= b
      BY <1>5, <2>3 DEF b
    <3> QED BY <1>1, <1>2, <1>6, <2>1, <3>1
  <2> QED BY <1>5, <2>2, <2>3
<1>9. \A n \in 0 .. N + 1 : up(n) <= c + sp(n)
  <2>1. \A n \in 0 .. N + 1 : n \in 0 .. N \/ n = N + 1
    BY <1>1
  <2> QED BY <1>4, <1>6, <1>8, <2>1
<1> QED BY <1>1, <1>8, <1>9 DEF s, u, sp, up, c, b, N

(* A request that is handled: a subscription adds an item, an unsubscribe  *)
(* request takes one away.                                                 *)
LEMMA BalanceTail ==
  ASSUME BaseInv, BalanceInv, ~dropped, inbox # <<>>, inbox' = Tail(inbox), NEW c \in Nat,
         Head(inbox).op = "subscribe" => c = tab.count + 1,
         Head(inbox).op = "unsubscribe" => c + 1 = tab.count
  PROVE  /\ \A n \in 0 .. Len(inbox') :
              Asked(inbox', n, "unsubscribe") <= c + Asked(inbox', n, "subscribe")
         /\ Cardinality(MayUnsubscribe) + Asked(inbox', Len(inbox'), "unsubscribe")
              <= c + Asked(inbox', Len(inbox'), "subscribe")
<1> DEFINE N == Len(inbox')
           d == tab.count
           s(n) == Asked(inbox, n, "subscribe")
           u(n) == Asked(inbox, n, "unsubscribe")
           sp(n) == Asked(inbox', n, "subscribe")
           up(n) == Asked(inbox', n, "unsubscribe")
           b == Cardinality(MayUnsubscribe)
           h == Head(inbox)
<1>1. /\ inbox \in Seq(Requests) /\ inbox' \in Seq(Requests) /\ h \in Requests
      /\ N \in Nat /\ Len(inbox) = N + 1 /\ d \in Nat
  <2>1. inbox \in Seq(Requests) /\ d \in Nat
    BY CountIs DEF BaseInv, TypeOK, Requests
  <2>2. h \in Requests /\ inbox' \in Seq(Requests) /\ N = Len(inbox) - 1
        /\ Len(inbox) \in Nat \ {0}
    BY <2>1, QueueTail
  <2> QED BY <2>1, <2>2
<1>2. b \in Nat
  BY FS_CardinalityType DEF BalanceInv
<1>3. \A n \in 0 .. N : sp(n) \in Nat /\ up(n) \in Nat
  BY <1>1, AsksFinite
<1>4. ASSUME NEW n \in 0 .. N
      PROVE  /\ h.op = "subscribe" => s(n + 1) = sp(n) + 1 /\ u(n + 1) = up(n)
             /\ h.op = "unsubscribe" => s(n + 1) = sp(n) /\ u(n + 1) = up(n) + 1
  <2>1. n \in 0 .. Len(inbox) - 1
    BY <1>1
  <2>2. /\ s(n + 1) = sp(n) + IF h.op = "subscribe" THEN 1 ELSE 0
        /\ u(n + 1) = up(n) + IF h.op = "unsubscribe" THEN 1 ELSE 0
    BY <1>1, <2>1, AskedTail
  <2>3. sp(n) \in Nat /\ up(n) \in Nat
    BY <1>3
  <2> HIDE DEF s, u, sp, up, N, h
  <2> QED BY <2>2, <2>3
<1>5. /\ \A n \in 0 .. N : u(n + 1) <= d + s(n + 1)
      /\ b + u(N + 1) <= d + s(N + 1)
  <2>1. \A n \in 0 .. N : n + 1 \in 0 .. Len(inbox)
    BY <1>1
  <2> QED BY <1>1, <2>1 DEF BalanceInv
<1>6. h.op \in {"subscribe", "unsubscribe"} /\ N \in 0 .. N
  BY <1>1 DEF Requests
<1>7. /\ h.op = "subscribe" => c = d + 1
      /\ h.op = "unsubscribe" => c + 1 = d
  OBVIOUS
<1> HIDE DEF s, u, sp, up, d, b, N, h
<1>8. ASSUME NEW n \in 0 .. N PROVE up(n) <= c + sp(n)
  <2>1. u(n + 1) <= d + s(n + 1) /\ sp(n) \in Nat /\ up(n) \in Nat
    BY <1>3, <1>5
  <2>2. CASE h.op = "subscribe"
    <3>1. s(n + 1) = sp(n) + 1 /\ u(n + 1) = up(n) /\ c = d + 1
      BY <1>4, <1>7, <2>2
    <3> QED BY <1>1, <2>1, <3>1
  <2>3. CASE h.op = "unsubscribe"
    <3>1. s(n + 1) = sp(n) /\ u(n + 1) = up(n) + 1 /\ c + 1 = d
      BY <1>4, <1>7, <2>3
    <3> QED BY <1>1, <2>1, <3>1
  <2> QED BY <1>6, <2>2, <2>3
<1>9. b + up(N) <= c + sp(N)
  <2>1. sp(N) \in Nat /\ up(N) \in Nat
    BY <1>3, <1>6
  <2>2. CASE h.op = "subscribe"
    <3>1. s(N + 1) = sp(N) + 1 /\ u(N + 1) = up(N) /\ c = d + 1
      BY <1>4, <1>6, <1>7, <2>2
    <3> QED BY <1>1, <1>2, <1>5, <2>1, <3>1
  <2>3. CASE h.op = "unsubscribe"
    <3>1. s(N + 1) = sp(N) /\ u(N + 1) = up(N) + 1 /\ c + 1 = d
      BY <1>4, <1>6, <1>7, <2>3
    <3> QED BY <1>1, <1>2, <1>5, <2>1, <3>1
  <2> QED BY <1>6, <2>2, <2>3
<1> QED BY <1>8, <1>9 DEF s, u, sp, up, d, b, N

(* For an unsubscribe request there is an item to delete.                  *)
LEMMA ItemToDelete ==
  ASSUME BaseInv, BalanceInv, ~dropped, inbox # <<>>, Head(inbox).op = "unsubscribe"
  PROVE  declared /\ tab.ipos # NoKey /\ tab.count >= 1
<1>0. inbox \in Seq(Requests) /\ TableInv(tab) /\ tab.count \in Nat
  BY CountIs DEF BaseInv, TypeOK, Requests
<1>1. /\ 0 + 1 \in 0 .. Len(inbox) /\ 0 \in 0 .. Len(inbox) - 1
      /\ 0 \in 0 .. Len(Tail(inbox)) /\ Tail(inbox) \in Seq(Requests)
  BY <1>0, QueueTail
<1>2. /\ Asked(inbox, 0 + 1, "subscribe") = Asked(Tail(inbox), 0, "subscribe") + 0
      /\ Asked(inbox, 0 + 1, "unsubscribe") = Asked(Tail(inbox), 0, "unsubscribe") + 1
  BY <1>0, <1>1, AskedTail
<1>3. \A op : Asked(Tail(inbox), 0, op) = 0
  <2>1. \A op : Asks(Tail(inbox), 0, op) = {}
    BY DEF Asks
  <2> QED BY <2>1, FS_EmptySet DEF Asked
<1>4. Asked(inbox, 0 + 1, "unsubscribe") <= tab.count + Asked(inbox, 0 + 1, "subscribe")
  BY <1>1 DEF BalanceInv
<1>5. tab.count >= 1
  BY <1>0, <1>2, <1>3, <1>4
<1> QED BY <1>0, <1>5, CountIs DEF BalanceInv

(* Every step keeps the balance.                                           *)
LEMMA BalanceStep ==
  ASSUME Publishers \subseteq {AbusThread}, ~Overlap, ServiceName # <<>>,
         BaseInv, BaseInv', FoundInv, stale = {}, BalanceInv, [Next]_vars,
         \A p \in Publishers : WalkInv(p)
  PROVE  BalanceInv'
<1>0. /\ TypeOK /\ TableInv(tab) /\ TableInv(tab') /\ inbox \in Seq(Requests)
      /\ tab.count \in Nat /\ IsFiniteSet(MayUnsubscribe)
      /\ Cardinality(MayUnsubscribe) \in Nat
  BY CountIs, FS_CardinalityType DEF BaseInv, TypeOK, Requests, BalanceInv
<1>1. ASSUME NEW e \in Endpoints, SubscribeCall(e) PROVE BalanceInv'
  <2> DEFINE r == [op |-> "subscribe", from |-> e]
  <2>1. /\ r \in Requests /\ r.op = "subscribe" /\ inbox' = Append(inbox, r)
        /\ UNCHANGED <<tab, declared, found, dropped, fault>>
    BY <1>1 DEF SubscribeCall, Send, Requests, service
  <2> HIDE DEF r
  <2>2. MayUnsubscribe' = MayUnsubscribe \cup {e}
    BY <1>0, <1>1 DEF SubscribeCall, MayUnsubscribe, TypeOK
  <2>3. /\ IsFiniteSet(MayUnsubscribe') /\ Cardinality(MayUnsubscribe') \in Nat
        /\ Cardinality(MayUnsubscribe') <= Cardinality(MayUnsubscribe) + 1
    <3>1. IsFiniteSet(MayUnsubscribe')
      BY <1>0, <2>2, FS_AddElement
    <3>2. Cardinality(MayUnsubscribe') \in Nat
      BY <3>1, FS_CardinalityType
    <3>3. CASE e \in MayUnsubscribe
      <4>1. MayUnsubscribe' = MayUnsubscribe
        BY <2>2, <3>3
      <4> QED BY <1>0, <3>1, <3>2, <4>1
    <3>4. CASE e \notin MayUnsubscribe
      <4>1. Cardinality(MayUnsubscribe') = Cardinality(MayUnsubscribe) + 1
        BY <1>0, <2>2, <3>4, FS_AddElement
      <4> QED BY <1>0, <3>1, <3>2, <4>1
    <3> QED BY <3>3, <3>4
  <2>4. CASE dropped
    BY <2>1, <2>3, <2>4 DEF BalanceInv
  <2>5. CASE ~dropped
    <3> DEFINE m == Cardinality(MayUnsubscribe')
    <3>1. /\ m \in Nat
          /\ r.op = "subscribe" => m <= Cardinality(MayUnsubscribe) + 1
          /\ r.op = "unsubscribe" => m + 1 <= Cardinality(MayUnsubscribe)
      BY <2>1, <2>3
    <3> HIDE DEF m
    <3>2. /\ \A n \in 0 .. Len(inbox') :
               Asked(inbox', n, "unsubscribe") <= tab.count + Asked(inbox', n, "subscribe")
          /\ m + Asked(inbox', Len(inbox'), "unsubscribe")
               <= tab.count + Asked(inbox', Len(inbox'), "subscribe")
      BY <2>1, <2>5, <3>1, BalanceAppend
    <3> QED BY <2>1, <2>3, <2>5, <3>2 DEF BalanceInv, m
  <2> QED BY <2>4, <2>5
<1>2. ASSUME NEW e \in Endpoints, UnsubscribeCall(e) PROVE BalanceInv'
  <2> DEFINE r == [op |-> "unsubscribe", from |-> e]
  <2>1. /\ r \in Requests /\ r.op = "unsubscribe" /\ inbox' = Append(inbox, r)
        /\ UNCHANGED <<tab, declared, found, dropped, fault>>
    BY <1>2 DEF UnsubscribeCall, Send, Requests, service
  <2> HIDE DEF r
  <2>2. MayUnsubscribe' = MayUnsubscribe \ {e} /\ e \in MayUnsubscribe
    BY <1>0, <1>2 DEF UnsubscribeCall, MayUnsubscribe, TypeOK
  <2>3. /\ IsFiniteSet(MayUnsubscribe') /\ Cardinality(MayUnsubscribe') \in Nat
        /\ Cardinality(MayUnsubscribe') + 1 = Cardinality(MayUnsubscribe)
    <3>1. /\ IsFiniteSet(MayUnsubscribe')
          /\ Cardinality(MayUnsubscribe') = Cardinality(MayUnsubscribe) - 1
      BY <1>0, <2>2, FS_RemoveElement
    <3>2. Cardinality(MayUnsubscribe') \in Nat
      BY <3>1, FS_CardinalityType
    <3> QED BY <1>0, <3>1, <3>2
  <2>4. CASE dropped
    BY <2>1, <2>3, <2>4 DEF BalanceInv
  <2>5. CASE ~dropped
    <3> DEFINE m == Cardinality(MayUnsubscribe')
    <3>1. /\ m \in Nat
          /\ r.op = "subscribe" => m <= Cardinality(MayUnsubscribe) + 1
          /\ r.op = "unsubscribe" => m + 1 <= Cardinality(MayUnsubscribe)
      BY <2>1, <2>3
    <3> HIDE DEF m
    <3>2. /\ \A n \in 0 .. Len(inbox') :
               Asked(inbox', n, "unsubscribe") <= tab.count + Asked(inbox', n, "subscribe")
          /\ m + Asked(inbox', Len(inbox'), "unsubscribe")
               <= tab.count + Asked(inbox', Len(inbox'), "subscribe")
      BY <2>1, <2>5, <3>1, BalanceAppend
    <3> QED BY <2>1, <2>3, <2>5, <3>2 DEF BalanceInv, m
  <2> QED BY <2>4, <2>5
<1>3. ASSUME NEW e \in Endpoints, Leave(e) \/ UnsubscribeFails(e) PROVE BalanceInv'
  <2>1. UNCHANGED <<tab, declared, found, dropped, fault, inbox>>
    BY <1>3 DEF Leave, UnsubscribeFails, service
  <2>2. MayUnsubscribe' \subseteq MayUnsubscribe
    BY <1>0, <1>3 DEF Leave, UnsubscribeFails, MayUnsubscribe, TypeOK
  <2>3. /\ IsFiniteSet(MayUnsubscribe') /\ Cardinality(MayUnsubscribe') \in Nat
        /\ Cardinality(MayUnsubscribe') <= Cardinality(MayUnsubscribe)
    BY <1>0, <2>2, FS_Subset, FS_CardinalityType
  <2>4. CASE dropped
    BY <2>1, <2>3, <2>4 DEF BalanceInv
  <2>5. CASE ~dropped
    <3> DEFINE u == Asked(inbox, Len(inbox), "unsubscribe")
               d == tab.count + Asked(inbox, Len(inbox), "subscribe")
    <3>1. u \in Nat /\ d \in Nat
      <4>1. Len(inbox) \in Nat
        BY <1>0
      <4> QED BY <1>0, <4>1, AsksFinite
    <3>2. Cardinality(MayUnsubscribe) + u <= d
      BY <2>5 DEF BalanceInv
    <3> HIDE DEF u, d
    <3>3. Cardinality(MayUnsubscribe') + u <= d
      BY <1>0, <2>3, <3>1, <3>2
    <3> QED BY <2>1, <2>3, <2>5, <3>3 DEF BalanceInv, u, d
  <2> QED BY <2>4, <2>5
<1>4. CASE DeclEvent
  <2>1. UNCHANGED <<tab, cb, found, inbox, dropped, fault>> /\ declared'
    BY <1>4 DEF DeclEvent, CreateIfNotThere, client
  <2> QED BY <2>1, BalanceKept DEF BalanceInv
<1>14. ASSUME NEW e \in Endpoints, SubscribeFails(e) PROVE BalanceInv'
  <2>1. dropped' /\ MayUnsubscribe' = MayUnsubscribe \cup {e}
    BY <1>0, <1>14 DEF SubscribeFails, MayUnsubscribe, TypeOK
  <2> QED BY <1>0, <2>1, FS_AddElement DEF BalanceInv
<1>15. CASE LookupEvent
  <2>1. UNCHANGED <<declared, tab, cb, fault>>
    BY <1>15 DEF LookupEvent
  <2>2. CASE declared
    BY <1>15, <2>1, <2>2, BalanceKept DEF LookupEvent, BalanceInv
  <2>3. CASE ~declared
    <3>1. inbox # <<>> /\ dropped' = (dropped \/ Head(inbox).op = "subscribe")
      BY <1>15, <2>3 DEF LookupEvent
    <3>2. Head(inbox).op \in {"subscribe", "unsubscribe"}
      BY <1>0, <3>1, QueueTail DEF Requests
    <3>3. dropped'
      BY <2>3, <3>1, <3>2, ItemToDelete
    <3> QED BY <2>1, <3>3 DEF BalanceInv, MayUnsubscribe
  <2> QED BY <2>2, <2>3
<1>5. CASE UndeclEvent
  <2>1. /\ UNCHANGED <<cb, inbox, fault>> /\ tab'.count = 0
        /\ dropped' = (\/ dropped \/ Items(tab) # {}
                       \/ found = "event" /\ Head(inbox).op = "subscribe")
        /\ found' = IF found = "event" THEN "freed" ELSE found
    BY <1>5 DEF UndeclEvent, client, HCreate
  <2>2. CASE dropped'
    BY <2>1, <2>2 DEF BalanceInv, MayUnsubscribe
  <2>3. CASE ~dropped'
    <3>1. ~dropped /\ tab.count = 0
      BY <1>0, <2>1, <2>3, CountIs
    <3>2. found # "event"
      <4> SUFFICES ASSUME found = "event" PROVE FALSE
        OBVIOUS
      <4>1. inbox # <<>> /\ Head(inbox).op # "subscribe"
        BY <2>1, <2>3 DEF FoundInv
      <4>2. Head(inbox).op = "unsubscribe"
        BY <1>0, <4>1, QueueTail DEF Requests
      <4> QED BY <3>1, <4>1, <4>2, ItemToDelete
    <3>3. found' # "freed"
      BY <2>1, <3>1, <3>2 DEF BalanceInv
    <3> QED BY <2>1, <3>1, <3>3 DEF BalanceInv, MayUnsubscribe
  <2> QED BY <2>2, <2>3
<1>6. CASE HandleSubscribe
  <2>1. /\ inbox # <<>> /\ Head(inbox).op = "subscribe" /\ inbox' = Tail(inbox)
        /\ UNCHANGED <<cb, declared, dropped>> /\ found' = "none" /\ found # "none"
    BY <1>6 DEF HandleSubscribe, Received
  <2>2. CASE dropped'
    BY <2>1, <2>2 DEF BalanceInv, MayUnsubscribe
  <2>3. CASE ~dropped'
    <3>5. found = "event" /\ ~fault
      BY <1>0, <2>1, <2>3 DEF BalanceInv, TypeOK
    <3>1. /\ ~dropped /\ declared /\ fault' = fault
          /\ tab' = HAdd(tab, cnt, Head(inbox).from) /\ cnt' = cnt + 1
      BY <1>6, <2>1, <2>3, <3>5 DEF HandleSubscribe, KeyAfter, FoundInv
    <3>2. tab'.count = tab.count + 1
      <4>1. Head(inbox) \in Requests
        BY <1>0, <2>1, QueueTail
      <4>2. Head(inbox).from \in Stuff
        BY <4>1 DEF Requests, Endpoints
      <4>3. cnt \in Nat /\ cnt + 1 <= MaxSubs /\ cnt \notin Items(tab)
        BY <1>0, <3>1 DEF BaseInv, TypeOK, KeysInv
      <4>4. cnt \in Keys
        BY <4>3, EventAssumption
      <4>5. Items(tab') = Items(tab) \cup {cnt}
        BY <1>0, <3>1, <4>2, <4>3, <4>4, AddNewSound
      <4>6. tab'.count = Cardinality(Items(tab')) /\ tab.count = Cardinality(Items(tab))
            /\ IsFiniteSet(Items(tab))
        BY <1>0, CountIs
      <4> QED BY <4>3, <4>5, <4>6, FS_AddElement
    <3> DEFINE c == tab'.count
    <3>3. /\ c \in Nat
          /\ Head(inbox).op = "subscribe" => c = tab.count + 1
          /\ Head(inbox).op = "unsubscribe" => c + 1 = tab.count
      BY <1>0, <2>1, <3>2
    <3> HIDE DEF c
    <3>4. /\ \A n \in 0 .. Len(inbox') :
               Asked(inbox', n, "unsubscribe") <= c + Asked(inbox', n, "subscribe")
          /\ Cardinality(MayUnsubscribe) + Asked(inbox', Len(inbox'), "unsubscribe")
               <= c + Asked(inbox', Len(inbox'), "subscribe")
      BY <2>1, <3>1, <3>3, BalanceTail
    <3> QED BY <2>1, <3>1, <3>4 DEF BalanceInv, MayUnsubscribe, c
  <2> QED BY <2>2, <2>3
<1>7. CASE HandleUnsubscribe
  <2>1. /\ inbox # <<>> /\ Head(inbox).op = "unsubscribe" /\ inbox' = Tail(inbox)
        /\ UNCHANGED <<cb, declared, dropped>> /\ found' = "none"
    BY <1>7 DEF HandleUnsubscribe, Received
  <2>4. found # "none" /\ (~dropped => found = "event" /\ ~fault)
    BY <1>0, <1>7 DEF HandleUnsubscribe, Received, BalanceInv, TypeOK
  <2>2. CASE dropped
    BY <2>1, <2>2 DEF BalanceInv, MayUnsubscribe
  <2>3. CASE ~dropped
    <3>2. declared /\ tab.ipos # NoKey /\ tab.count >= 1
      BY <2>1, <2>3, ItemToDelete
    <3>3. tab' = HDel(tab) /\ ~fault'
      BY <1>7, <2>3, <2>4, <3>2 DEF HandleUnsubscribe, DeleteCurrent, Received
    <3>4. tab'.count + 1 = tab.count
      <4>1. Items(tab') = Items(tab) \ {tab.ipos} /\ tab.ipos \in Items(tab)
        BY <1>0, <3>2, <3>3, DelAny, PositionOnItem DEF TableInv
      <4>2. tab'.count = Cardinality(Items(tab')) /\ tab.count = Cardinality(Items(tab))
            /\ IsFiniteSet(Items(tab))
        BY <1>0, CountIs
      <4>3. Cardinality(Items(tab) \ {tab.ipos}) = Cardinality(Items(tab)) - 1
        BY <4>1, <4>2, FS_RemoveElement
      <4> QED BY <1>0, <4>1, <4>2, <4>3
    <3> DEFINE c == tab'.count
    <3>5. /\ c \in Nat
          /\ Head(inbox).op = "subscribe" => c = tab.count + 1
          /\ Head(inbox).op = "unsubscribe" => c + 1 = tab.count
      BY <1>0, <2>1, <3>4, CountIs
    <3> HIDE DEF c
    <3>6. /\ \A n \in 0 .. Len(inbox') :
               Asked(inbox', n, "unsubscribe") <= c + Asked(inbox', n, "subscribe")
          /\ Cardinality(MayUnsubscribe) + Asked(inbox', Len(inbox'), "unsubscribe")
               <= c + Asked(inbox', Len(inbox'), "subscribe")
      BY <2>1, <2>3, <3>5, BalanceTail
    <3> QED BY <2>1, <2>3, <3>2, <3>3, <3>6 DEF BalanceInv, MayUnsubscribe, c
  <2> QED BY <2>2, <2>3
<1>8. ASSUME NEW p \in Publishers, EventInit(p) PROVE BalanceInv'
  <2>1. UNCHANGED <<tab, cb, found, inbox, dropped, fault>> /\ declared'
    BY <1>8 DEF EventInit, CreateIfNotThere, client
  <2> QED BY <2>1, BalanceKept DEF BalanceInv
<1>9. ASSUME NEW p \in Publishers, PublishFirst(p) \/ PublishNext(p) PROVE BalanceInv'
  <2>1. UNCHANGED <<declared, cb, found, inbox, dropped>> /\ ~fault'
    BY <1>9 DEF PublishFirst, PublishNext, client
  <2>2. tab'.count = tab.count
    BY <1>0, <1>9, FirstSound, NextSound DEF PublishFirst, PublishNext, SameItems
  <2> QED BY <2>1, <2>2, BalanceKept
<1>10. ASSUME NEW p \in Publishers, PublishRead(p) PROVE BalanceInv'
  <2>1. UNCHANGED <<declared, tab, cb, found, inbox, dropped>>
    BY <1>10 DEF PublishRead, client, service
  <2>2. ~fault'
    BY <1>10 DEF PublishRead, WalkInv, At
  <2> QED BY <2>1, <2>2, BalanceKept
<1>11. ASSUME NEW p \in Publishers, PublishSend(p) PROVE BalanceInv'
  <2>1. UNCHANGED <<declared, cb, found, inbox, dropped>>
    BY <1>11 DEF PublishSend, client
  <2>2. pub[p] = "send" /\ ~fault /\ addr[p] = tab.ipos /\ tab.ipos # NoKey
    BY <1>11 DEF PublishSend, WalkInv, At
  <2>3. addr[p] \in Items(tab)
    BY <1>0, <2>2, PositionOnItem DEF TableInv
  <2>4. tab' = tab /\ ~fault'
    BY <1>11, <2>2, <2>3, NameNotRecovered DEF PublishSend
  <2> QED BY <2>1, <2>4, BalanceKept
<1>12. ASSUME NEW p \in Publishers, EventCleanup(p) PROVE BalanceInv'
  <2>1. UNCHANGED <<declared, tab, cb, found, inbox, dropped, fault>>
    BY <1>12 DEF EventCleanup, client, service
  <2> QED BY <2>1, BalanceKept DEF BalanceInv
<1>13. CASE UNCHANGED vars
  <2>1. UNCHANGED <<declared, tab, cb, found, inbox, dropped, fault>>
    BY <1>13 DEF vars
  <2> QED BY <2>1, BalanceKept DEF BalanceInv
<1> QED BY <1>1, <1>2, <1>3, <1>4, <1>5, <1>6, <1>7, <1>8, <1>9, <1>10, <1>11, <1>12, <1>13,
           <1>14, <1>15 DEF Next, Publish, Crashed

-----------------------------------------------------------------------------
(* The theorems.                                                           *)

(* The A-Bus thread holds the event of a request that is there.            *)
LEMMA FoundStep ==
  ASSUME BaseInv, FoundInv, [Next]_vars
  PROVE  FoundInv'
<1>0. inbox \in Seq(Requests)
  BY DEF BaseInv, TypeOK, Requests
<1>1. ASSUME NEW e \in Endpoints, SubscribeCall(e) \/ UnsubscribeCall(e) PROVE FoundInv'
  <2>1. UNCHANGED <<declared, found>> /\ inbox' # <<>>
    BY <1>0, <1>1 DEF SubscribeCall, UnsubscribeCall, Send, service
  <2> QED BY <2>1 DEF FoundInv
<1>2. CASE UndeclEvent
  BY <1>2 DEF UndeclEvent, client, FoundInv
<1>3. CASE LookupEvent
  BY <1>3 DEF LookupEvent, FoundInv
<1>4. CASE HandleSubscribe \/ HandleUnsubscribe
  BY <1>4 DEF HandleSubscribe, HandleUnsubscribe, Received, FoundInv
<1>5. CASE UNCHANGED <<found, inbox>> /\ (declared' \/ declared' = declared)
  BY <1>5 DEF FoundInv
<1> QED
  BY <1>1, <1>2, <1>3, <1>4, <1>5
     DEF Next, Publish, SubscribeFails, UnsubscribeFails, Leave, DeclEvent, EventInit,
         CreateIfNotThere, PublishFirst, PublishRead, PublishSend, PublishNext,
         EventCleanup, Crashed, vars, service, client

(* No event is freed while it is published.                                *)
LEMMA StaleStep ==
  ASSUME ~Overlap, stale = {}, [Next]_vars
  PROVE  stale' = {}
<1>1. CASE UndeclEvent
  BY <1>1 DEF UndeclEvent
<1>2. ASSUME NEW p \in Publishers, EventCleanup(p) PROVE stale' = {}
  BY <1>2 DEF EventCleanup
<1>3. CASE UNCHANGED stale
  BY <1>3
<1> QED
  BY <1>1, <1>2, <1>3
     DEF Next, Publish, SubscribeCall, SubscribeFails, UnsubscribeCall, UnsubscribeFails,
         Leave, DeclEvent, LookupEvent, HandleSubscribe, HandleUnsubscribe, EventInit, PublishFirst, PublishRead, PublishSend, PublishNext,
         Crashed, vars, publication

(* The inductive invariant, when events are published by the A-Bus thread  *)
(* and not undeclared meanwhile.                                           *)
LEMMA EventInvariant ==
  ASSUME Publishers \subseteq {AbusThread}, ~Overlap, ServiceName # <<>>
  PROVE  Spec => []EventInv
<1>1. Init => EventInv
  <2> SUFFICES ASSUME Init PROVE EventInv
    OBVIOUS
  <2>1. BaseInv
    BY BaseInit
  <2>2. MayUnsubscribe = {}
    BY DEF Init, MayUnsubscribe
  <2>3. /\ inbox = <<>> /\ Len(inbox) = 0
        /\ Asked(inbox, 0, "subscribe") = 0 /\ Asked(inbox, 0, "unsubscribe") = 0
    BY AskedNone DEF Init
  <2>4. tab.count = 0 /\ ~fault
    BY DEF Init, HCreate
  <2>5. BalanceInv
    BY <2>2, <2>3, <2>4, FS_EmptySet DEF BalanceInv, Init
  <2>6. \A p \in Publishers : WalkInv(p)
    BY DEF Init, WalkInv
  <2> QED BY <2>1, <2>5, <2>6 DEF EventInv, FoundInv, Init
<1>2. EventInv /\ [Next]_vars => EventInv'
  <2> SUFFICES ASSUME EventInv, [Next]_vars PROVE EventInv'
    OBVIOUS
  <2>1. BaseInv'
    BY BaseStep DEF EventInv
  <2>2. BalanceInv'
    BY <2>1, BalanceStep DEF EventInv
  <2>3. \A p \in Publishers : WalkInv(p)'
    BY <2>1, WalkStep DEF EventInv
  <2>4. stale' = {} /\ FoundInv'
    BY <2>1, StaleStep, FoundStep DEF EventInv
  <2> QED BY <2>1, <2>2, <2>3, <2>4 DEF EventInv
<1> QED BY <1>1, <1>2, PTL DEF Spec

(* "The notification is sent to all the subscribed end-points": a          *)
(* publication by the A-Bus thread that has ended sent the event exactly   *)
(* once to every item of the table.                                        *)
THEOREM PublicationsReachAll ==
  ASSUME Publishers \subseteq {AbusThread}, ~Overlap, ServiceName # <<>>
  PROVE  Spec => []PublishReachesAll
<1>1. EventInv => PublishReachesAll
  BY DEF EventInv, WalkInv, SentTo, PublishReachesAll
<1> QED BY <1>1, EventInvariant, PTL

(* An unsubscribe request deletes whatever item is current; as long as no  *)
(* subscription was refused, forgotten or not sent there is one for each   *)
(* request, so nothing is read from an empty table or after it was freed,  *)
(* also when the event is undeclared between the lookup for a request and  *)
(* its use.                                                                *)
THEOREM SubscribersStaySound ==
  ASSUME Publishers \subseteq {AbusThread}, ~Overlap, ServiceName # <<>>
  PROVE  Spec => []SubscribersSound
<1>1. EventInv => SubscribersSound
  <2>1. EventInv => TypeOK /\ TableSane
    BY SoundIsSane DEF EventInv, BaseInv, TableSane
  <2>2. EventInv => FaultOnlyIfDropped
    BY DEF EventInv, BalanceInv, FaultOnlyIfDropped
  <2> QED BY <2>1, <2>2 DEF SubscribersSound
<1> QED BY <1>1, EventInvariant, PTL
=============================================================================
