-------------------------- MODULE TransactionProofs --------------------------
(***************************************************************************)
(* Proofs about Transaction, for any number of processes, calls and        *)
(* crashes.                                                                *)
(***************************************************************************)
EXTENDS Transaction, SequenceTheorems, FiniteSetTheorems, TLAPS

(* A message is a request with the fields of one, or a response.           *)
LEMMA MessageShape ==
  /\ \A m \in Messages : m.kind = "request" => m.call \in Calls /\ m.from \in Endpoints
  /\ \A m \in Messages : m.call \in Calls
  /\ \A c \in Calls, e \in Endpoints : Request(c, e) \in Messages
  /\ \A c \in Calls : Response(c) \in Messages
  /\ \A c \in Calls : Response(c).call = c /\ Response(c).kind = "response"
  /\ \A c \in Calls, e \in Endpoints :
       LET m == Request(c, e) IN m.kind = "request" /\ m.call = c /\ m.from = e
  /\ Nothing.kind = "nothing" /\ Listening = Nothing
  BY DEF Messages, Request, Response, Nothing, Listening

(* A message that is sent is the last of those that wait at the socket.    *)
LEMMA SentProperties ==
  ASSUME TypeInv, NEW e \in Endpoints, NEW m \in Messages
  PROVE  /\ Sent(e, m) \in [Endpoints -> Seq(Messages)]
         /\ \A f \in Endpoints \ {e} : Sent(e, m)[f] = queue[f]
         /\ DOMAIN Sent(e, m)[e] = DOMAIN queue[e] \union {Len(queue[e]) + 1}
         /\ Len(queue[e]) + 1 \notin DOMAIN queue[e]
         /\ \A i \in DOMAIN queue[e] : Sent(e, m)[e][i] = queue[e][i]
         /\ Sent(e, m)[e][Len(queue[e]) + 1] = m
<1>1. queue[e] \in Seq(Messages) /\ queue \in [Endpoints -> Seq(Messages)]
  BY DEF TypeInv
<1>2. /\ Append(queue[e], m) \in Seq(Messages)
      /\ Len(Append(queue[e], m)) = Len(queue[e]) + 1
      /\ \A i \in 1..Len(queue[e]) : Append(queue[e], m)[i] = queue[e][i]
      /\ Append(queue[e], m)[Len(queue[e]) + 1] = m
  BY <1>1, AppendProperties
<1>3. Len(queue[e]) \in Nat /\ DOMAIN queue[e] = 1..Len(queue[e])
  BY <1>1, LenProperties
<1>4. DOMAIN Append(queue[e], m) = 1..(Len(queue[e]) + 1)
  BY <1>2, LenProperties
<1>5. Sent(e, m)[e] = Append(queue[e], m) /\ \A f \in Endpoints \ {e} : Sent(e, m)[f] = queue[f]
  BY <1>1 DEF Sent
<1>6. Sent(e, m) \in [Endpoints -> Seq(Messages)]
  BY <1>1, <1>2 DEF Sent
<1> QED
  BY <1>2, <1>3, <1>4, <1>5, <1>6

(* A message that is taken leaves those that wait behind it in order.      *)
LEMMA TailProperties ==
  ASSUME NEW s \in Seq(Messages), s # <<>>
  PROVE  /\ Head(s) \in Messages /\ Head(s) = s[1] /\ 1 \in DOMAIN s
         /\ Tail(s) \in Seq(Messages)
         /\ \A i \in DOMAIN Tail(s) : i + 1 \in DOMAIN s /\ i + 1 # 1 /\ Tail(s)[i] = s[i + 1]
<1>1. /\ Head(s) \in Messages /\ Tail(s) \in Seq(Messages)
      /\ Len(Tail(s)) = Len(s) - 1
      /\ \A i \in 1..Len(Tail(s)) : Tail(s)[i] = s[i + 1]
  BY HeadTailProperties
<1>2. Len(s) \in Nat /\ DOMAIN s = 1..Len(s) /\ DOMAIN Tail(s) = 1..Len(Tail(s))
  BY <1>1, LenProperties
<1>3. Len(s) # 0
  BY EmptySeq
<1> QED
  BY <1>1, <1>2, <1>3

(* A socket that is closed loses what waits there, and no other does.      *)
LEMMA ClosedProperties ==
  ASSUME NEW waiting \in [Endpoints -> Seq(Messages)], NEW c \in Calls, addr[c] \in Endpoints
  PROVE  /\ Closed(waiting, c) \in [Endpoints -> Seq(Messages)]
         /\ \A e \in Endpoints \ {addr[c]} : Closed(waiting, c)[e] = waiting[e]
         /\ c \notin Kept => Closed(waiting, c)[addr[c]] = <<>>
<1>1. <<>> \in Seq(Messages)
  BY EmptySeq
<1>2. Closed(waiting, c) \in [Endpoints -> Seq(Messages)]
  BY <1>1 DEF Closed
<1> QED  BY <1>2 DEF Closed

-----------------------------------------------------------------------------
(* Sockets *)

(* Opening or closing a socket leaves a table of what is open.             *)
LEMMA ExceptBoolean ==
  ASSUME NEW S, NEW f \in [S -> BOOLEAN], NEW x, NEW b \in BOOLEAN
  PROVE  [f EXCEPT ![x] = b] \in [S -> BOOLEAN]
  OBVIOUS

(* A call under way has the socket of its process, or one of the kernel's. *)
LEMMA SocketPlace ==
  ASSUME SocketInv, NEW c \in Calls, pc[c] \in Pending
  PROVE  addr[c] \in SocketOf(c) /\ addr[c] \in Endpoints /\ open[addr[c]]
<1>1. addr[c] \in SocketOf(c) /\ open[addr[c]]
  BY DEF SocketInv, NoneClosedInUse
<1>2. SocketOf(c) \subseteq Endpoints
  BY TransactionAssumption DEF SocketOf, Endpoints, Addresses
<1> QED  BY <1>1, <1>2

(* Two calls under way share a socket only if it is that of their process. *)
LEMMA SocketShared ==
  ASSUME SocketInv, NEW c \in Calls, NEW d \in Calls, c # d,
         pc[c] \in Pending, pc[d] \in Pending, addr[c] = addr[d]
  PROVE  c \in Kept /\ d \in Kept /\ addr[c] = From[c] /\ From[c] = From[d]
<1>1. addr[c] \in SocketOf(c) /\ addr[c] \in SocketOf(d)
  BY SocketPlace
<1>2. From[c] \notin Addresses /\ From[d] \notin Addresses
  BY TransactionAssumption DEF Addresses
<1>3. c \in Kept \/ d \in Kept
  BY DEF SocketInv, OwnSocket
<1> QED  BY <1>1, <1>2, <1>3 DEF SocketOf

(* The parts of SocketInv that most steps leave alone.                     *)
LEMMA SocketKept ==
  ASSUME SocketInv, UNCHANGED <<open, addr, crashes, named>>,
         queue' \in [Endpoints -> Seq(Messages)],
         \A e \in Endpoints : ~open[e] => queue'[e] = <<>>,
         thread' \in [Procs -> Messages \union {Listening}],
         pc' \in [Calls -> Pending \union Results \union {"new"}],
         \A c \in Calls : pc[c] \in Pending <=> pc'[c] \in Pending,
         \A c \in Calls : pc'[c] = "new" => pc[c] = "new",
         answer' \in [Calls -> Messages \union {Nothing}],
         runs' \in [Calls -> Nat]
  PROVE  SocketInv'
<1>1. TypeInv'
  BY DEF SocketInv, TypeInv
<1>2. OwnSocket' /\ NoneClosedInUse' /\ ClosedIsEmpty'
  BY DEF SocketInv, OwnSocket, NoneClosedInUse, ClosedIsEmpty
<1>3. NoSocketLeft'
  BY DEF SocketInv, NoSocketLeft
<1>4. /\ \A c \in Calls : addr'[c] # NoAddress => addr'[c] \in SocketOf(c)
      /\ \A c \in Calls : pc'[c] = "new" => addr'[c] = NoAddress
      /\ \A c \in Calls : pc'[c] \in Pending => addr'[c] # NoAddress
  BY DEF SocketInv
<1> QED  BY <1>1, <1>2, <1>3, <1>4 DEF SocketInv

(* A call that returns, however, closes its socket, unless it is that of   *)
(* its process, and no other.                                              *)
LEMMA SocketReturned ==
  ASSUME SocketInv, NEW c \in Calls, pc[c] \in Pending,
         NEW result \in Results, TransactionReturn(c, result),
         UNCHANGED <<addr, thread, crashes, named>>,
         NEW waiting \in [Endpoints -> Seq(Messages)], queue' = Closed(waiting, c),
         \A e \in Endpoints : ~open[e] => waiting[e] = <<>>,
         answer' \in [Calls -> Messages \union {Nothing}],
         runs' \in [Calls -> Nat]
  PROVE  SocketInv'
<1>1. pc' \in [Calls -> Pending \union Results \union {"new"}]
  BY DEF SocketInv, TypeInv, TransactionReturn
<1>2. open' \in [Endpoints -> BOOLEAN]
  <2>1. (c \in Kept) \in BOOLEAN
    OBVIOUS
  <2> QED  BY <2>1, ExceptBoolean DEF SocketInv, TypeInv, TransactionReturn
<1>3. /\ addr[c] \in Endpoints /\ addr[c] \in SocketOf(c) /\ addr[c] # NoAddress
      /\ open'[addr[c]] <=> c \in Kept
      /\ \A e \in Endpoints \ {addr[c]} : open'[e] = open[e]
  BY SocketPlace DEF SocketInv, TypeInv, TransactionReturn
<1>4. /\ queue' \in [Endpoints -> Seq(Messages)]
      /\ \A e \in Endpoints \ {addr[c]} : queue'[e] = waiting[e]
      /\ c \notin Kept => queue'[addr[c]] = <<>>
  BY <1>3, ClosedProperties
<1>5. TypeInv'
  BY <1>1, <1>2, <1>4 DEF SocketInv, TypeInv
<1>6. /\ pc'[c] = result /\ pc'[c] \notin Pending /\ pc'[c] # "new"
      /\ \A d \in Calls \ {c} : pc'[d] = pc[d]
  BY DEF SocketInv, TypeInv, TransactionReturn, Results, Pending
<1>7. /\ \A d \in Calls : addr'[d] # NoAddress => addr'[d] \in SocketOf(d)
      /\ \A d \in Calls : pc'[d] = "new" => addr'[d] = NoAddress
      /\ \A d \in Calls : pc'[d] \in Pending => addr'[d] # NoAddress
      /\ OwnSocket'
  BY <1>6 DEF SocketInv, OwnSocket
<1>8. NoSocketLeft'
  <2> SUFFICES ASSUME NEW a \in Addresses, open'[a]
               PROVE  \E d \in Calls : addr[d] = a /\ pc'[d] \in Pending
    BY DEF NoSocketLeft
  <2>1. a \in Endpoints /\ a # addr[c]
    BY <1>3, TransactionAssumption DEF SocketOf, Endpoints, Addresses
  <2>2. PICK d \in Calls : addr[d] = a /\ pc[d] \in Pending
    BY <1>3, <2>1 DEF SocketInv, NoSocketLeft
  <2> QED  BY <1>6, <2>1, <2>2
<1>9. NoneClosedInUse'
  <2> SUFFICES ASSUME NEW d \in Calls, pc'[d] \in Pending PROVE open'[addr[d]]
    BY DEF NoneClosedInUse
  <2>1. d # c /\ pc[d] \in Pending
    BY <1>6
  <2>2. addr[d] \in Endpoints /\ open[addr[d]]
    BY <2>1, SocketPlace
  <2>3. addr[d] = addr[c] => c \in Kept
    BY <2>1, SocketShared
  <2> QED  BY <1>3, <2>2, <2>3
<1>10. ClosedIsEmpty'
  BY <1>3, <1>4 DEF ClosedIsEmpty
<1> QED  BY <1>5, <1>7, <1>8, <1>9, <1>10 DEF SocketInv

(* A call that begins has a socket that is open, and that no other has.    *)
LEMMA SocketOpened ==
  ASSUME SocketInv, NEW c \in Calls, TransactionSocket(c)
  PROVE  SocketInv'
<1> DEFINE a == (named % Names) + 1
<1> TypeInv
  BY DEF SocketInv
<1>1. a \in Addresses /\ a \in Endpoints /\ From[c] \in Procs /\ From[c] \in Endpoints
  BY TransactionAssumption DEF Addresses, Endpoints, TypeInv
<1>2. /\ pc[c] = "new" /\ pc'[c] = "send" /\ open[From[c]]
      /\ \A d \in Calls \ {c} : pc'[d] = pc[d] /\ addr'[d] = addr[d]
      /\ UNCHANGED <<queue, thread, answer, runs, crashes>>
  BY DEF TransactionSocket, MayCall, TypeInv
<1>3. addr'[c] = IF c \in Kept THEN From[c] ELSE a
  BY DEF TransactionSocket, TypeInv
<1>4. /\ c \in Kept => open' = open
      /\ c \notin Kept => ~open[a] /\ open' = [open EXCEPT ![a] = TRUE]
  BY DEF TransactionSocket
<1>5. open' \in [Endpoints -> BOOLEAN] /\ named' \in Nat
  <2>1. named' \in Nat
    BY DEF TransactionSocket, TypeInv
  <2> QED  BY <1>4, <2>1, ExceptBoolean DEF TypeInv
<1>6. TypeInv'
  <2>1. pc' \in [Calls -> Pending \union Results \union {"new"}]
    BY DEF TransactionSocket, TypeInv, Pending
  <2>2. addr' \in [Calls -> Endpoints \union {NoAddress}]
    BY <1>1 DEF TransactionSocket, TypeInv
  <2> QED  BY <1>2, <1>5, <2>1, <2>2 DEF TypeInv
<1> HIDE DEF a
<1>7. /\ \A e \in Endpoints : open[e] => open'[e]
      /\ \A e \in Endpoints : open'[e] /\ ~open[e] => c \notin Kept /\ e = a
      /\ addr'[c] \in Endpoints /\ open'[addr'[c]]
  BY <1>1, <1>2, <1>3, <1>4 DEF TypeInv
<1>8. addr'[c] \in SocketOf(c) /\ addr'[c] # NoAddress
  BY <1>1, <1>3, TransactionAssumption DEF SocketOf, Addresses
<1>9. /\ \A d \in Calls : addr'[d] # NoAddress => addr'[d] \in SocketOf(d)
      /\ \A d \in Calls : pc'[d] = "new" => addr'[d] = NoAddress
      /\ \A d \in Calls : pc'[d] \in Pending => addr'[d] # NoAddress
  BY <1>2, <1>8 DEF SocketInv
<1>10. NoneClosedInUse'
  <2> SUFFICES ASSUME NEW d \in Calls, pc'[d] \in Pending PROVE open'[addr'[d]]
    BY DEF NoneClosedInUse
  <2>1. CASE d = c
    BY <1>7, <2>1
  <2>2. CASE d # c
    BY <1>2, <1>7, <2>2, SocketPlace
  <2> QED  BY <2>1, <2>2
<1>11. OwnSocket'
  <2>1. ASSUME NEW d \in Calls \ Kept, d # c, pc'[d] \in Pending, c \notin Kept
        PROVE  addr'[d] # addr'[c]
    <3>1. open[addr[d]] /\ addr'[d] = addr[d]
      BY <1>2, <2>1, SocketPlace
    <3> QED  BY <1>3, <1>4, <2>1, <3>1
  <2>2. ASSUME NEW d \in Calls \ Kept, NEW e \in Calls \ Kept, d # c, e # c,
               pc'[d] \in Pending, pc'[e] \in Pending, addr'[d] = addr'[e]
        PROVE  d = e
    BY <1>2, <2>2 DEF SocketInv, OwnSocket
  <2> QED  BY <2>1, <2>2 DEF OwnSocket
<1>12. NoSocketLeft'
  <2> SUFFICES ASSUME NEW b \in Addresses, open'[b]
               PROVE  \E d \in Calls : addr'[d] = b /\ pc'[d] \in Pending
    BY DEF NoSocketLeft
  <2>1. CASE open[b]
    <3>1. PICK d \in Calls : addr[d] = b /\ pc[d] \in Pending
      BY <2>1 DEF SocketInv, NoSocketLeft
    <3> QED  BY <1>2, <3>1 DEF Pending
  <2>2. CASE ~open[b]
    <3>1. c \notin Kept /\ b = a
      BY <1>7, <2>2 DEF Endpoints
    <3> QED  BY <1>2, <1>3, <3>1 DEF Pending
  <2> QED  BY <2>1, <2>2
<1>13. ClosedIsEmpty'
  BY <1>2, <1>7 DEF SocketInv, ClosedIsEmpty
<1> QED  BY <1>6, <1>9, <1>10, <1>11, <1>12, <1>13 DEF SocketInv

(* A process that dies takes its own sockets with it and no other.         *)
LEMMA SocketCrashed ==
  ASSUME SocketInv, NEW p \in Procs, Crash(p)
  PROVE  SocketInv'
<1> DEFINE gone == {p} \union {addr[c] : c \in Calling(p)}
<1> TypeInv
  BY DEF SocketInv
<1>1. /\ \A e \in Endpoints : open'[e] <=> open[e] /\ e \notin gone
      /\ \A e \in Endpoints : queue'[e] = IF e \in gone THEN <<>> ELSE queue[e]
      /\ \A c \in Calls : pc'[c] = IF c \in Calling(p) THEN "gone" ELSE pc[c]
      /\ UNCHANGED <<named, addr, answer, runs>>
  BY DEF Crash, TypeInv
<1>2. TypeInv'
  <2>1. <<>> \in Seq(Messages)
    BY EmptySeq
  <2>2. queue' \in [Endpoints -> Seq(Messages)]
    BY <2>1 DEF Crash, TypeInv
  <2>3. open' \in [Endpoints -> BOOLEAN]
    BY DEF Crash, TypeInv
  <2>4. pc' \in [Calls -> Pending \union Results \union {"new"}]
    BY DEF Crash, TypeInv, Results
  <2>5. thread' \in [Procs -> Messages \union {Listening}] /\ crashes' \in 0..MaxCrashes
    BY TransactionAssumption DEF Crash, TypeInv
  <2> QED  BY <1>1, <2>2, <2>3, <2>4, <2>5 DEF TypeInv
<1>3. \A c \in Calls : /\ pc'[c] \in Pending => pc[c] \in Pending /\ From[c] # p
                       /\ pc'[c] = "new" => pc[c] = "new"
  BY <1>1 DEF Calling, Pending
<1>4. /\ \A c \in Calls : addr'[c] # NoAddress => addr'[c] \in SocketOf(c)
      /\ \A c \in Calls : pc'[c] = "new" => addr'[c] = NoAddress
      /\ \A c \in Calls : pc'[c] \in Pending => addr'[c] # NoAddress
      /\ OwnSocket'
  BY <1>1, <1>3 DEF SocketInv, OwnSocket
<1>5. NoneClosedInUse'
  <2> SUFFICES ASSUME NEW d \in Calls, pc'[d] \in Pending PROVE open'[addr[d]]
    BY <1>1 DEF NoneClosedInUse
  <2>1. pc[d] \in Pending /\ From[d] # p
    BY <1>3
  <2>2. addr[d] \in Endpoints /\ open[addr[d]] /\ addr[d] \in SocketOf(d)
    BY <2>1, SocketPlace
  <2>3. addr[d] # p
    BY <2>1, <2>2, TransactionAssumption DEF SocketOf, Addresses
  <2>4. ASSUME NEW c \in Calling(p) PROVE addr[d] # addr[c]
    BY <2>1, <2>4, SocketShared DEF Calling
  <2> QED  BY <1>1, <2>2, <2>3, <2>4
<1>6. ClosedIsEmpty'
  BY <1>1 DEF SocketInv, ClosedIsEmpty
<1>7. NoSocketLeft'
  <2> SUFFICES ASSUME NEW a \in Addresses, open'[a]
               PROVE  \E c \in Calls : addr'[c] = a /\ pc'[c] \in Pending
    BY DEF NoSocketLeft
  <2>1. open[a] /\ a \notin gone
    BY <1>1 DEF Endpoints
  <2>2. PICK c \in Calls : addr[c] = a /\ pc[c] \in Pending
    BY <2>1 DEF SocketInv, NoSocketLeft
  <2>3. c \notin Calling(p)
    BY <2>1, <2>2
  <2> QED  BY <1>1, <2>2, <2>3
<1> QED  BY <1>2, <1>4, <1>5, <1>6, <1>7 DEF SocketInv

(* Every step keeps sockets sound.                                         *)
LEMMA SocketStep ==
  ASSUME SocketInv, [Next]_vars
  PROVE  SocketInv'
<1> TypeInv /\ ClosedIsEmpty
  BY DEF SocketInv
<1>0. CASE UNCHANGED vars
  BY <1>0 DEF vars, sockets, SocketInv, TypeInv, OwnSocket, NoSocketLeft, NoneClosedInUse,
     ClosedIsEmpty
<1>1. ASSUME NEW c \in Calls, TransactionSocket(c) PROVE SocketInv'
  BY <1>1, SocketOpened
<1>2. ASSUME NEW c \in Calls, NEW step \in Pending, NEW result \in Results,
             FailsAt(c, step, result)
      PROVE  SocketInv'
  <2>1. pc[c] \in Pending /\ TransactionReturn(c, result) /\ queue' = Closed(queue, c)
    BY <1>2 DEF FailsAt
  <2>2. UNCHANGED <<named, thread, addr, answer, runs, crashes>>
    BY <1>2 DEF FailsAt
  <2>3. queue \in [Endpoints -> Seq(Messages)] /\ \A e \in Endpoints : ~open[e] => queue[e] = <<>>
    BY DEF TypeInv, ClosedIsEmpty
  <2> QED  BY <2>1, <2>2, <2>3, SocketReturned DEF TypeInv
<1>3. ASSUME NEW c \in Calls, un_sock_sendto_svc(c) PROVE SocketInv'
  <2>1. pc[c] = "send" /\ pc[c] \in Pending /\ addr[c] \in Endpoints /\ To[c] \in Endpoints
    BY <1>3, TransactionAssumption, SocketPlace DEF un_sock_sendto_svc, Endpoints, Pending
  <2>2. CASE open[To[c]]
    <3>1. /\ queue' \in [Endpoints -> Seq(Messages)]
          /\ \A e \in Endpoints \ {To[c]} : queue'[e] = queue[e]
      BY <1>3, <2>1, <2>2, SentProperties, MessageShape DEF un_sock_sendto_svc
    <3>2. \A e \in Endpoints : ~open[e] => queue'[e] = <<>>
      BY <2>2, <3>1 DEF ClosedIsEmpty
    <3>3. pc' \in [Calls -> Pending \union Results \union {"new"}]
      BY <1>3, <2>2 DEF un_sock_sendto_svc, TypeInv, Pending
    <3>4. \A d \in Calls : /\ pc[d] \in Pending <=> pc'[d] \in Pending
                           /\ pc'[d] = "new" => pc[d] = "new"
      BY <1>3, <2>2 DEF un_sock_sendto_svc, TypeInv, Pending
    <3>5. UNCHANGED <<open, named, thread, addr, answer, runs, crashes>>
      BY <1>3, <2>2 DEF un_sock_sendto_svc
    <3> QED  BY <3>1, <3>2, <3>3, <3>4, <3>5, SocketKept DEF TypeInv
  <2>3. CASE ~open[To[c]]
    <3>1. FailsAt(c, "send", "refused")
      BY <1>3, <2>3 DEF un_sock_sendto_svc, FailsAt
    <3> QED  BY <1>2, <3>1 DEF Pending, Results
  <2> QED  BY <2>2, <2>3
<1>4. ASSUME NEW c \in Calls, select_for_read(c) PROVE SocketInv'
  <2>1. pc' \in [Calls -> Pending \union Results \union {"new"}]
    BY <1>4 DEF select_for_read, TypeInv, Pending
  <2>2. \A d \in Calls : /\ pc[d] \in Pending <=> pc'[d] \in Pending
                         /\ pc'[d] = "new" => pc[d] = "new"
    BY <1>4 DEF select_for_read, TypeInv, Pending
  <2> QED  BY <1>4, <2>1, <2>2, SocketKept DEF select_for_read, TypeInv, ClosedIsEmpty, sockets
<1>5. ASSUME NEW c \in Calls, TransactionTimeout(c) PROVE SocketInv'
  <2>1. FailsAt(c, "select", "timeout")
    BY <1>5 DEF TransactionTimeout, FailsAt
  <2> QED  BY <1>2, <2>1 DEF Pending, Results
<1>6. ASSUME NEW c \in Calls, TransactionRecv(c) PROVE SocketInv'
  <2> DEFINE waiting == queue[addr[c]]
             taken == [queue EXCEPT ![addr[c]] = Tail(waiting)]
  <2>1. /\ pc[c] \in Pending /\ addr[c] \in Endpoints /\ open[addr[c]]
        /\ waiting # <<>> /\ waiting \in Seq(Messages)
    BY <1>6, SocketPlace DEF TransactionRecv, TypeInv, Pending
  <2>2. Head(waiting) \in Messages /\ Tail(waiting) \in Seq(Messages)
    BY <2>1, TailProperties
  <2>3. /\ taken \in [Endpoints -> Seq(Messages)]
        /\ \A e \in Endpoints : ~open[e] => taken[e] = <<>>
    BY <2>1, <2>2 DEF TypeInv, ClosedIsEmpty
  <2>4. queue' = Closed(taken, c) /\ TransactionReturn(c, "ok")
    BY <1>6 DEF TransactionRecv
  <2>5. answer' \in [Calls -> Messages \union {Nothing}]
    BY <1>6, <2>2 DEF TransactionRecv, TypeInv
  <2>6. UNCHANGED <<named, thread, addr, runs, crashes>>
    BY <1>6 DEF TransactionRecv
  <2> HIDE DEF taken
  <2> QED  BY <2>1, <2>3, <2>4, <2>5, <2>6, SocketReturned DEF TypeInv, Results
<1>7. ASSUME NEW c \in Calls, SocketFails(c) PROVE SocketInv'
  <2>1. /\ pc[c] = "new" /\ pc' = [pc EXCEPT ![c] = "refused"]
        /\ UNCHANGED <<open, queue, named, thread, addr, answer, runs, crashes>>
    BY <1>7 DEF SocketFails, MayCall, sockets
  <2>2. pc' \in [Calls -> Pending \union Results \union {"new"}]
    BY <2>1 DEF TypeInv, Results
  <2>3. \A d \in Calls : /\ pc[d] \in Pending <=> pc'[d] \in Pending
                         /\ pc'[d] = "new" => pc[d] = "new"
    BY <2>1 DEF TypeInv, Pending
  <2> QED  BY <2>1, <2>2, <2>3, SocketKept DEF TypeInv, ClosedIsEmpty
<1>8. ASSUME NEW c \in Calls, CallFails(c) PROVE SocketInv'
  BY <1>2, <1>7, <1>8 DEF CallFails, SendFails, SelectFails, RecvFails, Pending, Results
<1>9. ASSUME NEW p \in Procs, abus_process_incoming(p) PROVE SocketInv'
  <2> DEFINE m == Head(queue[p])
  <2>1. p \in Endpoints /\ queue[p] # <<>> /\ queue[p] \in Seq(Messages)
    BY <1>9 DEF abus_process_incoming, TypeInv, Endpoints
  <2>2. m \in Messages /\ Tail(queue[p]) \in Seq(Messages)
    BY <2>1, TailProperties
  <2>3. /\ queue' \in [Endpoints -> Seq(Messages)]
        /\ \A e \in Endpoints : ~open[e] => queue'[e] = <<>>
    BY <1>9, <2>1, <2>2 DEF abus_process_incoming, TypeInv, ClosedIsEmpty
  <2>4. thread' \in [Procs -> Messages \union {Listening}]
    BY <1>9, <2>2 DEF abus_process_incoming, TypeInv
  <2>5. runs' \in [Calls -> Nat]
    BY <1>9 DEF abus_process_incoming, TypeInv
  <2> QED  BY <1>9, <2>3, <2>4, <2>5, SocketKept DEF abus_process_incoming, TypeInv
<1>10. ASSUME NEW p \in Procs, abus_resp_send(p) PROVE SocketInv'
  <2>1. thread[p] \in Messages /\ thread[p].kind = "request"
    BY <1>10, MessageShape DEF abus_resp_send, CallbackDone, TypeInv
  <2>2. thread[p].from \in Endpoints /\ Response(thread[p].call) \in Messages
    BY <2>1, MessageShape
  <2>3. /\ queue' \in [Endpoints -> Seq(Messages)]
        /\ \A e \in Endpoints : ~open[e] => queue'[e] = <<>>
    BY <1>10, <2>2, SentProperties DEF abus_resp_send, TypeInv, ClosedIsEmpty
  <2>4. thread' \in [Procs -> Messages \union {Listening}]
    BY <1>10 DEF abus_resp_send, TypeInv
  <2> QED  BY <1>10, <2>3, <2>4, SocketKept DEF abus_resp_send, TypeInv
<1>11. ASSUME NEW p \in Procs, Crash(p) PROVE SocketInv'
  BY <1>11, SocketCrashed
<1>12. ASSUME NEW p \in Procs, Restart(p) PROVE SocketInv'
  <2>1. /\ open' \in [Endpoints -> BOOLEAN] /\ \A a \in Addresses : open'[a] = open[a]
        /\ \A e \in Endpoints : open[e] => open'[e]
        /\ UNCHANGED <<queue, named, thread, pc, addr, answer, runs, crashes>>
    BY <1>12, TransactionAssumption DEF Restart, TypeInv, Endpoints, Addresses
  <2>2. TypeInv' /\ OwnSocket' /\ ClosedIsEmpty'
    BY <2>1 DEF TypeInv, SocketInv, OwnSocket, ClosedIsEmpty
  <2>3. NoSocketLeft'
    BY <2>1 DEF NoSocketLeft, SocketInv
  <2>4. NoneClosedInUse'
    BY <2>1, SocketPlace DEF NoneClosedInUse
  <2> QED  BY <2>1, <2>2, <2>3, <2>4 DEF SocketInv
<1> QED
  BY <1>0, <1>1, <1>3, <1>4, <1>5, <1>6, <1>8, <1>9, <1>10, <1>11, <1>12
  DEF Next, CallStep, Serve

(* SocketInv is invariant, for kept sockets and names that run out too.    *)
LEMMA SocketInvariant == Spec => []SocketInv
<1>1. Init => SocketInv
  <2> SUFFICES ASSUME Init PROVE SocketInv
    OBVIOUS
  <2>1. <<>> \in Seq(Messages)
    BY EmptySeq
  <2>2. queue \in [Endpoints -> Seq(Messages)] /\ \A e \in Endpoints : queue[e] = <<>>
    BY <2>1 DEF Init
  <2>3. open \in [Endpoints -> BOOLEAN] /\ \A a \in Addresses : ~open[a]
    <3>1. open = [e \in Endpoints |-> e \in Procs]
      BY DEF Init
    <3>2. \A a \in Addresses : a \notin Procs /\ a \in Endpoints
      BY TransactionAssumption DEF Addresses, Endpoints
    <3>3. open \in [Endpoints -> BOOLEAN]
      BY <3>1
    <3>4. \A a \in Addresses : ~open[a]
      BY <3>1, <3>2
    <3> QED  BY <3>3, <3>4
  <2>4. TypeInv
    BY <2>2, <2>3, TransactionAssumption DEF Init, TypeInv
  <2>5. NoSocketLeft /\ ClosedIsEmpty
    BY <2>2, <2>3 DEF NoSocketLeft, ClosedIsEmpty
  <2>6. \A c \in Calls : pc[c] = "new" /\ pc[c] \notin Pending /\ addr[c] = NoAddress
    BY DEF Init, Pending
  <2> QED  BY <2>4, <2>5, <2>6 DEF SocketInv, OwnSocket, NoneClosedInUse
<1>2. SocketInv /\ [Next]_vars => SocketInv'
  BY SocketStep
<1> QED
  BY <1>1, <1>2, PTL DEF Spec

(* At whichever of its returns a call ends and whatever process crashes,   *)
(* un_sock_transaction() leaves no socket of its own open, closes none     *)
(* that another call uses, and nothing waits at a socket that is closed.   *)
THEOREM SocketsStaySound == Spec => []SocketsSound
<1>1. SocketInv => SocketsSound
  <2> SUFFICES ASSUME SocketInv PROVE TypeOK
    BY DEF SocketsSound, SocketInv
  <2>1. TypeInv
    BY DEF SocketInv
  <2>2. \A e \in Endpoints : Range(queue[e]) \subseteq Messages
    BY <2>1, RangeOfSeq DEF TypeInv
  <2> QED  BY <2>1, <2>2 DEF TypeInv, TypeOK
<1> QED
  BY <1>1, SocketInvariant, PTL

-----------------------------------------------------------------------------
(* Answers *)

(* A step that gives no call a socket keeps NameInv.                       *)
LEMMA NameKept ==
  ASSUME NameInv, UNCHANGED <<addr, named>>
  PROVE  NameInv'
<1>1. Begun' = Begun
  BY DEF Begun
<1> QED  BY <1>1 DEF NameInv

(* The kernel names the socket of a call as it named no other, as long as  *)
(* there are as many names as calls.                                       *)
LEMMA NameStep ==
  ASSUME Kept = {}, IsFiniteSet(Calls), Cardinality(Calls) <= Names,
         SocketInv, NameInv, NEW c \in Calls, TransactionSocket(c)
  PROVE  NameInv'
<1>1. addr[c] = NoAddress /\ \A d \in Calls \ {c} : addr'[d] = addr[d]
  BY DEF TransactionSocket, MayCall, SocketInv, TypeInv
<1>2. Begun' = Begun \union {c} /\ c \notin Begun /\ Begun' \subseteq Calls
  <2>1. addr'[c] = (named % Names) + 1 /\ (named % Names) + 1 \in Addresses
    BY TransactionAssumption DEF TransactionSocket, SocketInv, TypeInv, Addresses
  <2>2. addr'[c] # NoAddress
    BY <2>1, TransactionAssumption DEF Addresses
  <2> QED  BY <1>1, <2>2 DEF Begun
<1>3. IsFiniteSet(Begun) /\ IsFiniteSet(Begun') /\ Cardinality(Begun') <= Cardinality(Calls)
  BY <1>2, FS_Subset
<1>4. Cardinality(Begun') = Cardinality(Begun) + 1
  BY <1>2, <1>3, FS_AddElement
<1>5. Cardinality(Begun) \in Nat /\ Cardinality(Calls) \in Nat /\ Cardinality(Begun') \in Nat
  BY <1>3, FS_CardinalityType
<1>6. named < Names /\ named \in Nat /\ named % Names = named
  BY <1>3, <1>4, <1>5, TransactionAssumption DEF NameInv
<1>7. addr'[c] = named + 1 /\ named' = named + 1
  BY <1>6 DEF TransactionSocket, SocketInv, TypeInv
<1>8. \A d \in Begun : addr'[d] = addr[d] /\ addr[d] \in 1..named
  BY <1>1, <1>2 DEF NameInv, Begun
<1>9. \A d \in Begun' : addr'[d] \in 1..named'
  BY <1>2, <1>6, <1>7, <1>8
<1>10. \A d, e \in Begun' : addr'[d] = addr'[e] => d = e
  <2>1. \A d \in Begun : addr'[d] # addr'[c]
    BY <1>6, <1>7, <1>8
  <2> QED  BY <1>2, <1>8, <2>1 DEF NameInv
<1> QED  BY <1>4, <1>7, <1>9, <1>10 DEF NameInv

(* A step that sends and takes no message, or loses some, keeps QueueInv.  *)
LEMMA QueueKept ==
  ASSUME SocketInv, QueueInv, OutcomeInv, UNCHANGED runs,
         \A e \in Endpoints : queue'[e] = queue[e] \/ queue'[e] = <<>>,
         \A p \in Procs : thread'[p] = thread[p] \/ thread'[p] = Listening,
         \A c \in Calls : ~Undelivered(c) => ~Undelivered(c)' /\ addr'[c] = addr[c]
  PROVE  QueueInv'
<1>1. \A e \in Endpoints : \A i \in DOMAIN queue'[e] :
        i \in DOMAIN queue[e] /\ queue'[e] = queue[e] /\ queue[e][i] \in Messages
  <2> SUFFICES ASSUME NEW e \in Endpoints, NEW i \in DOMAIN queue'[e]
               PROVE  i \in DOMAIN queue[e] /\ queue'[e] = queue[e] /\ queue[e][i] \in Messages
    OBVIOUS
  <2>1. queue'[e] = queue[e]
    BY EmptySeq
  <2>2. queue[e] \in Seq(Messages)
    BY DEF SocketInv, TypeInv
  <2> QED  BY <2>1, <2>2, ElementOfSeq, LenProperties
<1>2. \A c \in Calls : runs[c] = 1 => ~Undelivered(c)
  BY DEF OutcomeInv
<1>3. ASSUME NEW p \in Procs, NEW i \in DOMAIN queue'[p] PROVE WaitingRequest(p, i)'
  <2>1. p \in Endpoints /\ WaitingRequest(p, i)
    BY <1>1 DEF QueueInv, Endpoints
  <2>2. queue[p][i].call \in Calls
    BY <1>1, <2>1, MessageShape
  <2> QED  BY <1>1, <2>1, <2>2 DEF WaitingRequest
<1>4. ASSUME NEW a \in Addresses, NEW i \in DOMAIN queue'[a] PROVE WaitingResponse(a, i)'
  <2>1. a \in Endpoints /\ WaitingResponse(a, i)
    BY <1>1 DEF QueueInv, Endpoints
  <2>2. queue[a][i].call \in Calls
    BY <1>1, <2>1, MessageShape
  <2> QED  BY <1>1, <1>2, <2>1, <2>2 DEF WaitingResponse
<1>5. ASSUME NEW p \in Procs PROVE RunningRequest(p)'
  <2>1. CASE thread'[p] = Listening
    BY <2>1, MessageShape DEF RunningRequest
  <2>2. CASE thread'[p] = thread[p] /\ thread[p].kind = "request"
    <3>1. thread[p].call \in Calls
      BY <2>2, MessageShape DEF SocketInv, TypeInv
    <3> QED  BY <1>2, <2>2, <3>1 DEF RunningRequest, QueueInv
  <2>3. CASE thread'[p] = thread[p] /\ thread[p].kind # "request"
    BY <2>3 DEF RunningRequest
  <2> QED  BY <2>1, <2>2, <2>3
<1> QED  BY <1>3, <1>4, <1>5 DEF QueueInv

(* A request that is sent waits once, and was not run.                     *)
LEMMA QueueSend ==
  ASSUME SocketInv, QueueInv, OutcomeInv, NEW c \in Calls, un_sock_sendto_svc(c), open[To[c]]
  PROVE  QueueInv'
<1> DEFINE p == To[c]
           n == Len(queue[p]) + 1
           m == Request(c, addr[c])
<1>1. p \in Procs /\ p \in Endpoints /\ addr[c] \in Endpoints /\ pc[c] = "send" /\ Room(p)
  BY TransactionAssumption, SocketPlace DEF un_sock_sendto_svc, Pending, Endpoints
<1>2. m \in Messages /\ m.kind = "request" /\ m.call = c /\ m.from = addr[c]
  BY <1>1, MessageShape
<1>3. /\ DOMAIN queue'[p] = DOMAIN queue[p] \union {n} /\ n \notin DOMAIN queue[p]
      /\ \A i \in DOMAIN queue[p] : queue'[p][i] = queue[p][i]
      /\ queue'[p][n] = m
      /\ \A e \in Endpoints \ {p} : queue'[e] = queue[e]
  <2>1. queue' = Sent(p, m) /\ TypeInv
    BY DEF un_sock_sendto_svc, SocketInv
  <2> QED  BY <1>1, <1>2, <2>1, SentProperties
<1>4. /\ pc'[c] = "select" /\ \A d \in Calls \ {c} : pc'[d] = pc[d]
      /\ UNCHANGED <<thread, addr, runs>>
  BY DEF un_sock_sendto_svc, SocketInv, TypeInv
<1>5. Undelivered(c) /\ ~Undelivered(c)' /\ runs[c] = 0
  BY <1>1, <1>4 DEF Undelivered, OutcomeInv
<1>6. \A e \in Endpoints : \A i \in DOMAIN queue[e] : queue[e][i].call \in Calls
  <2> SUFFICES ASSUME NEW e \in Endpoints, NEW i \in DOMAIN queue[e]
               PROVE  queue[e][i].call \in Calls
    OBVIOUS
  <2>1. queue[e] \in Seq(Messages)
    BY DEF SocketInv, TypeInv
  <2>2. queue[e][i] \in Messages
    BY <2>1, ElementOfSeq, LenProperties
  <2> QED  BY <2>2, MessageShape
<1>7. ASSUME NEW i \in DOMAIN queue[p] PROVE queue[p][i].call # c
  BY <1>1, <1>5, <1>7 DEF QueueInv, WaitingRequest
<1>8. \A d \in Calls : ~Undelivered(d) => ~Undelivered(d)'
  BY <1>4, <1>5 DEF Undelivered
<1> HIDE DEF m, n, p
<1>9. ASSUME NEW q \in Procs, NEW i \in DOMAIN queue'[q] PROVE WaitingRequest(q, i)'
  <2>1. CASE q = p /\ i = n
    <3>1. \A j \in DOMAIN queue'[p] : queue'[p][j].call = c => j = n
      BY <1>3, <1>7
    <3> QED  BY <2>1, <3>1, <1>2, <1>3, <1>4, <1>5 DEF WaitingRequest, p
  <2>2. CASE q = p /\ i # n
    <3>1. i \in DOMAIN queue[p] /\ WaitingRequest(p, i) /\ queue'[p][i] = queue[p][i]
      BY <2>2, <1>1, <1>3, <1>9 DEF QueueInv
    <3>2. queue[p][i].call \in Calls /\ queue[p][i].call # c
      BY <1>1, <1>6, <1>7, <3>1
    <3>3. \A j \in DOMAIN queue'[p] : queue'[p][j].call = queue[p][i].call => j = i
      BY <1>2, <1>3, <3>1, <3>2 DEF WaitingRequest
    <3> QED  BY <2>2, <3>1, <3>2, <3>3, <1>4, <1>8 DEF WaitingRequest
  <2>3. CASE q # p
    <3>1. queue'[q] = queue[q] /\ WaitingRequest(q, i) /\ queue[q][i].call \in Calls
      BY <2>3, <1>3, <1>6, <1>9 DEF QueueInv, Endpoints
    <3> QED  BY <3>1, <1>4, <1>8 DEF WaitingRequest
  <2> QED  BY <2>1, <2>2, <2>3
<1>10. ASSUME NEW a \in Addresses, NEW i \in DOMAIN queue'[a] PROVE WaitingResponse(a, i)'
  <2>1. a \in Endpoints \ {p}
    BY <1>1, TransactionAssumption DEF Addresses, Endpoints
  <2> QED  BY <2>1, <1>3, <1>4, <1>10 DEF QueueInv, WaitingResponse
<1>11. ASSUME NEW q \in Procs PROVE RunningRequest(q)'
  BY <1>4 DEF QueueInv, RunningRequest
<1> QED  BY <1>9, <1>10, <1>11 DEF QueueInv

(* A request that the A-Bus thread takes was not run before, and no other  *)
(* copy of it waits.                                                       *)
LEMMA QueueTake ==
  ASSUME SocketInv, QueueInv, OutcomeInv, NEW p \in Procs, abus_process_incoming(p)
  PROVE  LET m == Head(queue[p])
         IN  /\ m.kind = "request" /\ m.call \in Calls /\ runs[m.call] = 0
             /\ ~Undelivered(m.call) /\ runs' = [runs EXCEPT ![m.call] = 1]
             /\ QueueInv'
<1> DEFINE s == queue[p]
           m == Head(s)
<1>1. p \in Endpoints /\ s \in Seq(Messages) /\ s # <<>>
  BY DEF abus_process_incoming, SocketInv, TypeInv, Endpoints
<1>2. /\ m \in Messages /\ m = s[1] /\ 1 \in DOMAIN s
      /\ \A i \in DOMAIN Tail(s) : i + 1 \in DOMAIN s /\ i + 1 # 1 /\ Tail(s)[i] = s[i + 1]
      /\ DOMAIN Tail(s) \subseteq Nat
  <2>1. Tail(s) \in Seq(Messages)
    BY <1>1, TailProperties
  <2> QED  BY <1>1, <2>1, TailProperties, LenProperties
<1>3. WaitingRequest(p, 1)
  BY <1>2 DEF QueueInv
<1>4. m.kind = "request" /\ m.call \in Calls /\ runs[m.call] = 0 /\ m.from = addr[m.call]
  BY <1>2, <1>3, MessageShape DEF WaitingRequest
<1>5. ~Undelivered(m.call)
  BY <1>2, <1>3 DEF WaitingRequest
<1>6. /\ thread' = [thread EXCEPT ![p] = m] /\ UNCHANGED <<pc, addr>>
      /\ runs' = [runs EXCEPT ![m.call] = runs[m.call] + 1]
      /\ queue' = [queue EXCEPT ![p] = Tail(s)]
  BY <1>4 DEF abus_process_incoming
<1>7. runs' = [runs EXCEPT ![m.call] = 1]
  BY <1>4, <1>6
<1>8. runs'[m.call] = 1 /\ \A d \in Calls \ {m.call} : runs'[d] = runs[d]
  BY <1>4, <1>7 DEF SocketInv, TypeInv
<1>9. queue'[p] = Tail(s) /\ \A e \in Endpoints \ {p} : queue'[e] = queue[e]
  BY <1>1, <1>6 DEF SocketInv, TypeInv
<1>10. thread'[p] = m /\ \A q \in Procs \ {p} : thread'[q] = thread[q]
  BY <1>6 DEF SocketInv, TypeInv
<1>11. \A e \in Endpoints : \A i \in DOMAIN queue[e] : queue[e][i].call \in Calls
  <2> SUFFICES ASSUME NEW e \in Endpoints, NEW i \in DOMAIN queue[e]
               PROVE  queue[e][i].call \in Calls
    OBVIOUS
  <2>1. queue[e] \in Seq(Messages)
    BY DEF SocketInv, TypeInv
  <2>2. queue[e][i] \in Messages
    BY <2>1, ElementOfSeq, LenProperties
  <2> QED  BY <2>2, MessageShape
<1>12. \A d \in Calls : Undelivered(d)' = Undelivered(d)
  BY <1>6 DEF Undelivered
<1>13. To[m.call] = p
  BY <1>2, <1>3 DEF WaitingRequest
<1> HIDE DEF m, s
<1>14. ASSUME NEW q \in Procs, NEW i \in DOMAIN queue'[q] PROVE WaitingRequest(q, i)'
  <2>1. CASE q = p
    <3>1. i \in DOMAIN Tail(s) /\ i + 1 \in DOMAIN s /\ queue'[p][i] = s[i + 1] /\ i \in Nat
      BY <1>2, <1>9, <1>14, <2>1
    <3>2. WaitingRequest(p, i + 1)
      BY <3>1 DEF QueueInv, s
    <3>3. s[i + 1].call \in Calls
      BY <1>1, <1>11, <3>1 DEF s
    <3>4. s[i + 1].call # m.call
      BY <1>2, <3>1, <3>2 DEF WaitingRequest, s
    <3>5. \A j \in DOMAIN queue'[p] : queue'[p][j].call = s[i + 1].call => j = i
      <4> SUFFICES ASSUME NEW j \in DOMAIN Tail(s), Tail(s)[j].call = s[i + 1].call
                   PROVE  j = i
        BY <1>9
      <4>1. j + 1 \in DOMAIN s /\ s[j + 1].call = s[i + 1].call /\ j \in Nat
        BY <1>2
      <4>2. j + 1 = i + 1
        BY <3>2, <4>1 DEF WaitingRequest, s
      <4> QED  BY <3>1, <4>1, <4>2
    <3> QED  BY <2>1, <3>1, <3>2, <3>3, <3>4, <3>5, <1>6, <1>8, <1>12 DEF WaitingRequest, s
  <2>2. CASE q # p
    <3>1. q \in Endpoints /\ queue'[q] = queue[q]
      BY <1>9, <2>2 DEF Endpoints
    <3>2. WaitingRequest(q, i) /\ queue[q][i].call \in Calls
      BY <1>11, <1>14, <3>1 DEF QueueInv
    <3>3. queue[q][i].call # m.call
      BY <3>2, <2>2, <1>13 DEF WaitingRequest
    <3> QED  BY <3>1, <3>2, <3>3, <1>6, <1>8, <1>12 DEF WaitingRequest
  <2> QED  BY <2>1, <2>2
<1>15. ASSUME NEW a \in Addresses, NEW i \in DOMAIN queue'[a] PROVE WaitingResponse(a, i)'
  <2>1. a \in Endpoints /\ a # p
    BY TransactionAssumption DEF Addresses, Endpoints
  <2>2. queue'[a] = queue[a] /\ WaitingResponse(a, i) /\ queue[a][i].call \in Calls
    BY <2>1, <1>9, <1>11, <1>15 DEF QueueInv
  <2>3. queue[a][i].call # m.call
    BY <2>2, <1>4 DEF WaitingResponse
  <2> QED  BY <2>2, <2>3, <1>6, <1>8 DEF WaitingResponse
<1>16. ASSUME NEW q \in Procs PROVE RunningRequest(q)'
  <2>1. CASE q = p
    BY <2>1, <1>4, <1>6, <1>8, <1>10 DEF RunningRequest
  <2>2. CASE q # p /\ thread[q].kind = "request"
    <3>1. thread'[q] = thread[q] /\ thread[q].call \in Calls
      BY <1>10, <2>2, MessageShape DEF SocketInv, TypeInv
    <3>2. runs[thread[q].call] = 1 /\ thread[q].from = addr[thread[q].call]
      BY <2>2 DEF QueueInv, RunningRequest
    <3> QED  BY <3>1, <3>2, <1>4, <1>6, <1>8 DEF RunningRequest
  <2>3. CASE q # p /\ thread[q].kind # "request"
    BY <2>3, <1>10 DEF RunningRequest
  <2> QED  BY <2>1, <2>2, <2>3
<1>17. QueueInv'
  BY <1>14, <1>15, <1>16 DEF QueueInv
<1> QED  BY <1>4, <1>5, <1>7, <1>17 DEF m, s

(* A response goes to the socket of the call whose callback returned.      *)
LEMMA QueueRespond ==
  ASSUME SocketInv, QueueInv, OutcomeInv, NEW p \in Procs, abus_resp_send(p),
         Kept = {}
  PROVE  QueueInv'
<1> DEFINE c == thread[p].call
           a == thread[p].from
           n == Len(queue[a]) + 1
<1>1. thread[p] \in Messages /\ thread[p].kind = "request"
  BY MessageShape DEF abus_resp_send, CallbackDone, SocketInv, TypeInv
<1>2. c \in Calls /\ a \in Endpoints
  BY <1>1, MessageShape
<1>3. runs[c] = 1 /\ a = addr[c]
  BY <1>1 DEF QueueInv, RunningRequest
<1>4. a \in Addresses
  <2>1. addr[c] # NoAddress
    BY <1>2, <1>3, TransactionAssumption DEF Endpoints, Addresses
  <2> QED  BY <1>2, <1>3, <2>1 DEF SocketInv, SocketOf
<1>5. thread'[p] = Listening /\ (\A q \in Procs \ {p} : thread'[q] = thread[q])
      /\ UNCHANGED <<pc, addr, runs>>
  BY DEF abus_resp_send, SocketInv, TypeInv
<1>6. \A d \in Calls : Undelivered(d)' = Undelivered(d)
  BY <1>5 DEF Undelivered
<1>7. CASE queue' = queue
  BY <1>5, <1>6, <1>7, QueueKept
<1>8. CASE Room(a) /\ queue' = Sent(a, Response(c))
  <2>1. Response(c) \in Messages /\ Response(c).call = c
    BY <1>2, MessageShape
  <2>2. /\ DOMAIN queue'[a] = DOMAIN queue[a] \union {n}
        /\ \A i \in DOMAIN queue[a] : queue'[a][i] = queue[a][i]
        /\ queue'[a][n] = Response(c)
        /\ \A e \in Endpoints \ {a} : queue'[e] = queue[e]
    BY <1>2, <1>8, <2>1, SentProperties DEF SocketInv
  <2> HIDE DEF c, a, n
  <2>3. ASSUME NEW q \in Procs, NEW i \in DOMAIN queue'[q] PROVE WaitingRequest(q, i)'
    <3>1. q \in Endpoints \ {a}
      BY <1>4, TransactionAssumption DEF Addresses, Endpoints
    <3>2. queue'[q] = queue[q] /\ WaitingRequest(q, i)
      BY <2>2, <2>3, <3>1 DEF QueueInv
    <3>3. queue[q][i].call \in Calls
      <4>1. queue[q] \in Seq(Messages)
        BY <3>1 DEF SocketInv, TypeInv
      <4>2. queue[q][i] \in Messages
        BY <4>1, <2>3, <3>2, ElementOfSeq, LenProperties
      <4> QED  BY <4>2, MessageShape
    <3> QED  BY <3>2, <3>3, <1>5, <1>6 DEF WaitingRequest
  <2>4. ASSUME NEW b \in Addresses, NEW i \in DOMAIN queue'[b] PROVE WaitingResponse(b, i)'
    <3>1. CASE b = a /\ i = n
      BY <3>1, <1>3, <1>5, <2>1, <2>2 DEF WaitingResponse
    <3>2. CASE b = a /\ i # n
      BY <3>2, <1>4, <1>5, <2>2, <2>4 DEF WaitingResponse, QueueInv
    <3>3. CASE b # a
      BY <3>3, <1>5, <2>2, <2>4 DEF WaitingResponse, QueueInv, Endpoints
    <3> QED  BY <3>1, <3>2, <3>3
  <2>5. ASSUME NEW q \in Procs PROVE RunningRequest(q)'
    <3>1. CASE q = p
      BY <3>1, <1>5, MessageShape DEF RunningRequest
    <3>2. CASE q # p
      BY <3>2, <1>5 DEF RunningRequest, QueueInv
    <3> QED  BY <3>1, <3>2
  <2> QED  BY <2>3, <2>4, <2>5 DEF QueueInv
<1> QED  BY <1>7, <1>8 DEF abus_resp_send

(* The only message that a call can take is its own response.              *)
LEMMA RecvOwn ==
  ASSUME SocketInv, AnswerInv, Kept = {}, NEW c \in Calls, TransactionRecv(c)
  PROVE  Head(queue[addr[c]]) = Response(c) /\ runs[c] = 1
<1> DEFINE s == queue[addr[c]]
<1>1. addr[c] \in Addresses /\ s # <<>>
  BY SocketPlace DEF TransactionRecv, SocketOf, Pending
<1>2. s \in Seq(Messages)
  BY <1>1 DEF SocketInv, TypeInv, Endpoints
<1>3. Head(s) \in Messages /\ Head(s) = s[1] /\ 1 \in DOMAIN s
  BY <1>1, <1>2, TailProperties
<1>4. WaitingResponse(addr[c], 1)
  BY <1>1, <1>3 DEF AnswerInv, QueueInv
<1>5. s[1].call \in Calls
  BY <1>3, MessageShape
<1>6. s[1].call \in Begun /\ c \in Begun
  BY <1>1, <1>4, <1>5, TransactionAssumption DEF Begun, WaitingResponse, Addresses
<1>7. s[1].call = c
  BY <1>4, <1>6 DEF WaitingResponse, AnswerInv, NameInv
<1> QED  BY <1>3, <1>4, <1>7 DEF WaitingResponse

(* Every step keeps requests and responses with their calls.               *)
LEMMA AnswerStep ==
  ASSUME Kept = {}, IsFiniteSet(Calls), Cardinality(Calls) <= Names,
         SocketInv, AnswerInv, [Next]_vars
  PROVE  AnswerInv'
<1> NameInv /\ QueueInv /\ OutcomeInv /\ TypeInv
  BY DEF AnswerInv, SocketInv
<1> SUFFICES NameInv' /\ QueueInv' /\ OutcomeInv'
  BY DEF AnswerInv
<1>0. CASE UNCHANGED vars
  <2>1. NameInv'
    BY <1>0, NameKept DEF vars, sockets
  <2>2. QueueInv'
    BY <1>0, QueueKept DEF vars, sockets, Undelivered
  <2> QED  BY <1>0, <2>1, <2>2 DEF vars, OutcomeInv, Undelivered
<1>1. ASSUME NEW c \in Calls, TransactionSocket(c)
      PROVE  NameInv' /\ QueueInv' /\ OutcomeInv'
  <2>1. /\ pc[c] = "new" /\ pc'[c] = "send"
        /\ \A d \in Calls \ {c} : pc'[d] = pc[d] /\ addr'[d] = addr[d]
        /\ UNCHANGED <<queue, thread, runs, answer>>
    BY <1>1 DEF TransactionSocket, MayCall, TypeInv
  <2>2. QueueInv'
    BY <2>1, QueueKept DEF Undelivered
  <2>3. OutcomeInv'
    BY <2>1 DEF OutcomeInv, Undelivered
  <2> QED  BY <1>1, <2>2, <2>3, NameStep
<1>2. ASSUME NEW c \in Calls, un_sock_sendto_svc(c)
      PROVE  NameInv' /\ QueueInv' /\ OutcomeInv'
  <2>1. /\ pc[c] = "send" /\ pc'[c] \in {"select", "refused"}
        /\ \A d \in Calls \ {c} : pc'[d] = pc[d]
        /\ UNCHANGED <<thread, addr, runs, answer, named>>
    BY <1>2 DEF un_sock_sendto_svc, TransactionReturn, TypeInv
  <2>2. NameInv'
    BY <2>1, NameKept
  <2>3. OutcomeInv'
    BY <2>1 DEF OutcomeInv, Undelivered
  <2>4. CASE open[To[c]]
    BY <1>2, <2>2, <2>3, <2>4, QueueSend
  <2>5. CASE ~open[To[c]]
    <3>1. addr[c] \in Endpoints
      BY <2>1, SocketPlace DEF Pending
    <3>2. \A e \in Endpoints : queue'[e] = queue[e] \/ queue'[e] = <<>>
      BY <1>2, <2>5, <3>1 DEF un_sock_sendto_svc, Closed, TypeInv
    <3>3. QueueInv'
      BY <2>1, <3>2, QueueKept DEF Undelivered
    <3> QED  BY <2>2, <2>3, <3>3
  <2> QED  BY <2>4, <2>5
<1>3. ASSUME NEW c \in Calls, select_for_read(c)
      PROVE  NameInv' /\ QueueInv' /\ OutcomeInv'
  <2>1. /\ pc[c] = "select" /\ pc'[c] = "recv"
        /\ \A d \in Calls \ {c} : pc'[d] = pc[d]
        /\ UNCHANGED <<queue, thread, addr, runs, answer, named>>
    BY <1>3 DEF select_for_read, TypeInv, sockets
  <2>2. NameInv'
    BY <2>1, NameKept
  <2>3. QueueInv'
    BY <2>1, QueueKept DEF Undelivered
  <2> QED  BY <2>1, <2>2, <2>3 DEF OutcomeInv, Undelivered
<1>4. ASSUME NEW c \in Calls, TransactionTimeout(c)
      PROVE  NameInv' /\ QueueInv' /\ OutcomeInv'
  <2>1. /\ pc[c] = "select" /\ pc'[c] = "timeout"
        /\ \A d \in Calls \ {c} : pc'[d] = pc[d]
        /\ UNCHANGED <<thread, addr, runs, answer, named>>
    BY <1>4 DEF TransactionTimeout, TransactionReturn, TypeInv
  <2>2. addr[c] \in Endpoints
    BY <2>1, SocketPlace DEF Pending
  <2>3. \A e \in Endpoints : queue'[e] = queue[e] \/ queue'[e] = <<>>
    BY <1>4, <2>2 DEF TransactionTimeout, Closed, TypeInv
  <2>4. NameInv'
    BY <2>1, NameKept
  <2>5. QueueInv'
    BY <2>1, <2>3, QueueKept DEF Undelivered
  <2> QED  BY <2>1, <2>4, <2>5 DEF OutcomeInv, Undelivered
<1>5. ASSUME NEW c \in Calls, TransactionRecv(c)
      PROVE  NameInv' /\ QueueInv' /\ OutcomeInv'
  <2>1. /\ pc[c] = "recv" /\ pc'[c] = "ok"
        /\ \A d \in Calls \ {c} : pc'[d] = pc[d] /\ answer'[d] = answer[d]
        /\ UNCHANGED <<thread, addr, runs, named>>
    BY <1>5 DEF TransactionRecv, TransactionReturn, TypeInv
  <2>2. addr[c] \in Endpoints
    BY <2>1, SocketPlace DEF Pending
  <2>3. \A e \in Endpoints : queue'[e] = queue[e] \/ queue'[e] = <<>>
    BY <1>5, <2>2 DEF TransactionRecv, Closed, TypeInv
  <2>4. answer'[c] = Response(c) /\ runs[c] = 1
    BY <1>5, RecvOwn DEF TransactionRecv, TypeInv
  <2>5. NameInv'
    BY <2>1, NameKept
  <2>6. QueueInv'
    BY <2>1, <2>3, QueueKept DEF Undelivered
  <2> QED  BY <2>1, <2>4, <2>5, <2>6 DEF OutcomeInv, Undelivered
<1>6. ASSUME NEW p \in Procs, abus_process_incoming(p)
      PROVE  NameInv' /\ QueueInv' /\ OutcomeInv'
  <2> DEFINE m == Head(queue[p])
  <2>1. /\ m.call \in Calls /\ runs[m.call] = 0 /\ ~Undelivered(m.call)
        /\ runs' = [runs EXCEPT ![m.call] = 1] /\ QueueInv'
    BY <1>6, QueueTake
  <2>2. UNCHANGED <<pc, addr, answer, named>>
    BY <1>6 DEF abus_process_incoming
  <2>3. NameInv'
    BY <2>2, NameKept
  <2>4. OutcomeInv'
    BY <2>1, <2>2 DEF OutcomeInv, Undelivered, TypeInv
  <2> QED  BY <2>1, <2>3, <2>4
<1>7. ASSUME NEW p \in Procs, abus_resp_send(p)
      PROVE  NameInv' /\ QueueInv' /\ OutcomeInv'
  <2>1. UNCHANGED <<pc, addr, answer, runs, named>>
    BY <1>7 DEF abus_resp_send
  <2>2. NameInv'
    BY <2>1, NameKept
  <2> QED  BY <1>7, <2>1, <2>2, QueueRespond DEF OutcomeInv, Undelivered
<1>8. ASSUME NEW p \in Procs, Crash(p)
      PROVE  NameInv' /\ QueueInv' /\ OutcomeInv'
  <2>1. /\ \A c \in Calls : pc'[c] = pc[c] \/ (pc[c] \in Pending /\ pc'[c] = "gone")
        /\ \A e \in Endpoints : queue'[e] = queue[e] \/ queue'[e] = <<>>
        /\ \A q \in Procs : thread'[q] = thread[q] \/ thread'[q] = Listening
        /\ UNCHANGED <<addr, runs, answer, named>>
    BY <1>8 DEF Crash, Calling, TypeInv
  <2>2. NameInv'
    BY <2>1, NameKept
  <2>3. QueueInv'
    BY <2>1, QueueKept DEF Undelivered
  <2> QED  BY <2>1, <2>2, <2>3 DEF OutcomeInv, Undelivered
<1>9. ASSUME NEW p \in Procs, Restart(p)
      PROVE  NameInv' /\ QueueInv' /\ OutcomeInv'
  <2>1. UNCHANGED <<queue, thread, pc, addr, answer, runs, named>>
    BY <1>9 DEF Restart
  <2>2. NameInv'
    BY <2>1, NameKept
  <2>3. QueueInv'
    BY <2>1, QueueKept DEF Undelivered
  <2> QED  BY <2>1, <2>2, <2>3 DEF OutcomeInv, Undelivered
<1>10. ASSUME NEW c \in Calls, SocketFails(c)
       PROVE  NameInv' /\ QueueInv' /\ OutcomeInv'
  <2>1. /\ pc[c] = "new" /\ pc'[c] = "refused"
        /\ \A d \in Calls \ {c} : pc'[d] = pc[d]
        /\ UNCHANGED <<queue, thread, addr, runs, answer, named>>
    BY <1>10 DEF SocketFails, MayCall, TypeInv, sockets
  <2>2. NameInv'
    BY <2>1, NameKept
  <2>3. QueueInv'
    BY <2>1, QueueKept DEF Undelivered
  <2> QED  BY <2>1, <2>2, <2>3 DEF OutcomeInv, Undelivered
<1>11. ASSUME NEW c \in Calls, NEW step \in Pending, NEW result \in {"refused", "failed"},
              FailsAt(c, step, result), step = "send" <=> result = "refused"
       PROVE  NameInv' /\ QueueInv' /\ OutcomeInv'
  <2>1. /\ pc[c] = step /\ pc'[c] = result
        /\ \A d \in Calls \ {c} : pc'[d] = pc[d]
        /\ UNCHANGED <<thread, addr, runs, answer, named>>
    BY <1>11 DEF FailsAt, TransactionReturn, TypeInv
  <2>2. addr[c] \in Endpoints
    BY <2>1, SocketPlace
  <2>3. \A e \in Endpoints : queue'[e] = queue[e] \/ queue'[e] = <<>>
    BY <1>11, <2>2 DEF FailsAt, Closed, TypeInv
  <2>4. NameInv'
    BY <2>1, NameKept
  <2>5. \A d \in Calls : Undelivered(d)' = Undelivered(d)
    BY <1>11, <2>1 DEF Undelivered, Pending
  <2>6. QueueInv'
    BY <2>1, <2>3, <2>5, QueueKept
  <2> QED  BY <1>11, <2>1, <2>4, <2>5, <2>6 DEF OutcomeInv
<1>12. ASSUME NEW c \in Calls, CallFails(c)
       PROVE  NameInv' /\ QueueInv' /\ OutcomeInv'
  BY <1>10, <1>11, <1>12 DEF CallFails, SendFails, SelectFails, RecvFails, Pending
<1> QED
  BY <1>0, <1>1, <1>2, <1>3, <1>4, <1>5, <1>6, <1>7, <1>8, <1>9, <1>12
  DEF Next, CallStep, Serve

(* AnswerInv is invariant where every call has a socket of its own and the *)
(* names do not run out.                                                   *)
LEMMA AnswerInvariant ==
  ASSUME Kept = {}, IsFiniteSet(Calls), Cardinality(Calls) <= Names
  PROVE  Spec => [](SocketInv /\ AnswerInv)
<1>1. Init => AnswerInv
  <2> SUFFICES ASSUME Init PROVE AnswerInv
    OBVIOUS
  <2>1. Begun = {}
    BY DEF Init, Begun
  <2>2. NameInv
    BY <2>1, FS_EmptySet DEF NameInv, Init
  <2>3. \A e \in Endpoints : DOMAIN queue[e] = {}
    BY DEF Init
  <2>4. \A p \in Procs : RunningRequest(p)
    BY MessageShape DEF Init, RunningRequest
  <2>5. QueueInv
    BY <2>3, <2>4 DEF QueueInv, Endpoints
  <2>6. OutcomeInv
    BY DEF Init, OutcomeInv
  <2> QED  BY <2>2, <2>5, <2>6 DEF AnswerInv
<1>2. SocketInv /\ AnswerInv /\ [Next]_vars => AnswerInv'
  BY AnswerStep
<1> QED
  BY <1>1, <1>2, SocketInvariant, PTL DEF Spec

(* A synchronous call on a socket of its own that succeeds has the answer  *)
(* of its own callback, although un_sock_transaction() takes any message,  *)
(* as long as the kernel does not name two sockets alike.                  *)
THEOREM OwnAnswers ==
  ASSUME Kept = {}, IsFiniteSet(Calls), Cardinality(Calls) <= Names
  PROVE  Spec => []OwnAnswer
<1>1. AnswerInv => OwnAnswer
  BY DEF AnswerInv, OutcomeInv, OwnAnswer
<1> QED
  BY <1>1, AnswerInvariant, PTL

-----------------------------------------------------------------------------
(* Synchronous calls implement RemoteCall *)

(* A step that moves one call maps to a move of its status.                *)
LEMMA StatusMoves ==
  ASSUME NEW c \in Calls, \A d \in Calls \ {c} : pc'[d] = pc[d]
  PROVE  [d \in Calls |-> Status(d)]' =
           [[d \in Calls |-> Status(d)] EXCEPT ![c] = Status(c)']
  BY DEF Status

(* A step that leaves every status as it is maps to a stutter.             *)
LEMMA StatusKept ==
  ASSUME \A d \in Calls : Status(d)' = Status(d)
  PROVE  [d \in Calls |-> Status(d)]' = [d \in Calls |-> Status(d)]
  OBVIOUS

(* Synchronous calls on sockets of their own keep the promise of           *)
(* RemoteCall: the callback runs at most once, a call that succeeds was    *)
(* served, and one that was refused never is.                              *)
THEOREM CallsKeepPromise ==
  ASSUME Kept = {}, IsFiniteSet(Calls), Cardinality(Calls) <= Names
  PROVE  Spec => ImplementsRemoteCall
<1>1. Init => Promise!Init
  BY DEF Init, Promise!Init, Status, Pending
<1>2. SocketInv /\ AnswerInv /\ [Next]_vars => [Promise!Next]_(Promise!vars)
  <2> SUFFICES ASSUME SocketInv, AnswerInv, [Next]_vars
               PROVE  Promise!Next \/ UNCHANGED Promise!vars
    OBVIOUS
  <2> TypeInv /\ OutcomeInv
    BY DEF SocketInv, AnswerInv
  <2> USE DEF Promise!vars
  <2>0. CASE UNCHANGED vars
    <3>1. \A d \in Calls : Status(d)' = Status(d)
      BY <2>0 DEF vars, Status
    <3> QED  BY <2>0, <3>1, StatusKept DEF vars
  <2>1. ASSUME NEW c \in Calls, TransactionSocket(c) PROVE Promise!Next
    <3>1. /\ pc[c] = "new" /\ pc'[c] = "send" /\ UNCHANGED runs
          /\ \A d \in Calls \ {c} : pc'[d] = pc[d]
      BY <2>1 DEF TransactionSocket, MayCall, TypeInv
    <3>2. Status(c) = "new" /\ Status(c)' = "called"
      BY <3>1 DEF Status, Pending
    <3>3. Promise!Call(c)
      BY <3>1, <3>2, StatusMoves DEF Promise!Call, Promise!Move
    <3> QED  BY <3>3 DEF Promise!Next
  <2>2. ASSUME NEW c \in Calls, un_sock_sendto_svc(c)
        PROVE  Promise!Next \/ UNCHANGED Promise!vars
    <3>1. /\ pc[c] = "send" /\ pc'[c] \in {"select", "refused"} /\ UNCHANGED runs
          /\ \A d \in Calls \ {c} : pc'[d] = pc[d]
      BY <2>2 DEF un_sock_sendto_svc, TransactionReturn, TypeInv
    <3>2. CASE pc'[c] = "select"
      <4>1. \A d \in Calls : Status(d)' = Status(d)
        BY <3>1, <3>2 DEF Status, Pending
      <4> QED  BY <3>1, <4>1, StatusKept
    <3>3. CASE pc'[c] = "refused"
      <4>1. Status(c) = "called" /\ Status(c)' = "refused" /\ runs[c] = 0
        BY <3>1, <3>3 DEF Status, Pending, OutcomeInv, Undelivered
      <4>2. Promise!Refuse(c)
        BY <3>1, <4>1, StatusMoves DEF Promise!Refuse, Promise!Move
      <4> QED  BY <4>2 DEF Promise!Next
    <3> QED  BY <3>1, <3>2, <3>3
  <2>3. ASSUME NEW c \in Calls, select_for_read(c) PROVE UNCHANGED Promise!vars
    <3>1. /\ pc[c] = "select" /\ pc'[c] = "recv" /\ UNCHANGED runs
          /\ \A d \in Calls \ {c} : pc'[d] = pc[d]
      BY <2>3 DEF select_for_read, TypeInv
    <3>2. \A d \in Calls : Status(d)' = Status(d)
      BY <3>1 DEF Status, Pending
    <3> QED  BY <3>1, <3>2, StatusKept
  <2>4. ASSUME NEW c \in Calls, TransactionTimeout(c) PROVE Promise!Next
    <3>1. /\ pc[c] = "select" /\ pc'[c] = "timeout" /\ UNCHANGED runs
          /\ \A d \in Calls \ {c} : pc'[d] = pc[d]
      BY <2>4 DEF TransactionTimeout, TransactionReturn, TypeInv
    <3>2. Status(c) = "called" /\ Status(c)' = "timeout"
      BY <3>1 DEF Status, Pending
    <3>3. Promise!GiveUp(c)
      BY <3>1, <3>2, StatusMoves DEF Promise!GiveUp, Promise!Move
    <3> QED  BY <3>3 DEF Promise!Next
  <2>5. ASSUME NEW c \in Calls, TransactionRecv(c) PROVE Promise!Next
    <3>1. /\ pc[c] = "recv" /\ pc'[c] = "ok" /\ UNCHANGED runs
          /\ \A d \in Calls \ {c} : pc'[d] = pc[d]
      BY <2>5 DEF TransactionRecv, TransactionReturn, TypeInv
    <3>2. Status(c) = "called" /\ Status(c)' = "ok" /\ runs[c] = 1
      BY <2>5, <3>1, RecvOwn DEF Status, Pending
    <3>3. Promise!Succeed(c)
      BY <3>1, <3>2, StatusMoves DEF Promise!Succeed, Promise!Move
    <3> QED  BY <3>3 DEF Promise!Next
  <2>6. ASSUME NEW p \in Procs, abus_process_incoming(p) PROVE Promise!Next
    <3> DEFINE c == Head(queue[p]).call
    <3>1. /\ c \in Calls /\ runs[c] = 0 /\ ~Undelivered(c)
          /\ runs' = [runs EXCEPT ![c] = 1]
      BY <2>6, QueueTake DEF AnswerInv
    <3>2. pc[c] # "ok"
      BY <3>1 DEF OutcomeInv
    <3>3. Status(c) \in {"called", "timeout", "failed", "gone"}
      BY <3>1, <3>2 DEF Status, Undelivered, Pending, Results, TypeInv
    <3>4. \A d \in Calls : Status(d)' = Status(d)
      BY <2>6 DEF abus_process_incoming, Status
    <3> HIDE DEF c
    <3>5. Promise!Serve(c)
      BY <3>1, <3>3, <3>4, StatusKept DEF Promise!Serve
    <3> QED  BY <3>1, <3>5 DEF Promise!Next
  <2>7. ASSUME NEW p \in Procs, abus_resp_send(p) \/ Restart(p) PROVE UNCHANGED Promise!vars
    <3>1. UNCHANGED <<pc, runs>>
      BY <2>7 DEF abus_resp_send, Restart
    <3>2. \A d \in Calls : Status(d)' = Status(d)
      BY <3>1 DEF Status
    <3> QED  BY <3>1, <3>2, StatusKept
  <2>8. ASSUME NEW p \in Procs, Crash(p) PROVE Promise!Next
    <3> DEFINE dead == Calling(p)
    <3>1. UNCHANGED runs /\ \A c \in Calls : pc'[c] = IF c \in dead THEN "gone" ELSE pc[c]
      BY <2>8 DEF Crash
    <3>2. dead \subseteq Calls /\ \A c \in dead : Status(c) = "called"
      BY DEF Calling, Status
    <3>3. \A c \in Calls : Status(c)' = IF c \in dead THEN "gone" ELSE Status(c)
      BY <3>1 DEF Status, Pending
    <3> HIDE DEF dead
    <3>4. Promise!Die(dead)
      BY <3>1, <3>2, <3>3 DEF Promise!Die
    <3> QED  BY <3>2, <3>4 DEF Promise!Next
  <2>9. ASSUME NEW c \in Calls, SocketFails(c) PROVE Promise!Next
    <3>1. /\ pc[c] = "new" /\ pc'[c] = "refused" /\ UNCHANGED runs
          /\ \A d \in Calls \ {c} : pc'[d] = pc[d]
      BY <2>9 DEF SocketFails, MayCall, TypeInv
    <3>2. Status(c) = "new" /\ Status(c)' = "refused" /\ runs[c] = 0
      BY <3>1 DEF Status, Pending, OutcomeInv, Undelivered
    <3>3. Promise!Refuse(c)
      BY <3>1, <3>2, StatusMoves DEF Promise!Refuse, Promise!Move
    <3> QED  BY <3>3 DEF Promise!Next
  <2>10. ASSUME NEW c \in Calls, SendFails(c) PROVE Promise!Next
    <3>1. /\ pc[c] = "send" /\ pc'[c] = "refused" /\ UNCHANGED runs
          /\ \A d \in Calls \ {c} : pc'[d] = pc[d]
      BY <2>10 DEF SendFails, FailsAt, TransactionReturn, TypeInv
    <3>2. Status(c) = "called" /\ Status(c)' = "refused" /\ runs[c] = 0
      BY <3>1 DEF Status, Pending, OutcomeInv, Undelivered
    <3>3. Promise!Refuse(c)
      BY <3>1, <3>2, StatusMoves DEF Promise!Refuse, Promise!Move
    <3> QED  BY <3>3 DEF Promise!Next
  <2>11. ASSUME NEW c \in Calls, SelectFails(c) \/ RecvFails(c) PROVE Promise!Next
    <3>1. /\ pc[c] \in Pending /\ pc'[c] = "failed" /\ UNCHANGED runs
          /\ \A d \in Calls \ {c} : pc'[d] = pc[d]
      BY <2>11 DEF SelectFails, RecvFails, FailsAt, TransactionReturn, TypeInv, Pending
    <3>2. Status(c) = "called" /\ Status(c)' = "failed"
      BY <3>1 DEF Status, Pending
    <3>3. Promise!GiveUp(c)
      BY <3>1, <3>2, StatusMoves DEF Promise!GiveUp, Promise!Move
    <3> QED  BY <3>3 DEF Promise!Next
  <2> QED
    BY <2>0, <2>1, <2>2, <2>3, <2>4, <2>5, <2>6, <2>7, <2>8, <2>9, <2>10, <2>11
    DEF Next, CallStep, CallFails, Serve
<1> QED
  BY <1>1, <1>2, AnswerInvariant, PTL DEF Spec, ImplementsRemoteCall, Promise!Spec
=============================================================================
