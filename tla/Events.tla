------------------------------- MODULE Events -------------------------------
(***************************************************************************)
(* Event subscription and publication of libabus (abus/abus.c), for one    *)
(* event of one service.  The subscribers of the event are the items of    *)
(* event->subscriber_htab, a table with a single current position that the *)
(* following share without a lock:                                         *)
(*                                                                         *)
(*   - the A-Bus thread of the service, which answers the requests         *)
(*     "subscribe" and "unsubscribe";                                      *)
(*   - every thread that publishes the event, by                           *)
(*     abus_request_event_publish() or abus_attr_changed(): a thread of    *)
(*     the application, or the A-Bus thread itself from a callback.        *)
(*                                                                         *)
(* Each call on the table is one step, and so is event_lookup(), which     *)
(* holds abus->mutex: the event it finds is used after the unlock.         *)
(* Endpoints are the A-Bus sockets of the subscribing processes.           *)
(***************************************************************************)
EXTENDS HashTab

CONSTANTS
  Publishers,    \* the threads that publish the event
  AbusThread,    \* the A-Bus thread, which may be one of them
  ServiceName,   \* the name of the service, as a sequence of characters
  EventName,     \* the name of the event, as a sequence of characters
  MaxSubs,       \* bound: subscriptions of one event
  Overlap,       \* events are undeclared while they are published
  MaxInbox       \* bound: requests queued at the service

ASSUME EventAssumption ==
  /\ Overlap \in BOOLEAN
  /\ MaxInbox \in Nat
  /\ MaxSubs \in Nat
  /\ Keys = 0 .. MaxSubs - 1
  /\ ServiceName \in Seq(STRING) /\ EventName \in Seq(STRING)

Endpoints == Stuff

VARIABLES
  declared,  \* the event is in service->event_htab
  tab,       \* event->subscriber_htab
  cnt,       \* event->uniq_subscriber_cnt
  found,     \* the event looked up for the first request of inbox: none, event, freed
  inbox,     \* the requests queued on the socket of the service
  alive,     \* the endpoints whose process runs
  cb,        \* the event method is declared in the endpoint's service ""
  told,      \* the last abus_event_subscribe() of the endpoint returned 0
  pub,       \* progress of each publisher
  stale,     \* the publishers whose event was freed
  addr,      \* the item whose address a publisher holds in sockaddrun
  due,       \* the subscribers when the publication started (history)
  tried,     \* how often each was sent the event, up to 2 (history)
  failed,    \* the subscribers to which sending failed (history)
  dropped,   \* a subscription was refused, forgotten or not sent (history)
  fault      \* freed or null memory was used

vars == <<declared, tab, cnt, found, inbox, alive, cb, told, pub, stale, addr, due, tried,
          failed, dropped, fault>>
service == <<declared, tab, cnt, found, dropped>>
client == <<inbox, alive, cb, told>>
publication == <<pub, stale, addr, due, tried, failed>>

Subscribers == {tab.stuff[k] : k \in Items(tab)}
NoneTried == [k \in Keys |-> 0]

Init ==
  /\ declared = FALSE
  /\ tab = HCreate(2)
  /\ cnt = 0
  /\ found = "none"
  /\ inbox = <<>>
  /\ alive = Endpoints
  /\ cb = [e \in Endpoints |-> FALSE]
  /\ told = [e \in Endpoints |-> FALSE]
  /\ pub = [p \in Publishers |-> "idle"]
  /\ stale = {}
  /\ addr = [p \in Publishers |-> NoKey]
  /\ due = [p \in Publishers |-> {}]
  /\ tried = [p \in Publishers |-> NoneTried]
  /\ failed = [p \in Publishers |-> {}]
  /\ dropped = FALSE
  /\ fault = FALSE

-----------------------------------------------------------------------------
(* The subscribing processes.                                              *)

Send(op, e) == inbox' = Append(inbox, [op |-> op, from |-> e])

(* abus_event_subscribe() declares the event method, again if it is there, *)
(* and sends the request.                                                  *)
SubscribeCall(e) ==
  /\ ~fault /\ e \in alive
  /\ Len(inbox) < MaxInbox
  /\ cnt + Quantify(DOMAIN inbox, LAMBDA i : inbox[i].op = "subscribe") < MaxSubs
  /\ cb' = [cb EXCEPT ![e] = TRUE]
  /\ Send("subscribe", e)
  /\ UNCHANGED <<service, publication, alive, told, fault>>

(* It fails after the declaration: there is no memory for the request, or  *)
(* it is not sent.  The method stays declared.                             *)
SubscribeFails(e) ==
  /\ ~fault /\ e \in alive
  /\ cb' = [cb EXCEPT ![e] = TRUE]
  /\ told' = [told EXCEPT ![e] = FALSE]
  /\ dropped' = TRUE
  /\ UNCHANGED <<declared, tab, cnt, found, publication, inbox, alive, fault>>

(* abus_event_unsubscribe() first undeclares the method and gives up when  *)
(* it was not declared.                                                    *)
UnsubscribeCall(e) ==
  /\ ~fault /\ e \in alive
  /\ cb[e]
  /\ Len(inbox) < MaxInbox
  /\ cb' = [cb EXCEPT ![e] = FALSE]
  /\ told' = [told EXCEPT ![e] = FALSE]
  /\ Send("unsubscribe", e)
  /\ UNCHANGED <<service, publication, alive, fault>>

(* It fails after that, as a subscription does.                            *)
UnsubscribeFails(e) ==
  /\ ~fault /\ e \in alive
  /\ cb[e]
  /\ cb' = [cb EXCEPT ![e] = FALSE]
  /\ told' = [told EXCEPT ![e] = FALSE]
  /\ UNCHANGED <<service, publication, inbox, alive, fault>>

(* A subscribing process ends without unsubscribing.                       *)
Leave(e) ==
  /\ ~fault /\ e \in alive
  /\ alive' = alive \ {e}
  /\ cb' = [cb EXCEPT ![e] = FALSE]
  /\ told' = [told EXCEPT ![e] = FALSE]
  /\ UNCHANGED <<service, publication, inbox, fault>>

-----------------------------------------------------------------------------
(* The service: declaration of the event.                                  *)

(* event_lookup() with CreateIfNotThere: a new event has an empty table.   *)
CreateIfNotThere ==
  /\ declared' = TRUE
  /\ UNCHANGED <<tab, cnt, found, dropped>>

DeclEvent ==
  /\ ~fault /\ ~declared
  /\ CreateIfNotThere
  /\ UNCHANGED <<client, publication, fault>>

(* abus_undecl_event(), called by the tests with no publication of the     *)
(* event under way.  The subscribers are forgotten and not told; one that  *)
(* publishes, or the A-Bus thread between the lookup of the event and its  *)
(* use, has a pointer to what is freed.                                    *)
UndeclEvent ==
  /\ ~fault /\ declared
  /\ Overlap \/ \A p \in Publishers : pub[p] = "idle"
  /\ stale' = {p \in Publishers : pub[p] # "idle"}
  /\ declared' = FALSE
  /\ tab' = HCreate(2)
  /\ cnt' = 0
  /\ found' = IF found = "event" THEN "freed" ELSE found
  /\ dropped' = (\/ dropped \/ Items(tab) # {}
                 \/ found = "event" /\ Head(inbox).op = "subscribe")
  /\ UNCHANGED <<client, pub, addr, due, tried, failed, fault>>

-----------------------------------------------------------------------------
(* The service: requests, handled one at a time by the A-Bus thread.       *)

AbusIdle == AbusThread \in Publishers => pub[AbusThread] = "idle"

(* The answer to a subscription, in time or late.                          *)
(* abus_event_subscribe() does not look at the error in it and returns 0.  *)
Answered(e) == \E inTime \in BOOLEAN : told' = [told EXCEPT ![e] = cb[e] /\ inTime]

(* event_lookup() for the first request: it is refused when the event is   *)
(* not declared.                                                           *)
LookupEvent ==
  LET r == Head(inbox) IN
  /\ ~fault /\ AbusIdle
  /\ inbox # <<>> /\ found = "none"
  /\ IF declared
     THEN found' = "event" /\ UNCHANGED <<inbox, told, dropped>>
     ELSE /\ inbox' = Tail(inbox)
          /\ IF r.op = "subscribe" THEN Answered(r.from) ELSE UNCHANGED told
          /\ dropped' = (dropped \/ r.op = "subscribe")
          /\ UNCHANGED found
  /\ UNCHANGED <<declared, tab, cnt, publication, alive, cb, fault>>

(* The rest of the handler, with the event that was found.                 *)
Received(op) ==
  /\ ~fault /\ AbusIdle
  /\ inbox # <<>> /\ found # "none"
  /\ Head(inbox).op = op
  /\ inbox' = Tail(inbox)
  /\ found' = "none"

(* A key that is used again, so that hadd() drops the subscriber.  Mutant. *)
ReuseKey(c) == c

KeyAfter(c) == c + 1

(* abus_req_subscribe_service_cb() after the lookup.                       *)
HandleSubscribe ==
  LET e == Head(inbox).from IN
  /\ Received("subscribe")
  /\ IF found = "event"
     THEN /\ tab' = HAdd(tab, cnt, e)
          /\ cnt' = KeyAfter(cnt)
          /\ UNCHANGED fault
     ELSE fault' = TRUE /\ UNCHANGED <<tab, cnt>>
  /\ Answered(e)
  /\ UNCHANGED <<declared, dropped, publication, alive, cb>>

(* abus_unsubscribe_service() after the lookup: frees and deletes the item *)
(* at the current position, whoever sent the request; with no item hkey()  *)
(* reads through a null pointer.                                           *)
DeleteCurrent ==
  /\ tab' = HDel(tab)
  /\ fault' = (tab.ipos = NoKey)

HandleUnsubscribe ==
  /\ Received("unsubscribe")
  /\ IF found = "event" THEN DeleteCurrent ELSE fault' = TRUE /\ UNCHANGED tab
  /\ UNCHANGED <<declared, cnt, dropped, publication, alive, cb, told>>

-----------------------------------------------------------------------------
(* The name of the method that carries an event.  The format of            *)
(* snprint_event_method() prints "_event%", 7 characters, for the literal  *)
(* "_event%%" whose strlen() is 8; event_name_from_method() skips 8.       *)

EvtPrefix == <<"_", "e", "v", "e", "n", "t", "%">>
EvtPrefixStrlen == 8

SnprintEventMethod(s, e) == EvtPrefix \o s \o <<"%">> \o e

EventNameFromMethod(m) == SubSeq(m, EvtPrefixStrlen + 1, Len(m))

-----------------------------------------------------------------------------
(* Publication.                                                            *)

At(p, from) == pub[p] = from /\ ~fault
Goto(p, to) == pub' = [pub EXCEPT ![p] = to]

(* abus_request_event_init() declares the event implicitly.                *)
EventInit(p) ==
  /\ At(p, "idle")
  /\ p = AbusThread => found = "none"
  /\ CreateIfNotThere
  /\ Goto(p, "ready")
  /\ UNCHANGED <<client, stale, addr, due, tried, failed, fault>>

(* A walk that starts at the current position.  Mutant.                    *)
FirstHere(p) ==
  /\ At(p, "ready")
  /\ Goto(p, IF HFirstRet(tab) THEN "read" ELSE "done")
  /\ due' = [due EXCEPT ![p] = Items(tab)]
  /\ UNCHANGED <<service, client, stale, addr, tried, failed, fault>>

(* hfirst() at the start of abus_request_event_publish().                  *)
PublishFirst(p) ==
  /\ At(p, "ready")
  /\ tab' = HFirst(tab)
  /\ Goto(p, IF HFirstRet(tab) THEN "read" ELSE "done")
  /\ due' = [due EXCEPT ![p] = Items(tab)]
  /\ fault' = (p \in stale)
  /\ UNCHANGED <<declared, cnt, found, dropped, client, stale, addr, tried, failed>>

(* hstuff() of the current item.                                           *)
PublishRead(p) ==
  /\ At(p, "read")
  /\ addr' = [addr EXCEPT ![p] = tab.ipos]
  /\ fault' = (tab.ipos = NoKey \/ p \in stale)
  /\ Goto(p, "send")
  /\ UNCHANGED <<service, client, stale, due, tried, failed>>

(* The send, which fails when the subscriber is gone or its queue is full. *)
(* A failed subscriber should be removed; the event is looked up by the    *)
(* name that event_name_from_method() finds, and another name is not in    *)
(* the table of events.                                                    *)
PublishSend(p) ==
  /\ At(p, "send")
  /\ IF addr[p] \notin Items(tab) \/ p \in stale
     THEN fault' = TRUE /\ UNCHANGED <<tab, tried, failed>>
     ELSE /\ tried' = [tried EXCEPT ![p][addr[p]] = Min({@ + 1, 2})]
          /\ \/ /\ tab.stuff[addr[p]] \in alive
                /\ UNCHANGED <<tab, failed, fault>>
             \/ /\ failed' = [failed EXCEPT ![p] = @ \cup {addr[p]}]
                /\ IF EventNameFromMethod(SnprintEventMethod(ServiceName, EventName))
                      = EventName
                   THEN DeleteCurrent
                   ELSE UNCHANGED <<tab, fault>>
  /\ Goto(p, "next")
  /\ UNCHANGED <<declared, cnt, found, dropped, client, stale, addr, due>>

(* A loop that tests for an item instead of the result of hnext().  Mutant. *)
NextWhileItem(p) ==
  /\ At(p, "next")
  /\ tab' = HNext(tab)
  /\ Goto(p, IF tab.ipos # NoKey THEN "read" ELSE "done")
  /\ UNCHANGED <<declared, cnt, found, dropped, client, stale, addr, due, tried, failed, fault>>

(* hnext() ends the loop when the position wraps around.                   *)
PublishNext(p) ==
  /\ At(p, "next")
  /\ tab' = HNext(tab)
  /\ Goto(p, IF HNextRet(tab) THEN "read" ELSE "done")
  /\ fault' = (p \in stale)
  /\ UNCHANGED <<declared, cnt, found, dropped, client, stale, addr, due, tried, failed>>

(* abus_request_event_cleanup().                                           *)
EventCleanup(p) ==
  /\ At(p, "done")
  /\ Goto(p, "idle")
  /\ stale' = stale \ {p}
  /\ addr' = [addr EXCEPT ![p] = NoKey]
  /\ due' = [due EXCEPT ![p] = {}]
  /\ tried' = [tried EXCEPT ![p] = NoneTried]
  /\ failed' = [failed EXCEPT ![p] = {}]
  /\ UNCHANGED <<service, client, fault>>

Publish(p) ==
  \/ PublishFirst(p)
  \/ PublishRead(p)
  \/ PublishSend(p)
  \/ PublishNext(p)
  \/ EventCleanup(p)

Crashed == fault /\ UNCHANGED vars

Next ==
  \/ \E e \in Endpoints :
       \/ SubscribeCall(e) \/ SubscribeFails(e)
       \/ UnsubscribeCall(e) \/ UnsubscribeFails(e)
       \/ Leave(e)
  \/ DeclEvent
  \/ UndeclEvent
  \/ LookupEvent
  \/ HandleSubscribe
  \/ HandleUnsubscribe
  \/ \E p \in Publishers : EventInit(p) \/ Publish(p)
  \/ Crashed

Spec == Init /\ [][Next]_vars

(* A publication that was started runs on: it waits for nothing.           *)
FairSpec == Spec /\ \A p \in Publishers : WF_vars(Publish(p))

-----------------------------------------------------------------------------
(* Variables have their types.                                             *)
TypeOK ==
  /\ declared \in BOOLEAN
  /\ cnt \in 0 .. MaxSubs
  /\ found \in {"none", "event", "freed"}
  /\ inbox \in Seq([op : {"subscribe", "unsubscribe"}, from : Endpoints])
  /\ alive \subseteq Endpoints
  /\ cb \in [Endpoints -> BOOLEAN]
  /\ told \in [Endpoints -> BOOLEAN]
  /\ pub \in [Publishers -> {"idle", "ready", "read", "send", "next", "done"}]
  /\ stale \subseteq Publishers
  /\ addr \in [Publishers -> Keys \cup {NoKey}]
  /\ due \in [Publishers -> SUBSET Keys]
  /\ tried \in [Publishers -> [Keys -> 0 .. 2]]
  /\ failed \in [Publishers -> SUBSET Keys]
  /\ dropped \in BOOLEAN
  /\ fault \in BOOLEAN

(* "The notification is sent to all the subscribed end-points"             *)
(* (abus_request_event_publish()): a publication that has ended sent the   *)
(* event exactly once to every item that was in the table when it began    *)
(* and still is.                                                           *)
PublishReachesAll ==
  \A p \in Publishers : pub[p] = "done" =>
    \A k \in due[p] \cap Items(tab) : tried[p][k] = 1

(* An unsubscribe request removes whatever item is current, and hkey() of  *)
(* an empty table reads through a null pointer.  As long as no             *)
(* subscription was refused or forgotten by the service, or not sent by an *)
(* endpoint that kept the method, there is an item left for every endpoint *)
(* that may still unsubscribe, and no publication and no handler uses an   *)
(* item or an event that was freed.                                        *)
FaultOnlyIfDropped == fault => dropped

(* "hkey, hkeyl, and hstuff will crash if hcount returns 0" (hashtab.h):   *)
(* no handler and no publication does that, or reads an item or an event   *)
(* after it was freed.                                                     *)
NoFault == ~fault

(* The subscribers table stays sane: the walk of a publication, additions  *)
(* that grow the table in the middle of it and deletions at its current    *)
(* position leave a table whose items are as many as it counts.            *)
TableSane == Sane(tab)

(* Whatever is subscribed, dropped, published and undeclared, the variables *)
(* keep their types and the table stays sane, and nothing is read from an  *)
(* empty table or after it was freed unless a subscription was dropped.    *)
SubscribersSound == TypeOK /\ TableSane /\ FaultOnlyIfDropped

(* A publication ends, however many subscribers there are and however many *)
(* of them are gone: the walk of the table reaches the point where hnext() *)
(* says that it has wrapped around.                                        *)
PublishEnds == \A p \in Publishers : pub[p] = "read" ~> pub[p] = "idle"

(* "If notification delivery fails, the troublesome end-point get          *)
(* unsubscribed" (abus_request_event_publish()).                           *)
GoneUnsubscribed ==
  \A p \in Publishers : pub[p] = "done" => failed[p] \cap Items(tab) = {}

(* A subscription that was granted is ended by the unsubscribe call of its *)
(* own endpoint, or by the end of the event, and by nothing else.          *)
OnlyOwnUnsubscribe ==
  [][\A e \in Endpoints :
       told[e] /\ told'[e] /\ ~dropped' /\ e \in Subscribers => e \in Subscribers']_vars

(* abus_event_subscribe() returns 0 "if successful": an endpoint that was  *)
(* told so is a subscriber.                                                *)
SubscribeOkMeansSubscribed ==
  [][\A e \in Endpoints : ~told[e] /\ told'[e] => e \in Subscribers']_vars

-----------------------------------------------------------------------------
(* The inductive invariants behind the safety properties.                  *)

(* How many of the first n requests of a queue are of one kind.            *)
Asks(q, n, op) == {j \in 1 .. n : q[j].op = op}
Asked(q, n, op) == Cardinality(Asks(q, n, op))

(* Keys are given in order, and the bound on subscriptions counts those on *)
(* their way.                                                              *)
KeysInv ==
  /\ \A k \in Items(tab) : k < cnt
  /\ cnt + Asked(inbox, Len(inbox), "subscribe") <= MaxSubs

BaseInv == TypeOK /\ TableInv(tab) /\ KeysInv

(* The A-Bus thread has looked the event up for a request that is there,   *)
(* and has a pointer to the event that is declared, or to one freed.       *)
FoundInv == (found # "none" => inbox # <<>>) /\ (found = "event" => declared)


(* However many of the requests in the queue have been handled, there are  *)
(* no fewer items than unsubscribe requests; and once all have been, no    *)
(* fewer than endpoints that may still unsubscribe.                        *)
MayUnsubscribe == {e \in Endpoints : cb[e]}

BalanceInv ==
  /\ IsFiniteSet(MayUnsubscribe)
  /\ ~dropped =>
       /\ ~fault /\ found # "freed"
       /\ ~declared => tab.count = 0
       /\ \A n \in 0 .. Len(inbox) :
            Asked(inbox, n, "unsubscribe") <= tab.count + Asked(inbox, n, "subscribe")
       /\ Cardinality(MayUnsubscribe) + Asked(inbox, Len(inbox), "unsubscribe")
            <= tab.count + Asked(inbox, Len(inbox), "subscribe")

(* A publication was sent to the items its walk was at, once: to the       *)
(* current one too when it goes on from there.                             *)
SentTo(p, S) == \A k \in Items(tab) : tried[p][k] = IF k \in S THEN 1 ELSE 0

WalkInv(p) ==
  /\ pub[p] \in {"idle", "ready"} => tried[p] = NoneTried
  /\ pub[p] \in {"read", "send", "next"} => tab.ipos # NoKey
  /\ pub[p] \in {"read", "send"} => SentTo(p, Walked(tab) \ {tab.ipos})
  /\ pub[p] = "send" => addr[p] = tab.ipos
  /\ pub[p] = "next" => SentTo(p, Walked(tab))
  /\ pub[p] = "done" => SentTo(p, Items(tab))

EventInv ==
  BaseInv /\ FoundInv /\ BalanceInv /\ stale = {} /\ \A p \in Publishers : WalkInv(p)
=============================================================================
