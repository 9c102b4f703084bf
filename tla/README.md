# A-Bus: TLA+ models, model-checking runs and proofs

A-Bus is a small RPC bus for one machine. A process links `libabus`, declares
*services* with *methods*, *events* and *attributes*, and calls those of other
processes by JSON-RPC datagrams over `AF_UNIX` sockets. This directory holds
TLA+ models of the library, the TLC configurations that check them, and TLAPS
proofs about most of its components. Paths below are relative to `src/`.

Contents: [inventory](#1-the-system), [modules](#2-modules-and-the-code-they-model),
[runs](#3-runs), [fairness](#4-fairness), [proofs](#5-proofs),
[disagreements found](#6-where-code-and-documentation-disagree),
[limits](#7-what-is-not-modelled), [plan](#8-plan).

## 1. The system

A process has one handle `abus_t` with a socket and, unless it polls, one
*A-Bus thread* that receives every datagram: requests for the services of this
process, and responses to its own asynchronous requests. Everything else runs
in threads of the application, or in detached threads that the A-Bus thread
creates for methods and callbacks flagged `ABUS_RPC_THREADED`.

| Component | State | Operations | Modelled by |
|---|---|---|---|
| Asynchronous requests (`abus/abus.c` 790-1200) | `abus->id`, `outstanding_req_htab`, per request `cb_context`, mutex, condition | init, invoke_async, wait_async, cancel_async, cleanup, response processing | `AsyncRequest`, `AsyncOutcome` |
| Hash table (`abus/hashtab/hashtab.c`) | chains, count, one current position | hcreate, hfind, hadd, hdel, hfirst, hnext, hgrow | `HashTab`, `HashTabUse`, `Dictionary` |
| Methods and dispatch (`abus/abus.c` 443-550, 641-980, 1255-1300) | `service->method_htab`, `method->excl_mutex`, the `json_rpc_t` of a request | decl, redecl, undecl, receive, call in place or in a thread, reply | `MethodCall` |
| Events (`abus/abus.c` 1640-2030) | `event->subscriber_htab`, `uniq_subscriber_cnt` | decl, undecl, subscribe, unsubscribe, publish | `Events` |
| Attributes (`abus/abus.c` 2036-2982) | `service->attr_htab`, `attr_mutex`, the values | get, set, "get" and "set" requests, attr_changed | `Attr` |
| JSON-RPC messages (`abus/jsonrpc.c`) | `json_rpc_t`: parser state, tables of parameters, message buffer | parse, get, append, point into arrays, request and response texts | `JsonRpc`, `RpcExchange`; integer conversions in `Attr` |
| Introspection, service list, relay (`abus/abus.c`) | none of their own | introspect, list services, forward | `RpcExchange` |
| libjson parser and printer (`abus/libjson/json.c`) | state, stack of structures, buffer | one character at a time; print raw, pretty | `JsonParser`, `JsonPrinter`, `JsonText` |
| Start, stop, poll (`abus/abus.c` 284-470) | `abus->sock`, `conf.poll_operation`, the thread | init, launch on demand, set_conf, cleanup, process_incoming | `Lifecycle`; serving in poll operation in `MethodCall` |
| Service names (`abus/abus.c` 583-638, `abus/sock_un.c`) | sockets and symbolic links in a directory | create and close a socket, create and remove a path | `Lifecycle` |
| Synchronous requests (`abus/sock_un.c` 100-270) | a socket per call, queues of the kernel | send, wait with a limit, receive, close | `Transaction`, `RemoteCall` |
| libjson tree builder, jsonlint; recycling and hash function; C++ wrapper, tools, examples | - | - | no (section 7) |

How they interact. `abus->mutex` protects the tables of services, methods,
attributes and outstanding requests, but only *during* a lookup: the pointer a
lookup returns is used after the mutex is released. `json_rpc->mutex` with its
condition joins a waiter and the response; `method->excl_mutex` serialises the
callbacks of a method; `service->attr_mutex` covers a whole get or set. The
subscriber table of an event is covered by no lock. Each table has one *current
position* that every operation moves and that `hkey`, `hstuff` and `hdel` act on.

What is hard, and so what the properties are about (the list with lines is
under "hazards" in `PROJECT.json`):

- the response, a cancel, a time-out and a cleanup race for one request;
- fields that are tested once without and once with a mutex;
- pointers and table positions that are stale when used;
- a loop over a table while another thread uses the same table;
- steps of a multi-part operation that fail after others succeeded;
- an id counter that wraps and that two threads increment;
- peers that die, and datagrams that are lost;
- a system that refuses a socket, a thread or a call in the middle of an operation;
- a process that dies in the middle of a declaration, and a pid that comes back;
- a time-out whose answer still arrives, and names of sockets that are used again;
- queues of the kernel that are full, and services that call each other;
- texts that end anywhere, buffers that end anywhere, limits that are just met;
- a thread that is stopped where it stands.

What makes each component correct:

- *Asynchronous requests*: a request is either answered, and then its callback
  runs exactly once, or cancelled, and then it never runs; freed memory is used
  in the three places that section 6 names and nowhere else; a request that is
  being freed cannot be found any more; waiters are woken; a request gets its own
  response.
- *Hash table*: it is a map with a cursor; growing and deleting keep the
  position valid; the documented loop visits each item once.
- *Methods*: a request is answered once, and only after its callback returned; a
  notification is not, but for the error of a callback that has its own thread;
  callbacks of an exclusive method do not overlap; undeclaring removes the
  named method; no freed method or request is used.
- *Events*: a publication ends and reaches every subscriber exactly once.
- *Attributes*: a set leaves exactly what it reports; a get is a snapshot; the
  last event of an attribute carries its value; the mutex is always released.
- *libjson*: what is accepted is a document, and the callback is told exactly
  what it says; limits on nesting and data hold; what is printed reads back.
- *JSON-RPC messages*: what one side appends is what the other side reads, if it
  is UTF-8 and has no arrays but those of objects; an error arrives, unless a
  number whose name begins like its key follows; a message that did not fit is
  never taken for a whole one; nothing but an array of numbers or the like ends
  the process that reads it.
- *Start, stop, names*: a declared service is reachable, whatever died before,
  unless the system refused its process a socket or a thread; a handle has one
  reader; cleanup leaves nothing; every call returns.
- *Synchronous requests*: a call gets its own answer or none; its callback runs
  at most once; it ends within its limit; its socket is closed at every return.

## 2. Modules and the code they model

The map in `PROJECT.json` gives the source lines of every definition. In every
module one action is one operation, or the part of it between two points where
another thread can get in. Definitions whose comment ends in "Mutant" are
deliberately wrong variants, kept to show that a property can fail.

### AsyncRequest, AsyncOutcome

The life of each `json_rpc_t` in `Reqs`. `LoadId` and `StoreId` are the two
halves of `abus->id++`, which takes no lock (one step when `SerialInit`).
`InvokeRefused` is an invocation that gets no socket; it may be tried again.
`InvokeAsync` puts the request in the table, `SendRequest` sends it or fails.
`Respond` and `Lose` are the service and the socket. The A-Bus thread takes a
response (`ProcessResponse` removes the request from the table by id, under
`abus->mutex`), then runs the callback in place or through a thread
(`Dispatch`), and `RunCallback`, `LockRequest`, `MarkExecuted` and
`FinishResponse` are `abus_call_callback` and `abus_do_rpc`, split where
`wait_async` and `cancel_async` read `cb_context` without the mutex. After it has
started a thread the A-Bus thread comes back to `abus_process_incoming` and looks
at the response and the flags of its handler once more (`ReadBack`); if the thread
cannot be started, response and handler stay for ever (`resp = "lost"`).
`WaitAsync`, `WaitTest`, `WaitWake` and `WaitTimedOut` are `wait_async`;
`CancelAsync` to `CancelRelease` are `cancel_async`, and `Cleanup` to
`FreeRequest` `abus_request_method_cleanup`, which cancels first. A read of the
flags of a handler that is already freed may give any value or end the process
(`LateFlags`, in `CancelCheck` and `ReadBack`). Any other use after free ends it.
`crash` says of which kind the use was.

When an application may clean up is its own decision; `CleanupAfter` says which
it makes. `AsyncOutcome` is the promise to the caller, without threads and
tables; `ImplementsOutcome` is the refinement.

### HashTab, HashTabUse, Dictionary

`HashTab` has the operations of `hashtab.c` as operators on a record (chains,
`apos`, `ipos`, count), including the order in which `hgrow` rebuilds chains.
`HashTabUse` is a client that calls any operation at any time; `Dictionary`
is a map with a cursor, which it implements. `Events` and `Attr` use the
operators of `HashTab` directly, because which item comes next matters there;
`MethodCall` uses the view of `Dictionary`. `KeyAt`, `UpTo` and `Walked` number
the places of the chains in the order of the loop of `hashtab.h`: the items a
loop has been at, which the invariants of `Events` and `Attr` need, and the
lemmas in `HashTabProofs` are about.

### MethodCall

A declaration enters the method in one critical section and assigns callback,
flags and mutex in another; an undeclaration looks the method up in one and
deletes *the current item* in another. Objects have generations, so that a
pointer to a freed one is recognised. The A-Bus thread looks the method up
(`Receive`), calls or hands over (`DoRpc`), reads the flags again (`Recheck`),
and looks at the request once more (`Check`). `MaxThreads` bounds what
`pthread_create` gives; a request beyond it is dropped, as in the code. A callback
may set an error (`errors`), with which a notification in a thread is answered too
(`Replies`).

### Events

One event. Subscribing processes send requests to the inbox of the service; the
A-Bus thread handles them, the lookup of the event (`LookupEvent`) and its use
(`HandleSubscribe`, `HandleUnsubscribe`) in two steps, between which it may be
undeclared and freed (`found`); a publisher walks the table with one step per call
on it. `SubscribeFails` and `UnsubscribeFails` are the error returns after the
method of the event was declared or undeclared: no memory, or a request that is
not sent. A subscription that was refused, forgotten by an undeclaration or not
sent leaves an endpoint that will unsubscribe what is not there (`dropped`).
`KeyAfter` is the subscription key; `alive` and `Leave` are processes that end
without unsubscribing. `Overlap` says whether the application undeclares the event
while it publishes it: publishers then hold a pointer that dangles (`stale`), and
the next use of it is a fault. The name of the event is a sequence of characters
because recovering it from a method name by skipping a prefix is what the code gets
wrong.

### Attr

Four attributes: an int and a long long that may be set, a read-only string, the
constant `abus.version`; "str" stands for the types that do not convert (bool
and double behave alike). Requests of other processes hold several items and run
in the A-Bus thread; calls of the application hold one. `Declared` is the order
in which the attributes that are there at the start were declared, `Filled` the
table these declarations make; if there are none, `hfirst` fails and the walk of a
get is skipped. `JsonGet`, `GetLocal`
and `SetLocal` are the conversions, with int and long of 2 and 4 bits: a JSON
integer is read as long and assigned to an int, local access checks the range.
A get with an empty name (or a name ending in a dot, which is the same loop over
fewer items) walks the table with one step per call, without `abus->mutex`.
`abus_decl_attr` and `abus_undecl_attr` are two critical sections each: a lookup
and an insertion, a lookup and a removal *of the current item*. An attribute that
is freed while a thread holds its pointer is a fault at the next use. `Alone`
names the operations that the application makes only while no other is under way.
A set that changes a value publishes it under the mutex; `AttrChanged` is the
application calling `abus_attr_changed`, without it. Local variables are reset
when an operation returns, to keep the state space small.

### JsonParser, JsonPrinter, JsonText

`JsonParser` has the state and action tables of `json.c` as functions of a state
and a character, and `json_parser_char` as one step of the automaton: buffer
policy, growth of buffer and stack with their limits, the stack of structures,
escapes with surrogate pairs, counting of UTF-8 bytes, comments. A character is
a member of an alphabet in which characters that the tables treat alike have one
representative. `JsonPrinter` is `json_print_raw` and `json_print_pretty` with
their separators, indentation and escapes. Both are pure. `JsonText` is the
caller that feeds characters, and its properties compare three things defined
independently: the text, the calls of the callback, and the parser's stack.

### JsonRpc, RpcExchange

`JsonRpc` is `jsonrpc.c` on top of the two: the callback that fills a `json_rpc_t`, with
its key tokens recognised by first letters, `last_array` and nesting; the
`json_rpc_get_*` functions with their conversions and pointing into arrays; the
`json_rpc_append_*` functions on a buffer with an end. Words such as "params" are single
characters of a text, so lengths count words. `RpcExchange` joins a client and a
service: `ClientAppend`, `Invoke`, `ProcessMsg` (a request, `ProcessRequest`, or
anything else, `ProcessOther`, which ends the outstanding request of the reader that has
its id: `waiting`), `ServiceAppend`, `ServiceError`, `Reply`, `ReadResponse`, with the
datagram that is cut by a buffer that is too small, memory that was never written
(`Garbage`), `abus_req_introspect_service_cb`, `abus_req_service_list` and
`abus_forward_rpc`. `asked` and `given` record what was appended; the properties relate
them to what is read at the other end. The parameters include strings that are not
UTF-8, arrays of numbers and names that begin like the keys of the protocol, and the
texts given to a relay an array in place of the parameters, and parameters that come
before the method.

### Lifecycle

Processes that share the directory of A-Bus. A handle is used by several threads, each
at its own place of `abus_launch_thread_ondemand` (test, bind, assign, test again,
create the thread) and of `create_service_path` (unlink, symlink). The system may refuse
a socket (`SocketRefused`) or a thread (`ThreadRefused`) each time it is asked; the
error, or the socket without a reader, stays in `abus->sock`, and `refused` remembers
that it happened. The A-Bus thread loops, receives, runs callbacks and may be cancelled
in `recvfrom`; `abus_set_conf` and `abus_cleanup` cancel and join it. `Die` ends a
process at any point and leaves its files. `Allowed` names six things an application may
do that the library does not stand (two threads making the first use, a service of two
processes, a pid that comes back with its files there, poll operation switched off,
cleanup in poll operation, a callback that can be cancelled): the passing run excludes
them, and a case of `LifecycleBeyond` for each shows why (section 6). A service leaves
the table only in `abus_cleanup`: `service_may_cleanup` asks for empty tables of methods
and attributes, and every service keeps the internal ones.

### Transaction, RemoteCall

`un_sock_transaction` step by step: a socket with a name given by the kernel (or,
for subscriptions, the socket of the process: `Kept`), a send that waits for room,
`select` with a limit, a receive without one, and close. Each of `socket`,
`setsockopt`, `sendto`, `select` and `recv` may fail (`CallFails`). The
A-Bus thread of the called process takes a request, runs its callback, which may
itself call (`Nested`), and answers without waiting. Sockets have queues of
`Depth` messages. `Crash` takes a process with its calls, sockets and queues;
`Restart` brings it back. Nothing in the code compares the id of an answer with
that of the request, so `OwnAnswer` rests on names of sockets not being reused
while an old answer is on its way: `Names` is how many there are (the kernel has
2^20). `RemoteCall` is the promise without sockets: at most one run of the
callback, success only after it, refusal only without it, and a time-out that
says nothing about it. `ImplementsRemoteCall` is the refinement.

## 3. Runs

State counts are of the whole reachable space; every passing run is exhaustive
for its bounds. Several properties are conjunctions of named parts that a module
states one by one (`CleanStop` is `TypeOK`, `OneReader`, `NothingLeft` and
`NoFault`); the run checks the conjunction.

| Run | Bounds | Distinct states | Checks |
|---|---|---|---|
| `async_safe` | 2 requests, one threaded; ids modulo 3, unlocked counter; cleanup after a cancel or a wait | 3,186,346 | type, callback at most once, cancel final, where freed memory is used, wait result, no freed request in the table |
| `async_unique` | the same, creation serialised and no wrap, one request waited for; cleanup also after a failed send | 128,425 | own response, cancel fails only if answered, `AsyncOutcome`, no lost wake-up, an answer is carried through |
| `hashtab` | 5 keys that collide, table 2 growing to 8 | 2,218 | `hsanity`, documented loop, `Dictionary` with its cursor |
| `events` | 2 endpoints, 3 subscriptions, inbox 2; published by the A-Bus thread | 127,400 | each publication ends and reaches all once, table sane, fault only after a subscription was refused, forgotten or not sent |
| `method_threads` | 5 requests (2 notifications), 2 threads, 2 methods | 39,704 | exclusion, one answer, answer after callback, notifications, no fault but one late read, every request that got a thread is answered |
| `method_serial` | poll operation, 4 requests, methods come and go | 102,496 | no use of freed memory, undeclare removes its own |
| `attr` | 4 attributes, 1 application thread, requests of up to 2 items, attributes come and go | 662,230 | exact effect of a set that fails, snapshot, last event, no freed attribute used, mutex released |
| `json` | 7 sources: all texts of 6 to 8 characters over alphabets of 5 to 11, from the start or from inside a document, with small limits | 841,473 | limits, nesting seen by the callback, text spelled by the items, print and read back, UTF-8 |
| `rpc` | up to 2 parameters each way out of 11, 27 buffer sizes, 2 error codes, 7 texts for a relay, 5 directory entries | 966,459 | request, response and error arrive, cut messages are not taken for whole, introspection and service list complete, relay, what ends a reader |
| `lifecycle` | 2 processes with 2 and 1 threads, 2 services, 3 starts | 86,938 | declared services reachable, one reader, nothing left, no stray cancel, all but after a refused socket or thread; every call returns |
| `transaction` | 3 processes, 4 calls of which 2 from callbacks, queues of 1, 4 names, 1 crash | 173,558 | own answer, sockets closed, `RemoteCall`, calls end, requests served |
| `attr_overflow` | small | - | violated: section 6 |

Why the bounds are enough for what they ask. Two requests are what an id collision, a
wrong response and a cancel of another's request take; a third adds only another
bystander. Three ids with any starting value include the wrap and the undefined id. Five
colliding keys grow the table twice and make chains of three. Three subscriptions make
the table grow during use. Two threads for three threaded requests make `pthread_create`
fail while the exclusive mutex is contended. Two items are a success before a failure.
One application thread is enough in `attr` because it contends with the A-Bus thread for
the one mutex and the one position. Seven or eight characters reach every state of the
parser from some start, go over limits of one to three levels and of four to nine bytes,
and close what they opened; the longest chain of the tables, a surrogate pair, has a
source of its own. The sizes of `rpc` put the end of the buffer at every character of a
message of one or two parameters. Three starts are a process that dies, its heir and a
bystander. With queues of one and four calls a service is full while it calls another
that is full. One crash and restart reaches each place where a call or a service may be;
with two, `MaxCrashes = 2`, 442,775 states hold the same properties in three times the
time. Four names are one per call, as 2^20 are for the calls whose answers can still be
on their way.

Properties that are conditional say so. `GetShowsSnapshot` and `MutexReleased`
exclude a walk whose position another thread moved (`disturbed`), `LastEventCurrent`
the events that the application publishes itself, `DeclaredReachable` and `CleanStop`
a process that was refused a socket or a thread, `RequestArrives` what the reader
cannot read, `ErrorArrives` a number that overwrites the code, `NoAbort` arrays that
are not of objects, and `RelayedAsNamed` parameters before the method.
`LateUsesOnly` and `AnsweredOnce` name the uses of freed memory they allow. In all
these cases the unconditional statement is false of the code, and section 6 has it
violated.

## 4. Fairness

`AsyncRequest`: weak fairness of the response side, of a waiter that is awake and
of a canceller: threads inside a library call keep running. Nothing is assumed of
the clock, so `NoLostWakeup` cannot be saved by a time-out, nor of the service,
the network or the application, and after a use of freed memory, which may end the
process, nothing is claimed. Weak fairness is enough for the request mutex
because its holders take a bounded number of steps and do not come back.
`Events`: a publisher keeps running; it waits for nothing. `MethodCall`: the A-Bus
thread, the arrival of what was sent, and a thread inside a callback.
`Lifecycle`: a thread inside a call, the loop of the A-Bus thread, callbacks that
return, a pending cancellation, and `abus_cleanup` itself; not the receipt of a
message, the start of a process or its death. `CallsReturn` therefore says that
stopping the A-Bus thread needs no message to come. `Transaction`: the steps of a
call, its timer included, and the A-Bus thread with its callbacks; not callers,
crashes and restarts. `CallEnds` is claimed of calls with a limit, in instances
without a circle of full queues: `NoCircularWait` shows what a circle does.
`JsonText` and `RpcExchange` are sequential, and claim safety only.
`Attr`: each thread inside an operation. A mutex of pthreads is not fair, so no
property claims that a given thread gets `attr_mutex`, only that the holder
releases it.

## 5. Proofs

A module `XProofs` holds the theorems about `X`; `HashTabProofs` begins with lemmas
about tables that `EventsProofs` and `AttrProofs` use too. They are about every value
of the constants (any number of requests, methods, threads, processes, calls, keys,
hash values, any text) under the hypotheses given.
The property a theorem states is the one the runs check. A hypothesis on how the
application uses the library is one that the code needs: the last column names the
configuration of section 6 that shows the property false without it.

| Module, theorem | States | Hypotheses | Without them |
|---|---|---|---|
| `AsyncRequestProofs` `TypeCorrect` | `TypeOK` | | |
| `Ownership` | `OwnershipInv` | | |
| `CallbackOnce` | `CallbackAtMostOnce` | | |
| `CancelWins` | `CancelledNeverCalled` | | |
| `WaitOk` | `WaitOkMeansResolved` | | |
| `FreedNotTracked` | `TableHoldsLive` | | |
| `CleanupLateUses` | `LateUsesOnly` | requests are cleaned up after a cancel or a wait that returned 0 | |
| `UniqueLateUses` | `LateUsesOnly` | distinct ids | |
| `AnsweredByOwnResponse` | `OwnResponse` | distinct ids | `AsyncBeyond` |
| `CancelFailsOnlyAnswered` | `CancelFailsOnlyIfAnswered` | distinct ids | |
| `OutcomeRefined` | `ImplementsOutcome` | requests are cleaned up after a cancel or a wait that returned 0 | |
| `UniqueOutcomeRefined` | `ImplementsOutcome` | distinct ids | |
| `MethodCallProofs` `TypeCorrect` | `TypeOK` | | |
| `AnswersOnce` | `AnsweredOnce` | at most redeclarations while requests run | `MethodBeyond` |
| `ExclusiveAlone` | `ExclOne` | at most first declarations while requests run | `MethodBeyond` |
| `PollNoFault` | `NoFault` | poll operation, no method threaded | `MethodBeyond` |
| `PollUndeclRemovesOwn` | `UndeclRemovesOwn` | poll operation, no method threaded | `MethodBeyond` |
| `TransactionProofs` `SocketsStaySound` | `SocketsSound` | | |
| `OwnAnswers` | `OwnAnswer` | a socket and a name for each call | `TransactionBeyond` |
| `CallsKeepPromise` | `ImplementsRemoteCall` | a socket and a name for each call | |
| `LifecycleProofs` `DeclaredStayReachable` | `DeclaredReachable` | no use of `Allowed` but `cancel` | `LifecycleBeyond` |
| `HandlesStopCleanly` | `CleanStop` | no use of `Allowed` but `cancel` | `LifecycleBeyond` |
| `HashTabProofs` `TableStaysSound` | `UseInv` | | |
| `TableIsDictionary` | `ImplementsDictionary` | | |
| `LoopIsComplete` | `LoopVisitsAll` | | |
| `EventsProofs` `SubscribersTyped` | `TypeOK`, `TableSane` | | |
| `PublicationsReachAll` | `PublishReachesAll` | the A-Bus thread publishes, no overlap | `EventsBeyond` |
| `SubscribersStaySound` | `SubscribersSound` | the A-Bus thread publishes, no overlap | `EventsBeyond` |
| `AttrProofs` `AttrsStaySound` | `AttrsSound` | an undeclaration is alone | `AttrBeyond` |
| `HolderIsAlone` | `HolderAlone` | an undeclaration is alone | |
| `LastEventsAreCurrent` | `LastEventCurrent` | an undeclaration is alone | |
| `GetsShowSnapshots` | `GetShowsSnapshot` | an undeclaration is alone | |
| `JsonTextProofs` `ParserInvHolds` | `ParserInv` | | |
| `Limits` | `WithinLimits` | | |
| `CallbackIsJson` | `CallbackSeesJson` | | |
| `AcceptedTextSurvives` | `AcceptedSurvives` | | |

"Distinct ids" is `SerialInit` and `IdLimit < IdMod`: requests are created one at
a time and the counter does not wrap. "A socket and a name for each call" is
`Kept = {}` and at most `Names` calls. "No overlap" is `~Overlap`: the event is not
undeclared while it is published. Both theorems of `EventsProofs` under it also
ask for a service name that is not empty: then the name of the event is never
recovered from the name of its method (section 6), so a delivery that fails drops
nobody; with an empty one it would delete an item in the middle of its own walk. An
undeclaration is alone when `"undecl" \in Alone`.

The assumptions on constants (`ReqAssumption`, `IdAssumption`, `PolicyAssumption`,
`MethodAssumption`, `TransactionAssumption`, `LifecycleAssumption`, `KeyAssumption`,
`HashAssumption`, `SizeAssumption`, `EventAssumption`, `AttrAssumption`, `OpAssumption`,
`SourcesAssumption`) say which sets the constants are from; TLC evaluates them in the
runs. The inductive invariants stand at the end of the module they are about, and TLC
found each an invariant of the instances before it was proved.

**Asynchronous requests.** "The callback runs at most once" is not inductive: nothing in
it says that a request that is called was taken out of the table. `OwnershipInv` adds
who owns a request. `TableInv`: an entry of the table is a published request that nobody
has taken. `OwnerInv(r)`: as long as the request is in the table, its handler is live
and `cb_context` set; the step that takes it out decides the winner; after that only the
winner changes handler and `cb_context`, in the order the code does. Taking is atomic
under `abus->mutex`, which is all the exclusion the proof needs; it uses neither that
ids are distinct nor when the unlocked reads happen. `ReleaseInv` adds that a request
being cleaned up was never sent, was cancelled, or is one whose wait returned 0, hence
is not in the table, and only the response side that woke the waiter may still use it;
and that flags that are read late are those of a handler that a response brought to its
end, since a cancel takes the request out before it frees the handler. `UniqueInv` adds
that ids are distinct and below the counter, and that an untaken request is under its
own id, hence the response that carries an id finds the request that sent it;
`FailedInv`, that a request that was not sent is still in the table when it is cleaned
up. The refinement maps each action to the step of `AsyncOutcome` that decides, or to a
stutter; it needs `OwnershipInv` before and after the step.

**Methods.** `AnswerInv`: the A-Bus thread owns the request it received until it is
answered or a thread takes over (`ServeInv`); a thread that took over answers once
and frees the request, which the A-Bus thread may read after that at one place
(`LateReadInv`); and the flags that are read twice are
the same both times because a redeclaration assigns what was there (`StaticInv`).
`ExclInv`: who is inside the callback of an exclusive method holds its mutex, and
nobody is inside before the declaration that initialises the mutex is complete.
`PollInv`: declarations and requests take turns, so a pointer to a method lives only
while nothing else runs.

**Synchronous requests.** `AnswerInv` follows a call from its socket to its answer:
names given are those of calls that began, each once (`NameInv`); a request in a
queue comes from the address of its call and has not run, a response waits at the
address of its call, which has run once (`QueueInv`); hence what a caller may
conclude from how a call ended (`OutcomeInv`). `SocketInv` says whose an open socket
is: that of a process that is up, or of one call that is under way; each return of a
call closes that one and empties its queue. With this every step of `Transaction`
maps to one of `RemoteCall` or a stutter.

**Start and stop.** `LifeInv`: the socket, its file and the A-Bus thread of a handle
go together (`SoundInv`), for each of the places its threads may be at, or the system
refused one of them, and then there never is a thread, and no cleanup that comes to an
end (`RefusedInv`); a service that a process claims leads to that process and is
claimed by no other (`ClaimInv`), refused or not.

**Hash table.** `TableInv`: an item is in the chain of its hash value, once; the
position is on an item if there is one; count is the number of items.
`HashTabProofs` has a lemma for each call: that it keeps `TableInv`, where it leaves
the position, and what becomes of the items. The last ones number the places of the
chains: `hfirst` goes to the first that has an item, `hnext` to the next one, and
`Walked` grows by that item, until it is all of them.

**Events.** `WalkInv`: a publication has sent, once, to exactly the items its walk
was at, which the lemmas on `Walked` carry to the end of the table. `BalanceInv`
is why an unsubscription always finds an item, although it may be that of another
endpoint: however many of the queued requests are handled, there are no fewer
items than unsubscriptions. `FoundInv` joins the two halves of a handler: the event
it found is the one declared, or was freed.

**Attributes.** `ControlInv`: where each thread is in its call, that the mutex is
held where it should be, and that a pointer is to the attribute that was looked up.
`LastInv`: a value that differs from the last event is being announced by the set
that changed it. `HoldInv`: since the mutex was taken the attributes have changed by
the items that the holder handled and nothing else. `ShownInv`: a response holds what
was asked so far, and a walk over all attributes those that it was at.

**Texts.** `ParserInv` is what holds of a parser after every character, in parts that
build on each other. `Room` and the types: no push goes beyond what was allocated.
`HasDigits`: in the states of a `\u` escape its digits are at the end of the buffer,
hence `decode_unicode_char()` finds four of them. `Nesting`: the structures that the
items have open are the modes of the stack, and `Expects` says for each state what
the innermost one waits for: that there is a key whose value is missing, that a
pending number has a place, that `expecting_key` is true. Without it a comma or a
quote could be followed by an item that has no place. `Utf8`: the buffer is a whole
string but for the bytes that `utf8_multibyte_left` counts. The transition table is
used by its columns: `Enters` says from which states and with which characters a
state or an action is entered, `RowEnters` that nothing else is. Each action then
needs one lemma for types and limits and one for the items, and `json_parser_char()`
is a case for each. `ParseIsRun`: a text that is read in pieces is read character by
character.

That an accepted text survives needs two parts more. `Legible`: every item reported
has the data of its type (a number is one that the tables lead to the end of, a
string has no character that the parser refuses) and no beginning of the items is
nested more deeply than `max_nesting`. `Spelled`, for texts without escapes: the text
so far, without layout and comments, is what `json_print_raw()` makes of the items so
far, a comma if one was read and what is not yet reported (`Unreported`). The comma
is why it says more than that the two texts are the same: the printer puts it before
the next item, the parser takes it after the last. `CharStands` and `CharSpells` show
that a character keeps `Spelled`; when the text is accepted nothing is unreported,
hence `AcceptedIsSpelled`. The other direction, `ReadsBack`, is an induction over the
items instead: after each of them, printed with or without layout, the parser that
reads the print stands where an item was reported and has these items, the last one
reported or in its buffer (`Stands`). `BeforeRead` is the comma and the indentation
before an item, `BodyRead` the item, escapes included, and `ItemRead` both. It uses
of the first parser only `Legible` and `Nesting`, so it holds of texts with escapes
too: what an escape decodes to is what is printed again. The second parser has no
`max_data`: the digits of an escape are in the buffer before it is decoded, so
reading a print may need more room than reading the text did.

Characters are any values, of which `Named` have a meaning: the alphabets of the
sources may be anything that does not contain the results of escapes
(`SourcesAssumption`).

How induction over data is done. The provers cannot instantiate a theorem whose
parameter is an operator, which the induction theorems of the library are. `LeastNat`
(a set of numbers that is not empty has a least member, from `WFMin`),
`IntervalInduction` and `RecursionExists` take a set or a function instead: the set of
the numbers of which the statement holds. Chains that `hgrow` rebuilds, tables that a
loop goes through and calls with any number of items are treated so.

What only TLC checks:

- All liveness: `NobodyLeftWaiting`, `PublishEnds`, `Answered`, `MutexReleased`,
  `CallsReturn`, `NobodyStuck`. Fairness needs ENABLED, which the prover does not have.
- The exchange of messages: `MessagesWhole`, `RequestsArrive`, `ResponsesArrive` and
  `ListsComplete` of `RpcExchange`. `JsonRpc` has a callback of its own on top of the
  parser, with tables of parameters, words of the protocol taken for characters and
  texts cut at any place; the lemmas on texts are about the items that a parser
  reports, and not yet about what that callback makes of them.

## 6. Where code and documentation disagree

One run is expected to be violated; it is the finding of `PROJECT.json`, with the
line quoted. `attr_overflow`: where long has 64 bits, a long long attribute read as
int from another process is truncated without an error.

Other counterexamples, about uses of the library that the passing runs leave out or
about what a comment, a doc or a test says, are kept as configurations to be run by
hand, one file for each MC module (`tlc -config AsyncBeyond.cfg MCAsyncRequest`).
Its header lists the settings of each case, of which the first is set; all of them
end in a violation:

| Configuration | Case | Property | Shows |
|---|---|---|---|
| `AsyncBeyond` | cleanup after a wait | `RequestsInTime` | a request cleaned up as soon as `wait_async` returned 0, as the tests do, is still in use by the response side |
| `AsyncBeyond` | no cleanup | `CancelReadsInTime` | a cancel reads the flags of a handler that the response has freed since (`abus.c` 1117) |
| `AsyncBeyond` | no cleanup, a threaded response | `BackReadsInTime` | the A-Bus thread reads the flags of a handler that the thread it started has freed (`abus.c` 527) |
| `AsyncBeyond` | threads | `TimeoutMeansNoResponse` | the wait reports a time-out for a request that was executed |
| `AsyncBeyond` | the counter wraps | `IdDefined` | the wrapped counter fails the assertion in `invoke_async` |
| `AsyncBeyond` | creation not serialised | `OwnResponse` | two threads create requests with one id |
| `AsyncBeyond` | one request, fairness | `AlwaysCalledBack` | a lost response: the callback is never called, the time limit is not used; likewise where the thread of a threaded response cannot be created |
| `EventsBeyond` | published by the application | `PublishReachesAll` | publication from a thread of the application skips a subscriber when the A-Bus thread adds one meanwhile |
| `EventsBeyond` | as the passing run | `GoneUnsubscribed` | a subscriber that is gone is never unsubscribed, as the event name is not recovered from the method name |
| `EventsBeyond` | published by the application, `Overlap` | `FaultOnlyIfDropped` | an event undeclared while it is published is used after it was freed |
| `EventsBeyond` | as the passing run | `OnlyOwnUnsubscribe` | an unsubscribe removes the subscription of another endpoint |
| `EventsBeyond` | as the passing run | `SubscribeOkMeansSubscribed` | subscribing to an undeclared event reports success |
| `EventsBeyond` | as the passing run | `NoFault` | an unsubscribe on an empty table |
| `MethodBeyond` | threads | `NoFault` | the A-Bus thread reads a request its thread has freed |
| `MethodBeyond` | `undecl` | `UndeclRemovesOwn` | an undeclare removes another method |
| `MethodBeyond` | `undecl` | `NoFault` | a method undeclared while it serves a request is used after it was freed |
| `MethodBeyond` | `decl` | `AnsweredOnce` | a request between the two halves of a declaration is answered without a callback |
| `MethodBeyond` | `redecl` | `ExclOne` | a redeclaration initialises a held mutex again |
| `AttrBeyond` | as the passing run | `GetRetrievesAll` | a get of all attributes misses one while another thread looks one up |
| `AttrBeyond` | as the passing run | `OkMeansHandled` | a set with an empty name stops and is answered as a success |
| `AttrBeyond` | undeclared at any time | `NoFault` | an attribute undeclared beside other operations is used after it was freed |
| `JsonBeyond` | as the passing run | `EveryNumberRead` | `0e1` is refused; the libjson README says "Full JSON support" |
| `JsonBeyond` | as the passing run | `DoneHasDocument` | an unfinished comment is taken for a document, against the comment at `json.c` 717 |
| `RpcBeyond` | `Exponents` | `DoubleArrives` | a double written as `1e+20` is no number of the parser |
| `RpcBeyond` | as the passing run | `ResponseIsJson` | an error response to a request without an id is not JSON (comment at `jsonrpc.c` 320) |
| `RpcBeyond` | small buffer | `AppendReportsCut` | a parameter that does not fit is accepted with 0 |
| `RpcBeyond` | `PrefixTables` | `IntrospectionComplete` | a method whose name begins that of an internal one is hidden |
| `RpcBeyond` | as the passing run | `AlwaysRelayedAsNamed` | a relay takes the service name from a parameter called "method" |
| `RpcBeyond` | large enough | `BinaryArrives` | a string that is not UTF-8 is written as it is ("Binary content is allowed", `jsonrpc.c` 1155) and refused by the reader |
| `RpcBeyond` | large enough | `ErrorAlwaysArrives` | an int named `co` after the error is taken for its code, and 0 for success (`jsonrpc.c` 365) |
| `RpcBeyond` | large enough | `ReaderSurvives` | an array of numbers ends the process that reads it (`jsonrpc.c` 415, 534) |
| `RpcBeyond` | small buffer | `OnlyAnswersEnd` | a request that was cut, but not its id, ends an outstanding request of the service with that id (`abus.c` 1303) |
| `LifecycleBeyond` | `race` | `SocketKept` | two threads make the first use, and the error of one replaces the socket of the other |
| `LifecycleBeyond` | `share` | `DeclaredReachable` | two processes declare one service, and the one that ends removes the path of the other |
| `LifecycleBeyond` | `reuse` | `DeclaredReachable` | a pid comes back whose socket was left in the directory |
| `LifecycleBeyond` | `fall` | `DeclaredReachable` | poll operation switched off starts no thread |
| `LifecycleBeyond` | `poll` | `NoFault` | cleanup in poll operation cancels a thread that is not there |
| `LifecycleBeyond` | `cancel` | `NoOrphan` | the A-Bus thread is cancelled in a callback and keeps its mutex |
| `LifecycleBeyond` | as the passing run | `AlwaysRead` | the A-Bus thread or its socket is refused, and the next use takes the handle for started |
| `LifecycleBeyond` | as the passing run | `NeverFaults` | cleanup after that cancels and joins a thread that was never made |
| `TransactionBeyond` | six calls | `NoCircularWait` | two services wait for room at each other |
| `TransactionBeyond` | `Kept` | `OwnAnswer` | two subscriptions on the socket of a process take each other's answers |
| `TransactionBeyond` | one name | `OwnAnswer` | a late answer reaches the next socket of the same name |
| `TransactionBeyond` | `Kept`, fairness | `CallEnds` | the A-Bus thread takes the answer between `select` and `recv` |
| `TransactionBeyond` | `Unlimited`, a crash | `EveryCallEnds` | a negative limit, the default of `abus.hpp`, waits for ever for a service that crashed |

The docs these contradict: `EventsBeyond` "The notification is sent to all the
subscribed end-points. If notification delivery fails, the troublesome end-point get
unsubscribed" (`abus/abus.c` 1788-1789); `AsyncBeyond` the cleanup after a wait in
`test/abus-svc.cpp` 260 and 43, and the "function to be called upon response or
timeout" of `invoke_async`.

## 7. What is not modelled

- The tree builder of `libjson` (`json_parser_dom`, `jsondom.c`) and `jsonlint.c`:
  A-Bus uses neither. `recycle.c` and `lookupa.c`: the hash is a constant.
- Failure of allocation, except in `abus_event_subscribe` and `_unsubscribe`, where it
  ends a call half way, and of `select_for_read` with another error than -1, which the
  code takes for a message: such a call waits as an `Unlimited` one does.
- The C++ wrapper, tools, examples: they forward to the C interface. The default
  limit of the wrapper is the `Unlimited` of `Transaction`.
- Logging and the wording of error messages. Doubles are spelled as given; that
  `snprintf` cuts one at its buffer is not modelled.
- Signals. Cancellation of the A-Bus thread is, in `Lifecycle`.
- In `Events`, the client's wait for the answer to subscribe is its result only.
- In `Attr`, an attribute that is there is not declared again; the application
  does not write its variables directly; `abus_append_attr` is the read half of
  `AttrChanged`.
- A service is served by one handle, and each module has one service per handle
  except `Lifecycle`; that `service_lookup` runs without `abus->mutex` at
  `abus.c` 2853 and moves the position of the table of services is listed as a
  hazard without a property.
- Each call on a hash table is one step. A data race *inside* such a call (two
  threads in `hadd` at once) has no defined outcome and is not explored; the
  counterexamples above do not need it.

## 8. Plan

Modelling is complete up to section 7, and every safety property the runs check has
a theorem except those of `RpcExchange`. What is left to prove:

1. `RequestsArrive` and `ResponsesArrive`, from `ReadsBack`: a message that fits is the
   print of items, which the parser reports again; then by induction over them that
   `json_rpc_parser_callback()` fills the tables with what was appended.
2. `ListsComplete` for any directory and any tables, as an induction over their entries.
3. Weaker hypotheses: `AnswersOnce` with first declarations beside redeclarations.
