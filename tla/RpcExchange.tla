---------------------------- MODULE RpcExchange ----------------------------
(***************************************************************************)
(* A request from the client that writes it to the client that reads its   *)
(* response: json_rpc_append_*() on both sides, the datagrams between      *)
(* them, abus_process_msg() and the response of a callback in the service, *)
(* abus_request_method_invoke() in the client.  The callback is one of the *)
(* application, or the introspection that libabus has in every service.    *)
(* A relay may pass the text of a request on instead of writing one.  A    *)
(* request for the list of services is answered from the directory.        *)
(***************************************************************************)
EXTENDS JsonRpc, FiniteSets

CONSTANTS
  Params,     \* what may be appended: records with op, name and data
  Ids,        \* the ids of requests
  Codes,      \* the error codes that a callback may set
  Methods,    \* the methods that the service has
  Called,     \* the methods that a client may call
  Internal,   \* the methods that libabus adds, with "*" for introspection
  Tables,     \* the names in its tables of methods, events and attributes
  Entries,    \* the directory of A-Bus: records with a name and a link
  Texts,      \* requests that a relay may be given
  Garbage,    \* what memory that was never written may hold
  Sizes,      \* JSONRPC_REQ_SZ_MAX and JSONRPC_RESP_SZ_MAX
  MaxAppend   \* bound: parameters appended on one side

VARIABLES
  phase,   \* "write", "sent", "callback", "reply", "read" or "end"
  relayed, \* the request is the text given to a relay
  size,    \* the size of the buffers
  req,     \* the json_rpc_t of the client
  rpc,     \* the json_rpc_t of the service
  wire,    \* the datagram on its way
  waiting, \* ids of asynchronous requests that the service itself has made
  id,      \* the id that the request was given (history)
  asked,   \* what the client appended, or the text of a relay (history)
  given,   \* what the callback appended, or who is there (history)
  result   \* what abus_request_method_invoke() returned

vars == <<phase, relayed, size, req, rpc, wire, waiting, id, asked, given, result>>

Service == <<"svc">>
NoService == <<>>            \* asks for the list of services
NO_METHOD == <<"-", "9">>    \* JSONRPC_NO_METHOD
PARSE_ERROR == <<"-", "1">>  \* JSONRPC_PARSE_ERROR
NotYet == <<>>
Ok == <<"0">>

Init ==
  /\ phase = "write" /\ relayed = FALSE
  /\ size \in Sizes
  /\ id \in Ids
  /\ \/ \E method \in Called : req = json_rpc_req_init(Service, method, id, size)
     \/ req = json_rpc_req_init(NoService, <<"*">>, id, size)
  /\ rpc = json_rpc_init
  /\ waiting = Ids \ {UndefId}
  /\ wire = <<>> /\ asked = <<>> /\ given = <<>> /\ result = NotYet

\* One of json_rpc_append_*(); an array of objects, or of numbers, takes
\* json_rpc_append_args().
Object(fields) ==
  <<Item("OBJECT_BEGIN", <<>>)>> \o
  FlattenSeq([i \in DOMAIN fields |->
                <<Item("KEY", fields[i][1]), Item("INT", fields[i][2])>>]) \o
  <<Item("OBJECT_END", <<>>)>>
AppendArray(r, name, items) ==
  json_rpc_append_vargs(r, <<Item("KEY", name), Item("ARRAY_BEGIN", <<>>)>> \o items \o
                           <<Item("ARRAY_END", <<>>)>>)
AppendParam(r, p) ==
  CASE p.op = "int" -> json_rpc_append_int(r, p.name, p.data)
    [] p.op = "bool" -> json_rpc_append_bool(r, p.name, p.data = <<"true">>)
    [] p.op = "null" -> json_rpc_append_null(r, p.name)
    [] p.op = "double" -> json_rpc_append_double(r, p.name, p.data)
    [] p.op = "str" -> json_rpc_append_strn(r, p.name, p.data)
    [] p.op = "array" ->
         AppendArray(r, p.name, FlattenSeq([i \in DOMAIN p.data |-> Object(p.data[i])]))
    [] p.op = "ints" ->
         AppendArray(r, p.name, [i \in DOMAIN p.data |-> Item("INT", p.data[i])])

Writing == phase = "write" /\ req.service = Service

ClientAppend(p) ==
  /\ Writing /\ Len(asked) < MaxAppend
  /\ req' = AppendParam(req, p)
  /\ asked' = Append(asked, p)
  /\ UNCHANGED <<phase, relayed, size, rpc, wire, waiting, id, given, result>>

\* abus_request_method_invoke() up to the response.
Invoke ==
  /\ Writing
  /\ req' = json_rpc_req_finalize(req)
  /\ \E garbage \in Garbage : wire' = Datagram(req', garbage)
  /\ phase' = "sent"
  /\ UNCHANGED <<relayed, size, rpc, waiting, id, asked, given, result>>

\* Where a word in quotes is in a text.
At(text, word) ==
  {i \in 2..(Len(text) - 1) : SubSeq(text, i - 1, i + 1) = Quoted(<<word>>)}

\* The service is the text from the quote after "method": to the next dot.
json_rpc_quickparse_service_name(text) ==
  LET From(i, chars) == {j \in DOMAIN text : j >= i /\ text[j] \in chars}
      First(js) == CHOOSE j \in js : \A k \in js : j <= k
      method == At(text, "method")
      colon == From(First(method) + 2, {":"})
      quote == From(First(colon) + 1, {"\""})
      dot == From(First(quote) + 1, {"."})
  IN  IF method = {} THEN NoKey
      ELSE IF colon = {} THEN NoKey
      ELSE IF quote = {} THEN NoKey
      ELSE IF dot = {} THEN NoKey
      ELSE IF First(dot) - First(quote) > JSONRPC_SVCNAME_SZ_MAX THEN NoKey
      ELSE SubSeq(text, First(quote) + 1, First(dot) - 1)

\* What is not for this service goes elsewhere.
abus_forward_rpc(text) ==
  /\ Writing /\ asked = <<>>
  /\ relayed' = TRUE
  /\ asked' = <<[op |-> "text", name |-> <<>>, data |-> text]>>
  /\ IF json_rpc_quickparse_service_name(text) = Service
     THEN wire' = text /\ phase' = "sent" /\ result' = result
     ELSE wire' = text /\ phase' = "end" /\ result' = <<"elsewhere">>
  /\ UNCHANGED <<size, req, rpc, waiting, id, given>>

\* Services are listed by their paths, whether they answer or not.  Mutant.
AnswersPath(e, alive) ==
  /\ e.name # <<>> /\ abus_check_valid_service_name(e.name)
  /\ e.link # NoKey /\ e.link[1] = "_"

\* An entry that is a link, to a socket of the directory, and answers when it
\* is asked for the version of libabus.
Answers(e, alive) ==
  /\ e.name # <<>> /\ abus_check_valid_service_name(e.name)
  /\ e.link # NoKey /\ e.link[1] = "_" /\ \A i \in DOMAIN e.link : e.link[i] # "/"
  /\ e \in alive

\* The request is filled with what was found, as if a response had been read.
abus_req_service_list(alive) ==
  LET list == SetToSeq({e.name : e \in {e \in Entries : Answers(e, alive)}})
      open == json_rpc_add_array([json_rpc_req_finalize(req) EXCEPT
                                    !.token = "PARAMS", !.key = <<"services">>])
      add(r, name) == json_rpc_add_val(
        [json_rpc_add_object_to_array(r) EXCEPT !.key = <<"name">>], "STRING", name)
      walk[i \in 0..Len(list)] == IF i = 0 THEN open ELSE add(walk[i - 1], list[i])
  IN  /\ phase = "write" /\ req.service = NoService
      /\ req' = [walk[Len(list)] EXCEPT !.status = "OK", !.last_array = NoKey,
                                        !.pointed = 0, !.msg = <<>>, !.msglen = 0]
      /\ given' = SetToSeq(alive)
      /\ result' = Ok /\ phase' = "end"
      /\ UNCHANGED <<relayed, size, rpc, wire, waiting, id, asked>>

\* The directory cannot be opened.
ServiceListFails ==
  /\ phase = "write" /\ req.service = NoService
  /\ req' = [json_rpc_set_error(json_rpc_req_finalize(req), <<"-", "7">>) EXCEPT
               !.msg = <<>>, !.msglen = 0]
  /\ result' = <<"ENOENT">> /\ phase' = "end"
  /\ UNCHANGED <<relayed, size, rpc, wire, waiting, id, asked, given>>

\* recvfrom() and recv() keep what their buffer has room for.
Received == IF Len(wire) <= size THEN wire ELSE SubSeq(wire, 1, size)

IsRequest(r) ==
  /\ ~r.aborted /\ r.error_code = <<"0">> /\ r.ret = "0" /\ r.status = "OK"
  /\ r.service # NoKey /\ r.method # NoKey

\* The error of a message that did not parse, unless it tells one itself.
Faulted(r) ==
  IF r.error_code = <<"0">> /\ (r.ret # "0" \/ r.status # "OK")
  THEN [r EXCEPT !.error_code = PARSE_ERROR] ELSE r

\* abus_req_untrack(): the outstanding request with the id of the message, if
\* it has one.
Untracked(r) ==
  IF r.aborted \/ json_val_is_undef(r.id) THEN {} ELSE waiting \intersect {r.id.data}

\* What is not a request is taken for a response, even if it did not parse: the
\* outstanding request with its id is over, and without one it is dropped.  A
\* response that is finalized without an id has no buffer and cannot be sent.
ProcessOther(r) ==
  /\ ~IsRequest(r)
  /\ waiting' = waiting \ Untracked(r)
  /\ rpc' = r /\ wire' = <<>> /\ phase' = "read"

\* A request for a method that is not there is answered with the error.
ProcessRequest(r) ==
  /\ IsRequest(r)
  /\ IF r.method \in Methods /\ r.service = Service
     THEN rpc' = json_rpc_resp_init(r, size) /\ wire' = <<>> /\ phase' = "callback"
     ELSE /\ rpc' = json_rpc_resp_finalize(
                      json_rpc_resp_init([r EXCEPT !.error_code = NO_METHOD], size))
          /\ \E garbage \in Garbage : wire' = Datagram(rpc', garbage)
          /\ phase' = "read"
  /\ UNCHANGED waiting

\* abus_process_msg() up to the callback.
ProcessMsg ==
  /\ phase = "sent"
  /\ \E r \in {Faulted(json_rpc_parse_msg(json_rpc_init, Received))} :
       ProcessOther(r) \/ ProcessRequest(r)
  /\ UNCHANGED <<relayed, size, req, id, asked, given, result>>

InCallback == phase = "callback" /\ rpc.method # <<"*">>

ServiceAppend(p) ==
  /\ InCallback /\ Len(given) < MaxAppend
  /\ rpc' = AppendParam(rpc, p)
  /\ given' = Append(given, p)
  /\ UNCHANGED <<phase, relayed, size, req, wire, waiting, id, asked, result>>

ServiceError(code) ==
  /\ InCallback /\ Len(given) < MaxAppend
  /\ rpc' = json_rpc_set_error(rpc, code)
  /\ given' = Append(given, [op |-> "error", name |-> <<>>, data |-> code])
  /\ UNCHANGED <<phase, relayed, size, req, wire, waiting, id, asked, result>>

\* strncmp() of the length of the name: the beginning of one is hidden too.
Hidden(name) == \E internal \in Internal : IsPrefix(name, internal)

\* One table of a service: an array with an object for each of its items.
\* Texts that describe an item are left out.
AppendItem(r, items) == json_rpc_append_vargs(r, [i \in DOMAIN items |-> Item(items[i], <<>>)])
AppendDetails(r, kind) ==
  CASE kind = "methods" -> json_rpc_append_int(r, <<"flags">>, <<"0">>)
    [] kind = "events" -> r
    [] kind = "attrs" ->
         json_rpc_append_bool(
           json_rpc_append_bool(json_rpc_append_strn(r, <<"type">>, <<"i">>),
                                <<"readonly">>, TRUE), <<"constant">>, FALSE)
AppendObject(r, kind, name) ==
  AppendItem(AppendDetails(json_rpc_append_strn(AppendItem(r, <<"OBJECT_BEGIN">>),
                                                <<"name">>, name), kind),
             <<"OBJECT_END">>)

IntrospectTable(r, kind, names) ==
  LET open == json_rpc_append_vargs(r, <<Item("KEY", <<kind>>), Item("ARRAY_BEGIN", <<>>)>>)
      list == SetToSeq({name \in names : kind = "methods" => ~Hidden(name)})
      walk[i \in 0..Len(list)] ==
        IF i = 0 THEN open ELSE AppendObject(walk[i - 1], kind, list[i])
  IN  IF names = {} THEN r ELSE AppendItem(walk[Len(list)], <<"ARRAY_END">>)

abus_req_introspect_service_cb ==
  /\ phase = "callback" /\ rpc.method = <<"*">>
  /\ rpc' = IntrospectTable(IntrospectTable(IntrospectTable(rpc,
              "methods", Tables.methods), "events", Tables.events), "attrs", Tables.attrs)
  /\ phase' = "reply"
  /\ UNCHANGED <<relayed, size, req, wire, waiting, id, asked, given, result>>

\* The callback returns: abus_process_msg() to its end and abus_resp_send(),
\* which a notification does not get to.
Reply ==
  /\ InCallback \/ phase = "reply"
  /\ IF json_val_is_undef(rpc.id)
     THEN rpc' = rpc /\ wire' = <<>>
     ELSE /\ rpc' = json_rpc_resp_finalize(rpc)
          /\ \E garbage \in Garbage : wire' = Datagram(rpc', garbage)
  /\ phase' = "read"
  /\ UNCHANGED <<relayed, size, req, waiting, id, asked, given, result>>

\* The rest of abus_request_method_invoke(), without a response by a timeout,
\* or of abus_forward_rpc(), which leaves the response in the buffer.
ReadResponse ==
  /\ phase = "read"
  /\ IF wire = <<>> THEN req' = req /\ result' = <<"ETIMEDOUT">>
     ELSE IF relayed THEN req' = req /\ result' = Ok
     ELSE /\ req' = [json_rpc_parse_msg(req, Received) EXCEPT !.msg = <<>>, !.msglen = 0]
          /\ result' = IF req'.error_code # <<"0">> THEN req'.error_code
                       ELSE IF req'.ret # "0" THEN <<req'.ret>>
                       ELSE IF req'.status # "OK" THEN <<"PARSE_ERROR">> ELSE Ok
  /\ phase' = "end"
  /\ UNCHANGED <<relayed, size, rpc, wire, waiting, id, asked, given>>

Next ==
  \/ \E p \in Params : ClientAppend(p) \/ ServiceAppend(p)
  \/ \E code \in Codes : ServiceError(code)
  \/ \E text \in Texts : abus_forward_rpc(text)
  \/ \E alive \in SUBSET Entries : abus_req_service_list(alive)
  \/ ServiceListFails
  \/ Invoke \/ ProcessMsg \/ abus_req_introspect_service_cb \/ Reply \/ ReadResponse

Spec == Init /\ [][Next]_vars

-----------------------------------------------------------------------------
(* Properties *)

Distinct(list) == \A i, j \in DOMAIN list : list[i].name = list[j].name => i = j
Exchanged == ~relayed /\ req.service = Service
HasId(r) == IF id = UndefId THEN json_val_is_undef(r.id) ELSE r.id.data = id
Served == phase \in {"callback", "reply", "read", "end"}

\* A parameter as the other side reads it with json_rpc_get_*().
ReadsAs(r, p) ==
  CASE p.op = "int" -> GetVal(r, p.name, "INT") = p.data
    [] p.op = "bool" -> json_rpc_get_bool(r, p.name) = IF p.data = <<"true">> THEN "TRUE" ELSE "FALSE"
    [] p.op = "null" -> json_rpc_check_val(r, p.name) = "-3"
    [] p.op = "double" -> GetVal(r, p.name, "FLOAT") \in {p.data, p.data \o <<".", "0">>}
    [] p.op = "str" -> json_rpc_get_str(r, p.name, 99) = p.data
    [] p.op = "array" ->
         /\ json_rpc_get_array_count(r, p.name) = Len(p.data)
         /\ \A i \in DOMAIN p.data :
              LET o == json_rpc_get_point_at(r, p.name, i - 1)
              IN  /\ o.ret = "0"
                  /\ \A f \in Range(p.data[i]) : GetVal(o, f[1], "INT") = f[2]
                  /\ Cardinality(DOMAIN Table(o)) = Len(p.data[i])

ReadsAll(r, list) ==
  /\ r.pointed = 0
  /\ \A i \in DOMAIN list : ReadsAs(r, list[i])
  /\ DOMAIN r.params = {list[i].name : i \in DOMAIN list}

\* Fields have their types (struct json_rpc).
TypeOK ==
  /\ phase \in {"write", "sent", "callback", "reply", "read", "end"}
  /\ size \in Sizes
  /\ \A r \in {req, rpc} :
       /\ r.status \in {"UNKNOWN", "V2_0", "INVALID", "OK"}
       /\ r.msglen \in Nat /\ r.nesting \in Nat /\ r.pointed \in Nat

\* An array that is not one of objects.  A relayed text may have it anywhere.
Untabled(p) == p.op = "ints" \/ (p.op = "text" /\ "[" \in Range(p.data))

\* Parameters that the reader can read: strings in UTF-8, arrays of objects.
Readable(p) == ~Untabled(p) /\ (p.op = "str" => "<x>" \notin Range(p.data))
Plain(list) == \A i \in DOMAIN list : Readable(list[i])

\* A request that fits its buffer, names no parameter twice and has only such
\* parameters arrives whole: the service reads the method, the id and every
\* parameter as they were appended, and nothing else (json_rpc_append_*(),
\* json_rpc_req_finalize(), json_rpc_parser_callback()).
RequestArrives ==
  Served /\ Exchanged /\ ~req.full /\ Distinct(asked) /\ Plain(asked) =>
    /\ rpc.status = "OK" /\ rpc.service = Service /\ rpc.method = req.method
    /\ HasId(rpc) /\ ReadsAll(rpc, asked)

\* A message that was cut at the end of its buffer is never taken for a
\* shorter one: no method is called for it, a request of the service itself
\* that it ends by its id ends with an error, and a client whose response was
\* cut is given an error (Snprintf, json_print_val, json_rpc_parse_msg()).
Cut == IF relayed THEN Len(asked[1].data) > size ELSE req.full
NoPartialMessage ==
  /\ Served /\ req.service = Service /\ result # <<"elsewhere">> /\ Cut =>
       rpc.status # "OK" /\ rpc.error_code # <<"0">> /\ phase \in {"read", "end"}
  /\ phase = "end" /\ rpc.full /\ ~relayed => result # Ok

\* A number that is appended after an error and whose name begins "code": the
\* client takes it for the code of the error, and 0 for success.
TakenForCode(p) == p.op = "int" /\ p.name # <<"code">> /\ json_rpc_key_token(p.name) = "CODE"
ErrorKept(list) ==
  \A i, j \in DOMAIN list : list[i].op = "error" /\ i < j => ~TakenForCode(list[j])

\* The response to a request with an id is read by the client as the callback
\* appended it, and carries the id of the request.
ResponseArrives ==
  phase = "end" /\ Exchanged /\ result = Ok /\ rpc.method # <<"*">> /\ ErrorKept(given) =>
    /\ ReadsAll(req, SelectSeq(given, LAMBDA p : p.op # "error"))
    /\ HasId(req)

\* An error that the callback set is what the invocation returns, whatever the
\* callback appended before, or after it but for such a number
\* (json_rpc_set_error(), json_rpc_key_token()).
ErrorArrives ==
  phase = "end" /\ Exchanged /\ rpc.error_code # <<"0">> /\ ~rpc.full /\ rpc.status = "OK"
    /\ ~json_val_is_undef(rpc.id) /\ ErrorKept(given) =>
      result = rpc.error_code

Listed(kind) == IF kind = "methods" THEN Tables[kind] \ Internal ELSE Tables[kind]

\* Introspection lists each method, event and attribute of the service once,
\* without the methods of libabus itself (abus_req_introspect_service_cb()).
IntrospectionComplete ==
  phase = "end" /\ Exchanged /\ result = Ok /\ rpc.method = <<"*">> =>
    \A kind \in DOMAIN Tables :
      LET n == json_rpc_get_array_count(req, <<kind>>)
          at(i) == json_rpc_get_str(json_rpc_get_point_at(req, <<kind>>, i - 1), <<"name">>, 99)
      IN  /\ n = IF Tables[kind] = {} THEN -2 ELSE Cardinality(Listed(kind))
          /\ {at(i) : i \in 1..n} = Listed(kind)

\* A process that reads a message, whole or cut anywhere, ends by an assertion
\* or a null pointer only if the other side put an array there that is not one
\* of objects (assert (json_rpc->last_array), strlen(json_rpc->last_param_key)).
NoAbort ==
  /\ rpc.aborted => \E i \in DOMAIN asked : Untabled(asked[i])
  /\ req.aborted => \E i \in DOMAIN given : Untabled(given[i])

\* A relay takes a request to the service that the request names, as far as
\* parsing it tells, and to no other, unless its parameters come before its
\* method (json_rpc_quickparse_service_name()).
MethodFirst(text) == \A i \in At(text, "params") : \E j \in At(text, "method") : j < i
RelayedAsNamed ==
  relayed /\ MethodFirst(wire) =>
    LET named == json_rpc_parse_msg(json_rpc_init, wire)
    IN  /\ phase = "sent" /\ named.status = "OK" => named.service = Service
        /\ result = <<"elsewhere">> /\ named.status = "OK" => named.service # Service

\* The list of services has each service that is there once, and nothing that
\* is not a service: no socket, no other file, no path of a service that died
\* (abus_req_service_list()).
ServicesListed ==
  phase = "end" /\ req.service = NoService /\ result = Ok =>
    LET n == json_rpc_get_array_count(req, <<"services">>)
        at(i) == json_rpc_get_str(json_rpc_get_point_at(req, <<"services">>, i - 1), <<"name">>, 99)
        there == {e \in Range(given) : e.link \in {f.name : f \in Entries}}
    IN  n = Cardinality(there) /\ {at(i) : i \in 1..n} = {e.name : e \in there}

\* A request is served as it was made, be it written by a client or passed on
\* by a relay.
RequestsArrive == RequestArrives /\ RelayedAsNamed

\* A client reads the results or the error that the callback left.
ResponsesArrive == ResponseArrives /\ ErrorArrives

\* What libabus itself answers with is complete and has nothing twice.
ListsComplete == IntrospectionComplete /\ ServicesListed

\* No text that is cut is taken for another, and none stops a process but one
\* with an array that the reader cannot read.
MessagesWhole == TypeOK /\ NoPartialMessage /\ NoAbort

\* A number that json_rpc_append_double() accepted is read back.  Violated by
\* a number that "%.16g" writes with an exponent and no point.
DoubleArrives ==
  Served /\ Exchanged /\ ~req.full /\ Len(asked) = 1 /\ asked[1].op = "double" =>
    rpc.status = "OK" /\ ReadsAs(rpc, asked[1])

\* Every response that is sent is a JSON text.  Violated by an error response
\* to a request without an id: its "error" is not closed.
ResponseIsJson ==
  phase = "read" /\ wire # <<>> /\ ~rpc.full =>
    json_rpc_parse_msg(json_rpc_init, wire).ret \in {"0", "done"}

\* A request whose message was accepted by json_rpc_append_*() (returning 0)
\* is not cut.  Violated: snprintf() cuts and 0 is returned all the same.
AppendReportsCut == phase = "write" /\ asked # <<>> /\ req.full => req.ret # "0"

\* Strings with binary content arrive.  Violated: they are written as they are
\* (json_rpc_append_strn()), and the parser refuses what is not UTF-8.
BinaryArrives ==
  Served /\ Exchanged /\ ~req.full /\ Len(asked) = 1 /\ asked[1].op = "str" =>
    rpc.status = "OK" /\ ReadsAs(rpc, asked[1])

\* An error arrives whatever is appended after it.  Violated by a number whose
\* name begins "code".
ErrorAlwaysArrives ==
  phase = "end" /\ Exchanged /\ rpc.error_code # <<"0">> /\ ~rpc.full /\ rpc.status = "OK"
    /\ ~json_val_is_undef(rpc.id) =>
      result = rpc.error_code

\* No message stops the process that reads it.  Violated by an array of numbers.
ReaderSurvives == ~req.aborted /\ ~rpc.aborted

\* No request ends one that the service itself waits for.  Violated by one that
\* was cut, if it has the same id.
OnlyAnswersEnd == waiting = Ids \ {UndefId}

\* A relay always takes a request to the service that it names.  Violated where
\* a parameter named "method" comes before the method.
AlwaysRelayedAsNamed ==
  relayed /\ phase = "sent" =>
    LET named == json_rpc_parse_msg(json_rpc_init, wire)
    IN  named.status = "OK" => named.service = Service
=============================================================================
