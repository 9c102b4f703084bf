------------------------------- MODULE JsonRpc -------------------------------
(***************************************************************************)
(* The messages of abus/jsonrpc.c: how a json_rpc_t is filled by the       *)
(* callback of the JSON parser, read by json_rpc_get_*(), and how requests *)
(* and responses are written into its buffer by json_rpc_append_*().       *)
(*                                                                         *)
(* A json_rpc_t is a record with the fields of struct json_rpc.  Words     *)
(* ("params", "2.0", the name of a service...) are single characters of    *)
(* the text, and lengths count such characters.  A name or a value is a    *)
(* sequence of characters, NoKey a null pointer.  An entry of a table of   *)
(* parameters is a record: its JSON type, its text, and the tables of its  *)
(* objects if it is an array.  ret is what the last operation returned,    *)
(* aborted tells that the process stopped (a failed assertion, or a null   *)
(* pointer used), full that something did not fit in the buffer.           *)
(***************************************************************************)
EXTENDS JsonParser, JsonPrinter, Integers, TLC

JSONRPC_SVCNAME_SZ_MAX == 32
JSONRPC_METHNAME_SZ_MAX == 64

NoKey == <<"(null)">>
NoTable == <<>>
Entry(type, data, objs) == [type |-> type, data |-> data, objs |-> objs]
Item(type, data) == [type |-> type, data |-> data]

\* pointed is the position in an array that an operation aims at, 0 for the
\* table of parameters itself; array is the key of that array.
json_rpc_init ==
  [status |-> "UNKNOWN", service |-> NoKey, method |-> NoKey,
   id |-> Item("NONE", <<>>), params |-> NoTable, array |-> NoKey, pointed |-> 0,
   last_array |-> NoKey, token |-> "NONE", key |-> NoKey, param_state |-> FALSE,
   error_seen |-> FALSE, nesting |-> 0, error_code |-> <<"0">>,
   msg |-> <<>>, msglen |-> 0, msgbufsz |-> 0,
   ret |-> "0", aborted |-> FALSE, full |-> FALSE]

Ret(r, value) == [r EXCEPT !.ret = value]
json_val_is_undef(val) == val.type \in {"NONE", "NULL"}

-----------------------------------------------------------------------------
(* What the parser's callback makes of the items *)

\* A key stands for a word it is the beginning of; one letter is enough.  Each
\* beginning is a character here, those of "code" all.
Words ==
  "code" :> "CODE" @@ "c" :> "CODE" @@ "co" :> "CODE" @@ "cod" :> "CODE" @@ "data" :> "DATA" @@ "d" :> "DATA" @@
  "error" :> "ERROR" @@ "e" :> "ERROR" @@ "id" :> "ID" @@ "i" :> "ID" @@
  "jsonrpc" :> "JSONRPC" @@ "j" :> "JSONRPC" @@
  "method" :> "METHOD" @@ "m" :> "METHOD" @@ "message" :> "MESSAGE" @@
  "params" :> "PARAMS" @@ "p" :> "PARAMS" @@ "result" :> "RESULT" @@ "r" :> "RESULT"
json_rpc_key_token(data) ==
  IF Len(data) = 1 /\ data[1] \in DOMAIN Words THEN Words[data[1]] ELSE "UNKNOWN"

abus_check_valid_service_name(name) ==
  /\ name = <<>> \/ name[1] # "_"
  /\ Len(name) < JSONRPC_SVCNAME_SZ_MAX
  /\ \A i \in DOMAIN name : name[i] \notin {".", "/"}

\* The table that an operation reads or extends.
Table(r) ==
  IF r.pointed # 0 THEN r.params[r.array].objs[r.pointed] ELSE r.params

hadd(r, entry) ==
  IF r.pointed # 0
  THEN [r EXCEPT !.params[r.array].objs[r.pointed] = r.key :> entry @@ @, !.key = NoKey]
  ELSE [r EXCEPT !.params = r.key :> entry @@ @, !.key = NoKey]

json_rpc_add_val(r, type, data) ==
  IF r.token \in {"NONE", "UNKNOWN"} THEN Ret(r, "CALLBACK")
  ELSE IF r.key = NoKey THEN [r EXCEPT !.aborted = TRUE]
  ELSE IF r.key \in DOMAIN Table(r) THEN Ret(r, "CALLBACK")
  ELSE hadd(r, Entry(type, data, <<>>))

json_rpc_add_array(r) ==
  IF r.token \in {"NONE", "UNKNOWN"} THEN Ret(r, "CALLBACK")
  ELSE IF r.key = NoKey THEN [r EXCEPT !.aborted = TRUE]
  ELSE IF r.key \in DOMAIN r.params THEN Ret(r, "CALLBACK")
  ELSE [r EXCEPT !.params = r.key :> Entry("ARRAY_HTAB", <<>>, <<>>) @@ @,
                 !.last_array = r.key, !.key = NoKey]

json_rpc_add_object_to_array(r) ==
  IF r.last_array = NoKey THEN r
  ELSE [r EXCEPT !.params[r.last_array].objs = Append(@, NoTable),
                 !.array = r.last_array,
                 !.pointed = Len(r.params[r.last_array].objs) + 1]

\* A method is named by the service, a dot and the name in it.
SetMethod(r, data) ==
  LET dots == {i \in DOMAIN data : data[i] = "."}
      dot == CHOOSE i \in dots : \A j \in dots : i <= j
      service == IF dots = {} THEN NoKey ELSE SubSeq(data, 1, dot - 1)
      method == IF dots = {} THEN data ELSE SubSeq(data, dot + 1, Len(data))
      goodService == dots = {} \/ abus_check_valid_service_name(service)
      goodMethod == Len(method) < JSONRPC_METHNAME_SZ_MAX
  IN  [r EXCEPT !.service = IF dots # {} /\ goodService THEN service ELSE @,
                !.method = IF goodMethod THEN method ELSE @,
                !.status = IF goodService /\ goodMethod THEN @ ELSE "INVALID",
                !.token = "NONE"]

Invalid(r) == IF r.ret = "0" THEN r ELSE [r EXCEPT !.status = "INVALID"]

\* A value of "id", or of a parameter.
Value(r, item) ==
  IF ~r.param_state
  THEN IF r.token = "ID" THEN [r EXCEPT !.id = item, !.token = "NONE"] ELSE r
  ELSE LET q == Invalid(json_rpc_add_val(r, item.type, item.data))
       IN  IF q.ret = "0" /\ r.error_seen /\ item.type = "INT" /\ r.token = "CODE"
           THEN [q EXCEPT !.error_code = item.data] ELSE q

String(r, data) ==
  IF r.param_state THEN Value(r, Item("STRING", data))
  ELSE CASE r.token = "JSONRPC" ->
              IF data \in {<<>>, <<"2.0">>}
              THEN [r EXCEPT !.status = "V2_0", !.token = "NONE"]
              ELSE Invalid(Ret(r, "CALLBACK"))
         [] r.token = "METHOD" -> SetMethod(r, data)
         [] OTHER -> r

Key(r, data) ==
  LET token == json_rpc_key_token(data)
  IN  IF ~r.param_state
      THEN [r EXCEPT !.token = token, !.error_seen = @ \/ token = "ERROR"]
      ELSE [r EXCEPT !.key = data, !.token = IF r.error_seen THEN token ELSE @]

ObjectBegin(r) ==
  LET q == [r EXCEPT !.nesting = @ + 1]
  IN  IF q.nesting = 2 /\ r.token \in {"PARAMS", "RESULT", "ERROR"}
        THEN [q EXCEPT !.param_state = TRUE]
      ELSE IF q.nesting = 4 THEN json_rpc_add_object_to_array(q)
      ELSE q

\* What follows an object of an array still goes into it.  Mutant.
ObjectEndPointed(r) ==
  LET level == r.nesting - 1
  IN  [r EXCEPT !.nesting = level, !.param_state = @ /\ level >= 2]

ObjectEnd(r) ==
  LET level == r.nesting - 1
  IN  IF r.param_state /\ level = 3 THEN [r EXCEPT !.nesting = level, !.pointed = 0]
      ELSE [r EXCEPT !.nesting = level, !.param_state = @ /\ level >= 2]

ArrayBegin(r) ==
  LET q == [r EXCEPT !.nesting = @ + 1]
  IN  IF q.nesting = 3 /\ r.param_state THEN Invalid(json_rpc_add_array(q)) ELSE q

ArrayEnd(r) ==
  [r EXCEPT !.nesting = @ - 1, !.aborted = r.last_array = NoKey, !.last_array = NoKey]

json_rpc_parser_callback(r, item) ==
  CASE item.type = "OBJECT_BEGIN" -> ObjectBegin(r)
    [] item.type = "OBJECT_END" -> ObjectEnd(r)
    [] item.type = "ARRAY_BEGIN" -> ArrayBegin(r)
    [] item.type = "ARRAY_END" -> ArrayEnd(r)
    [] item.type = "KEY" -> Key(r, item.data)
    [] item.type = "STRING" -> String(r, item.data)
    [] OTHER -> Value(r, item)

\* The parser stops at its own error or at the first one of the callback.
Callback(r, item) ==
  IF r.ret # "0" \/ r.aborted THEN r ELSE json_rpc_parser_callback(r, item)
Parsed(r, p) ==
  IF r.aborted THEN r
  ELSE IF r.ret # "0" \/ p.ret # "0" \/ ~json_parser_is_done(p) \/ r.status # "V2_0"
    THEN Ret(r, "PARSE_ERROR")
  ELSE IF (r.service # NoKey /\ r.method # NoKey) \/ r.error_code = <<"0">>
    THEN [r EXCEPT !.status = "OK"]
  ELSE Ret(r, "done")

Fill(rpc, p) ==
  LET fill[i \in 0..Len(p.out)] ==
        IF i = 0 THEN Ret(rpc, "0") ELSE Callback(fill[i - 1], p.out[i])
  IN  Parsed(fill[Len(p.out)], p)

\* The limit of data, the size of a datagram, is not met by an item of one.
json_rpc_parse_msg(rpc, text) ==
  Fill(rpc, Parse([max_nesting |-> 6, max_data |-> Len(text) + 1,
                   stack_size |-> 256, buffer_initial_size |-> 4096,
                   allow_c_comments |-> FALSE,
                   allow_yaml_comments |-> FALSE], text))

-----------------------------------------------------------------------------
(* Reading parameters *)

json_rpc_get_type(r, name) ==
  IF r.status # "OK" THEN "PARSE_ERROR"
  ELSE IF name \notin DOMAIN Table(r) THEN "INVALID_METHOD"
  ELSE Table(r)[name].type

json_rpc_check_val(r, name) ==
  LET type == json_rpc_get_type(r, name)
  IN  IF type = "NULL" THEN "-3"
      ELSE IF type \in {"PARSE_ERROR", "INVALID_METHOD"} THEN type ELSE "0"

\* The text of a value of a type ("INT" also for long long), or an error.
\* An integer in text is converted as module Attr has it.
GetVal(r, name, type) ==
  LET ret == json_rpc_check_val(r, name)
      val == Table(r)[name]
  IN  IF ret # "0" THEN <<ret>>
      ELSE IF val.type # type THEN <<"INVALID_METHOD">>
      ELSE IF type # "STRING" /\ val.data = <<>> THEN <<"INTERNAL_ERROR">>
      ELSE val.data
json_rpc_get_bool(r, name) ==
  LET ret == json_rpc_check_val(r, name)
      type == Table(r)[name].type
  IN  IF ret # "0" THEN ret ELSE IF type \in {"TRUE", "FALSE"} THEN type ELSE "PARSE_ERROR"
\* At most n - 1 characters and the final '\0'.
json_rpc_get_str(r, name, n) ==
  LET val == GetVal(r, name, "STRING")
  IN  IF n = 0 THEN <<"INVALID_METHOD">>
      ELSE IF Len(val) < n THEN val ELSE SubSeq(val, 1, n - 1)

json_rpc_get_array_count(r, name) ==
  IF r.status # "OK" THEN -1
  ELSE IF name \notin DOMAIN r.params THEN -2
  ELSE IF r.params[name].type # "ARRAY_HTAB" THEN -3
  ELSE Len(r.params[name].objs)
json_rpc_get_point_at(r, name, idx) ==
  IF r.status # "OK" THEN Ret(r, "-1")
  ELSE IF name = NoKey THEN [r EXCEPT !.pointed = 0, !.ret = "0"]
  ELSE IF name \notin DOMAIN r.params THEN Ret(r, "-2")
  ELSE IF r.params[name].type # "ARRAY_HTAB" THEN Ret(r, "-3")
  ELSE IF idx >= Len(r.params[name].objs) THEN Ret(r, "-4")
  ELSE [r EXCEPT !.array = name, !.pointed = idx + 1, !.ret = "0"]

-----------------------------------------------------------------------------
(* Writing into the buffer *)

msg_rem(r) == IF r.msgbufsz > r.msglen THEN r.msgbufsz - r.msglen - 1 ELSE 0

\* What does not fit is left out.  Mutant.
SnprintfDropped(r, room, s) ==
  IF Len(s) < room THEN [r EXCEPT !.msg = @ \o s, !.msglen = @ + Len(s), !.ret = "0"]
  ELSE [r EXCEPT !.full = TRUE, !.ret = "0"]

\* msglen += snprintf(msg_p(), room, s): the length of s, cut or not.
SnprintfIn(r, room, s) ==
  LET written == IF Len(s) < room THEN s
                 ELSE IF room > 0 THEN SubSeq(s, 1, room - 1) \o <<"NUL">> ELSE <<>>
  IN  [r EXCEPT !.msg = @ \o written, !.msglen = @ + Len(s), !.ret = "0",
                !.full = @ \/ Len(s) >= room]
Snprintf(r, s) == SnprintfIn(r, msg_rem(r), s)

Quoted(name) == <<"\"">> \o name \o <<"\"">>
PrevChar(r) == IF r.msglen \in DOMAIN r.msg THEN r.msg[r.msglen] ELSE "NUL"
json_rpc_is_comma_needed(r) == r.msglen > 0 /\ PrevChar(r) \notin {"{", "[", ":"}
Comma(r) ==
  IF json_rpc_is_comma_needed(r) /\ msg_rem(r) >= 1
  THEN [r EXCEPT !.msg = Append(@, ","), !.msglen = @ + 1] ELSE r

Put(r, s) == [r EXCEPT !.msg = @ \o s, !.msglen = @ + Len(s), !.ret = "0"]

\* A value that fills what remains is refused.
PutVal(r, s) ==
  IF Len(s) < msg_rem(r) THEN Put(r, s) ELSE [r EXCEPT !.ret = "ENOSPC", !.full = TRUE]
json_print_val(r, val) == PutVal(r, json_print_mode(json_print_init, val, FALSE).out)

\* "%d", "%lld", true, false and null.
AppendText(r, name, s) == Snprintf(Comma(r), Quoted(name) \o <<":">> \o s)
json_rpc_append_int(r, name, val) == AppendText(r, name, val)
json_rpc_append_bool(r, name, val) ==
  AppendText(r, name, IF val THEN <<"t", "r", "u", "e">> ELSE <<"f", "a", "l", "s", "e">>)
json_rpc_append_null(r, name) == AppendText(r, name, <<"n", "u", "l", "l">>)

\* val is what "%.16g" makes of the number.
json_rpc_append_double(r, name, val) ==
  AppendText(r, name, IF \E i \in DOMAIN val : val[i] = "." THEN val
                      ELSE val \o <<".", "0">>)
json_rpc_append_strn(r, name, val) ==
  json_print_val(Snprintf(Comma(r), Quoted(name) \o <<":">>), Item("STRING", val))

\* Items are written as far as they fit.
PutItems(r, rem, s) ==
  IF rem = 0 THEN [r EXCEPT !.ret = "ENOSPC", !.full = TRUE]
  ELSE IF Len(s) < rem THEN Put(r, s)
  ELSE [Put(r, SubSeq(s, 1, rem)) EXCEPT !.ret = "ENOSPC", !.full = TRUE]
json_rpc_append_vargs(r, items) ==
  PutItems(r, msg_rem(r),
           json_vprint_args([json_print_init EXCEPT
                               !.enter_object = PrevChar(r) \in {"{", "["},
                               !.afterkey = PrevChar(r) = ":"], items, FALSE).out)

-----------------------------------------------------------------------------
(* Requests and responses *)

Version == <<"{">> \o Quoted(<<"jsonrpc">>) \o <<":">> \o Quoted(<<"2.0">>) \o <<",">>
UndefId == <<"-1">>

json_rpc_req_init(service, method, id, size) ==
  SnprintfIn([json_rpc_init EXCEPT
                !.msgbufsz = size, !.service = service, !.method = method,
                !.id = IF id = UndefId THEN @ ELSE Item("STRING", id)],
             size,
             Version \o Quoted(<<"method">>) \o <<":">> \o Quoted(service \o <<".">> \o method)
             \o (IF id = UndefId THEN <<>>
                 ELSE <<",">> \o Quoted(<<"id">>) \o <<":">> \o id)
             \o <<",">> \o Quoted(<<"params">>) \o <<":", "{">>)
json_rpc_req_finalize(r) == Snprintf(r, <<"}", "}">>)

\* The error comes after what the buffer had.  Mutant.
ErrorTextAfter(r, code) ==
  json_print_val(
    Snprintf(r, Version \o Quoted(<<"error">>) \o <<":", "{">> \o Quoted(<<"code">>) \o
                <<":">> \o code \o <<",">> \o Quoted(<<"message">>) \o <<":">>),
    Item("STRING", <<"text">>))

\* The beginning of an error response, over what the buffer had.
ErrorText(r, code) ==
  json_print_val(
    Snprintf([r EXCEPT !.msg = <<>>, !.msglen = 0],
             Version \o Quoted(<<"error">>) \o <<":", "{">> \o Quoted(<<"code">>) \o
             <<":">> \o code \o <<",">> \o Quoted(<<"message">>) \o <<":">>),
    Item("STRING", <<"text">>))

json_rpc_set_error(r, code) ==
  LET q == [r EXCEPT !.error_code = code, !.ret = "0"]
  IN  IF code = <<"0">> THEN q ELSE ErrorText(q, code)

json_rpc_resp_init(r, size) ==
  LET q == [r EXCEPT !.msg = <<>>, !.msglen = 0, !.msgbufsz = size]
  IN  IF q.error_code # <<"0">> THEN ErrorText(q, q.error_code)
      ELSE Snprintf(q, Version \o Quoted(<<"result">>) \o <<":", "{">>)

AppendId(r) ==
  IF json_val_is_undef(r.id) THEN Ret(r, "0")
  ELSE json_print_val(Snprintf(r, <<"}", ",">> \o Quoted(<<"id">>) \o <<":">>), r.id)
Close(r) == IF r.ret = "0" THEN Snprintf(r, <<"}">>) ELSE r
json_rpc_resp_finalize(r) ==
  Close(AppendId([r EXCEPT
    !.id.type = IF r.error_code # <<"0">> /\ @ = "NONE" THEN "NULL" ELSE @]))

\* The datagram that is sent: msglen bytes from msgbuf on.  Those that were
\* not written, or are beyond the buffer, may be anything.
Datagram(r, garbage) ==
  [i \in 1..r.msglen |-> IF i \in DOMAIN r.msg THEN r.msg[i] ELSE garbage]

=============================================================================
