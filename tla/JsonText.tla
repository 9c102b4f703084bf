------------------------------ MODULE JsonText ------------------------------
(***************************************************************************)
(* A caller feeds the parser of libjson character by character.  What      *)
(* libjson promises of the text: the calls of the callback are the items   *)
(* of a JSON document, they spell the text that was read, and what the     *)
(* printer makes of them reads back as the same items.                     *)
(***************************************************************************)
EXTENDS JsonPrinter, Integers

CONSTANT
  Sources   \* what is fed: records with
            \*   config    the json_config of the parser
            \*   start     the text fed first
            \*   alphabet  the characters fed after it, in any order
            \*   length    bound: the number of characters fed

\* Characters that only an escape makes: fed, a carriage return is layout like
\* the tab, and a backspace or a form feed is "^".
Escaped == {"BS", "FF", "CR"}

\* The characters there are: those fed, named by a table or made by an escape.
Fed == UNION {s.alphabet \cup {s.start[i] : i \in DOMAIN s.start} : s \in Sources}
Bytes == {"<1>", "<2>", "<3>", "<4>", "<c>"}
Char == Fed \cup Named \cup Escaped \cup Bytes

\* The fields of json_config.
IsConfig(c) ==
  c \in [max_nesting : Nat, max_data : Nat,
         stack_size : Nat \ {0}, buffer_initial_size : Nat \ {0},
         allow_c_comments : BOOLEAN, allow_yaml_comments : BOOLEAN]

ASSUME SourcesAssumption ==
  \A s \in Sources :
    /\ IsConfig(s.config)
    /\ s.start \in Seq(Char \ Escaped) /\ s.alphabet \cap Escaped = {}
    /\ s.length \in Nat /\ Len(s.start) <= s.length

VARIABLES
  source,  \* the source of the characters
  parser,  \* the json_parser
  text     \* the characters fed to it (history)

vars == <<source, parser, text>>

Init ==
  /\ source \in Sources
  /\ parser = Parse(source.config, source.start)
  /\ text = source.start

\* The caller stops at the first error.
Feed(ch) ==
  /\ parser.ret = "0"
  /\ Len(text) < source.length
  /\ parser' = json_parser_char(parser, ch)
  /\ text' = Append(text, ch)
  /\ UNCHANGED source

Next == \E ch \in source.alphabet : Feed(ch)
Spec == Init /\ [][Next]_vars

-----------------------------------------------------------------------------
Good == parser.ret = "0"
\* A document was read; json_parser_is_done() also holds within a comment.
Accepted == Good /\ json_parser_is_done(parser) /\ parser.state = "OK"

-----------------------------------------------------------------------------
(* The nesting that a callback sees *)

\* The open structures, an object that has got a key being "KEYED"; "BAD" if
\* an item has no place there, "ROOT" after the document.
Nest(s, type) ==
  LET top == s[Len(s)]
      value == IF top = "KEYED" THEN [s EXCEPT ![Len(s)] = "OBJECT"] ELSE s
      shut == SubSeq(s, 1, Len(s) - 1)
  IN CASE top \in {"START", "ARRAY", "KEYED"} /\ type = "OBJECT_BEGIN" ->
            Append(value, "OBJECT")
       [] top \in {"START", "ARRAY", "KEYED"} /\ type = "ARRAY_BEGIN" ->
            Append(value, "ARRAY")
       [] \/ top = "OBJECT" /\ type = "OBJECT_END"
          \/ top = "ARRAY" /\ type = "ARRAY_END" ->
            IF Len(shut) = 1 THEN <<"ROOT">> ELSE shut
       [] top = "OBJECT" /\ type = "KEY" -> [s EXCEPT ![Len(s)] = "KEYED"]
       [] /\ top \in {"ARRAY", "KEYED"}
          /\ type \in {"STRING", "INT", "FLOAT", "NULL", "TRUE", "FALSE"} -> value
       [] OTHER -> <<"BAD">>
Nested(items) ==
  LET n[i \in 0..Len(items)] ==
        IF i = 0 THEN <<"START">> ELSE Nest(n[i - 1], items[i].type)
  IN  n[Len(items)]

\* The continuation bytes that are missing at the end of a string; -1 once
\* there was one too many or too few.
Utf8Next(left, ch) ==
  IF left < 0 THEN left
  ELSE IF ch = "<c>" THEN left - 1
  ELSE IF left # 0 THEN -1
  ELSE IF ch \in DOMAIN utf8_header_table THEN utf8_header_table[ch] ELSE 0
Utf8Left(data) ==
  LET left[i \in 0..Len(data)] ==
        IF i = 0 THEN 0 ELSE Utf8Next(left[i - 1], data[i])
  IN  left[Len(data)]

\* The text without what the callback is not told, layout and comments, and
\* what the character after it is part of.
BareNext(b, ch) ==
  LET mode ==
        CASE b.mode = "plain" ->
               (CASE ch = C_QUOTE -> "string" [] ch = "#" -> "yaml"
                  [] ch = "/" -> "slash" [] OTHER -> "plain")
          [] b.mode = "string" -> IF ch = C_QUOTE THEN "plain" ELSE "string"
          [] b.mode = "yaml" -> IF ch = "\n" THEN "plain" ELSE "yaml"
          [] b.mode = "slash" -> "c"
          [] b.mode = "c" -> IF ch = "*" THEN "star" ELSE "c"
          [] b.mode = "star" ->
               (CASE ch = "*" -> "star" [] ch = "/" -> "plain" [] OTHER -> "c")
      kept == \/ b.mode = "string"
              \/ b.mode = "plain" /\ mode \in {"plain", "string"} /\ ch \notin White
  IN  [mode |-> mode, text |-> IF kept THEN Append(b.text, ch) ELSE b.text]
Stripped(t) ==
  LET b[i \in 0..Len(t)] ==
        IF i = 0 THEN [mode |-> "plain", text |-> <<>>] ELSE BareNext(b[i - 1], t[i])
  IN  b[Len(t)]
Bare(t) == Stripped(t).text

-----------------------------------------------------------------------------
(* Properties *)

\* Every field of the parser has its type (struct json_parser).
TypeOK ==
  /\ source \in Sources
  /\ parser.state \in States /\ parser.save_state \in States
  /\ parser.type \in {"NONE", "INT", "FLOAT", "NULL", "TRUE", "FALSE"}
  /\ parser.stack \in Seq({"OBJECT", "ARRAY"})
  /\ parser.utf8_multibyte_left \in 0..3
  /\ Len(text) <= source.length

\* Numbers, strings and \u escapes of any length stay inside the buffer with
\* a byte left for the '\0' of do_callback_withbuf(), the buffer within
\* max_data and the stack within max_nesting (buffer_push(), buffer_grow(),
\* decode_unicode_char(), state_push()).
WithinLimits ==
  /\ TypeOK
  /\ Len(parser.buffer) < parser.buffer_size
  /\ parser.config.max_data > 0 => parser.buffer_size <= parser.config.max_data
  /\ Len(parser.stack) <= parser.stack_size
  /\ parser.config.max_nesting > 0 => Len(parser.stack) <= parser.config.max_nesting

\* Whatever the text, the callback never sees a key in an array, two keys or
\* two values in a row in an object, or an end that does not match; and the
\* structures it has open are those on the parser's stack (act_ob() to
\* act_sp() and expecting_key).
CallbackSeesNesting ==
  LET n == Nested(parser.out)
      modes == [i \in 1..(Len(n) - 1) |-> IF n[i + 1] = "ARRAY" THEN "ARRAY" ELSE "OBJECT"]
  IN  n # <<"BAD">> /\ (Good => modes = parser.stack)

\* Texts without escapes.
Unescaping(t) == \A i \in DOMAIN t : t[i] # "\\"

\* A text that is accepted spells one document: printed raw, its items are
\* the text without layout and comments, so no character of it was dropped,
\* made up or taken for another (state_transition_table, buffer_policy_table
\* and the pending type of do_buffer()).
AcceptedSpellsItems ==
  Accepted /\ Unescaping(text) =>
    /\ Nested(parser.out) = <<"ROOT">>
    /\ Bare(text) = Printed(parser.out, FALSE)

\* What json_print_raw() or json_print_pretty() makes of the items of an
\* accepted text is accepted, and its items are the same again.
PrintedReadsBack ==
  Accepted => \A pretty \in BOOLEAN :
    LET config == [parser.config EXCEPT !.max_data = 0]
        again == Parse(config, Printed(parser.out, pretty))
    IN  again.ret = "0" /\ json_parser_is_done(again) /\ again.out = parser.out

\* Every string reported is well-formed UTF-8: a first byte is followed by as
\* many continuation bytes as it announces and by no more, be they read as
\* such or made from \u escapes and surrogate pairs (json_parser_string(),
\* decode_unicode_char(), states D1 and D2).
StringsAreUtf8 == \A k \in DOMAIN parser.out : Utf8Left(parser.out[k].data) = 0

\* What the callback is told is JSON at every moment, whatever the text and
\* wherever it ends: its nesting and its strings.
CallbackSeesJson == CallbackSeesNesting /\ StringsAreUtf8

\* An accepted text survives: its items spell it, and printed and read again
\* they are the same.
AcceptedSurvives == AcceptedSpellsItems /\ PrintedReadsBack

\* A text that json_parser_is_done() accepts has a document ("to not accept
\* empty document").  Violated: an unfinished comment also leaves STATE_GO.
DoneHasDocument == Good /\ json_parser_is_done(parser) => parser.out # <<>>

-----------------------------------------------------------------------------
(* What holds of a parser after every character: the invariants that the   *)
(* properties above follow from                                            *)

ItemTypes == Opening \cup Closing \cup
  {"KEY", "STRING", "INT", "FLOAT", "NULL", "TRUE", "FALSE"}
Pending == {"NONE", "INT", "FLOAT", "NULL", "TRUE", "FALSE"}
Returned ==
  {"0", "UNEXPECTED_CHAR", "BAD_CHAR", "UTF8", "NESTING_LIMIT", "DATA_LIMIT",
   "POP_EMPTY", "POP_UNEXPECTED_MODE", "COMMA_OUT_OF_STRUCTURE",
   "COMMENT_NOT_ALLOWED", "UNICODE_MISSING_LOW_SURROGATE",
   "UNICODE_UNEXPECTED_LOW_SURROGATE"}
Parsers(config) ==
  [config : {config}, state : States, save_state : States, type : Pending,
   expecting_key : BOOLEAN, unicode_multi : BOOLEAN, utf8_multibyte_left : 0..3,
   stack : Seq({"OBJECT", "ARRAY"}), buffer : Seq(Char), ret : Returned,
   out : Seq([type : ItemTypes, data : Seq(Char)]),
   stack_size : Nat \ {0}, buffer_size : Nat]

\* The number of digits of a \u escape that are in the buffer.
EscapeDigits(state) ==
  IF state = "U2" THEN 1 ELSE IF state = "U3" THEN 2 ELSE IF state = "U4" THEN 3 ELSE 0

HasDigits(p) ==
  LET k == EscapeDigits(p.state)
  IN  /\ k <= Len(p.buffer)
      /\ \A i \in Len(p.buffer) - k + 1 .. Len(p.buffer) : p.buffer[i] \in Hex

Room(p) ==
  /\ Len(p.buffer) < p.buffer_size
  /\ p.config.max_data > 0 => p.buffer_size <= p.config.max_data
  /\ Len(p.stack) <= p.stack_size
  /\ p.config.max_nesting > 0 => p.stack_size = p.config.max_nesting

Comments == {"C1", "C2", "C3", "Y1"}
Strings == {"_S", "E0", "U1", "U2", "U3", "U4", "D1", "D2"}
Ints == {"M0", "Z0", "I0"}
Floats == {"R1", "R2", "X1", "X2", "X3"}
Literals == {"T1", "T2", "T3", "F1", "F2", "F3", "F4", "N1", "N2", "N3"}
Between == {"GO", "OK", "_O", "_K", "CO", "_V", "_A"}

\* The state that a parser is in apart from comments.
Resumed(p) ==
  IF p.state \notin Comments THEN p.state
  ELSE IF p.save_state \in Between THEN p.save_state ELSE "OK"

\* The mode of an open structure on the parser's stack.
Mode(open) == IF open = "ARRAY" THEN "ARRAY" ELSE "OBJECT"
Modes(n) == [i \in 1..(Len(n) - 1) |-> Mode(n[i + 1])]

\* What the state, the pending type and expecting_key say of the structure
\* that is open.
Expects(p, top) ==
  LET st == Resumed(p)
  IN  /\ st = "GO" => top = "START"
      /\ st \in {"_O", "_K"} => top = "OBJECT" /\ p.expecting_key
      /\ st = "CO" => top = "KEYED"
      /\ st = "_A" => top = "ARRAY"
      /\ st \in {"_V"} \cup Ints \cup Floats \cup Literals => top \in {"ARRAY", "KEYED"}
      /\ st = "OK" /\ p.type = "NONE" => top \in {"ARRAY", "OBJECT", "ROOT"}
      /\ st = "OK" /\ p.type # "NONE" => top \in {"ARRAY", "KEYED"}
      /\ st \in Strings => IF p.expecting_key THEN top = "OBJECT"
                            ELSE top \in {"ARRAY", "KEYED"}
      /\ st \notin {"_O", "_K"} \cup Strings => ~p.expecting_key
      /\ st \in Ints => p.type = "INT"
      /\ st \in Floats => p.type = "FLOAT"
      /\ st \notin {"OK"} \cup Ints \cup Floats => p.type = "NONE"
      /\ p.state \in Comments => p.type = "NONE"

\* Only the structure at the top waits for the value of a key.
Shape(n) ==
  /\ n \in Seq({"START", "ROOT", "OBJECT", "ARRAY", "KEYED"}) \ {<<>>}
  /\ n[1] \in {"START", "ROOT"}
  /\ \A i \in 2..Len(n) :
       n[i] \in {"OBJECT", "ARRAY"} \/ (i = Len(n) /\ n[i] = "KEYED")

Nesting(p) ==
  LET n == Nested(p.out)
  IN  /\ n # <<"BAD">>
      /\ p.ret = "0" =>
           /\ Shape(n) /\ Modes(n) = p.stack
           /\ Expects(p, n[Len(n)])

Utf8(p) ==
  /\ \A k \in DOMAIN p.out : Utf8Left(p.out[k].data) = 0
  /\ p.ret = "0" =>
       /\ Utf8Left(p.buffer) = IF p.state = "_S" THEN p.utf8_multibyte_left ELSE 0
       /\ p.state \notin {"_S", "C2", "Y1"} => p.utf8_multibyte_left = 0

\* The state that the tables are in after the characters of a number.
NumberNext(state, ch) ==
  LET next == IF state \in States THEN NextState(state, Class(ch)) ELSE "__"
  IN  IF next \notin Number THEN "__"
      ELSE IF next \in DOMAIN Target THEN Target[next] ELSE next
NumberState(data) ==
  LET st[i \in 0..Len(data)] == IF i = 0 THEN "_V" ELSE NumberNext(st[i - 1], data[i])
  IN  st[Len(data)]

\* What may stand in a string that was read.
Readable(data) == \A i \in DOMAIN data : data[i] \notin ErrorChar \cup {"<x>"}

\* An item has the data that its type calls for.
Spells(item) ==
  CASE item.type \in {"KEY", "STRING"} -> Readable(item.data)
    [] item.type = "INT" -> NumberState(item.data) \in {"Z0", "I0"}
    [] item.type = "FLOAT" -> NumberState(item.data) \in {"R2", "X3"}
    [] OTHER -> item.data = <<>>

\* The buffer holds the item that is under way and nothing else.
Buffered(p) ==
  CASE p.state \in Strings -> Readable(p.buffer)
    [] p.state \in Ints \cup Floats -> NumberState(p.buffer) = p.state
    [] OTHER -> Spells([type |-> p.type, data |-> p.buffer])

\* Items can be printed and read again: they have their data, and are not
\* nested more deeply than the parser allows.
Legible(p) ==
  /\ \A k \in DOMAIN p.out : Spells(p.out[k])
  /\ p.config.max_nesting > 0 =>
       \A k \in 0..Len(p.out) : Len(Nested(SubSeq(p.out, 1, k))) - 1 <= p.config.max_nesting
  /\ Buffered(p)

\* What of the text was not yet reported.
Letters ==
  [T1 |-> <<"t">>, T2 |-> <<"t", "r">>, T3 |-> <<"t", "r", "u">>,
   F1 |-> <<"f">>, F2 |-> <<"f", "a">>, F3 |-> <<"f", "a", "l">>,
   F4 |-> <<"f", "a", "l", "s">>,
   N1 |-> <<"n">>, N2 |-> <<"n", "u">>, N3 |-> <<"n", "u", "l">>]
Words ==
  [TRUE |-> <<"t", "r", "u", "e">>, FALSE |-> <<"f", "a", "l", "s", "e">>,
   NULL |-> <<"n", "u", "l", "l">>]
Unreported(p) ==
  CASE p.state \in Strings -> <<C_QUOTE>> \o p.buffer
    [] p.state \in Literals -> Letters[p.state]
    [] p.type \in DOMAIN Words -> Words[p.type]
    [] OTHER -> p.buffer

StripMode(state) ==
  CASE state \in Strings -> "string" [] state = "Y1" -> "yaml" [] state = "C1" -> "slash"
    [] state = "C2" -> "c" [] state = "C3" -> "star" [] OTHER -> "plain"

\* What was read so far is what the printer makes of the items, and of the
\* comma or the colon that it puts with the item after or before it.
Spelled(t, p) ==
  LET b == Stripped(t)
      printer == json_vprint_args(json_print_init, p.out, FALSE)
      st == Resumed(p)
      comma == ~printer.enter_object /\ ~printer.afterkey
      idle == st = "OK" /\ p.type = "NONE"
  IN  /\ b.mode = StripMode(p.state)
      /\ st \in {"GO", "_O", "_A"} => printer.enter_object
      /\ st = "CO" => printer.afterkey /\ printer.out = Append(b.text, ":")
      /\ idle => comma /\ printer.out = b.text
      /\ st # "CO" /\ ~idle =>
           b.text = printer.out \o (IF comma THEN <<C_COMMA>> ELSE <<>>) \o Unreported(p)
      /\ p.state \in Strings =>
           p.state = "_S" /\ \A i \in DOMAIN p.buffer : p.buffer[i] \notin DOMAIN character_escape

ParserInv ==
  /\ source \in Sources /\ Len(text) <= source.length
  /\ parser \in Parsers(source.config) /\ Room(parser)
  /\ Good => HasDigits(parser)
  /\ Nesting(parser) /\ Utf8(parser)
  /\ Good => Legible(parser)
  /\ Good /\ Unescaping(text) => Spelled(text, parser)

-----------------------------------------------------------------------------
(* The numbers of JSON (RFC 4627), up to two digits a part *)
Digits12 == {<<d>> : d \in {"0", "1"}} \cup {<<d, e>> : d, e \in {"0", "1"}}
RfcNumbers ==
  LET ints == {<<"0">>, <<"1">>, <<"1", "0">>, <<"1", "1">>}
      frac == {<<>>} \cup {<<".">> \o d : d \in Digits12}
      exp == {<<>>} \cup {<<"e">> \o s \o d : s \in {<<>>, <<"+">>, <<"-">>}, d \in Digits12}
  IN  {m \o i \o f \o e : m \in {<<>>, <<"-">>}, i \in ints, f \in frac, e \in exp}

RfcPrefixes == UNION {{SubSeq(n, 1, k) : k \in 1..Len(n)} : n \in RfcNumbers}

\* Every number of RFC 4627 is read (the libjson README: "Full JSON support").
\* Violated: the row of state Z0 has no exponent, so 0e1 is refused.
EveryNumberRead ==
  Len(text) > 1 /\ text[1] = "[" /\ Tail(text) \in RfcPrefixes =>
    parser.ret # "UNEXPECTED_CHAR"
=============================================================================
