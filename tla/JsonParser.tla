----------------------------- MODULE JsonParser -----------------------------
(***************************************************************************)
(* The parser of libjson (abus/libjson/json.c): a push-down automaton that *)
(* takes one character at a time and reports what it reads to a callback.  *)
(*                                                                         *)
(* A character is a string.  The characters that the tables of json.c tell *)
(* apart are themselves; "^" is a control character, "<2>", "<3>" and      *)
(* "<4>" are the first bytes of UTF-8 sequences of that length, "<c>" a    *)
(* continuation byte and "<x>" a byte that UTF-8 does not have.  Any other *)
(* string is an ordinary character (class C_OTHER); JsonRpc uses whole     *)
(* words as such.  The fields of a parser are those of struct json_parser; *)
(* a stack or a buffer and its offset are one sequence, ret is the value   *)
(* that json_parser_string() returns ("0" so far) and out the calls of the *)
(* callback.  Allocation does not fail.                                    *)
(***************************************************************************)
EXTENDS Naturals, Sequences

-----------------------------------------------------------------------------
(* Character classes and transitions *)

C_SPACE == " "
C_LCURB == "{"
C_RCURB == "}"
C_COMMA == ","
C_QUOTE == "\""

White == {C_SPACE, "\n", "\t"}
Digit == {"0", "1", "2", "3", "4", "5", "6", "7", "8", "9"}
Hex == Digit \cup {"a", "b", "c", "d", "e", "f", "A", "B", "C", "D", "E", "F"}
Sign == {"+", "-"}
ErrorChar == {"^", "NUL"}

\* The characters that rows of the table name; all others are C_OTHER there.
Named == White \cup Hex \cup Sign \cup
  {C_LCURB, C_RCURB, "[", "]", ":", C_COMMA, C_QUOTE, "\\", "/", ".",
   "l", "n", "r", "s", "t", "u", "*", "#"}
Other == "other"
Class(ch) == IF ch \in Named THEN ch ELSE Other

On(chars, next) == [c \in chars |-> next]
f ++ g == [c \in DOMAIN f \cup DOMAIN g |-> IF c \in DOMAIN f THEN f[c] ELSE g[c]]
Layout(state) == On(White, state) ++ On({"/"}, "CB") ++ On({"#"}, "YB")
EndOfItem == On({C_RCURB}, "OE") ++ On({"]"}, "AE") ++ On({C_COMMA}, "SP")
BeginOfValue ==
  On({C_LCURB}, "OB") ++ On({"["}, "AB") ++ On({C_QUOTE}, "_S") ++ On({"-"}, "MX") ++
  On({"0"}, "ZX") ++ On(Digit \ {"0"}, "IX") ++
  On({"f"}, "F1") ++ On({"n"}, "N1") ++ On({"t"}, "T1")
All == Named \cup {Other}

\* One row per state: the classes that have a transition, and where to.
state_transition_table ==
  [GO |-> Layout("GO") ++ On({C_LCURB}, "OB") ++ On({"["}, "AB"),
   OK |-> Layout("OK") ++ EndOfItem,
   _O |-> Layout("_O") ++ On({C_RCURB}, "OE") ++ On({C_QUOTE}, "_S"),
   _K |-> Layout("_K") ++ On({C_QUOTE}, "_S"),
   CO |-> Layout("CO") ++ On({":"}, "KS"),
   _V |-> Layout("_V") ++ BeginOfValue,
   _A |-> Layout("_A") ++ BeginOfValue ++ On({"]"}, "AE"),
   _S |-> On({C_QUOTE}, "SE") ++ On({"\\"}, "E0") ++ On(All \ {"\n", "\t"}, "_S"),
   E0 |-> On({C_QUOTE, "\\", "/", "b", "f", "n", "r", "t"}, "_S") ++ On({"u"}, "U1"),
   U1 |-> On(Hex, "U2"), U2 |-> On(Hex, "U3"),
   U3 |-> On(Hex, "U4"), U4 |-> On(Hex, "UC"),
   M0 |-> On({"0"}, "Z0") ++ On(Digit, "I0"),
   Z0 |-> Layout("OK") ++ EndOfItem ++ On({"."}, "DF"),
   I0 |-> Layout("OK") ++ EndOfItem ++ On({"."}, "DF") ++ On(Digit, "I0") ++
          On({"e", "E"}, "DE"),
   R1 |-> On(Digit, "R2"),
   R2 |-> Layout("OK") ++ EndOfItem ++ On(Digit, "R2") ++ On({"e", "E"}, "X1"),
   X1 |-> On(Sign, "X2") ++ On(Digit, "X3"),
   X2 |-> On(Digit, "X3"),
   X3 |-> On(White, "OK") ++ EndOfItem ++ On(Digit, "X3"),
   T1 |-> On({"r"}, "T2"), T2 |-> On({"u"}, "T3"), T3 |-> On({"e"}, "TR"),
   F1 |-> On({"a"}, "F2"), F2 |-> On({"l"}, "F3"), F3 |-> On({"s"}, "F4"),
   F4 |-> On({"e"}, "FA"),
   N1 |-> On({"u"}, "N2"), N2 |-> On({"l"}, "N3"), N3 |-> On({"l"}, "NU"),
   C1 |-> On({"*"}, "C2"),
   C2 |-> On({"*"}, "C3") ++ On(All, "C2"),
   C3 |-> On({"/"}, "CE") ++ On({"*"}, "C3") ++ On(All, "C2"),
   Y1 |-> On({"\n"}, "CE") ++ On(All, "Y1"),
   D1 |-> On({"\\"}, "D2"), D2 |-> On({"u"}, "U1")]

States == DOMAIN state_transition_table
NextState(state, class) ==
  LET row == state_transition_table[state]
  IN  IF class \in DOMAIN row THEN row[class] ELSE "__"

\* The characters kept in the buffer: of strings, \u escapes and numbers.
Number == {"MX", "ZX", "IX", "Z0", "I0", "DF", "DE", "R2", "X1", "X2", "X3"}
buffer_policy_table(state, next) ==
  IF state = "E0" /\ next = "_S" THEN "escape"
  ELSE IF \/ state = "_S" /\ next = "_S"
          \/ state \in {"U1", "U2", "U3", "U4"}
          \/ next \in Number
       THEN "append"
       ELSE "ignore"

\* The number of continuation bytes that follow a byte.
utf8_header_table ==
  [c \in {"<2>", "<3>", "<4>"} |-> IF c = "<2>" THEN 1 ELSE IF c = "<3>" THEN 2 ELSE 3]

-----------------------------------------------------------------------------
(* The stack of open structures and the buffer of the current item *)

Fail(p, error) == [p EXCEPT !.ret = error]

\* CHK: the rest is only done if there was no error.
Chk(p, Rest(_)) == IF p.ret = "0" THEN Rest(p) ELSE p

state_push(p, mode) ==
  IF Len(p.stack) < p.stack_size
    THEN [p EXCEPT !.stack = Append(@, mode)]
  ELSE IF p.config.max_nesting # 0 THEN Fail(p, "NESTING_LIMIT")
  ELSE [p EXCEPT !.stack = Append(@, mode), !.stack_size = 2 * @]

state_pop(p, mode) ==
  IF p.stack = <<>> THEN Fail(p, "POP_EMPTY")
  ELSE LET q == [p EXCEPT !.stack = SubSeq(@, 1, Len(@) - 1)]
       IN  IF p.stack[Len(p.stack)] = mode THEN q
           ELSE Fail(q, "POP_UNEXPECTED_MODE")

buffer_grow(p) ==
  LET max == p.config.max_data
      newsize == 2 * p.buffer_size
  IN  IF max > 0 /\ p.buffer_size = max THEN Fail(p, "DATA_LIMIT")
      ELSE [p EXCEPT !.buffer_size = IF max > 0 /\ newsize > max
                                     THEN max ELSE newsize]

\* No room is kept for the final '\0'.  Mutant.
buffer_push_to_end(p, ch) ==
  Chk(IF Len(p.buffer) >= p.buffer_size THEN buffer_grow(p) ELSE p,
      LAMBDA q : [q EXCEPT !.buffer = Append(@, ch)])

buffer_push(p, ch) ==
  Chk(IF Len(p.buffer) + 1 >= p.buffer_size THEN buffer_grow(p) ELSE p,
      LAMBDA q : [q EXCEPT !.buffer = Append(@, ch)])

do_callback(p, type) == [p EXCEPT !.out = Append(@, [type |-> type, data |-> <<>>])]
do_callback_withbuf(p, type) ==
  [p EXCEPT !.out = Append(@, [type |-> type, data |-> p.buffer])]

\* The buffer is not emptied.  Mutant.
do_buffer_again(p) ==
  IF p.type # "NONE" THEN do_callback_withbuf(p, p.type) ELSE p

\* A number or a constant is reported when the character after it is read.
do_buffer(p) ==
  LET q == IF p.type # "NONE" THEN do_callback_withbuf(p, p.type) ELSE p
  IN  [q EXCEPT !.buffer = <<>>]

-----------------------------------------------------------------------------
(* Escapes *)

buffer_push_escape(p, ch) ==
  LET escape == [b |-> "BS", f |-> "FF", n |-> "\n", r |-> "CR", t |-> "\t"]
  IN  buffer_push(p, IF ch \in DOMAIN escape THEN escape[ch] ELSE ch)

\* Four hexadecimal digits, told apart by the length of their UTF-8 form.
IsHighSurrogate(h) == h[1] \in {"d", "D"} /\ h[2] \in {"8", "9", "a", "A", "b", "B"}
IsLowSurrogate(h) == h[1] \in {"d", "D"} /\ h[2] \in {"c", "C", "d", "D", "e", "E", "f", "F"}
Below0x800(h) == h[1] = "0" /\ h[2] \in Digit \ {"8", "9"}
Below0x80(h) == h[1] = "0" /\ h[2] = "0" /\ h[3] \in Digit \ {"8", "9"}
Utf8Bytes(n) ==
  CASE n = 1 -> <<"<1>">>
    [] n = 2 -> <<"<2>", "<c>">>
    [] n = 3 -> <<"<3>", "<c>", "<c>">>
    [] n = 4 -> <<"<4>", "<c>", "<c>", "<c>">>

decode_unicode_char(p) ==
  LET n == Len(p.buffer) - 4
      h == SubSeq(p.buffer, n + 1, n + 4)
      q == [p EXCEPT !.buffer = SubSeq(@, 1, n)]
      Put(k) == [q EXCEPT !.buffer = @ \o Utf8Bytes(k), !.unicode_multi = FALSE]
  IN  IF p.unicode_multi
        THEN IF IsLowSurrogate(h) THEN Put(4)
             ELSE Fail(q, "UNICODE_MISSING_LOW_SURROGATE")
      ELSE IF Below0x80(h) THEN Put(1)
      ELSE IF IsLowSurrogate(h) THEN Fail(q, "UNICODE_UNEXPECTED_LOW_SURROGATE")
      ELSE IF IsHighSurrogate(h) THEN [q EXCEPT !.unicode_multi = TRUE]
      ELSE Put(IF Below0x800(h) THEN 2 ELSE 3)

-----------------------------------------------------------------------------
(* Actions of the automaton *)

act_uc(p) ==
  Chk(decode_unicode_char(p),
      LAMBDA q : [q EXCEPT !.state = IF q.unicode_multi THEN "D1" ELSE "_S"])
act_yb(p) ==
  IF p.config.allow_yaml_comments THEN [p EXCEPT !.save_state = p.state]
  ELSE Fail(p, "COMMENT_NOT_ALLOWED")
act_cb(p) ==
  IF p.config.allow_c_comments THEN [p EXCEPT !.save_state = p.state]
  ELSE Fail(p, "COMMENT_NOT_ALLOWED")
\* After a number, the states up to STATE__A being the others.
act_ce(p) ==
  [p EXCEPT !.state = IF p.save_state \in {"GO", "OK", "_O", "_K", "CO", "_V", "_A"}
                      THEN p.save_state ELSE "OK"]
act_ob(p) ==
  Chk(state_push(do_callback(p, "OBJECT_BEGIN"), "OBJECT"),
      LAMBDA q : [q EXCEPT !.expecting_key = TRUE])
\* The key that an empty object expects is still expected after it.  Mutant.
act_oe_keyed(p) ==
  Chk(state_pop(p, "OBJECT"), LAMBDA q : do_callback(q, "OBJECT_END"))
act_oe(p) ==
  Chk(state_pop(p, "OBJECT"),
      LAMBDA q : [do_callback(q, "OBJECT_END") EXCEPT !.expecting_key = FALSE])
act_ab(p) == state_push(do_callback(p, "ARRAY_BEGIN"), "ARRAY")
act_ae(p) == Chk(state_pop(p, "ARRAY"), LAMBDA q : do_callback(q, "ARRAY_END"))
act_se(p) ==
  [do_callback_withbuf(p, IF p.expecting_key THEN "KEY" ELSE "STRING")
     EXCEPT !.buffer = <<>>,
            !.state = IF p.expecting_key THEN "CO" ELSE "OK",
            !.expecting_key = FALSE]
act_sp(p) ==
  IF p.stack = <<>> THEN Fail(p, "COMMA_OUT_OF_STRUCTURE")
  ELSE IF p.stack[Len(p.stack)] = "OBJECT"
       THEN [p EXCEPT !.expecting_key = TRUE, !.state = "_K"]
       ELSE [p EXCEPT !.state = "_V"]

\* The type an action leaves pending, and the state it goes to.
PendingType ==
  [FA |-> "FALSE", TR |-> "TRUE", NU |-> "NULL", DE |-> "FLOAT", DF |-> "FLOAT",
   MX |-> "INT", ZX |-> "INT", IX |-> "INT"]
Target ==
  [KS |-> "_V", AB |-> "_A", AE |-> "OK", OB |-> "_O", OE |-> "OK", CB |-> "C1",
   YB |-> "Y1", FA |-> "OK", TR |-> "OK", NU |-> "OK", DE |-> "X1", DF |-> "R1",
   MX |-> "M0", ZX |-> "Z0", IX |-> "I0"]
DoBuffer == {"SP", "AE", "OE", "CB", "YB"}
Call(action, p) ==
  CASE action = "SP" -> act_sp(p) [] action = "AB" -> act_ab(p)
    [] action = "AE" -> act_ae(p) [] action = "OB" -> act_ob(p)
    [] action = "OE" -> act_oe(p) [] action = "CB" -> act_cb(p)
    [] action = "YB" -> act_yb(p) [] action = "CE" -> act_ce(p)
    [] action = "SE" -> act_se(p) [] action = "UC" -> act_uc(p)
    [] OTHER -> p

do_action(p, action) ==
  Chk(Call(action, IF action \in DoBuffer THEN do_buffer(p) ELSE p),
      LAMBDA q :
        [q EXCEPT !.state = IF action \in DOMAIN Target THEN Target[action] ELSE @,
                  !.type = IF action \in DOMAIN PendingType
                           THEN PendingType[action] ELSE "NONE"])

-----------------------------------------------------------------------------
(* The interface *)

json_parser_init(config) ==
  [config |-> config, state |-> "GO", save_state |-> "GO", type |-> "NONE",
   expecting_key |-> FALSE, unicode_multi |-> FALSE, utf8_multibyte_left |-> 0,
   stack |-> <<>>, buffer |-> <<>>, ret |-> "0", out |-> <<>>,
   stack_size |-> IF config.max_nesting > 0 THEN config.max_nesting
                  ELSE config.stack_size,
   buffer_size |-> IF config.max_data > 0
                      /\ config.buffer_initial_size > config.max_data
                   THEN config.max_data ELSE config.buffer_initial_size]

json_parser_is_done(p) == p.stack = <<>> /\ p.state # "GO"

\* The automaton proper: one character of a known class.
Step(p, ch, class) ==
  LET next == NextState(p.state, class)
      policy == buffer_policy_table(p.state, next)
  IN  IF next = "__" THEN Fail(p, "UNEXPECTED_CHAR")
      ELSE Chk(CASE policy = "escape" -> buffer_push_escape(p, ch)
                 [] policy = "append" -> buffer_push(p, ch)
                 [] OTHER -> p,
               LAMBDA q : IF next \in States THEN [q EXCEPT !.state = next]
                          ELSE do_action(q, next))

\* One turn of the loop of json_parser_string().
json_parser_char(p, ch) ==
  IF (p.utf8_multibyte_left > 0) # (ch = "<c>") \/ ch = "<x>" THEN Fail(p, "UTF8")
  ELSE IF ch \in ErrorChar THEN Fail(p, "BAD_CHAR")
  ELSE Step([p EXCEPT !.utf8_multibyte_left =
               IF @ > 0 THEN @ - 1
               ELSE IF ch \in DOMAIN utf8_header_table THEN utf8_header_table[ch] ELSE 0],
            ch, Class(ch))

\* The loop: a string, up to the first error.
json_parser_string(parser, s) ==
  LET p[i \in 0..Len(s)] ==
        IF i = 0 THEN parser
        ELSE Chk(p[i - 1], LAMBDA q : json_parser_char(q, s[i]))
  IN  p[Len(s)]

\* A whole text, in pieces so that the evaluation is not nested deeply.
Piece == 16
Parse(config, s) ==
  LET piece(k) == SubSeq(s, Piece * (k - 1) + 1,
                         IF Piece * k < Len(s) THEN Piece * k ELSE Len(s))
      p[k \in 0..(Len(s) \div Piece + 1)] ==
        IF k = 0 THEN json_parser_init(config)
        ELSE Chk(p[k - 1], LAMBDA q : json_parser_string(q, piece(k)))
  IN  p[Len(s) \div Piece + 1]
=============================================================================
