---------------------------- MODULE JsonPrinter ----------------------------
(***************************************************************************)
(* The printer of libjson (abus/libjson/json.c): writes JSON items one by  *)
(* one, raw or with line breaks and indentation, and puts the commas.  An  *)
(* item is what the callback of JsonParser gets; the output of the         *)
(* printer's own callback is the sequence of characters out.               *)
(***************************************************************************)
EXTENDS JsonParser, SequencesExt

json_print_init ==
  [indentlevel |-> 0, enter_object |-> TRUE, first |-> TRUE, afterkey |-> FALSE,
   out |-> <<>>]

\* The escape of the characters that have one.
character_escape ==
  [c \in {"\n", "\t", "CR", "BS", "FF", "^", C_QUOTE, "\\"} |->
     CASE c = "\n" -> <<"\\", "n">> [] c = "\t" -> <<"\\", "t">>
       [] c = "CR" -> <<"\\", "r">> [] c = "BS" -> <<"\\", "b">>
       [] c = "FF" -> <<"\\", "f">> [] c = "^" -> <<"\\", "u", "0", "0", "0", "1">>
       [] c = C_QUOTE -> <<"\\", C_QUOTE>> [] c = "\\" -> <<"\\", "\\">>]

escaped(ch) == IF ch \in DOMAIN character_escape THEN character_escape[ch] ELSE <<ch>>

\* A string without the quote that ends it, and with it.
print_quoted(data) ==
  LET s[i \in 0..Len(data)] ==
        IF i = 0 THEN <<C_QUOTE>> ELSE s[i - 1] \o escaped(data[i])
  IN  s[Len(data)]
print_string(data) == Append(print_quoted(data), C_QUOTE)

print_indent(level) == <<"\n">> \o [i \in 1..level |-> "\t"]

Opening == {"ARRAY_BEGIN", "OBJECT_BEGIN"}
Closing == {"ARRAY_END", "OBJECT_END"}

json_print_mode(printer, item, pretty) ==
  LET enterobj == printer.enter_object
      level == IF item.type \in Opening THEN printer.indentlevel + 1
               ELSE IF item.type \in Closing THEN printer.indentlevel - 1
               ELSE printer.indentlevel
      comma == ~enterobj /\ ~printer.afterkey /\ item.type \notin Closing
      indent == /\ pretty
                /\ IF item.type \in Closing THEN ~enterobj
                   ELSE comma \/ (enterobj /\ ~printer.first)
      before == IF item.type \in Closing THEN level ELSE printer.indentlevel
      body == CASE item.type = "ARRAY_BEGIN" -> <<"[">>
                [] item.type = "OBJECT_BEGIN" -> <<C_LCURB>>
                [] item.type = "ARRAY_END" -> <<"]">>
                [] item.type = "OBJECT_END" -> <<C_RCURB>>
                [] item.type \in {"INT", "FLOAT"} -> item.data
                [] item.type = "NULL" -> <<"n", "u", "l", "l">>
                [] item.type = "TRUE" -> <<"t", "r", "u", "e">>
                [] item.type = "FALSE" -> <<"f", "a", "l", "s", "e">>
                [] item.type = "KEY" -> print_string(item.data) \o
                                        (IF pretty THEN <<":", C_SPACE>> ELSE <<":">>)
                [] item.type = "STRING" -> print_string(item.data)
  IN  [indentlevel |-> level,
       enter_object |-> item.type \in Opening,
       first |-> FALSE,
       afterkey |-> item.type = "KEY",
       out |-> printer.out \o (IF comma THEN <<C_COMMA>> ELSE <<>>)
                           \o (IF indent THEN print_indent(before) ELSE <<>>)
                           \o body]

\* Prints items one after the other, from a given printer.
json_vprint_args(printer, items, pretty) ==
  LET p[i \in 0..Len(items)] ==
        IF i = 0 THEN printer ELSE json_print_mode(p[i - 1], items[i], pretty)
  IN  p[Len(items)]
Printed(items, pretty) == json_vprint_args(json_print_init, items, pretty).out
=============================================================================
