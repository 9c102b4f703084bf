----------------------------- MODULE MCJsonText -----------------------------
(***************************************************************************)
(* Texts for TLC: all texts up to a length over an alphabet, from the      *)
(* start of a document or from inside it, with limits small enough to be   *)
(* met.                                                                    *)
(***************************************************************************)
EXTENDS JsonText

Config(nesting, data, buffer, comments) ==
  [max_nesting |-> nesting, max_data |-> data, stack_size |-> 1,
   buffer_initial_size |-> buffer,
   allow_c_comments |-> comments, allow_yaml_comments |-> comments]

Source(config, start, alphabet, length) ==
  [config |-> config, start |-> start, alphabet |-> alphabet, length |-> length]

MCSources ==
  { Source(Config(2, 4, 9, FALSE), <<>>,
           {"{", "}", "[", "]", ":", ",", "\"", "0", " ", "/"}, 8),
    Source(Config(0, 0, 1, TRUE), <<>>,
           {"[", "]", "/", "*", "#", "\n", "1", ","}, 7),
    Source(Config(3, 5, 1, FALSE), <<"[">>,
           {"0", "1", "-", "+", ".", "e", ",", "]", " "}, 8),
    Source(Config(2, 6, 2, FALSE), <<"{", "\"", "x", "\"", ":">>,
           {"t", "r", "u", "e", "f", "a", "l", "s", "n", "}", ","}, 12),
    Source(Config(1, 9, 3, FALSE), <<"[", "\"", "\\", "u">>,
           {"d", "8", "0", "\"", "]"}, 10),
    Source(Config(1, 9, 3, FALSE), <<"[", "\"", "\\", "u", "d", "8", "0", "0">>,
           {"\\", "u", "d", "c", "0", "\"", "]"}, 16),
    Source(Config(1, 6, 1, FALSE), <<"[", "\"">>,
           {"<2>", "<3>", "<c>", "<x>", "^", "\n", "\\", "n", "\"", "]"}, 9) }
=============================================================================
