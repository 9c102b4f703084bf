--------------------------- MODULE JsonTextProofs ---------------------------
(***************************************************************************)
(* What libjson promises of every text, whatever is fed and however long:  *)
(* the parser stays within its limits, and what the callback is told is    *)
(* nested as JSON is and made of UTF-8.  The invariant is ParserInv of     *)
(* JsonText.  It is shown of json_parser_char() for each entry of the      *)
(* transition table, and of a text by induction on its characters.         *)
(***************************************************************************)
EXTENDS JsonText, SequenceTheorems, WellFoundedInduction, TLAPS

(* A set of natural numbers that is not empty has a least member. *)
LEMMA LeastNat ==
  ASSUME NEW T, T \subseteq Nat, T # {}
  PROVE  \E x \in T : \A y \in T : x <= y
<1> DEFINE R == {ss \in Nat \X Nat : ss[1] < ss[2]}
<1>1. IsWellFoundedOn(R, Nat)
  BY NatLessThanWellFounded DEF OpToRel
<1>2. PICK x \in T : \A y \in T : <<y, x>> \notin R
  BY <1>1, WFMin
<1>3. ASSUME NEW y \in T PROVE x <= y
  <2>1. x \in Nat /\ y \in Nat
    OBVIOUS
  <2>2. <<y, x>> \in Nat \X Nat /\ <<y, x>>[1] = y /\ <<y, x>>[2] = x
    BY <2>1
  <2>3. ~(y < x)
    BY <1>2, <2>2
  <2> QED BY <2>1, <2>3
<1> QED BY <1>3

(* Induction over an interval, with the set of numbers of which something  *)
(* holds.                                                                  *)
LEMMA IntervalInduction ==
  ASSUME NEW N \in Nat, NEW T, 0 \in T,
         \A n \in 1 .. N : n - 1 \in T => n \in T
  PROVE  \A n \in 0 .. N : n \in T
<1> DEFINE U == {n \in 0 .. N : n \notin T}
<1>1. SUFFICES ASSUME U # {} PROVE FALSE
  OBVIOUS
<1>2. U \subseteq Nat
  OBVIOUS
<1>3. PICK m \in U : \A y \in U : m <= y
  BY <1>1, <1>2, LeastNat
<1>4. m \in 1 .. N /\ m - 1 \in 0 .. N /\ ~(m <= m - 1)
  OBVIOUS
<1>5. m - 1 \in T
  BY <1>3, <1>4
<1> QED BY <1>4, <1>5

-----------------------------------------------------------------------------
(* Recursions on sequences *)

(* The nesting after every item of s. *)
IsNested(f, s) ==
  f = [i \in 0 .. Len(s) |-> IF i = 0 THEN <<"START">> ELSE Nest(f[i - 1], s[i].type)]

(* Nested() is a recursion on the items: it has a solution, *)
LEMMA NestedExists ==
  ASSUME NEW S, NEW s \in Seq(S)
  PROVE  \E f : IsNested(f, s)
<1> DEFINE G(x, i) == Nest(x, s[i].type)
           E(m) == \E f : f = [i \in 0 .. m |-> IF i = 0 THEN <<"START">> ELSE G(f[i - 1], i)]
           T == {m \in 0 .. Len(s) : E(m)}
<1>0. Len(s) \in Nat
  OBVIOUS
<1>1. 0 \in T
  <2> DEFINE f == [i \in 0 .. 0 |-> <<"START">>]
  <2> HIDE DEF G
  <2>1. f = [i \in 0 .. 0 |-> IF i = 0 THEN <<"START">> ELSE G(f[i - 1], i)]
    OBVIOUS
  <2>2. E(0)
    BY <2>1
  <2> HIDE DEF E
  <2> QED BY <1>0, <2>2
<1>2. ASSUME NEW m \in 1 .. Len(s), m - 1 \in T
      PROVE  m \in T
  <2> HIDE DEF G
  <2>1. PICK h : h = [i \in 0 .. m - 1 |-> IF i = 0 THEN <<"START">> ELSE G(h[i - 1], i)]
    BY <1>2
  <2> DEFINE f == [i \in 0 .. m |-> IF i = m THEN G(h[m - 1], m) ELSE h[i]]
  <2>2. ASSUME NEW i \in 0 .. m
        PROVE  f[i] = IF i = 0 THEN <<"START">> ELSE G(f[i - 1], i)
    <3>1. CASE i = 0
      BY <1>0, <1>2, <2>1, <3>1
    <3>2. CASE i = m
      <4>1. i # 0 /\ i - 1 \in 0 .. m /\ i - 1 # m
        BY <1>0, <1>2, <3>2
      <4>2. f[i - 1] = h[i - 1]
        BY <4>1
      <4> QED BY <3>2, <4>1, <4>2
    <3>3. CASE i # 0 /\ i # m
      <4>1. i \in 0 .. m - 1 /\ i - 1 \in 0 .. m /\ i - 1 # m
        BY <1>0, <1>2, <3>3
      <4>2. f[i - 1] = h[i - 1] /\ f[i] = h[i]
        BY <4>1, <3>3
      <4>3. h[i] = G(h[i - 1], i)
        BY <2>1, <4>1, <3>3
      <4> QED BY <3>3, <4>2, <4>3
    <3> QED BY <3>1, <3>2, <3>3
  <2>3. f = [i \in 0 .. m |-> IF i = 0 THEN <<"START">> ELSE G(f[i - 1], i)]
    <3> HIDE DEF f
    <3>1. f = [i \in 0 .. m |-> f[i]]
      BY DEF f
    <3> QED BY <2>2, <3>1
  <2>4. E(m)
    <3> HIDE DEF f
    <3> QED BY <2>3
  <2> HIDE DEF E
  <2> QED BY <1>0, <2>4
<1>3. Len(s) \in T
  <2> HIDE DEF T
  <2>1. \A n \in 0 .. Len(s) : n \in T
    BY <1>0, <1>1, <1>2, IntervalInduction
  <2> QED BY <1>0, <2>1
<1> QED BY <1>3 DEF IsNested

(* each item continues it, *)
LEMMA NestedAppend ==
  ASSUME NEW S, NEW s \in Seq(S), NEW e \in S
  PROVE  Nested(Append(s, e)) = Nest(Nested(s), e.type)
<1> DEFINE t == Append(s, e)
           f == CHOOSE f : IsNested(f, s)
           h == CHOOSE h : IsNested(h, t)
           T == {i \in 0 .. Len(s) : h[i] = f[i]}
<1>0. /\ Len(s) \in Nat /\ t \in Seq(S) /\ Len(t) = Len(s) + 1 /\ t[Len(t)] = e
      /\ \A i \in 1 .. Len(s) : t[i] = s[i]
  OBVIOUS
<1> HIDE DEF t
<1>1. IsNested(f, s) /\ IsNested(h, t)
  BY <1>0, NestedExists
<1>2. Nested(s) = f[Len(s)] /\ Nested(t) = h[Len(t)]
  BY DEF Nested, IsNested
<1> HIDE DEF f, h
<1>3. /\ f[0] = <<"START">> /\ h[0] = <<"START">>
      /\ \A i \in 1 .. Len(s) : f[i] = Nest(f[i - 1], s[i].type)
      /\ \A i \in 1 .. Len(t) : h[i] = Nest(h[i - 1], t[i].type)
  <2>1. Len(t) \in Nat
    BY <1>0
  <2>2. f = [i \in 0 .. Len(s) |-> IF i = 0 THEN <<"START">> ELSE Nest(f[i - 1], s[i].type)]
    BY <1>1 DEF IsNested
  <2>3. h = [i \in 0 .. Len(t) |-> IF i = 0 THEN <<"START">> ELSE Nest(h[i - 1], t[i].type)]
    BY <1>1 DEF IsNested
  <2>4. f[0] = <<"START">> /\ \A i \in 1 .. Len(s) : f[i] = Nest(f[i - 1], s[i].type)
    <3>1. ASSUME NEW i \in 1 .. Len(s) PROVE f[i] = Nest(f[i - 1], s[i].type)
      <4>1. i \in 0 .. Len(s) /\ i # 0
        BY <1>0
      <4> QED BY <2>2, <4>1
    <3>2. 0 \in 0 .. Len(s)
      BY <1>0
    <3>3. f[0] = <<"START">>
      BY <2>2, <3>2
    <3> QED BY <3>1, <3>3
  <2>5. h[0] = <<"START">> /\ \A i \in 1 .. Len(t) : h[i] = Nest(h[i - 1], t[i].type)
    <3>1. ASSUME NEW i \in 1 .. Len(t) PROVE h[i] = Nest(h[i - 1], t[i].type)
      <4>1. i \in 0 .. Len(t) /\ i # 0
        BY <2>1
      <4> QED BY <2>3, <4>1
    <3>2. 0 \in 0 .. Len(t)
      BY <2>1
    <3>3. h[0] = <<"START">>
      BY <2>3, <3>2
    <3> QED BY <3>1, <3>3
  <2> QED BY <2>4, <2>5
<1>4. 0 \in T
  BY <1>0, <1>3
<1>5. ASSUME NEW i \in 1 .. Len(s), i - 1 \in T PROVE i \in T
  <2>1. i \in 0 .. Len(s) /\ i \in 1 .. Len(t) /\ t[i] = s[i] /\ h[i - 1] = f[i - 1]
    BY <1>0, <1>5
  <2>2. f[i] = Nest(f[i - 1], s[i].type) /\ h[i] = Nest(h[i - 1], t[i].type)
    BY <1>3, <2>1
  <2> QED BY <2>1, <2>2
<1> HIDE DEF T
<1>6. h[Len(s)] = f[Len(s)]
  <2>1. \A i \in 0 .. Len(s) : i \in T
    BY <1>0, <1>4, <1>5, IntervalInduction
  <2> QED BY <1>0, <2>1 DEF T
<1>7. h[Len(t)] = Nest(h[Len(t) - 1], t[Len(t)].type) /\ Len(t) - 1 = Len(s)
  BY <1>0, <1>3
<1>8. h[Len(t)] = Nest(f[Len(s)], e.type)
  BY <1>0, <1>6, <1>7
<1> QED BY <1>2, <1>8 DEF t

(* and it starts before the document. *)
LEMMA NestedEmpty == Nested(<<>>) = <<"START">>
<1> DEFINE s == <<>>
           f == CHOOSE f : IsNested(f, s)
<1>1. s \in Seq({}) /\ Len(s) = 0
  OBVIOUS
<1> HIDE DEF s
<1>2. IsNested(f, s)
  BY <1>1, NestedExists
<1>3. Nested(s) = f[Len(s)]
  BY DEF Nested, IsNested
<1> HIDE DEF f
<1>4. f[0] = <<"START">>
  BY <1>1, <1>2 DEF IsNested
<1> QED BY <1>1, <1>3, <1>4 DEF s

(* The continuation bytes that are missing after every character of s. *)
IsUtf8Left(f, s) ==
  f = [i \in 0 .. Len(s) |-> IF i = 0 THEN 0 ELSE Utf8Next(f[i - 1], s[i])]

(* Utf8Left() is a recursion on the characters, in the same way. *)
LEMMA Utf8LeftExists ==
  ASSUME NEW S, NEW s \in Seq(S)
  PROVE  \E f : IsUtf8Left(f, s)
<1> DEFINE G(x, i) == Utf8Next(x, s[i])
           E(m) == \E f : f = [i \in 0 .. m |-> IF i = 0 THEN 0 ELSE G(f[i - 1], i)]
           T == {m \in 0 .. Len(s) : E(m)}
<1>0. Len(s) \in Nat
  OBVIOUS
<1>1. 0 \in T
  <2> DEFINE f == [i \in 0 .. 0 |-> 0]
  <2> HIDE DEF G
  <2>1. f = [i \in 0 .. 0 |-> IF i = 0 THEN 0 ELSE G(f[i - 1], i)]
    OBVIOUS
  <2>2. E(0)
    BY <2>1
  <2> HIDE DEF E
  <2> QED BY <1>0, <2>2
<1>2. ASSUME NEW m \in 1 .. Len(s), m - 1 \in T
      PROVE  m \in T
  <2> HIDE DEF G
  <2>1. PICK h : h = [i \in 0 .. m - 1 |-> IF i = 0 THEN 0 ELSE G(h[i - 1], i)]
    BY <1>2
  <2> DEFINE f == [i \in 0 .. m |-> IF i = m THEN G(h[m - 1], m) ELSE h[i]]
  <2>2. ASSUME NEW i \in 0 .. m
        PROVE  f[i] = IF i = 0 THEN 0 ELSE G(f[i - 1], i)
    <3>1. CASE i = 0
      BY <1>0, <1>2, <2>1, <3>1
    <3>2. CASE i = m
      <4>1. i # 0 /\ i - 1 \in 0 .. m /\ i - 1 # m
        BY <1>0, <1>2, <3>2
      <4>2. f[i - 1] = h[i - 1]
        BY <4>1
      <4> QED BY <3>2, <4>1, <4>2
    <3>3. CASE i # 0 /\ i # m
      <4>1. i \in 0 .. m - 1 /\ i - 1 \in 0 .. m /\ i - 1 # m
        BY <1>0, <1>2, <3>3
      <4>2. f[i - 1] = h[i - 1] /\ f[i] = h[i]
        BY <4>1, <3>3
      <4>3. h[i] = G(h[i - 1], i)
        BY <2>1, <4>1, <3>3
      <4> QED BY <3>3, <4>2, <4>3
    <3> QED BY <3>1, <3>2, <3>3
  <2>3. f = [i \in 0 .. m |-> IF i = 0 THEN 0 ELSE G(f[i - 1], i)]
    <3> HIDE DEF f
    <3>1. f = [i \in 0 .. m |-> f[i]]
      BY DEF f
    <3> QED BY <2>2, <3>1
  <2>4. E(m)
    <3> HIDE DEF f
    <3> QED BY <2>3
  <2> HIDE DEF E
  <2> QED BY <1>0, <2>4
<1>3. Len(s) \in T
  <2> HIDE DEF T
  <2>1. \A n \in 0 .. Len(s) : n \in T
    BY <1>0, <1>1, <1>2, IntervalInduction
  <2> QED BY <1>0, <2>1
<1> QED BY <1>3 DEF IsUtf8Left

(* Each character continues it, *)
LEMMA Utf8LeftAppend ==
  ASSUME NEW S, NEW s \in Seq(S), NEW e \in S
  PROVE  Utf8Left(Append(s, e)) = Utf8Next(Utf8Left(s), e)
<1> DEFINE t == Append(s, e)
           f == CHOOSE f : IsUtf8Left(f, s)
           h == CHOOSE h : IsUtf8Left(h, t)
           T == {i \in 0 .. Len(s) : h[i] = f[i]}
<1>0. /\ Len(s) \in Nat /\ t \in Seq(S) /\ Len(t) = Len(s) + 1 /\ t[Len(t)] = e
      /\ \A i \in 1 .. Len(s) : t[i] = s[i]
  OBVIOUS
<1> HIDE DEF t
<1>1. IsUtf8Left(f, s) /\ IsUtf8Left(h, t)
  BY <1>0, Utf8LeftExists
<1>2. Utf8Left(s) = f[Len(s)] /\ Utf8Left(t) = h[Len(t)]
  BY DEF Utf8Left, IsUtf8Left
<1> HIDE DEF f, h
<1>3. /\ f[0] = 0 /\ h[0] = 0
      /\ \A i \in 1 .. Len(s) : f[i] = Utf8Next(f[i - 1], s[i])
      /\ \A i \in 1 .. Len(t) : h[i] = Utf8Next(h[i - 1], t[i])
  <2>1. Len(t) \in Nat
    BY <1>0
  <2>2. f = [i \in 0 .. Len(s) |-> IF i = 0 THEN 0 ELSE Utf8Next(f[i - 1], s[i])]
    BY <1>1 DEF IsUtf8Left
  <2>3. h = [i \in 0 .. Len(t) |-> IF i = 0 THEN 0 ELSE Utf8Next(h[i - 1], t[i])]
    BY <1>1 DEF IsUtf8Left
  <2>4. f[0] = 0 /\ \A i \in 1 .. Len(s) : f[i] = Utf8Next(f[i - 1], s[i])
    <3>1. ASSUME NEW i \in 1 .. Len(s) PROVE f[i] = Utf8Next(f[i - 1], s[i])
      <4>1. i \in 0 .. Len(s) /\ i # 0
        BY <1>0
      <4> QED BY <2>2, <4>1
    <3>2. 0 \in 0 .. Len(s)
      BY <1>0
    <3>3. f[0] = 0
      BY <2>2, <3>2
    <3> QED BY <3>1, <3>3
  <2>5. h[0] = 0 /\ \A i \in 1 .. Len(t) : h[i] = Utf8Next(h[i - 1], t[i])
    <3>1. ASSUME NEW i \in 1 .. Len(t) PROVE h[i] = Utf8Next(h[i - 1], t[i])
      <4>1. i \in 0 .. Len(t) /\ i # 0
        BY <2>1
      <4> QED BY <2>3, <4>1
    <3>2. 0 \in 0 .. Len(t)
      BY <2>1
    <3>3. h[0] = 0
      BY <2>3, <3>2
    <3> QED BY <3>1, <3>3
  <2> QED BY <2>4, <2>5
<1>4. 0 \in T
  BY <1>0, <1>3
<1>5. ASSUME NEW i \in 1 .. Len(s), i - 1 \in T PROVE i \in T
  <2>1. i \in 0 .. Len(s) /\ i \in 1 .. Len(t) /\ t[i] = s[i] /\ h[i - 1] = f[i - 1]
    BY <1>0, <1>5
  <2>2. f[i] = Utf8Next(f[i - 1], s[i]) /\ h[i] = Utf8Next(h[i - 1], t[i])
    BY <1>3, <2>1
  <2> QED BY <2>1, <2>2
<1> HIDE DEF T
<1>6. h[Len(s)] = f[Len(s)]
  <2>1. \A i \in 0 .. Len(s) : i \in T
    BY <1>0, <1>4, <1>5, IntervalInduction
  <2> QED BY <1>0, <2>1 DEF T
<1>7. h[Len(t)] = Utf8Next(h[Len(t) - 1], t[Len(t)]) /\ Len(t) - 1 = Len(s)
  BY <1>0, <1>3
<1>8. h[Len(t)] = Utf8Next(f[Len(s)], e)
  BY <1>0, <1>6, <1>7
<1> QED BY <1>2, <1>8 DEF t

(* and the empty string is whole. *)
LEMMA Utf8LeftEmpty == Utf8Left(<<>>) = 0
<1> DEFINE s == <<>>
           f == CHOOSE f : IsUtf8Left(f, s)
<1>1. s \in Seq({}) /\ Len(s) = 0
  OBVIOUS
<1> HIDE DEF s
<1>2. IsUtf8Left(f, s)
  BY <1>1, Utf8LeftExists
<1>3. Utf8Left(s) = f[Len(s)]
  BY DEF Utf8Left, IsUtf8Left
<1> HIDE DEF f
<1>4. f[0] = 0
  BY <1>1, <1>2 DEF IsUtf8Left
<1> QED BY <1>1, <1>3, <1>4 DEF s

-----------------------------------------------------------------------------
(* The transition table *)

(* The rows of the table, by what they read. *)
LEMMA StatesAre ==
  States = Between \cup Strings \cup Ints \cup Floats \cup Literals \cup Comments
BY DEF States, state_transition_table, Between, Strings, Ints, Floats, Literals, Comments

(* The states in which a number may end; json.c repeats the row of         *)
(* STATE_OK in theirs.                                                     *)
Ending == {"Z0", "I0", "R2", "X3"}

(* The characters that stand after a backslash. *)
Escapable == {C_QUOTE, "\\", "/", "b", "f", "n", "r", "t"}

(* The letters of true, false and null, one state each. *)
Spelt(st, c, n) ==
  \/ st = "T1" /\ c = "r" /\ n = "T2"
  \/ st = "T2" /\ c = "u" /\ n = "T3"
  \/ st = "T3" /\ c = "e" /\ n = "TR"
  \/ st = "F1" /\ c = "a" /\ n = "F2"
  \/ st = "F2" /\ c = "l" /\ n = "F3"
  \/ st = "F3" /\ c = "s" /\ n = "F4"
  \/ st = "F4" /\ c = "e" /\ n = "FA"
  \/ st = "N1" /\ c = "u" /\ n = "N2"
  \/ st = "N2" /\ c = "l" /\ n = "N3"
  \/ st = "N3" /\ c = "l" /\ n = "NU"

(* What a row of the table says of a character, and whether it says        *)
(* anything.                                                               *)
Row(f, c) == IF c \in DOMAIN f THEN f[c] ELSE "__"

Has(f, c) == c \in DOMAIN f

(* A row laid over another: ++ and On() read as rows. *)
LEMMA RowOver == \A f, g, c : Row(f ++ g, c) = IF Has(f, c) THEN Row(f, c) ELSE Row(g, c)
BY DEF ++, Row, Has

(* A row of ++ has an entry where one of the two has. *)
LEMMA DomOver == \A f, g, c : Has(f ++ g, c) <=> Has(f, c) \/ Has(g, c)
BY DEF ++, Has

(* On() has an entry for each of its characters, *)
LEMMA DomOn == \A S, n, c : Has(On(S, n), c) <=> c \in S
BY DEF On, Has

(* the same for all of them. *)
LEMMA RowOn == \A S, n, c : Row(On(S, n), c) = IF c \in S THEN n ELSE "__"
BY DEF On, Row

(* The transition table by the state or the action that a character leads  *)
(* to: that n is entered from st with a character of class c.              *)
Enters(st, c, n) ==
  \/ n \in Between /\ c \in White /\ st = n
  \/ n = "OK" /\ c \in White /\ st \in Ending
  \/ n = "CB" /\ c = "/" /\ st \in Between \cup {"Z0", "I0", "R2"}
  \/ n = "YB" /\ c = "#" /\ st \in Between \cup {"Z0", "I0", "R2"}
  \/ n = "OB" /\ c = C_LCURB /\ st \in {"GO", "_V", "_A"}
  \/ n = "AB" /\ c = "[" /\ st \in {"GO", "_V", "_A"}
  \/ n = "OE" /\ c = C_RCURB /\ st \in {"_O", "OK"} \cup Ending
  \/ n = "AE" /\ c = "]" /\ st \in {"_A", "OK"} \cup Ending
  \/ n = "SP" /\ c = C_COMMA /\ st \in {"OK"} \cup Ending
  \/ n = "KS" /\ c = ":" /\ st = "CO"
  \/ n = "_S" /\ c = C_QUOTE /\ st \in {"_O", "_K", "_V", "_A"}
  \/ n = "_S" /\ c \in All \ {C_QUOTE, "\\", "\n", "\t"} /\ st = "_S"
  \/ n = "SE" /\ c = C_QUOTE /\ st = "_S"
  \/ n = "E0" /\ c = "\\" /\ st = "_S"
  \/ n = "_S" /\ c \in Escapable /\ st = "E0"
  \/ n = "D2" /\ c = "\\" /\ st = "D1"
  \/ n = "U1" /\ c = "u" /\ st \in {"E0", "D2"}
  \/ n = "U2" /\ c \in Hex /\ st = "U1"
  \/ n = "U3" /\ c \in Hex /\ st = "U2"
  \/ n = "U4" /\ c \in Hex /\ st = "U3"
  \/ n = "UC" /\ c \in Hex /\ st = "U4"
  \/ n = "MX" /\ c = "-" /\ st \in {"_V", "_A"}
  \/ n = "ZX" /\ c = "0" /\ st \in {"_V", "_A"}
  \/ n = "IX" /\ c \in Digit \ {"0"} /\ st \in {"_V", "_A"}
  \/ n = "Z0" /\ c = "0" /\ st = "M0"
  \/ n = "I0" /\ c \in Digit /\ st \in {"M0", "I0"}
  \/ n = "DF" /\ c = "." /\ st \in {"Z0", "I0"}
  \/ n = "DE" /\ c \in {"e", "E"} /\ st = "I0"
  \/ n = "R2" /\ c \in Digit /\ st \in {"R1", "R2"}
  \/ n = "X1" /\ c \in {"e", "E"} /\ st = "R2"
  \/ n = "X2" /\ c \in Sign /\ st = "X1"
  \/ n = "X3" /\ c \in Digit /\ st \in {"X1", "X2", "X3"}
  \/ n = "T1" /\ c = "t" /\ st \in {"_V", "_A"}
  \/ n = "F1" /\ c = "f" /\ st \in {"_V", "_A"}
  \/ n = "N1" /\ c = "n" /\ st \in {"_V", "_A"}
  \/ Spelt(st, c, n)
  \/ n = "C2" /\ c = "*" /\ st = "C1"
  \/ n = "C2" /\ st \in {"C2", "C3"}
  \/ n = "C3" /\ c = "*" /\ st \in {"C2", "C3"}
  \/ n = "Y1" /\ c # "\n" /\ st = "Y1"
  \/ n = "CE" /\ c = "/" /\ st = "C3"
  \/ n = "CE" /\ c = "\n" /\ st = "Y1"

(* Every entry of state_transition_table is one of those. *)
LEMMA RowEnters ==
  ASSUME NEW st \in States, NEW c, NEW n, n = NextState(st, c), n # "__"
  PROVE  Enters(st, c, n)
<1> USE DEF Enters, Spelt, Between, Ending
<1>0. NextState(st, c) = Row(state_transition_table[st], c)
  BY DEF NextState, Row
<1>1. CASE st = "GO"
  <2>1. n = Row(Layout("GO") ++ On({C_LCURB}, "OB") ++ On({"["}, "AB"), c)
    BY <1>0, <1>1 DEF state_transition_table
  <2> QED BY <1>1, <2>1, RowOver, RowOn, DomOver, DomOn DEF Layout
<1>2. CASE st = "OK"
  <2>1. n = Row(Layout("OK") ++ EndOfItem, c)
    BY <1>0, <1>2 DEF state_transition_table
  <2> QED BY <1>2, <2>1, RowOver, RowOn, DomOver, DomOn DEF Layout, EndOfItem
<1>3. CASE st = "_O"
  <2>1. n = Row(Layout("_O") ++ On({C_RCURB}, "OE") ++ On({C_QUOTE}, "_S"), c)
    BY <1>0, <1>3 DEF state_transition_table
  <2> QED BY <1>3, <2>1, RowOver, RowOn, DomOver, DomOn DEF Layout
<1>4. CASE st = "_K"
  <2>1. n = Row(Layout("_K") ++ On({C_QUOTE}, "_S"), c)
    BY <1>0, <1>4 DEF state_transition_table
  <2> QED BY <1>4, <2>1, RowOver, RowOn, DomOver, DomOn DEF Layout
<1>5. CASE st = "CO"
  <2>1. n = Row(Layout("CO") ++ On({":"}, "KS"), c)
    BY <1>0, <1>5 DEF state_transition_table
  <2> QED BY <1>5, <2>1, RowOver, RowOn, DomOver, DomOn DEF Layout
<1>6. CASE st = "_V"
  <2>1. n = Row(Layout("_V") ++ BeginOfValue, c)
    BY <1>0, <1>6 DEF state_transition_table
  <2>2. n = IF c \in White THEN "_V" ELSE IF c = "/" THEN "CB" ELSE IF c = "#" THEN "YB"
          ELSE IF c = C_LCURB THEN "OB" ELSE IF c = "[" THEN "AB"
          ELSE IF c = C_QUOTE THEN "_S" ELSE IF c = "-" THEN "MX"
          ELSE IF c = "0" THEN "ZX" ELSE IF c \in Digit \ {"0"} THEN "IX"
          ELSE IF c = "f" THEN "F1" ELSE IF c = "n" THEN "N1"
          ELSE IF c = "t" THEN "T1" ELSE "__"
    BY <2>1, RowOver, RowOn, DomOver, DomOn DEF Layout, BeginOfValue
  <2> HIDE DEF Between
  <2>3. st \in Between
    BY <1>6 DEF Between
  <2> QED BY <1>6, <2>2, <2>3
<1>7. CASE st = "_A"
  <2>1. n = Row(Layout("_A") ++ BeginOfValue ++ On({"]"}, "AE"), c)
    BY <1>0, <1>7 DEF state_transition_table
  <2>2. n = IF c \in White THEN "_A" ELSE IF c = "/" THEN "CB" ELSE IF c = "#" THEN "YB"
          ELSE IF c = C_LCURB THEN "OB" ELSE IF c = "[" THEN "AB"
          ELSE IF c = C_QUOTE THEN "_S" ELSE IF c = "-" THEN "MX"
          ELSE IF c = "0" THEN "ZX" ELSE IF c \in Digit \ {"0"} THEN "IX"
          ELSE IF c = "f" THEN "F1" ELSE IF c = "n" THEN "N1" ELSE IF c = "t" THEN "T1"
          ELSE IF c = "]" THEN "AE" ELSE "__"
    BY <2>1, RowOver, RowOn, DomOver, DomOn DEF Layout, BeginOfValue
  <2> HIDE DEF Between
  <2>3. st \in Between
    BY <1>7 DEF Between
  <2> QED BY <1>7, <2>2, <2>3
<1>8. CASE st = "_S"
  <2>1. n = Row(On({C_QUOTE}, "SE") ++ On({"\\"}, "E0") ++ On(All \ {"\n", "\t"}, "_S"), c)
    BY <1>0, <1>8 DEF state_transition_table
  <2> QED BY <1>8, <2>1, RowOver, RowOn, DomOver, DomOn
<1>9. CASE st = "E0"
  <2>1. n = Row(On({C_QUOTE, "\\", "/", "b", "f", "n", "r", "t"}, "_S") ++ On({"u"}, "U1"), c)
    BY <1>0, <1>9 DEF state_transition_table
  <2> QED BY <1>9, <2>1, RowOver, RowOn, DomOver, DomOn DEF Escapable
<1>10. CASE st = "U1"
  <2>1. n = Row(On(Hex, "U2"), c)
    BY <1>0, <1>10 DEF state_transition_table
  <2> QED BY <1>10, <2>1, RowOver, RowOn, DomOver, DomOn
<1>11. CASE st = "U2"
  <2>1. n = Row(On(Hex, "U3"), c)
    BY <1>0, <1>11 DEF state_transition_table
  <2> QED BY <1>11, <2>1, RowOver, RowOn, DomOver, DomOn
<1>12. CASE st = "U3"
  <2>1. n = Row(On(Hex, "U4"), c)
    BY <1>0, <1>12 DEF state_transition_table
  <2> QED BY <1>12, <2>1, RowOver, RowOn, DomOver, DomOn
<1>13. CASE st = "U4"
  <2>1. n = Row(On(Hex, "UC"), c)
    BY <1>0, <1>13 DEF state_transition_table
  <2> QED BY <1>13, <2>1, RowOver, RowOn, DomOver, DomOn
<1>14. CASE st = "M0"
  <2>1. n = Row(On({"0"}, "Z0") ++ On(Digit, "I0"), c)
    BY <1>0, <1>14 DEF state_transition_table
  <2> QED BY <1>14, <2>1, RowOver, RowOn, DomOver, DomOn
<1>15. CASE st = "Z0"
  <2>1. n = Row(Layout("OK") ++ EndOfItem ++ On({"."}, "DF"), c)
    BY <1>0, <1>15 DEF state_transition_table
  <2> QED BY <1>15, <2>1, RowOver, RowOn, DomOver, DomOn DEF Layout, EndOfItem
<1>16. CASE st = "I0"
  <2>1. n = Row(Layout("OK") ++ EndOfItem ++ On({"."}, "DF") ++ On(Digit, "I0")
              ++ On({"e", "E"}, "DE"), c)
    BY <1>0, <1>16 DEF state_transition_table
  <2> QED BY <1>16, <2>1, RowOver, RowOn, DomOver, DomOn DEF Layout, EndOfItem
<1>17. CASE st = "R1"
  <2>1. n = Row(On(Digit, "R2"), c)
    BY <1>0, <1>17 DEF state_transition_table
  <2> QED BY <1>17, <2>1, RowOver, RowOn, DomOver, DomOn
<1>18. CASE st = "R2"
  <2>1. n = Row(Layout("OK") ++ EndOfItem ++ On(Digit, "R2") ++ On({"e", "E"}, "X1"), c)
    BY <1>0, <1>18 DEF state_transition_table
  <2> QED BY <1>18, <2>1, RowOver, RowOn, DomOver, DomOn DEF Layout, EndOfItem
<1>19. CASE st = "X1"
  <2>1. n = Row(On(Sign, "X2") ++ On(Digit, "X3"), c)
    BY <1>0, <1>19 DEF state_transition_table
  <2> QED BY <1>19, <2>1, RowOver, RowOn, DomOver, DomOn
<1>20. CASE st = "X2"
  <2>1. n = Row(On(Digit, "X3"), c)
    BY <1>0, <1>20 DEF state_transition_table
  <2> QED BY <1>20, <2>1, RowOver, RowOn, DomOver, DomOn
<1>21. CASE st = "X3"
  <2>1. n = Row(On(White, "OK") ++ EndOfItem ++ On(Digit, "X3"), c)
    BY <1>0, <1>21 DEF state_transition_table
  <2> QED BY <1>21, <2>1, RowOver, RowOn, DomOver, DomOn DEF EndOfItem
<1>22. CASE st = "T1"
  <2>1. n = Row(On({"r"}, "T2"), c)
    BY <1>0, <1>22 DEF state_transition_table
  <2> QED BY <1>22, <2>1, RowOver, RowOn, DomOver, DomOn
<1>23. CASE st = "T2"
  <2>1. n = Row(On({"u"}, "T3"), c)
    BY <1>0, <1>23 DEF state_transition_table
  <2> QED BY <1>23, <2>1, RowOver, RowOn, DomOver, DomOn
<1>24. CASE st = "T3"
  <2>1. n = Row(On({"e"}, "TR"), c)
    BY <1>0, <1>24 DEF state_transition_table
  <2> QED BY <1>24, <2>1, RowOver, RowOn, DomOver, DomOn
<1>25. CASE st = "F1"
  <2>1. n = Row(On({"a"}, "F2"), c)
    BY <1>0, <1>25 DEF state_transition_table
  <2> QED BY <1>25, <2>1, RowOver, RowOn, DomOver, DomOn
<1>26. CASE st = "F2"
  <2>1. n = Row(On({"l"}, "F3"), c)
    BY <1>0, <1>26 DEF state_transition_table
  <2> QED BY <1>26, <2>1, RowOver, RowOn, DomOver, DomOn
<1>27. CASE st = "F3"
  <2>1. n = Row(On({"s"}, "F4"), c)
    BY <1>0, <1>27 DEF state_transition_table
  <2> QED BY <1>27, <2>1, RowOver, RowOn, DomOver, DomOn
<1>28. CASE st = "F4"
  <2>1. n = Row(On({"e"}, "FA"), c)
    BY <1>0, <1>28 DEF state_transition_table
  <2> QED BY <1>28, <2>1, RowOver, RowOn, DomOver, DomOn
<1>29. CASE st = "N1"
  <2>1. n = Row(On({"u"}, "N2"), c)
    BY <1>0, <1>29 DEF state_transition_table
  <2> QED BY <1>29, <2>1, RowOver, RowOn, DomOver, DomOn
<1>30. CASE st = "N2"
  <2>1. n = Row(On({"l"}, "N3"), c)
    BY <1>0, <1>30 DEF state_transition_table
  <2> QED BY <1>30, <2>1, RowOver, RowOn, DomOver, DomOn
<1>31. CASE st = "N3"
  <2>1. n = Row(On({"l"}, "NU"), c)
    BY <1>0, <1>31 DEF state_transition_table
  <2> QED BY <1>31, <2>1, RowOver, RowOn, DomOver, DomOn
<1>32. CASE st = "C1"
  <2>1. n = Row(On({"*"}, "C2"), c)
    BY <1>0, <1>32 DEF state_transition_table
  <2> QED BY <1>32, <2>1, RowOver, RowOn, DomOver, DomOn
<1>33. CASE st = "C2"
  <2>1. n = Row(On({"*"}, "C3") ++ On(All, "C2"), c)
    BY <1>0, <1>33 DEF state_transition_table
  <2> QED BY <1>33, <2>1, RowOver, RowOn, DomOver, DomOn
<1>34. CASE st = "C3"
  <2>1. n = Row(On({"/"}, "CE") ++ On({"*"}, "C3") ++ On(All, "C2"), c)
    BY <1>0, <1>34 DEF state_transition_table
  <2> QED BY <1>34, <2>1, RowOver, RowOn, DomOver, DomOn
<1>35. CASE st = "Y1"
  <2>1. n = Row(On({"\n"}, "CE") ++ On(All, "Y1"), c)
    BY <1>0, <1>35 DEF state_transition_table
  <2> QED BY <1>35, <2>1, RowOver, RowOn, DomOver, DomOn
<1>36. CASE st = "D1"
  <2>1. n = Row(On({"\\"}, "D2"), c)
    BY <1>0, <1>36 DEF state_transition_table
  <2> QED BY <1>36, <2>1, RowOver, RowOn, DomOver, DomOn
<1>37. CASE st = "D2"
  <2>1. n = Row(On({"u"}, "U1"), c)
    BY <1>0, <1>37 DEF state_transition_table
  <2> QED BY <1>37, <2>1, RowOver, RowOn, DomOver, DomOn
<1> QED BY <1>1, <1>2, <1>3, <1>4, <1>5, <1>6, <1>7, <1>8, <1>9, <1>10, <1>11, <1>12, <1>13,
           <1>14, <1>15, <1>16, <1>17, <1>18, <1>19, <1>20, <1>21, <1>22, <1>23, <1>24, <1>25,
           <1>26, <1>27, <1>28, <1>29, <1>30, <1>31, <1>32, <1>33, <1>34, <1>35, <1>36, <1>37,
           StatesAre DEF Strings, Ints, Floats, Literals, Comments

-----------------------------------------------------------------------------
(* Types and limits *)

(* A parser whose fields have their types and whose lengths are in their   *)
(* limits.                                                                 *)
Fits(c, p) == p \in Parsers(c) /\ Room(p)

(* The types of the fields. *)
LEMMA Fields ==
  ASSUME NEW c, NEW p \in Parsers(c)
  PROVE  /\ p.config = c /\ p.state \in States /\ p.save_state \in States /\ p.type \in Pending
         /\ p.expecting_key \in BOOLEAN /\ p.unicode_multi \in BOOLEAN
         /\ p.utf8_multibyte_left \in 0 .. 3 /\ p.stack \in Seq({"OBJECT", "ARRAY"})
         /\ p.buffer \in Seq(Char) /\ p.ret \in Returned
         /\ p.out \in Seq([type : ItemTypes, data : Seq(Char)])
         /\ p.stack_size \in Nat \ {0} /\ p.buffer_size \in Nat
BY DEF Parsers

(* The fields that no length depends on may take any value of their type. *)
LEMMA SetFits ==
  ASSUME NEW c, NEW p, Fits(c, p)
  PROVE  /\ \A e \in Returned : Fits(c, [p EXCEPT !.ret = e])
         /\ \A s \in States : /\ Fits(c, [p EXCEPT !.state = s])
                             /\ Fits(c, [p EXCEPT !.save_state = s])
         /\ \A s \in States, t \in Pending : Fits(c, [p EXCEPT !.state = s, !.type = t])
         /\ \A k \in BOOLEAN : /\ Fits(c, [p EXCEPT !.expecting_key = k])
                              /\ Fits(c, [p EXCEPT !.unicode_multi = k])
         /\ \A s \in States, k \in BOOLEAN :
              Fits(c, [p EXCEPT !.expecting_key = k, !.state = s])
         /\ \A n \in 0 .. 3 : Fits(c, [p EXCEPT !.utf8_multibyte_left = n])
<1> USE DEF Fits, Room, Parsers
<1>1. \A e \in Returned : Fits(c, [p EXCEPT !.ret = e])
  OBVIOUS
<1>2. \A s \in States : Fits(c, [p EXCEPT !.state = s])
  OBVIOUS
<1>3. \A s \in States : Fits(c, [p EXCEPT !.save_state = s])
  OBVIOUS
<1>4. \A s \in States, t \in Pending : Fits(c, [p EXCEPT !.state = s, !.type = t])
  OBVIOUS
<1>5. \A k \in BOOLEAN : Fits(c, [p EXCEPT !.expecting_key = k])
  OBVIOUS
<1>6. \A s \in States, k \in BOOLEAN : Fits(c, [p EXCEPT !.expecting_key = k, !.state = s])
  OBVIOUS
<1>7. \A k \in BOOLEAN : Fits(c, [p EXCEPT !.unicode_multi = k])
  OBVIOUS
<1>8. \A n \in 0 .. 3 : Fits(c, [p EXCEPT !.utf8_multibyte_left = n])
  OBVIOUS
<1> HIDE DEF Fits, Room, Parsers
<1> QED BY <1>1, <1>2, <1>3, <1>4, <1>5, <1>6, <1>7, <1>8

(* An error changes the return code alone. *)
LEMMA FailFits ==
  ASSUME NEW c, NEW p, Fits(c, p), NEW e \in Returned
  PROVE  Fits(c, Fail(p, e))
BY DEF Fits, Room, Parsers, Fail

(* p with another buffer. *)
Sized(p, b, n) == [p EXCEPT !.buffer = b, !.buffer_size = n]

(* A call of the callback. *)
LEMMA OutFits ==
  ASSUME NEW c, NEW p, Fits(c, p), NEW item \in [type : ItemTypes, data : Seq(Char)]
  PROVE  Fits(c, [p EXCEPT !.out = Append(p.out, item)])
<1> DEFINE S == [type : ItemTypes, data : Seq(Char)]
<1>1. p \in Parsers(c) /\ Room(p) /\ p.out \in Seq(S) /\ item \in S
  BY Fields DEF Fits
<1> HIDE DEF S
<1>2. Append(p.out, item) \in Seq(S)
  BY <1>1
<1> QED BY <1>1, <1>2 DEF Fits, Room, Parsers, S

(* do_callback() and do_callback_withbuf() report an item and change       *)
(* nothing else.                                                           *)
LEMMA CallbackFits ==
  ASSUME NEW c, NEW p, Fits(c, p), NEW t \in ItemTypes
  PROVE  /\ Fits(c, do_callback(p, t)) /\ Fits(c, do_callback_withbuf(p, t))
<1>1. [type |-> t, data |-> <<>>] \in [type : ItemTypes, data : Seq(Char)]
  OBVIOUS
<1>2. [type |-> t, data |-> p.buffer] \in [type : ItemTypes, data : Seq(Char)]
  BY Fields DEF Fits
<1> QED BY <1>1, <1>2, OutFits DEF do_callback, do_callback_withbuf

(* A buffer that is shorter than its allocation fits. *)
LEMMA BufferFits ==
  ASSUME NEW c, NEW p, Fits(c, p), NEW b \in Seq(Char), NEW n \in Nat, Len(b) < n,
         c.max_data > 0 => n <= c.max_data
  PROVE  Fits(c, Sized(p, b, n))
<1>1. p \in Parsers(c) /\ Room(p)
  BY DEF Fits
<1>2. Sized(p, b, n) \in Parsers(c)
  BY <1>1 DEF Parsers, Sized
<1> QED BY <1>1, <1>2 DEF Fits, Room, Parsers, Sized

(* state_push() grows the stack within max_nesting, or fails. *)
LEMMA StatePushFits ==
  ASSUME NEW c, IsConfig(c), NEW p, Fits(c, p), NEW m \in {"OBJECT", "ARRAY"}
  PROVE  Fits(c, state_push(p, m))
<1>1. /\ p \in Parsers(c) /\ Room(p)
      /\ p.stack \in Seq({"OBJECT", "ARRAY"}) /\ Append(p.stack, m) \in Seq({"OBJECT", "ARRAY"})
      /\ Len(p.stack) \in Nat /\ Len(Append(p.stack, m)) = Len(p.stack) + 1
      /\ p.stack_size \in Nat \ {0} /\ 2 * p.stack_size \in Nat \ {0}
      /\ p.config = c /\ c.max_nesting \in Nat
  BY DEF Parsers, IsConfig, Fits
<1>2. CASE Len(p.stack) < p.stack_size
  <2>1. state_push(p, m) = [p EXCEPT !.stack = Append(p.stack, m)]
    BY <1>2 DEF state_push
  <2>2. state_push(p, m) \in Parsers(c)
    BY <1>1, <2>1 DEF Parsers
  <2> QED BY <1>1, <1>2, <2>1, <2>2 DEF Room, Fits
<1>3. CASE ~(Len(p.stack) < p.stack_size) /\ p.config.max_nesting # 0
  <2>1. state_push(p, m) = Fail(p, "NESTING_LIMIT")
    BY <1>3 DEF state_push
  <2> QED BY <2>1, FailFits DEF Returned
<1>4. CASE ~(Len(p.stack) < p.stack_size) /\ p.config.max_nesting = 0
  <2>1. state_push(p, m) = [p EXCEPT !.stack = Append(p.stack, m), !.stack_size = 2 * p.stack_size]
    BY <1>4 DEF state_push
  <2>2. state_push(p, m) \in Parsers(c)
    BY <1>1, <2>1 DEF Parsers
  <2>3. Len(p.stack) + 1 <= 2 * p.stack_size
    BY <1>1, <1>4 DEF Room
  <2> QED BY <1>1, <1>4, <2>1, <2>2, <2>3 DEF Room, Fits
<1> QED BY <1>2, <1>3, <1>4

(* state_pop() shortens the stack, or fails. *)
LEMMA StatePopFits ==
  ASSUME NEW c, NEW p, Fits(c, p), NEW m
  PROVE  Fits(c, state_pop(p, m))
<1> DEFINE q == [p EXCEPT !.stack = SubSeq(p.stack, 1, Len(p.stack) - 1)]
<1>1. /\ p \in Parsers(c) /\ Room(p) /\ p.stack \in Seq({"OBJECT", "ARRAY"}) 
  BY DEF Parsers, Fits
<1>2. CASE p.stack = <<>>
  BY <1>2, FailFits DEF state_pop, Returned
<1>3. CASE p.stack # <<>>
  <2>1. /\ SubSeq(p.stack, 1, Len(p.stack) - 1) \in Seq({"OBJECT", "ARRAY"}) 
        /\ Len(p.stack) \in Nat /\ Len(SubSeq(p.stack, 1, Len(p.stack) - 1)) = Len(p.stack) - 1
    BY <1>1, <1>3
  <2>2. q \in Parsers(c)
    BY <1>1, <2>1 DEF Parsers
  <2>3. Room(q)
    BY <1>1, <2>1 DEF Room, Parsers
  <2>4. Fits(c, q)
    BY <2>2, <2>3 DEF Fits
  <2>5. state_pop(p, m) = q \/ state_pop(p, m) = Fail(q, "POP_UNEXPECTED_MODE")
    BY <1>3 DEF state_pop
  <2> HIDE DEF q
  <2> QED BY <2>4, <2>5, FailFits DEF Returned
<1> QED BY <1>2, <1>3

(* buffer_push() grows the buffer within max_data, or fails. *)
LEMMA BufferPushFits ==
  ASSUME NEW c, IsConfig(c), NEW p, Fits(c, p), p.ret = "0", NEW ch \in Char
  PROVE  Fits(c, buffer_push(p, ch))
<1>1. /\ p \in Parsers(c) /\ Room(p)
      /\ p.buffer \in Seq(Char) /\ Append(p.buffer, ch) \in Seq(Char)
      /\ Len(p.buffer) \in Nat /\ Len(Append(p.buffer, ch)) = Len(p.buffer) + 1
      /\ p.buffer_size \in Nat /\ Len(p.buffer) < p.buffer_size
      /\ p.config = c /\ c.max_data \in Nat
      /\ c.max_data > 0 => p.buffer_size <= c.max_data
  BY DEF Parsers, IsConfig, Fits, Room
<1>2. CASE ~(Len(p.buffer) + 1 >= p.buffer_size)
  <2>1. buffer_push(p, ch) = Sized(p, Append(p.buffer, ch), p.buffer_size)
    BY <1>1, <1>2 DEF buffer_push, Chk, Sized, Parsers
  <2>2. Len(Append(p.buffer, ch)) < p.buffer_size
    BY <1>1, <1>2
  <2> QED BY <1>1, <2>1, <2>2, BufferFits
<1>3. CASE Len(p.buffer) + 1 >= p.buffer_size
  <2>1. CASE c.max_data > 0 /\ p.buffer_size = c.max_data
    <3>1. buffer_push(p, ch) = Fail(p, "DATA_LIMIT")
      BY <1>1, <1>3, <2>1 DEF buffer_push, buffer_grow, Fail, Chk
    <3> QED BY <3>1, FailFits DEF Returned
  <2>2. CASE ~(c.max_data > 0 /\ p.buffer_size = c.max_data)
    <3> DEFINE n == IF c.max_data > 0 /\ 2 * p.buffer_size > c.max_data THEN c.max_data
                    ELSE 2 * p.buffer_size
    <3>1. n \in Nat /\ Len(p.buffer) + 1 < n /\ (c.max_data > 0 => n <= c.max_data)
      BY <1>1, <1>3, <2>2
    <3>2. buffer_push(p, ch) = Sized(p, Append(p.buffer, ch), n)
      BY <1>1, <1>3, <2>2 DEF buffer_push, buffer_grow, Fail, Chk, Parsers, Sized
    <3> HIDE DEF n
    <3> QED BY <1>1, <3>1, <3>2, BufferFits
  <2> QED BY <2>1, <2>2
<1> QED BY <1>2, <1>3

(* do_buffer() reports and empties the buffer. *)
LEMMA DoBufferFits ==
  ASSUME NEW c, NEW p, Fits(c, p)
  PROVE  Fits(c, do_buffer(p))
<1> DEFINE q == IF p.type # "NONE" THEN do_callback_withbuf(p, p.type) ELSE p
<1>1. p.type \in Pending
  BY Fields DEF Fits
<1>2. p.type # "NONE" => p.type \in ItemTypes
  BY <1>1 DEF Pending, ItemTypes
<1>3. Fits(c, q)
  BY <1>2, CallbackFits
<1>4. do_buffer(p) = [q EXCEPT !.buffer = <<>>]
  BY DEF do_buffer
<1> HIDE DEF q
<1>5. do_buffer(p) = Sized(q, <<>>, q.buffer_size)
  BY <1>3, <1>4 DEF Sized, Fits, Parsers
<1>6. /\ q.buffer_size \in Nat /\ Len(<<>>) < q.buffer_size /\ <<>> \in Seq(Char)
      /\ c.max_data > 0 => q.buffer_size <= c.max_data
  BY <1>3, Fields DEF Fits, Room
<1> QED BY <1>3, <1>5, <1>6, BufferFits

(* A code point is one to four bytes. *)
LEMMA Utf8BytesAre ==
  ASSUME NEW k \in 1 .. 4
  PROVE  Utf8Bytes(k) \in Seq(Char) /\ Len(Utf8Bytes(k)) <= 4
<1>1. {"<1>", "<2>", "<3>", "<4>", "<c>"} \subseteq Char
  BY DEF Char, Bytes
<1>2. CASE k = 1
  BY <1>1, <1>2 DEF Utf8Bytes
<1>3. CASE k = 2
  BY <1>1, <1>3 DEF Utf8Bytes
<1>4. CASE k = 3
  BY <1>1, <1>4 DEF Utf8Bytes
<1>5. CASE k = 4
  BY <1>1, <1>5 DEF Utf8Bytes
<1> QED BY <1>2, <1>3, <1>4, <1>5

(* The four digits of an escape are replaced by at most four bytes. *)
Decoded(p, bytes, multi) ==
  [p EXCEPT !.buffer = SubSeq(p.buffer, 1, Len(p.buffer) - 4) \o bytes,
            !.unicode_multi = multi]

(* p without the four digits of an escape. *)
Undigited(p) == [p EXCEPT !.buffer = SubSeq(p.buffer, 1, Len(p.buffer) - 4)]

(* The outcomes of decode_unicode_char(): bytes, the first half of a       *)
(* surrogate pair, or an error.                                            *)
LEMMA DecodeCases ==
  ASSUME NEW c, NEW p \in Parsers(c), p.ret = "0", Len(p.buffer) >= 4
  PROVE  \/ \E k \in 1 .. 4 : decode_unicode_char(p) = Decoded(p, Utf8Bytes(k), FALSE)
         \/ decode_unicode_char(p) = Decoded(p, <<>>, TRUE)
         \/ decode_unicode_char(p) = Fail(Undigited(p), "UNICODE_MISSING_LOW_SURROGATE")
         \/ decode_unicode_char(p) = Fail(Undigited(p), "UNICODE_UNEXPECTED_LOW_SURROGATE")
<1> DEFINE n == Len(p.buffer) - 4
           h == SubSeq(p.buffer, n + 1, n + 4)
           q == [p EXCEPT !.buffer = SubSeq(p.buffer, 1, n)]
           Put(k) == [q EXCEPT !.buffer = q.buffer \o Utf8Bytes(k), !.unicode_multi = FALSE]
<1>1. ASSUME NEW k \in 1 .. 4 PROVE Put(k) = Decoded(p, Utf8Bytes(k), FALSE)
  <2>1. Decoded(p, Utf8Bytes(k), FALSE) = [p EXCEPT !.buffer = SubSeq(p.buffer, 1, n) \o Utf8Bytes(k),
                                         !.unicode_multi = FALSE]
    BY DEF Decoded
  <2> QED BY <2>1 DEF Parsers
<1>2. q = Undigited(p)
  BY DEF Undigited
<1>3. [q EXCEPT !.unicode_multi = TRUE] = Decoded(p, <<>>, TRUE)
  <2>1. SubSeq(p.buffer, 1, n) \o <<>> = SubSeq(p.buffer, 1, n)
    BY Fields
  <2> QED BY <2>1 DEF Decoded, Parsers
<1>4. \/ \E k \in 1 .. 4 : decode_unicode_char(p) = Put(k)
      \/ decode_unicode_char(p) = [q EXCEPT !.unicode_multi = TRUE]
      \/ decode_unicode_char(p) = Fail(q, "UNICODE_MISSING_LOW_SURROGATE")
      \/ decode_unicode_char(p) = Fail(q, "UNICODE_UNEXPECTED_LOW_SURROGATE")
  <2> DEFINE low == IsLowSurrogate(h)
             high == IsHighSurrogate(h)
  <2>1. decode_unicode_char(p) =
          IF p.unicode_multi
            THEN IF low THEN Put(4) ELSE Fail(q, "UNICODE_MISSING_LOW_SURROGATE")
          ELSE IF Below0x80(h) THEN Put(1)
          ELSE IF low THEN Fail(q, "UNICODE_UNEXPECTED_LOW_SURROGATE")
          ELSE IF high THEN [q EXCEPT !.unicode_multi = TRUE]
          ELSE Put(IF Below0x800(h) THEN 2 ELSE 3)
    BY DEF decode_unicode_char
  <2> HIDE DEF low, high, Put, q, h
  <2>2. 1 \in 1 .. 4 /\ 2 \in 1 .. 4 /\ 3 \in 1 .. 4 /\ 4 \in 1 .. 4
    OBVIOUS
  <2> QED BY <2>1, <2>2
<1> HIDE DEF Put, q, h
<1> QED BY <1>1, <1>2, <1>3, <1>4

(* The digits leave room for the bytes: nothing is grown. *)
LEMMA DecodedFits ==
  ASSUME NEW c, NEW p, Fits(c, p), Len(p.buffer) >= 4,
         NEW bytes \in Seq(Char), Len(bytes) <= 4, NEW multi \in BOOLEAN
  PROVE  Fits(c, Decoded(p, bytes, multi))
<1> DEFINE b == SubSeq(p.buffer, 1, Len(p.buffer) - 4) \o bytes
           q == Sized(p, b, p.buffer_size)
<1>1. /\ p \in Parsers(c) /\ p.buffer \in Seq(Char) /\ Len(p.buffer) \in Nat
      /\ p.buffer_size \in Nat /\ Len(p.buffer) < p.buffer_size
      /\ c.max_data > 0 => p.buffer_size <= c.max_data
  BY Fields DEF Fits, Room
<1>2. b \in Seq(Char) /\ Len(b) < p.buffer_size
  <2>1. /\ SubSeq(p.buffer, 1, Len(p.buffer) - 4) \in Seq(Char)
        /\ Len(SubSeq(p.buffer, 1, Len(p.buffer) - 4)) = Len(p.buffer) - 4
    BY <1>1
  <2> QED BY <1>1, <2>1
<1> HIDE DEF b
<1>3. Fits(c, q)
  BY <1>1, <1>2, BufferFits
<1>4. Decoded(p, bytes, multi) = [q EXCEPT !.unicode_multi = multi]
  BY <1>1 DEF Decoded, Sized, Parsers, b
<1> HIDE DEF q
<1> QED BY <1>3, <1>4 DEF Fits, Room, Parsers

(* Nor when they are taken away. *)
LEMMA UndigitedFits ==
  ASSUME NEW c, NEW p, Fits(c, p), Len(p.buffer) >= 4
  PROVE  Fits(c, Undigited(p))
<1> DEFINE b == SubSeq(p.buffer, 1, Len(p.buffer) - 4)
<1>1. /\ p \in Parsers(c) /\ p.buffer \in Seq(Char) /\ Len(p.buffer) \in Nat
      /\ p.buffer_size \in Nat /\ Len(p.buffer) < p.buffer_size
      /\ c.max_data > 0 => p.buffer_size <= c.max_data
  BY Fields DEF Fits, Room
<1>2. b \in Seq(Char) /\ Len(b) < p.buffer_size
  BY <1>1
<1>3. Undigited(p) = Sized(p, b, p.buffer_size)
  BY <1>1 DEF Undigited, Sized, Parsers
<1> HIDE DEF b
<1> QED BY <1>1, <1>2, <1>3, BufferFits

(* decode_unicode_char() stays in the buffer. *)
LEMMA DecodeFits ==
  ASSUME NEW c, NEW p, Fits(c, p), p.ret = "0", Len(p.buffer) >= 4
  PROVE  Fits(c, decode_unicode_char(p))
<1>1. p \in Parsers(c)
  BY DEF Fits
<1>2. CASE \E k \in 1 .. 4 : decode_unicode_char(p) = Decoded(p, Utf8Bytes(k), FALSE)
  <2>1. PICK k \in 1 .. 4 : decode_unicode_char(p) = Decoded(p, Utf8Bytes(k), FALSE)
    BY <1>2
  <2>2. \A j \in 1 .. 4 : Utf8Bytes(j) \in Seq(Char) /\ Len(Utf8Bytes(j)) <= 4
    BY Utf8BytesAre
  <2>3. FALSE \in BOOLEAN
    OBVIOUS
  <2> HIDE DEF Utf8Bytes
  <2> QED BY <2>1, <2>2, <2>3, DecodedFits
<1>3. CASE decode_unicode_char(p) = Decoded(p, <<>>, TRUE)
  <2>1. <<>> \in Seq(Char) /\ Len(<<>>) <= 4
    OBVIOUS
  <2> QED BY <1>3, <2>1, DecodedFits
<1>4. CASE \/ decode_unicode_char(p) = Fail(Undigited(p), "UNICODE_MISSING_LOW_SURROGATE")
           \/ decode_unicode_char(p) = Fail(Undigited(p), "UNICODE_UNEXPECTED_LOW_SURROGATE")
  BY <1>4, UndigitedFits, FailFits DEF Returned
<1> QED BY <1>1, <1>2, <1>3, <1>4, DecodeCases

(* Every action keeps the fields in their types and the lengths in their   *)
(* limits, whether it succeeds or not.                                     *)
LEMMA ActionFits ==
  ASSUME NEW c, IsConfig(c), NEW p, Fits(c, p), NEW action, p.ret = "0",
         action = "UC" => Len(p.buffer) >= 4
  PROVE  Fits(c, Call(action, p))
<1>0. /\ "OK" \in States /\ "CO" \in States /\ "_K" \in States /\ "_V" \in States
      /\ "_S" \in States /\ "D1" \in States
      /\ p.state \in States /\ p.save_state \in States /\ p.config = c
      /\ {"OBJECT_BEGIN", "OBJECT_END", "ARRAY_BEGIN", "ARRAY_END", "KEY", "STRING"}
           \subseteq ItemTypes
  BY StatesAre, Fields DEF Fits, Between, Strings, ItemTypes, Opening, Closing
<1>1. Fits(c, act_sp(p))
  <2>1. Fits(c, Fail(p, "COMMA_OUT_OF_STRUCTURE"))
    BY FailFits DEF Returned
  <2>2. Fits(c, [p EXCEPT !.expecting_key = TRUE, !.state = "_K"])
    BY <1>0 DEF Fits, Room, Parsers
  <2>3. Fits(c, [p EXCEPT !.state = "_V"])
    BY <1>0 DEF Fits, Room, Parsers
  <2> QED BY <2>1, <2>2, <2>3 DEF act_sp
<1>2. Fits(c, act_ab(p))
  BY <1>0, CallbackFits, StatePushFits DEF act_ab
<1>3. Fits(c, act_ae(p))
  <2>1. Fits(c, state_pop(p, "ARRAY"))
    BY StatePopFits
  <2> QED BY <1>0, <2>1, CallbackFits DEF act_ae, Chk
<1>4. Fits(c, act_ob(p))
  <2> DEFINE q == state_push(do_callback(p, "OBJECT_BEGIN"), "OBJECT")
  <2>1. Fits(c, q)
    BY <1>0, CallbackFits, StatePushFits
  <2>2. act_ob(p) = IF q.ret = "0" THEN [q EXCEPT !.expecting_key = TRUE] ELSE q
    BY DEF act_ob, Chk
  <2> HIDE DEF q
  <2>3. Fits(c, [q EXCEPT !.expecting_key = TRUE])
    BY <2>1 DEF Fits, Room, Parsers
  <2> QED BY <2>1, <2>2, <2>3
<1>5. Fits(c, act_oe(p))
  <2> DEFINE q == state_pop(p, "OBJECT")
             d == do_callback(q, "OBJECT_END")
  <2>1. Fits(c, q)
    BY StatePopFits
  <2>2. Fits(c, d)
    BY <1>0, <2>1, CallbackFits
  <2>3. act_oe(p) = IF q.ret = "0" THEN [d EXCEPT !.expecting_key = FALSE] ELSE q
    BY DEF act_oe, Chk
  <2> HIDE DEF q, d
  <2>4. Fits(c, [d EXCEPT !.expecting_key = FALSE])
    BY <2>2 DEF Fits, Room, Parsers
  <2> QED BY <2>1, <2>3, <2>4
<1>6. Fits(c, act_cb(p)) /\ Fits(c, act_yb(p))
  <2>1. Fits(c, Fail(p, "COMMENT_NOT_ALLOWED"))
    BY FailFits DEF Returned
  <2>2. Fits(c, [p EXCEPT !.save_state = p.state])
    BY <1>0 DEF Fits, Room, Parsers
  <2> QED BY <2>1, <2>2 DEF act_cb, act_yb
<1>7. Fits(c, act_ce(p))
  <2> DEFINE s == IF p.save_state \in {"GO", "OK", "_O", "_K", "CO", "_V", "_A"}
                  THEN p.save_state ELSE "OK"
  <2>1. s \in States
    BY <1>0
  <2>2. act_ce(p) = [p EXCEPT !.state = s]
    BY DEF act_ce
  <2> HIDE DEF s
  <2> QED BY <2>1, <2>2 DEF Fits, Room, Parsers
<1>8. Fits(c, act_se(p))
  <2> DEFINE d == do_callback_withbuf(p, IF p.expecting_key THEN "KEY" ELSE "STRING")
             s == IF p.expecting_key THEN "CO" ELSE "OK"
             q == Sized(d, <<>>, d.buffer_size)
  <2>1. Fits(c, d)
    BY <1>0, CallbackFits
  <2>2. act_se(p) = [d EXCEPT !.buffer = <<>>, !.state = s, !.expecting_key = FALSE]
    BY DEF act_se
  <2>3. s \in States
    BY <1>0
  <2> HIDE DEF d, s
  <2>4. Fits(c, q)
    <3>1. /\ d.buffer_size \in Nat /\ Len(<<>>) < d.buffer_size /\ <<>> \in Seq(Char)
          /\ c.max_data > 0 => d.buffer_size <= c.max_data
      BY <2>1, Fields DEF Fits, Room
    <3> QED BY <2>1, <3>1, BufferFits
  <2>5. act_se(p) = [q EXCEPT !.expecting_key = FALSE, !.state = s]
    BY <2>1, <2>2 DEF Fits, Parsers, Sized
  <2> HIDE DEF q
  <2> QED BY <2>3, <2>4, <2>5 DEF Fits, Room, Parsers
<1>9. action = "UC" => Fits(c, act_uc(p))
  <2> DEFINE q == decode_unicode_char(p)
             s == IF q.unicode_multi THEN "D1" ELSE "_S"
  <2> HAVE action = "UC"
  <2>1. Fits(c, q)
    BY DecodeFits
  <2>2. act_uc(p) = IF q.ret = "0" THEN [q EXCEPT !.state = s] ELSE q
    BY DEF act_uc, Chk
  <2>3. s \in States
    BY <1>0
  <2> HIDE DEF q, s
  <2>4. Fits(c, [q EXCEPT !.state = s])
    BY <2>1, <2>3 DEF Fits, Room, Parsers
  <2> QED BY <2>1, <2>2, <2>4
<1> QED BY <1>1, <1>2, <1>3, <1>4, <1>5, <1>6, <1>7, <1>8, <1>9 DEF Call

-----------------------------------------------------------------------------
(* What each action does *)

(* The items after do_buffer(). *)
Flushed(p) == IF p.type = "NONE" THEN p.out ELSE Append(p.out, [type |-> p.type, data |-> p.buffer])

(* An item without data. *)
Item(type) == [type |-> type, data |-> <<>>]

(* p after do_action(), with the fields that the invariants speak of. *)
Moved(q, p, state, type, stack, buffer, out) ==
  /\ q.state = state /\ q.type = type /\ q.stack = stack /\ q.buffer = buffer /\ q.out = out
  /\ q.utf8_multibyte_left = p.utf8_multibyte_left

(* do_buffer() reports what is pending and empties the buffer. *)
LEMMA FlushedIs ==
  ASSUME NEW c, NEW p, Fits(c, p)
  PROVE  /\ do_buffer(p) = [p EXCEPT !.out = Flushed(p), !.buffer = <<>>]
         /\ do_buffer(p) \in Parsers(c)
<1>1. do_buffer(p) = [p EXCEPT !.out = Flushed(p), !.buffer = <<>>]
  BY DEF do_buffer, do_callback_withbuf, Flushed, Parsers, Fits
<1>2. do_buffer(p) \in Parsers(c)
  BY DoBufferFits DEF Fits
<1> QED BY <1>1, <1>2

(* The ends of structures: act_ae() and act_oe() succeed only on the mode  *)
(* that they close.                                                        *)
LEMMA ActAE ==
  ASSUME NEW c, NEW b \in Parsers(c), b.ret = "0", act_ae(b).ret = "0"
  PROVE  /\ b.stack # <<>> /\ b.stack[Len(b.stack)] = "ARRAY"
         /\ act_ae(b) = [b EXCEPT !.stack = SubSeq(b.stack, 1, Len(b.stack) - 1),
                                  !.out = Append(b.out, Item("ARRAY_END"))]
<1> DEFINE q == [b EXCEPT !.stack = SubSeq(b.stack, 1, Len(b.stack) - 1)]
<1>1. b.stack # <<>>
  BY DEF act_ae, state_pop, Chk, Fail, Parsers
<1>2. b.stack[Len(b.stack)] = "ARRAY"
  BY <1>1 DEF act_ae, state_pop, Chk, Fail, Parsers
<1>3. state_pop(b, "ARRAY") = q /\ q.ret = "0"
  BY <1>1, <1>2 DEF state_pop, Parsers
<1>4. act_ae(b) = do_callback(q, "ARRAY_END")
  BY <1>3 DEF act_ae, Chk
<1> QED BY <1>1, <1>2, <1>4 DEF do_callback, Item, Parsers

(* The end of an object also ends its keys. *)
LEMMA ActOE ==
  ASSUME NEW c, NEW b \in Parsers(c), b.ret = "0", act_oe(b).ret = "0"
  PROVE  /\ b.stack # <<>> /\ b.stack[Len(b.stack)] = "OBJECT"
         /\ act_oe(b) = [b EXCEPT !.stack = SubSeq(b.stack, 1, Len(b.stack) - 1),
                                  !.out = Append(b.out, Item("OBJECT_END")),
                                  !.expecting_key = FALSE]
<1> DEFINE q == [b EXCEPT !.stack = SubSeq(b.stack, 1, Len(b.stack) - 1)]
<1>1. b.stack # <<>>
  BY DEF act_oe, state_pop, Chk, Fail, Parsers
<1>2. b.stack[Len(b.stack)] = "OBJECT"
  BY <1>1 DEF act_oe, state_pop, Chk, Fail, Parsers
<1>3. state_pop(b, "OBJECT") = q /\ q.ret = "0"
  BY <1>1, <1>2 DEF state_pop, Parsers
<1>4. act_oe(b) = [do_callback(q, "OBJECT_END") EXCEPT !.expecting_key = FALSE]
  BY <1>3 DEF act_oe, Chk
<1> QED BY <1>1, <1>2, <1>4 DEF do_callback, Item, Parsers

(* What do_action() does when it succeeds, one action at a time: the end   *)
(* of an object,                                                           *)
LEMMA DoOE ==
  ASSUME NEW c, NEW p, Fits(c, p), p.ret = "0", NEW q, q = do_action(p, "OE"), q.ret = "0"
  PROVE  /\ p.stack # <<>> /\ p.stack[Len(p.stack)] = "OBJECT"
         /\ Moved(q, p, "OK", "NONE", SubSeq(p.stack, 1, Len(p.stack) - 1), <<>>,
                  Append(Flushed(p), Item("OBJECT_END")))
         /\ q.expecting_key = FALSE /\ q.save_state = p.save_state
<1> DEFINE b == do_buffer(p)
           o == Flushed(p)
           s == SubSeq(p.stack, 1, Len(p.stack) - 1)
           a == act_oe(b)
<1>1. b = [p EXCEPT !.out = o, !.buffer = <<>>] /\ b \in Parsers(c)
  BY FlushedIs
<1>2. q = IF a.ret = "0" THEN [a EXCEPT !.state = "OK", !.type = "NONE"] ELSE a
  BY DEF do_action, Call, Chk, DoBuffer, Target, PendingType
<1> HIDE DEF b, o, a
<1>3. b.ret = "0" /\ b.stack = p.stack /\ b.out = o /\ a.ret = "0"
  BY <1>1, <1>2 DEF Fits, Parsers
<1>4. /\ p.stack # <<>> /\ p.stack[Len(p.stack)] = "OBJECT"
      /\ a = [b EXCEPT !.stack = s, !.out = Append(o, Item("OBJECT_END")),
                       !.expecting_key = FALSE]
  <2>1. act_oe(b).ret = "0"
    BY <1>3 DEF a
  <2>2. /\ b.stack # <<>> /\ b.stack[Len(b.stack)] = "OBJECT"
        /\ act_oe(b) = [b EXCEPT !.stack = SubSeq(b.stack, 1, Len(b.stack) - 1),
                          !.out = Append(b.out, Item("OBJECT_END")),
                       !.expecting_key = FALSE]
    BY ONLY <1>1, <1>3, <2>1, ActOE
  <2> QED BY <1>3, <2>2 DEF a
<1> HIDE DEF s
<1>5. q = [p EXCEPT !.stack = s, !.out = Append(o, Item("OBJECT_END")), !.buffer = <<>>,
                    !.state = "OK", !.type = "NONE", !.expecting_key = FALSE]
  BY <1>1, <1>2, <1>3, <1>4 DEF Parsers, Fits
<1> QED BY <1>4, <1>5 DEF Moved, Parsers, o, s, Fits

(* the end of an array, *)
LEMMA DoAE ==
  ASSUME NEW c, NEW p, Fits(c, p), p.ret = "0", NEW q, q = do_action(p, "AE"), q.ret = "0"
  PROVE  /\ p.stack # <<>> /\ p.stack[Len(p.stack)] = "ARRAY"
         /\ Moved(q, p, "OK", "NONE", SubSeq(p.stack, 1, Len(p.stack) - 1), <<>>,
                  Append(Flushed(p), Item("ARRAY_END")))
         /\ q.expecting_key = p.expecting_key /\ q.save_state = p.save_state
<1> DEFINE b == do_buffer(p)
           o == Flushed(p)
           s == SubSeq(p.stack, 1, Len(p.stack) - 1)
           a == act_ae(b)
<1>1. b = [p EXCEPT !.out = o, !.buffer = <<>>] /\ b \in Parsers(c)
  BY FlushedIs
<1>2. q = IF a.ret = "0" THEN [a EXCEPT !.state = "OK", !.type = "NONE"] ELSE a
  BY DEF do_action, Call, Chk, DoBuffer, Target, PendingType
<1> HIDE DEF b, o, a
<1>3. b.ret = "0" /\ b.stack = p.stack /\ b.out = o /\ a.ret = "0"
  BY <1>1, <1>2 DEF Fits, Parsers
<1>4. /\ p.stack # <<>> /\ p.stack[Len(p.stack)] = "ARRAY"
      /\ a = [b EXCEPT !.stack = s, !.out = Append(o, Item("ARRAY_END"))]
  <2>1. act_ae(b).ret = "0"
    BY <1>3 DEF a
  <2>2. /\ b.stack # <<>> /\ b.stack[Len(b.stack)] = "ARRAY"
        /\ act_ae(b) = [b EXCEPT !.stack = SubSeq(b.stack, 1, Len(b.stack) - 1),
                          !.out = Append(b.out, Item("ARRAY_END"))]
    BY ONLY <1>1, <1>3, <2>1, ActAE
  <2> QED BY <1>3, <2>2 DEF a
<1> HIDE DEF s
<1>5. q = [p EXCEPT !.stack = s, !.out = Append(o, Item("ARRAY_END")), !.buffer = <<>>,
                    !.state = "OK", !.type = "NONE"]
  BY <1>1, <1>2, <1>3, <1>4 DEF Parsers, Fits
<1> QED BY <1>4, <1>5 DEF Moved, Parsers, o, s, Fits

(* a comma, *)
LEMMA DoSP ==
  ASSUME NEW c, NEW p, Fits(c, p), p.ret = "0", NEW q, q = do_action(p, "SP"), q.ret = "0"
  PROVE  /\ p.stack # <<>>
         /\ Moved(q, p, IF p.stack[Len(p.stack)] = "OBJECT" THEN "_K" ELSE "_V", "NONE",
                  p.stack, <<>>, Flushed(p))
         /\ p.stack[Len(p.stack)] = "OBJECT" => q.expecting_key = TRUE
         /\ p.stack[Len(p.stack)] # "OBJECT" => q.expecting_key = p.expecting_key
         /\ q.save_state = p.save_state
<1> DEFINE b == do_buffer(p)
           o == Flushed(p)
           a == act_sp(b)
<1>1. b = [p EXCEPT !.out = o, !.buffer = <<>>] /\ b \in Parsers(c)
  BY FlushedIs
<1>2. q = IF a.ret = "0" THEN [a EXCEPT !.state = a.state, !.type = "NONE"] ELSE a
  BY DEF do_action, Call, Chk, DoBuffer, Target, PendingType
<1> HIDE DEF b, o, a
<1>3. b.ret = "0" /\ b.stack = p.stack /\ b.out = o /\ a.ret = "0"
  BY <1>1, <1>2 DEF Fits, Parsers
<1>4. p.stack # <<>>
  BY <1>1, <1>3 DEF a, act_sp, Fail, Parsers
<1>5. CASE p.stack[Len(p.stack)] = "OBJECT"
  <2>1. a = [b EXCEPT !.expecting_key = TRUE, !.state = "_K"]
    BY <1>3, <1>4, <1>5 DEF a, act_sp
  <2>2. q = [p EXCEPT !.out = o, !.buffer = <<>>, !.state = "_K", !.type = "NONE",
                      !.expecting_key = TRUE]
    BY <1>1, <1>2, <1>3, <2>1 DEF Parsers, Fits
  <2> QED BY <1>4, <1>5, <2>2 DEF Moved, Parsers, o, Fits
<1>6. CASE p.stack[Len(p.stack)] # "OBJECT"
  <2>1. a = [b EXCEPT !.state = "_V"]
    BY <1>3, <1>4, <1>6 DEF a, act_sp
  <2>2. q = [p EXCEPT !.out = o, !.buffer = <<>>, !.state = "_V", !.type = "NONE"]
    BY <1>1, <1>2, <1>3, <2>1 DEF Parsers, Fits
  <2> QED BY <1>4, <1>6, <2>2 DEF Moved, Parsers, o, Fits
<1> QED BY <1>5, <1>6

(* the first character of a C comment, *)
LEMMA DoCB ==
  ASSUME NEW c, NEW p, Fits(c, p), p.ret = "0", NEW q, q = do_action(p, "CB"), q.ret = "0"
  PROVE  /\ Moved(q, p, "C1", "NONE", p.stack, <<>>, Flushed(p))
         /\ q.expecting_key = p.expecting_key /\ q.save_state = p.state
<1> DEFINE b == do_buffer(p)
           o == Flushed(p)
           a == act_cb(b)
<1>1. b = [p EXCEPT !.out = o, !.buffer = <<>>] /\ b \in Parsers(c)
  BY FlushedIs
<1>2. q = IF a.ret = "0" THEN [a EXCEPT !.state = "C1", !.type = "NONE"] ELSE a
  BY DEF do_action, Call, Chk, DoBuffer, Target, PendingType
<1> HIDE DEF b, o, a
<1>3. b.ret = "0" /\ b.state = p.state /\ a.ret = "0"
  BY <1>1, <1>2 DEF Fits, Parsers
<1>4. a = [b EXCEPT !.save_state = p.state]
  BY <1>1, <1>3 DEF a, act_cb, Fail, Parsers
<1>5. q = [p EXCEPT !.out = o, !.buffer = <<>>, !.state = "C1", !.type = "NONE",
                    !.save_state = p.state]
  BY <1>1, <1>2, <1>3, <1>4 DEF Parsers, Fits
<1> QED BY <1>5 DEF Moved, Parsers, Fits, o

(* of a YAML comment, *)
LEMMA DoYB ==
  ASSUME NEW c, NEW p, Fits(c, p), p.ret = "0", NEW q, q = do_action(p, "YB"), q.ret = "0"
  PROVE  /\ Moved(q, p, "Y1", "NONE", p.stack, <<>>, Flushed(p))
         /\ q.expecting_key = p.expecting_key /\ q.save_state = p.state
<1> DEFINE b == do_buffer(p)
           o == Flushed(p)
           a == act_yb(b)
<1>1. b = [p EXCEPT !.out = o, !.buffer = <<>>] /\ b \in Parsers(c)
  BY FlushedIs
<1>2. q = IF a.ret = "0" THEN [a EXCEPT !.state = "Y1", !.type = "NONE"] ELSE a
  BY DEF do_action, Call, Chk, DoBuffer, Target, PendingType
<1> HIDE DEF b, o, a
<1>3. b.ret = "0" /\ b.state = p.state /\ a.ret = "0"
  BY <1>1, <1>2 DEF Fits, Parsers
<1>4. a = [b EXCEPT !.save_state = p.state]
  BY <1>1, <1>3 DEF a, act_yb, Fail, Parsers
<1>5. q = [p EXCEPT !.out = o, !.buffer = <<>>, !.state = "Y1", !.type = "NONE",
                    !.save_state = p.state]
  BY <1>1, <1>2, <1>3, <1>4 DEF Parsers, Fits
<1> QED BY <1>5 DEF Moved, Parsers, Fits, o

(* the end of a comment, *)
LEMMA DoCE ==
  ASSUME NEW c, NEW p, Fits(c, p), p.ret = "0", NEW q, q = do_action(p, "CE"), q.ret = "0"
  PROVE  /\ Moved(q, p, IF p.save_state \in Between THEN p.save_state ELSE "OK", "NONE",
                  p.stack, p.buffer, p.out)
         /\ q.expecting_key = p.expecting_key /\ q.save_state = p.save_state
<1> DEFINE s == IF p.save_state \in Between THEN p.save_state ELSE "OK"
<1>1. act_ce(p) = [p EXCEPT !.state = s]
  BY DEF act_ce, Between
<1>2. q = [p EXCEPT !.state = s, !.type = "NONE"]
  <2> HIDE DEF s
  <2> QED BY <1>1 DEF do_action, Call, Chk, DoBuffer, Target, PendingType, Parsers, Fits
<1> HIDE DEF s
<1>3. /\ Moved(q, p, s, "NONE", p.stack, p.buffer, p.out)
      /\ q.expecting_key = p.expecting_key /\ q.save_state = p.save_state
  BY <1>2 DEF Moved, Parsers, Fits
<1> QED BY <1>3 DEF s

(* the end of a string, *)
LEMMA DoSE ==
  ASSUME NEW c, NEW p, Fits(c, p), p.ret = "0", NEW q, q = do_action(p, "SE"), q.ret = "0"
  PROVE  /\ Moved(q, p, IF p.expecting_key THEN "CO" ELSE "OK", "NONE", p.stack, <<>>,
                  Append(p.out, [type |-> IF p.expecting_key THEN "KEY" ELSE "STRING",
                                 data |-> p.buffer]))
         /\ q.expecting_key = FALSE /\ q.save_state = p.save_state
<1> DEFINE s == IF p.expecting_key THEN "CO" ELSE "OK"
           t == IF p.expecting_key THEN "KEY" ELSE "STRING"
           o == Append(p.out, [type |-> t, data |-> p.buffer])
<1>1. act_se(p) = [p EXCEPT !.out = o, !.buffer = <<>>, !.state = s, !.expecting_key = FALSE]
  BY DEF act_se, do_callback_withbuf, Parsers, Fits
<1>2. q = [p EXCEPT !.out = o, !.buffer = <<>>, !.state = s, !.expecting_key = FALSE,
                    !.type = "NONE"]
  <2> HIDE DEF s, t, o
  <2> QED BY <1>1 DEF do_action, Call, Chk, DoBuffer, Target, PendingType, Parsers, Fits
<1> HIDE DEF s, o
<1>3. /\ Moved(q, p, s, "NONE", p.stack, <<>>, o)
      /\ q.expecting_key = FALSE /\ q.save_state = p.save_state
  BY <1>2 DEF Moved, Parsers, Fits
<1> QED BY <1>3 DEF s, o

(* the begin of an object, *)
LEMMA DoOB ==
  ASSUME NEW c, NEW p, Fits(c, p), p.ret = "0", NEW q, q = do_action(p, "OB"), q.ret = "0"
  PROVE  /\ Moved(q, p, "_O", "NONE", Append(p.stack, "OBJECT"), p.buffer,
                  Append(p.out, Item("OBJECT_BEGIN")))
         /\ q.expecting_key = TRUE /\ q.save_state = p.save_state
<1>1. p \in Parsers(c)
  BY DEF Fits
<1>2. /\ q.state = "_O" /\ q.type = "NONE" /\ q.expecting_key = TRUE
      /\ q.stack = Append(p.stack, "OBJECT") /\ q.buffer = p.buffer
      /\ q.out = Append(p.out, Item("OBJECT_BEGIN"))
      /\ q.save_state = p.save_state /\ q.utf8_multibyte_left = p.utf8_multibyte_left
  BY <1>1 DEF do_action, Call, Chk, act_ob, DoBuffer, state_push, Fail, do_callback,
             Target, PendingType, Item
<1> QED BY <1>2 DEF Moved

(* the begin of an array, *)
LEMMA DoAB ==
  ASSUME NEW c, NEW p, Fits(c, p), p.ret = "0", NEW q, q = do_action(p, "AB"), q.ret = "0"
  PROVE  /\ Moved(q, p, "_A", "NONE", Append(p.stack, "ARRAY"), p.buffer,
                  Append(p.out, Item("ARRAY_BEGIN")))
         /\ q.expecting_key = p.expecting_key /\ q.save_state = p.save_state
<1>1. p \in Parsers(c)
  BY DEF Fits
<1>2. /\ q.state = "_A" /\ q.type = "NONE" /\ q.expecting_key = p.expecting_key
      /\ q.stack = Append(p.stack, "ARRAY") /\ q.buffer = p.buffer
      /\ q.out = Append(p.out, Item("ARRAY_BEGIN"))
      /\ q.save_state = p.save_state /\ q.utf8_multibyte_left = p.utf8_multibyte_left
  BY <1>1 DEF do_action, Call, Chk, act_ab, DoBuffer, state_push, Fail, do_callback,
             Target, PendingType, Item
<1> QED BY <1>2 DEF Moved

(* the actions that only note what comes. *)
Leaves == {"KS", "FA", "TR", "NU", "DE", "DF", "MX", "ZX", "IX"}

(* They set the state and the pending type. *)
LEMMA DoLeave ==
  ASSUME NEW c, NEW p, Fits(c, p), p.ret = "0", NEW n \in Leaves,
         NEW q, q = do_action(p, n), q.ret = "0"
  PROVE  /\ Moved(q, p, Target[n],
                  IF n = "KS" THEN "NONE" ELSE PendingType[n], p.stack, p.buffer, p.out)
         /\ q.expecting_key = p.expecting_key /\ q.save_state = p.save_state
BY DEF do_action, Call, Chk, DoBuffer, Target, PendingType, Moved, Leaves

-----------------------------------------------------------------------------
(* What a character does *)

(* A push grows the buffer by its character or fails. *)
LEMMA PushIs ==
  ASSUME NEW c, IsConfig(c), NEW p, Fits(c, p), p.ret = "0", NEW ch \in Char
  PROVE  \/ c.max_data > 0 /\ buffer_push(p, ch) = Fail(p, "DATA_LIMIT")
         \/ \E m : /\ buffer_push(p, ch) = Sized(p, Append(p.buffer, ch), m)
                   /\ Fits(c, Sized(p, Append(p.buffer, ch), m))
<1> DEFINE n == IF c.max_data > 0 /\ 2 * p.buffer_size > c.max_data THEN c.max_data
                ELSE 2 * p.buffer_size
<1>0. p \in Parsers(c) /\ p.config = c
  BY Fields DEF Fits
<1>1. CASE ~(Len(p.buffer) + 1 >= p.buffer_size)
  <2>1. buffer_push(p, ch) = Sized(p, Append(p.buffer, ch), p.buffer_size)
    BY <1>0, <1>1 DEF buffer_push, Chk, Sized, Parsers
  <2> QED BY <2>1, BufferPushFits
<1>2. CASE Len(p.buffer) + 1 >= p.buffer_size /\ c.max_data > 0 /\ p.buffer_size = c.max_data
  BY <1>0, <1>2 DEF buffer_push, buffer_grow, Fail, Chk, Parsers
<1>3. CASE Len(p.buffer) + 1 >= p.buffer_size /\ ~(c.max_data > 0 /\ p.buffer_size = c.max_data)
  <2>1. buffer_push(p, ch) = Sized(p, Append(p.buffer, ch), n)
    BY <1>0, <1>3 DEF buffer_push, buffer_grow, Fail, Chk, Parsers, Sized
  <2> QED BY <2>1, BufferPushFits
<1> QED BY <1>1, <1>2, <1>3

(* The character that an escape stands for. *)
Unescaped(ch) ==
  LET escape == [b |-> "BS", f |-> "FF", n |-> "\n", r |-> "CR", t |-> "\t"]
  IN  IF ch \in DOMAIN escape THEN escape[ch] ELSE ch

(* It is one of five, or the character itself. *)
LEMMA UnescapedIs ==
  ASSUME NEW ch \in Char
  PROVE  Unescaped(ch) \in Char /\ Unescaped(ch) \in {ch, "BS", "FF", "\n", "CR", "\t"}
<1>1. {"\n", "\t", "BS", "FF", "CR"} \subseteq Char
  BY DEF Char, Escaped, Named, White
<1>2. Unescaped(ch) \in {ch, "BS", "FF", "\n", "CR", "\t"}
  BY DEF Unescaped
<1> HIDE DEF Unescaped
<1> QED BY <1>1, <1>2

(* What the buffer holds once the character is kept or not. *)
Kept(p, ch, n) ==
  CASE buffer_policy_table(p.state, n) = "escape" -> Append(p.buffer, Unescaped(ch))
    [] buffer_policy_table(p.state, n) = "append" -> Append(p.buffer, ch)
    [] OTHER -> p.buffer

(* The call that buffer_policy_table chooses. *)
Keep(p, ch, n) ==
  CASE buffer_policy_table(p.state, n) = "escape" -> buffer_push_escape(p, ch)
    [] buffer_policy_table(p.state, n) = "append" -> buffer_push(p, ch)
    [] OTHER -> p

(* It appends what Kept() says, or fails. *)
LEMMA KeepIs ==
  ASSUME NEW c, IsConfig(c), NEW p, Fits(c, p), p.ret = "0", NEW ch \in Char, NEW n
  PROVE  \/ c.max_data > 0 /\ Keep(p, ch, n) = Fail(p, "DATA_LIMIT")
         \/ \E m : /\ Keep(p, ch, n) = Sized(p, Kept(p, ch, n), m)
                   /\ Fits(c, Sized(p, Kept(p, ch, n), m))
<1>1. CASE buffer_policy_table(p.state, n) = "escape"
  <2>1. /\ Keep(p, ch, n) = buffer_push(p, Unescaped(ch))
        /\ Kept(p, ch, n) = Append(p.buffer, Unescaped(ch))
    BY <1>1 DEF Keep, Kept, buffer_push_escape, Unescaped
  <2>2. Unescaped(ch) \in Char
    BY UnescapedIs
  <2> QED BY <2>1, <2>2, PushIs
<1>2. CASE buffer_policy_table(p.state, n) = "append"
  <2>1. Keep(p, ch, n) = buffer_push(p, ch) /\ Kept(p, ch, n) = Append(p.buffer, ch)
    BY <1>2 DEF Keep, Kept
  <2> QED BY <2>1, PushIs
<1>3. CASE /\ buffer_policy_table(p.state, n) # "escape"
           /\ buffer_policy_table(p.state, n) # "append"
  <2>1. Keep(p, ch, n) = p /\ Kept(p, ch, n) = p.buffer
    BY <1>3 DEF Keep, Kept
  <2>2. p = Sized(p, p.buffer, p.buffer_size)
    BY DEF Fits, Parsers, Sized
  <2> HIDE DEF Keep, Kept
  <2> QED BY <2>1, <2>2
<1> QED BY <1>1, <1>2, <1>3

(* The continuation bytes that are missing after a character. *)
Left(p, ch) ==
  IF p.utf8_multibyte_left > 0 THEN p.utf8_multibyte_left - 1
  ELSE IF ch \in DOMAIN utf8_header_table THEN utf8_header_table[ch] ELSE 0

(* The character has its place in a UTF-8 sequence and a class of its own. *)
InUtf8(p, ch) ==
  (p.utf8_multibyte_left > 0 <=> ch = "<c>") /\ ch # "<x>" /\ ch \notin ErrorChar

(* p after the bookkeeping of json_parser_char(), and after one of its     *)
(* errors.                                                                 *)
Taken(p, l, b, m) ==
  [p EXCEPT !.utf8_multibyte_left = l, !.buffer = b, !.buffer_size = m]

Failed(p, l, e) == [p EXCEPT !.utf8_multibyte_left = l, !.ret = e]

(* At most three bytes follow the first. *)
LEMMA LeftIs ==
  ASSUME NEW c, NEW p, Fits(c, p), NEW ch
  PROVE  Left(p, ch) \in 0 .. 3
BY Fields DEF Fits, Left, utf8_header_table

(* What a character does: an error, or it is kept or not and the automaton *)
(* goes on.                                                                *)
LEMMA CharIs ==
  ASSUME NEW c, IsConfig(c), NEW p, Fits(c, p), p.ret = "0", NEW ch \in Char
  PROVE  \/ /\ \E l \in 0 .. 3, e \in Returned \ {"0"} :
                   json_parser_char(p, ch) = Failed(p, l, e)
            /\ ~InUtf8(p, ch) \/ NextState(p.state, Class(ch)) = "__" \/ c.max_data > 0
         \/ \E n, m :
              LET v == Taken(p, Left(p, ch), Kept(p, ch, n), m)
              IN  /\ InUtf8(p, ch) /\ n # "__" /\ Enters(p.state, Class(ch), n)
                  /\ n = NextState(p.state, Class(ch)) /\ Fits(c, v)
                  /\ json_parser_char(p, ch) = IF n \in States THEN [v EXCEPT !.state = n]
                                               ELSE do_action(v, n)
<1> DEFINE u == [p EXCEPT !.utf8_multibyte_left = Left(p, ch)]
           n == NextState(p.state, Class(ch))
           r == json_parser_char(p, ch)
<1>0. /\ p \in Parsers(c) /\ p.state \in States /\ p.utf8_multibyte_left \in 0 .. 3
      /\ Left(p, ch) \in 0 .. 3
  BY Fields, LeftIs DEF Fits
<1>1. CASE ~InUtf8(p, ch)
  <2>1. r = Fail(p, "UTF8") \/ r = Fail(p, "BAD_CHAR")
    BY <1>1 DEF json_parser_char, InUtf8
  <2>2. \A e : Fail(p, e) = Failed(p, p.utf8_multibyte_left, e)
    BY <1>0 DEF Fail, Failed, Parsers
  <2> HIDE DEF r
  <2>3. \E l \in 0 .. 3, e \in Returned \ {"0"} : r = Failed(p, l, e)
    BY <1>0, <2>1, <2>2 DEF Returned
  <2> QED BY <1>1, <2>3 DEF r
<1>2. CASE InUtf8(p, ch)
  <2>1. r = Step(u, ch, Class(ch))
    BY <1>0, <1>2 DEF json_parser_char, InUtf8, Left
  <2>2. Fits(c, u) /\ u.ret = "0" /\ u.state = p.state /\ u.buffer = p.buffer
    BY <1>0, SetFits DEF Parsers
  <2>3. \A e : Fail(u, e) = Failed(p, Left(p, ch), e)
    BY <1>0 DEF Fail, Failed, Parsers
  <2>4. \A x, b, m : Sized(u, b, m) = Taken(p, Left(p, ch), b, m)
    BY <1>0 DEF Sized, Taken, Parsers
  <2> HIDE DEF u, r
  <2>5. /\ Kept(u, ch, n) = Kept(p, ch, n)
        /\ r = IF n = "__" THEN Fail(u, "UNEXPECTED_CHAR")
               ELSE IF Keep(u, ch, n).ret = "0"
                    THEN IF n \in States THEN [Keep(u, ch, n) EXCEPT !.state = n]
                         ELSE do_action(Keep(u, ch, n), n)
                    ELSE Keep(u, ch, n)
    BY <2>1, <2>2 DEF Step, Kept, Keep, Chk
  <2>6. CASE n = "__"
    <3>1. r = Failed(p, Left(p, ch), "UNEXPECTED_CHAR")
      BY <2>3, <2>5, <2>6
    <3> QED BY <1>0, <2>6, <3>1 DEF r, Returned
  <2>7. CASE n # "__" /\ Keep(u, ch, n) = Fail(u, "DATA_LIMIT")
    <3>1. Fail(u, "DATA_LIMIT").ret # "0"
      BY <2>2 DEF Fail, Fits, Parsers
    <3>2. r = Failed(p, Left(p, ch), "DATA_LIMIT")
      BY <2>3, <2>5, <2>7, <3>1
    <3>3. c.max_data > 0
      <4> HIDE DEF n
      <4>1. ~ \E m : /\ Keep(u, ch, n) = Sized(u, Kept(u, ch, n), m)
                     /\ Fits(c, Sized(u, Kept(u, ch, n), m))
        BY <2>2, <2>7, <3>1 DEF Sized, Fits, Parsers
      <4> QED BY <2>2, <4>1, KeepIs
    <3> QED BY <1>0, <3>2, <3>3 DEF r, Returned
  <2>8. CASE n # "__" /\ Keep(u, ch, n) # Fail(u, "DATA_LIMIT")
    <3>1. PICK m : /\ Keep(u, ch, n) = Sized(u, Kept(u, ch, n), m)
                   /\ Fits(c, Sized(u, Kept(u, ch, n), m))
      <4> HIDE DEF n
      <4> QED BY <2>2, <2>8, KeepIs
    <3> DEFINE v == Taken(p, Left(p, ch), Kept(p, ch, n), m)
    <3>2. Keep(u, ch, n) = v /\ Fits(c, v)
      BY <2>4, <2>5, <3>1
    <3>3. v.ret = "0"
      BY <1>0 DEF Taken, Parsers
    <3>4. Enters(p.state, Class(ch), n)
      BY <1>0, <2>8, RowEnters
    <3>5. r = IF n \in States THEN [v EXCEPT !.state = n] ELSE do_action(v, n)
      <4> HIDE DEF v, n
      <4> QED BY <2>5, <2>8, <3>2, <3>3
    <3>6. n = NextState(p.state, Class(ch))
      OBVIOUS
    <3> HIDE DEF n
    <3> QED BY <1>2, <2>8, <3>2, <3>4, <3>5, <3>6 DEF r
  <2> QED BY <2>6, <2>7, <2>8
<1> QED BY <1>1, <1>2

-----------------------------------------------------------------------------
(* Types and limits after every action and character *)

(* The tables of states and of pending types. *)
LEMMA TargetsAre ==
  ASSUME NEW n
  PROVE  /\ n \in DOMAIN Target => Target[n] \in States /\ EscapeDigits(Target[n]) = 0
         /\ n \in DOMAIN PendingType => PendingType[n] \in Pending
BY StatesAre DEF Target, PendingType, Pending, EscapeDigits, Between, Ints, Floats, Comments

(* do_action() keeps types and limits. *)
LEMMA DoActionFits ==
  ASSUME NEW c, IsConfig(c), NEW v, Fits(c, v), v.ret = "0", NEW n,
         n = "UC" => Len(v.buffer) >= 4
  PROVE  Fits(c, do_action(v, n))
<1> DEFINE b == IF n \in DoBuffer THEN do_buffer(v) ELSE v
           a == Call(n, b)
           s == IF n \in DOMAIN Target THEN Target[n] ELSE a.state
           t == IF n \in DOMAIN PendingType THEN PendingType[n] ELSE "NONE"
<1>1. Fits(c, b) /\ b.ret = "0" /\ (n = "UC" => b = v)
  <2>1. Fits(c, do_buffer(v))
    BY DoBufferFits
  <2>2. do_buffer(v).ret = "0"
    <3>1. do_buffer(v) = [v EXCEPT !.out = Flushed(v), !.buffer = <<>>]
      BY FlushedIs
    <3> HIDE DEF b
    <3> QED BY <3>1 DEF Fits, Parsers
  <2>3. "UC" \notin DoBuffer
    BY DEF DoBuffer
  <2> QED BY <2>1, <2>2, <2>3
<1> HIDE DEF b
<1>2. Fits(c, a)
  BY <1>1, ActionFits
<1>3. do_action(v, n) = IF a.ret = "0" THEN [a EXCEPT !.state = s, !.type = t] ELSE a
  BY DEF do_action, Chk, b
<1> HIDE DEF a
<1>4. s \in States /\ t \in Pending
  BY <1>2, TargetsAre, Fields DEF Fits, Pending
<1> HIDE DEF s, t
<1>5. Fits(c, [a EXCEPT !.state = s, !.type = t])
  BY <1>2, <1>4, SetFits
<1> QED BY <1>2, <1>3, <1>5

(* The actions of the automaton that NextState() knows of. *)
Actions == {"CB", "YB", "OB", "AB", "OE", "AE", "SP", "SE", "CE", "UC"} \cup Leaves

(* What the table names besides states are those actions. *)
LEMMA EntersAction ==
  ASSUME NEW st, NEW k, NEW n, Enters(st, k, n), n \notin States
  PROVE  n \in Actions
<1>1. n \in Between \cup Strings \cup Ints \cup Floats \cup Literals \cup Comments \cup Actions
  BY DEF Enters, Spelt, Between, Strings, Ints, Floats, Literals, Comments, Actions, Leaves
<1> QED BY <1>1, StatesAre

(* The end of a \u escape: its digits become bytes, or wait for those of   *)
(* the low surrogate.                                                      *)
LEMMA DoUC ==
  ASSUME NEW c, NEW p, Fits(c, p), p.ret = "0", Len(p.buffer) >= 4,
         NEW q, q = do_action(p, "UC")
  PROVE  \/ \E k \in 1 .. 4 :
              Moved(q, p, "_S", "NONE", p.stack,
                    SubSeq(p.buffer, 1, Len(p.buffer) - 4) \o Utf8Bytes(k), p.out)
              /\ q.expecting_key = p.expecting_key /\ q.save_state = p.save_state
         \/ /\ Moved(q, p, "D1", "NONE", p.stack,
                     SubSeq(p.buffer, 1, Len(p.buffer) - 4), p.out)
            /\ q.expecting_key = p.expecting_key /\ q.save_state = p.save_state
         \/ q.ret # "0" /\ q.out = p.out
<1> DEFINE d == decode_unicode_char(p)
           s == IF d.unicode_multi THEN "D1" ELSE "_S"
<1>0. p \in Parsers(c)
  BY DEF Fits
<1>1. q = IF d.ret = "0" THEN [d EXCEPT !.state = s, !.type = "NONE"] ELSE d
  <2>1. act_uc(p) = IF d.ret = "0" THEN [d EXCEPT !.state = s] ELSE d
    BY DEF act_uc, Chk
  <2>2. q = IF act_uc(p).ret = "0" THEN [act_uc(p) EXCEPT !.state = act_uc(p).state, !.type = "NONE"]
            ELSE act_uc(p)
    BY DEF do_action, Call, Chk, DoBuffer, Target, PendingType
  <2>3. Fits(c, d)
    BY DecodeFits
  <2> HIDE DEF d, s
  <2> QED BY <2>1, <2>2, <2>3 DEF Fits, Parsers
<1>2. CASE \E k \in 1 .. 4 : d = Decoded(p, Utf8Bytes(k), FALSE)
  <2>1. PICK k \in 1 .. 4 : d = Decoded(p, Utf8Bytes(k), FALSE)
    BY <1>2
  <2> DEFINE x == Utf8Bytes(k)
  <2> HIDE DEF d, x
  <2>2. /\ d = Decoded(p, x, FALSE) /\ s = "_S" /\ d.ret = "0"
    BY <1>0, <2>1 DEF Decoded, Parsers, x
  <2>3. /\ Moved(q, p, "_S", "NONE", p.stack, SubSeq(p.buffer, 1, Len(p.buffer) - 4) \o x, p.out)
        /\ q.expecting_key = p.expecting_key /\ q.save_state = p.save_state
    BY <1>0, <1>1, <2>2 DEF Decoded, Moved, Parsers
  <2> QED BY <2>3 DEF x
<1>3. CASE d = Decoded(p, <<>>, TRUE)
  <2> HIDE DEF d
  <2>1. s = "D1" /\ d.ret = "0"
    BY <1>0, <1>3 DEF Decoded, Parsers
  <2>2. SubSeq(p.buffer, 1, Len(p.buffer) - 4) \o <<>> = SubSeq(p.buffer, 1, Len(p.buffer) - 4)
    BY Fields, <1>0
  <2> QED BY <1>0, <1>1, <1>3, <2>1, <2>2 DEF Decoded, Moved, Parsers
<1>4. CASE \/ d = Fail(Undigited(p), "UNICODE_MISSING_LOW_SURROGATE")
           \/ d = Fail(Undigited(p), "UNICODE_UNEXPECTED_LOW_SURROGATE")
  <2> HIDE DEF d, s
  <2>1. d.ret # "0" /\ d.out = p.out
    BY <1>0, <1>4 DEF Undigited, Fail, Parsers
  <2> QED BY <1>1, <2>1
<1> HIDE DEF d
<1> QED BY <1>0, <1>2, <1>3, <1>4, DecodeCases DEF d

(* No action leads into the digits of an escape. *)
LEMMA ActionState ==
  ASSUME NEW c, NEW p, Fits(c, p), p.ret = "0", NEW n \in Actions,
         n = "UC" => Len(p.buffer) >= 4, NEW q, q = do_action(p, n), q.ret = "0"
  PROVE  EscapeDigits(q.state) = 0
<1> USE DEF Moved, EscapeDigits
<1>1. CASE n = "CB"
  BY <1>1, DoCB
<1>2. CASE n = "YB"
  BY <1>2, DoYB
<1>3. CASE n = "OB"
  BY <1>3, DoOB
<1>4. CASE n = "AB"
  BY <1>4, DoAB
<1>5. CASE n = "OE"
  BY <1>5, DoOE
<1>6. CASE n = "AE"
  BY <1>6, DoAE
<1>7. CASE n = "SP"
  BY <1>7, DoSP
<1>8. CASE n = "SE"
  <2>1. q.state = IF p.expecting_key THEN "CO" ELSE "OK"
    BY <1>8, DoSE
  <2>2. q.state = "CO" \/ q.state = "OK"
    BY <2>1
  <2> QED BY <2>2
<1>9. CASE n = "CE"
  <2>1. q.state = IF p.save_state \in Between THEN p.save_state ELSE "OK"
    BY <1>9, DoCE
  <2> QED BY <2>1 DEF Between
<1>10. CASE n = "UC"
  BY <1>10, DoUC
<1>11. CASE n \in Leaves
  <2>1. q.state = Target[n] /\ n \in DOMAIN Target
    BY <1>11, DoLeave DEF Target, Leaves
  <2> QED BY <2>1, TargetsAre
<1> QED BY <1>1, <1>2, <1>3, <1>4, <1>5, <1>6, <1>7, <1>8, <1>9, <1>10, <1>11 DEF Actions

(* The fields after the bookkeeping. *)
LEMMA TakenIs ==
  ASSUME NEW c, NEW p \in Parsers(c), NEW l, NEW b, NEW m, NEW v, v = Taken(p, l, b, m)
  PROVE  /\ v.config = p.config /\ v.state = p.state /\ v.save_state = p.save_state
         /\ v.type = p.type /\ v.expecting_key = p.expecting_key /\ v.ret = p.ret
         /\ v.stack = p.stack /\ v.out = p.out /\ v.stack_size = p.stack_size
         /\ v.utf8_multibyte_left = l /\ v.buffer = b /\ v.buffer_size = m
BY DEF Taken, Parsers

(* An error keeps types and limits, and reports nothing. *)
LEMMA FailedFits ==
  ASSUME NEW c, NEW p, Fits(c, p), NEW l \in 0 .. 3, NEW e \in Returned \ {"0"}
  PROVE  /\ Fits(c, Failed(p, l, e)) /\ Failed(p, l, e).ret # "0"
         /\ Failed(p, l, e).out = p.out
BY DEF Fits, Room, Parsers, Failed

(* The digits of a \u escape are in the buffer. *)
LEMMA DigitsKept ==
  ASSUME NEW c, NEW p, Fits(c, p), HasDigits(p), NEW ch \in Char, NEW n,
         Enters(p.state, Class(ch), n)
  PROVE  LET b == Kept(p, ch, n)
             k == EscapeDigits(n)
         IN  /\ n = "UC" => /\ Len(b) >= 4
                            /\ \A i \in Len(b) - 3 .. Len(b) : b[i] \in Hex
             /\ k # 0 => /\ k <= Len(b)
                         /\ \A i \in Len(b) - k + 1 .. Len(b) : b[i] \in Hex
<1> DEFINE b == Kept(p, ch, n)
<1>0. p.buffer \in Seq(Char)
  BY Fields DEF Fits
<1>1. CASE n \notin {"U2", "U3", "U4", "UC"}
  BY <1>1 DEF EscapeDigits
<1>2. ASSUME NEW st, NEW k \in 0 .. 3, p.state = st, EscapeDigits(st) = k,
             st \in {"U1", "U2", "U3", "U4"}, Class(ch) \in Hex
      PROVE  Len(b) = Len(p.buffer) + 1 /\ k + 1 <= Len(b)
             /\ \A i \in Len(b) - k .. Len(b) : b[i] \in Hex
  <2>1. ch \in Hex
    BY <1>2 DEF Class, Hex, Digit, Other
  <2>2. b = Append(p.buffer, ch)
    BY <1>2 DEF Kept, buffer_policy_table
  <2>3. k <= Len(p.buffer) /\ \A i \in Len(p.buffer) - k + 1 .. Len(p.buffer) : p.buffer[i] \in Hex
    BY <1>2 DEF HasDigits
  <2> HIDE DEF b
  <2>4. /\ Len(b) = Len(p.buffer) + 1 /\ b[Len(b)] = ch
        /\ \A i \in 1 .. Len(p.buffer) : b[i] = p.buffer[i]
    BY <1>0, <2>2
  <2> QED BY <1>0, <2>1, <2>3, <2>4
<1>3. CASE n = "U2"
  <2>1. p.state = "U1" /\ Class(ch) \in Hex
    BY <1>3 DEF Enters, Spelt, Between
  <2> HIDE DEF b
  <2> QED BY <1>2, <1>3, <2>1 DEF b, EscapeDigits
<1>4. CASE n = "U3"
  <2>1. p.state = "U2" /\ Class(ch) \in Hex
    BY <1>4 DEF Enters, Spelt, Between
  <2>2. EscapeDigits("U2") = 1
    BY DEF EscapeDigits
  <2>3. 2 <= Len(b) /\ \A i \in Len(b) - 1 .. Len(b) : b[i] \in Hex
    BY <1>2, <2>1, <2>2
  <2>4. EscapeDigits(n) = 2 /\ Len(b) \in Nat
    BY <1>0, <1>2, <2>1, <2>2, <1>4 DEF EscapeDigits
  <2> HIDE DEF b
  <2> QED BY <1>4, <2>3, <2>4 DEF b
<1>5. CASE n = "U4"
  <2>1. p.state = "U3" /\ Class(ch) \in Hex
    BY <1>5 DEF Enters, Spelt, Between
  <2>2. EscapeDigits("U3") = 2
    BY DEF EscapeDigits
  <2>3. 3 <= Len(b) /\ \A i \in Len(b) - 2 .. Len(b) : b[i] \in Hex
    BY <1>2, <2>1, <2>2
  <2>4. EscapeDigits(n) = 3 /\ Len(b) \in Nat
    BY <1>0, <1>2, <2>1, <2>2, <1>5 DEF EscapeDigits
  <2> HIDE DEF b
  <2> QED BY <1>5, <2>3, <2>4 DEF b
<1>6. CASE n = "UC"
  <2>1. p.state = "U4" /\ Class(ch) \in Hex
    BY <1>6 DEF Enters, Spelt, Between
  <2>2. EscapeDigits("U4") = 3 /\ EscapeDigits(n) = 0
    BY <1>6 DEF EscapeDigits
  <2>3. 4 <= Len(b) /\ \A i \in Len(b) - 3 .. Len(b) : b[i] \in Hex
    BY <1>2, <2>1, <2>2
  <2>4. Len(b) \in Nat
    BY <1>0, <1>2, <2>1, <2>2
  <2> HIDE DEF b
  <2> QED BY <1>6, <2>2, <2>3, <2>4 DEF b
<1> QED BY <1>1, <1>3, <1>4, <1>5, <1>6

(* Outside of an escape there are no digits to be held. *)
LEMMA NoDigits ==
  ASSUME NEW c, NEW p, Fits(c, p), EscapeDigits(p.state) = 0
  PROVE  HasDigits(p)
<1>1. p.buffer \in Seq(Char)
  BY Fields DEF Fits
<1> QED BY <1>1 DEF HasDigits

(* A character keeps types, limits and the digits of an escape. *)
LEMMA CharFits ==
  ASSUME NEW c, IsConfig(c), NEW p, Fits(c, p), p.ret = "0", HasDigits(p), NEW ch \in Char,
         NEW r, r = json_parser_char(p, ch)
  PROVE  /\ Fits(c, r)
         /\ r.ret = "0" => HasDigits(r)
<1>1. CASE \E l \in 0 .. 3, e \in Returned \ {"0"} : r = Failed(p, l, e)
  <2>1. PICK l \in 0 .. 3, e \in Returned \ {"0"} : r = Failed(p, l, e)
    BY <1>1
  <2>2. Fits(c, Failed(p, l, e)) /\ Failed(p, l, e).ret # "0"
    BY FailedFits
  <2> QED BY <2>1, <2>2
<1>2. ASSUME NEW n, NEW m, NEW v, v = Taken(p, Left(p, ch), Kept(p, ch, n), m),
             n # "__", Enters(p.state, Class(ch), n), Fits(c, v),
             r = IF n \in States THEN [v EXCEPT !.state = n] ELSE do_action(v, n)
      PROVE  Fits(c, r) /\ (r.ret = "0" => HasDigits(r))
  <2>1. p \in Parsers(c) /\ v \in Parsers(c)
    BY <1>2 DEF Fits
  <2>2. v.ret = "0" /\ v.buffer = Kept(p, ch, n)
    BY <1>2, <2>1, TakenIs
  <2>3. CASE n \in States
    <3>1. Fits(c, r)
      <4>1. \A s \in States : Fits(c, [v EXCEPT !.state = s])
        BY <1>2, SetFits
      <4>2. r = [v EXCEPT !.state = n]
        BY <1>2, <2>3
      <4> QED BY <2>3, <4>1, <4>2
    <3>2. r.state = n /\ r.buffer = v.buffer
      BY <1>2, <2>1, <2>3 DEF Parsers
    <3>3. CASE EscapeDigits(n) = 0
      BY <3>1, <3>2, <3>3, NoDigits
    <3>4. CASE EscapeDigits(n) # 0
      <4> DEFINE b == Kept(p, ch, n)
                 k == EscapeDigits(n)
      <4>1. k <= Len(b) /\ \A i \in Len(b) - k + 1 .. Len(b) : b[i] \in Hex
        BY <1>2, <3>4, DigitsKept
      <4> QED BY <2>2, <3>1, <3>2, <4>1 DEF HasDigits
    <3> QED BY <3>1, <3>3, <3>4
  <2>4. CASE n \notin States
    <3>1. n \in Actions
      BY <1>2, <2>4, EntersAction
    <3>2. n = "UC" => Len(v.buffer) >= 4
      BY <1>2, <2>2, DigitsKept
    <3>3. r = do_action(v, n)
      BY <1>2, <2>4
    <3>4. Fits(c, r)
      BY <1>2, <2>2, <3>2, <3>3, DoActionFits
    <3>5. r.ret = "0" => EscapeDigits(r.state) = 0
      BY <1>2, <2>2, <3>1, <3>2, <3>3, ActionState
    <3> QED BY <3>4, <3>5, NoDigits
  <2> QED BY <2>3, <2>4
<1>3. CASE \E n, m :
             LET v == Taken(p, Left(p, ch), Kept(p, ch, n), m)
             IN  /\ InUtf8(p, ch) /\ n # "__" /\ Enters(p.state, Class(ch), n)
                 /\ n = NextState(p.state, Class(ch)) /\ Fits(c, v)
                 /\ r = IF n \in States THEN [v EXCEPT !.state = n] ELSE do_action(v, n)
  <2>1. PICK n, m :
             /\ n # "__" /\ Enters(p.state, Class(ch), n)
             /\ Fits(c, Taken(p, Left(p, ch), Kept(p, ch, n), m))
             /\ r = IF n \in States
                    THEN [Taken(p, Left(p, ch), Kept(p, ch, n), m) EXCEPT !.state = n]
                    ELSE do_action(Taken(p, Left(p, ch), Kept(p, ch, n), m), n)
    BY <1>3
  <2> QED BY <1>2, <2>1
<1> QED BY <1>1, <1>3, CharIs

(* json_parser_init() sets them up. *)
LEMMA InitFits ==
  ASSUME NEW c, IsConfig(c)
  PROVE  /\ Fits(c, json_parser_init(c)) /\ json_parser_init(c).ret = "0"
         /\ HasDigits(json_parser_init(c))
<1> DEFINE p == json_parser_init(c)
<1>1. "GO" \in States
  BY StatesAre DEF Between
<1>2. p \in Parsers(c)
  BY <1>1 DEF json_parser_init, IsConfig, Parsers, Pending, Returned
<1>3. Room(p)
  BY DEF json_parser_init, IsConfig, Room
<1>4. HasDigits(p) /\ p.ret = "0"
  BY DEF json_parser_init, HasDigits, EscapeDigits
<1> QED BY <1>2, <1>3, <1>4 DEF Fits

-----------------------------------------------------------------------------
(* The nesting of items *)

(* The names of open structures, those that are modes of the stack, and    *)
(* the values that are one item.                                           *)
Opens == {"START", "ROOT", "OBJECT", "ARRAY", "KEYED"}

Modal == {"OBJECT", "ARRAY"}

Scalars == {"STRING", "INT", "FLOAT", "NULL", "TRUE", "FALSE"}

(* The innermost structure. *)
Top(n) == n[Len(n)]

(* What Shape() says, field by field. *)
LEMMA ShapeIs ==
  ASSUME NEW n, Shape(n)
  PROVE  /\ n \in Seq(Opens) /\ Len(n) \in Nat \ {0} /\ n[1] \in {"START", "ROOT"}
         /\ \A i \in 2 .. Len(n) : n[i] \in Modal \/ (i = Len(n) /\ n[i] = "KEYED")
         /\ Top(n) \in Opens
         /\ Top(n) \in {"OBJECT", "ARRAY", "KEYED"} <=> Len(n) > 1
         /\ n # <<"BAD">>
<1>1. n \in Seq(Opens) /\ n # <<>>
  BY DEF Shape, Opens
<1>2. Len(n) \in Nat \ {0} /\ \A i \in 1 .. Len(n) : n[i] \in Opens
  <2> HIDE DEF Opens
  <2> QED BY <1>1
<1>3. /\ n[1] \in {"START", "ROOT"}
      /\ \A i \in 2 .. Len(n) : n[i] \in Modal \/ (i = Len(n) /\ n[i] = "KEYED")
  BY DEF Shape, Modal
<1>4. Top(n) \in {"OBJECT", "ARRAY", "KEYED"} <=> Len(n) > 1
  <2>1. CASE Len(n) > 1
    BY <1>2, <1>3, <2>1 DEF Top, Modal
  <2>2. CASE ~(Len(n) > 1)
    <3>1. Len(n) = 1
      BY <1>2, <2>2
    <3> QED BY <1>3, <3>1 DEF Top
  <2> QED BY <2>1, <2>2
<1>5. n # <<"BAD">>
  BY <1>3
<1> QED BY <1>1, <1>2, <1>3, <1>4, <1>5 DEF Top

(* The modes of open structures are a stack. *)
LEMMA ModesAre ==
  ASSUME NEW n, NEW m \in Nat \ {0}, n \in Seq(Opens), Len(n) = m
  PROVE  /\ Modes(n) \in Seq(Modal) /\ Len(Modes(n)) = m - 1
         /\ \A i \in 1 .. m - 1 : Modes(n)[i] = Mode(n[i + 1])
<1> DEFINE S == Modes(n)
<1>1. S = [i \in 1 .. m - 1 |-> Mode(n[i + 1])]
  BY DEF Modes
<1>2. \A i \in 1 .. m - 1 : Mode(n[i + 1]) \in Modal
  BY DEF Mode, Modal
<1>3. S \in [1 .. m - 1 -> Modal] /\ m - 1 \in Nat
  <2> HIDE DEF Modal
  <2> QED BY <1>1, <1>2
<1> HIDE DEF S
<1>4. S \in Seq(Modal) /\ Len(S) = m - 1
  <2> HIDE DEF Modal
  <2> QED BY <1>3
<1> QED BY <1>1, <1>4 DEF S

(* It is the stack if it has the same modes. *)
LEMMA ModesEqual ==
  ASSUME NEW n, n \in Seq(Opens), Len(n) \in Nat \ {0}, NEW s, s \in Seq(Modal),
         Len(s) = Len(n) - 1, \A i \in 1 .. Len(s) : s[i] = Mode(n[i + 1])
  PROVE  Modes(n) = s
<1> DEFINE M == Modes(n)
<1>1. M \in Seq(Modal) /\ Len(M) = Len(n) - 1 /\ \A i \in 1 .. Len(n) - 1 : M[i] = Mode(n[i + 1])
  BY ModesAre
<1> HIDE DEF M
<1>2. M = s
  BY <1>1, SeqEqual
<1> QED BY <1>2 DEF M

(* The stack of the parser and the structures that are open. *)
LEMMA StackTop ==
  ASSUME NEW n, Shape(n), NEW s, s = Modes(n)
  PROVE  /\ s = <<>> <=> Len(n) = 1
         /\ s # <<>> => s[Len(s)] = Mode(Top(n))
<1>1. /\ n \in Seq(Opens) /\ Len(n) \in Nat \ {0}
  BY ShapeIs
<1>2. s \in Seq(Modal) /\ Len(s) = Len(n) - 1 /\ \A i \in 1 .. Len(n) - 1 : s[i] = Mode(n[i + 1])
  BY <1>1, ModesAre
<1>3. s = <<>> <=> Len(n) = 1
  BY <1>1, <1>2
<1>4. s # <<>> => s[Len(s)] = Mode(Top(n))
  BY <1>1, <1>2 DEF Top
<1> QED BY <1>3, <1>4

(* Where a structure may begin it is pushed. *)
LEMMA NestOpen ==
  ASSUME NEW n, Shape(n), Top(n) \in {"START", "ARRAY", "KEYED"}, NEW x \in Modal,
         NEW m, m = Nest(n, IF x = "OBJECT" THEN "OBJECT_BEGIN" ELSE "ARRAY_BEGIN")
  PROVE  Shape(m) /\ Modes(m) = Append(Modes(n), x) /\ Top(m) = x
<1> DEFINE v == IF Top(n) = "KEYED" THEN [n EXCEPT ![Len(n)] = "OBJECT"] ELSE n
           s == Modes(n)
<1>0. /\ n \in Seq(Opens) /\ Len(n) \in Nat \ {0} /\ n[1] \in {"START", "ROOT"}
      /\ \A i \in 2 .. Len(n) : n[i] \in Modal \/ (i = Len(n) /\ n[i] = "KEYED")
      /\ Top(n) \in {"OBJECT", "ARRAY", "KEYED"} <=> Len(n) > 1
  BY ShapeIs
<1>1. m = Append(v, x)
  BY DEF Nest, Top, Modal
<1>2. /\ v \in Seq(Opens) /\ Len(v) = Len(n) /\ v[1] = n[1]
      /\ \A i \in 2 .. Len(v) : v[i] \in Modal /\ Mode(v[i]) = Mode(n[i])
  BY <1>0 DEF Opens, Modal, Top, Mode
<1> HIDE DEF v
<1>3. x \in Opens /\ Mode(x) = x
  BY DEF Opens, Modal, Mode
<1>4. /\ m \in Seq(Opens) /\ Len(m) = Len(n) + 1 /\ m[Len(m)] = x
      /\ \A i \in 1 .. Len(n) : m[i] = v[i]
  BY <1>0, <1>1, <1>2, <1>3
<1>5. Shape(m) /\ Top(m) = x
  <2>1. m[1] \in {"START", "ROOT"} /\ m # <<>>
    BY <1>0, <1>2, <1>4
  <2>2. \A i \in 2 .. Len(m) : m[i] \in Modal
    BY <1>0, <1>2, <1>4
  <2> QED BY <1>4, <2>1, <2>2 DEF Shape, Top, Opens, Modal
<1>6. s \in Seq(Modal) /\ Len(s) = Len(n) - 1 /\ \A i \in 1 .. Len(n) - 1 : s[i] = Mode(n[i + 1])
  BY <1>0, ModesAre
<1> HIDE DEF s
<1>7. /\ Append(s, x) \in Seq(Modal) /\ Len(Append(s, x)) = Len(m) - 1
      /\ \A i \in 1 .. Len(n) - 1 : Append(s, x)[i] = s[i]
      /\ Append(s, x)[Len(n)] = x
  BY <1>0, <1>4, <1>6
<1>8. \A i \in 1 .. Len(m) - 1 : Append(s, x)[i] = Mode(m[i + 1])
  <2>1. ASSUME NEW i \in 1 .. Len(n) - 1
        PROVE  Append(s, x)[i] = Mode(m[i + 1])
    <3>1. i + 1 \in 2 .. Len(v) /\ i + 1 \in 1 .. Len(n)
      BY <1>0, <1>2
    <3> QED BY <1>2, <1>4, <1>6, <1>7, <3>1
  <2>2. Append(s, x)[Len(n)] = Mode(m[Len(n) + 1])
    BY <1>3, <1>4, <1>7
  <2>3. ASSUME NEW i \in 1 .. Len(m) - 1 PROVE i \in 1 .. Len(n) - 1 \/ i = Len(n)
    BY <1>0, <1>4
  <2> QED BY <2>1, <2>2, <2>3
<1>9. Modes(m) = Append(s, x)
  <2> DEFINE a == Append(s, x)
  <2>1. Len(m) \in Nat \ {0} /\ Len(a) = Len(m) - 1 /\ a \in Seq(Modal)
        /\ \A i \in 1 .. Len(a) : a[i] = Mode(m[i + 1])
    BY <1>0, <1>4, <1>7, <1>8
  <2> HIDE DEF a
  <2>2. Modes(m) = a
    BY <1>4, <2>1, ModesEqual
  <2> QED BY <2>2 DEF a
<1> QED BY <1>5, <1>9 DEF s

(* A value or a key changes what the top waits for. *)
LEMMA NestItem ==
  ASSUME NEW n, Shape(n), NEW type, NEW m, m = Nest(n, type),
         \/ Top(n) \in {"ARRAY", "KEYED"} /\ type \in Scalars
         \/ Top(n) = "OBJECT" /\ type = "KEY"
  PROVE  /\ Shape(m) /\ Modes(m) = Modes(n)
         /\ Top(m) = IF type = "KEY" THEN "KEYED"
                     ELSE IF Top(n) = "KEYED" THEN "OBJECT" ELSE "ARRAY"
<1> DEFINE x == IF type = "KEY" THEN "KEYED" ELSE IF Top(n) = "KEYED" THEN "OBJECT" ELSE "ARRAY"
<1>0. /\ n \in Seq(Opens) /\ Len(n) \in Nat \ {0} /\ n[1] \in {"START", "ROOT"}
      /\ \A i \in 2 .. Len(n) : n[i] \in Modal \/ (i = Len(n) /\ n[i] = "KEYED")
      /\ Len(n) > 1
  BY ShapeIs
<1>1. m = [n EXCEPT ![Len(n)] = x]
  <2>1. CASE Top(n) = "ARRAY" /\ type \in Scalars
    <3>1. m = n
      BY <2>1 DEF Nest, Top, Scalars
    <3>2. x = n[Len(n)]
      BY <2>1 DEF Top, Scalars
    <3> HIDE DEF x
    <3> QED BY <1>0, <3>1, <3>2
  <2>2. CASE Top(n) = "KEYED" /\ type \in Scalars
    BY <2>2 DEF Nest, Top, Scalars
  <2>3. CASE Top(n) = "OBJECT" /\ type = "KEY"
    BY <2>3 DEF Nest, Top
  <2> QED BY <2>1, <2>2, <2>3
<1>2. x \in Opens /\ Mode(x) = Mode(Top(n)) /\ x \in {"OBJECT", "ARRAY", "KEYED"}
  BY DEF Opens, Mode, Scalars
<1> HIDE DEF x
<1>3. /\ m \in Seq(Opens) /\ Len(m) = Len(n) /\ m[Len(n)] = x
      /\ \A i \in 1 .. Len(n) : i # Len(n) => m[i] = n[i]
  BY <1>0, <1>1, <1>2
<1>4. Shape(m) /\ Top(m) = x
  BY <1>0, <1>2, <1>3 DEF Shape, Top, Opens, Modal
<1>5. Modes(m) = Modes(n)
  <2> DEFINE s == Modes(n)
  <2>1. s \in Seq(Modal) /\ Len(s) = Len(n) - 1 /\ \A i \in 1 .. Len(n) - 1 : s[i] = Mode(n[i + 1])
    BY <1>0, ModesAre
  <2> HIDE DEF s
  <2>2. \A i \in 1 .. Len(s) : s[i] = Mode(m[i + 1])
    BY <1>0, <1>2, <1>3, <2>1 DEF Top
  <2>3. Modes(m) = s
    BY <1>0, <1>3, <2>1, <2>2, ModesEqual
  <2> QED BY <2>3 DEF s
<1> QED BY <1>4, <1>5 DEF x

(* Where it may end it is popped, and the document with the last one. *)
LEMMA NestEnd ==
  ASSUME NEW n, Shape(n), NEW type, NEW m, m = Nest(n, type),
         \/ Top(n) = "OBJECT" /\ type = "OBJECT_END"
         \/ Top(n) = "ARRAY" /\ type = "ARRAY_END"
  PROVE  /\ Shape(m) /\ Modes(m) = SubSeq(Modes(n), 1, Len(Modes(n)) - 1)
         /\ Top(m) \in {"ROOT", "OBJECT", "ARRAY"}
<1> DEFINE h == SubSeq(n, 1, Len(n) - 1)
           s == Modes(n)
           t == SubSeq(s, 1, Len(s) - 1)
<1>0. /\ n \in Seq(Opens) /\ Len(n) \in Nat \ {0} /\ n[1] \in {"START", "ROOT"}
      /\ \A i \in 2 .. Len(n) : n[i] \in Modal \/ (i = Len(n) /\ n[i] = "KEYED")
      /\ Len(n) > 1
  BY ShapeIs
<1>1. m = IF Len(h) = 1 THEN <<"ROOT">> ELSE h
  BY DEF Nest, Top
<1>2. /\ h \in Seq(Opens) /\ Len(h) = Len(n) - 1 /\ \A i \in 1 .. Len(n) - 1 : h[i] = n[i]
  <2> HIDE DEF Opens
  <2> QED BY <1>0
<1>3. s \in Seq(Modal) /\ Len(s) = Len(n) - 1 /\ \A i \in 1 .. Len(n) - 1 : s[i] = Mode(n[i + 1])
  BY <1>0, ModesAre
<1> HIDE DEF h, s
<1>4. t \in Seq(Modal) /\ Len(t) = Len(n) - 2 /\ \A i \in 1 .. Len(n) - 2 : t[i] = s[i]
  BY <1>0, <1>3
<1> HIDE DEF t
<1>5. CASE Len(h) = 1
  <2>1. m = <<"ROOT">> /\ Len(t) = 0
    BY <1>1, <1>2, <1>4, <1>5
  <2>2. m \in Seq(Opens) /\ Len(m) = 1 /\ m[1] = "ROOT"
    BY <2>1 DEF Opens
  <2>3. Shape(m) /\ Top(m) = "ROOT"
    BY <2>2 DEF Shape, Opens, Top
  <2>4. Modes(m) = t
    <3>1. /\ Len(m) \in Nat \ {0}
          /\ Len(t) = Len(m) - 1
          /\ \A i \in 1 .. Len(t) : t[i] = Mode(m[i + 1])
      BY <2>1, <2>2
    <3> QED BY <1>4, <2>2, <3>1, ModesEqual
  <2> QED BY <2>3, <2>4 DEF s, t
<1>6. CASE Len(h) # 1
  <2>1. m = h /\ Len(m) \in Nat \ {0, 1}
    BY <1>0, <1>1, <1>2, <1>6
  <2>2. m[1] \in {"START", "ROOT"} /\ m # <<>> /\ \A i \in 2 .. Len(m) : m[i] \in Modal
    BY <1>0, <1>2, <2>1
  <2>3. Shape(m) /\ Top(m) \in Modal
    <3>1. Len(m) \in 2 .. Len(m)
      <4>1. Len(m) \in Nat /\ Len(m) # 0 /\ Len(m) # 1
        BY <2>1
      <4>2. \A k \in Nat : k # 0 /\ k # 1 => k \in 2 .. k
        OBVIOUS
      <4> QED BY <4>1, <4>2
    <3>2. Top(m) \in Modal
      BY <2>2, <3>1 DEF Top
    <3>3. m \in Seq(Opens)
      BY <1>2, <2>1
    <3> QED BY <2>2, <3>2, <3>3 DEF Shape, Opens, Modal
  <2>4. ASSUME NEW i \in 1 .. Len(t) PROVE t[i] = Mode(m[i + 1])
    <3>1. i \in 1 .. Len(n) - 2 /\ i \in 1 .. Len(n) - 1 /\ i + 1 \in 1 .. Len(n) - 1
      BY <1>0, <1>4
    <3> QED BY <1>2, <1>3, <1>4, <2>1, <3>1
  <2>5. Len(t) = Len(m) - 1
    BY <1>0, <1>2, <1>4, <2>1
  <2>6. Modes(m) = t
    BY <1>2, <1>4, <2>1, <2>4, <2>5, ModesEqual
  <2> QED BY <2>3, <2>6 DEF s, t, Modal
<1> QED BY <1>5, <1>6

-----------------------------------------------------------------------------
(* The nesting after every action *)

(* What the callback is called with. *)
Items == [type : ItemTypes, data : Seq(Char)]

(* The invariant of a parser without an error, and what establishes it. *)
LEMMA NestingIs ==
  ASSUME NEW p, Nesting(p), p.ret = "0", NEW n, n = Nested(p.out)
  PROVE  Shape(n) /\ Modes(n) = p.stack /\ Expects(p, Top(n))
BY DEF Nesting, Top

(* It holds of q if its stack and state agree with its items. *)
LEMMA NestingFrom ==
  ASSUME NEW q, NEW m, m = Nested(q.out), Shape(m), Modes(m) = q.stack, Expects(q, Top(m))
  PROVE  Nesting(q)
BY ShapeIs DEF Nesting, Top

(* An item that is appended nests. *)
LEMMA ItemAppended ==
  ASSUME NEW c, NEW p, Fits(c, p), NEW t \in ItemTypes, NEW d \in Seq(Char)
  PROVE  Nested(Append(p.out, [type |-> t, data |-> d])) = Nest(Nested(p.out), t)
<1> DEFINE e == [type |-> t, data |-> d]
<1>1. p.out \in Seq(Items) /\ e \in Items /\ e.type = t
  BY Fields DEF Fits, Items
<1> HIDE DEF e
<1>2. Nested(Append(p.out, e)) = Nest(Nested(p.out), e.type)
  BY <1>1, NestedAppend
<1> QED BY <1>1, <1>2 DEF e

(* A number or a constant that is pending fits where the parser is. *)
LEMMA FlushedNests ==
  ASSUME NEW c, NEW p, Fits(c, p), p.ret = "0", Nesting(p),
         NEW n, n = Nested(p.out), NEW m, m = Nested(Flushed(p))
  PROVE  /\ Shape(m) /\ Modes(m) = p.stack
         /\ p.type = "NONE" => m = n
         /\ p.type # "NONE" => Top(m) = IF Top(n) = "KEYED" THEN "OBJECT" ELSE "ARRAY"
         /\ Flushed(p) \in Seq(Items)
<1>0. /\ Shape(n) /\ Modes(n) = p.stack /\ Expects(p, Top(n))
      /\ p.type \in Pending /\ p.state \in States /\ p.buffer \in Seq(Char)
      /\ p.out \in Seq(Items)
  BY NestingIs, Fields DEF Fits, Items
<1>1. CASE p.type = "NONE"
  <2>1. Flushed(p) = p.out
    BY <1>1 DEF Flushed
  <2> QED BY <1>0, <1>1, <2>1
<1>2. CASE p.type # "NONE"
  <2>1. p.type \in Scalars /\ p.type # "KEY" /\ p.type \in ItemTypes
    BY <1>0, <1>2 DEF Pending, Scalars, ItemTypes
  <2>2. Top(n) \in {"ARRAY", "KEYED"}
    BY <1>0, <1>2 DEF Expects, Ints, Floats
  <2>3. m = Nest(n, p.type)
    BY <1>0, <1>2, <2>1, ItemAppended DEF Flushed
  <2>4. Flushed(p) \in Seq(Items)
    <3> DEFINE e == [type |-> p.type, data |-> p.buffer]
    <3>1. e \in Items /\ Flushed(p) = Append(p.out, e)
      BY <1>0, <1>2, <2>1 DEF Flushed, Items
    <3> HIDE DEF e
    <3> QED BY <1>0, <3>1
  <2> QED BY <1>0, <1>2, <2>1, <2>2, <2>3, <2>4, NestItem
<1> QED BY <1>1, <1>2

(* So does the begin or the end of a structure. *)
LEMMA EndAppended ==
  ASSUME NEW o \in Seq(Items), NEW t \in ItemTypes
  PROVE  Nested(Append(o, Item(t))) = Nest(Nested(o), t)
<1> DEFINE e == Item(t)
<1>1. e \in Items /\ e.type = t
  BY DEF Items, Item
<1> HIDE DEF e
<1>2. Nested(Append(o, e)) = Nest(Nested(o), e.type)
  BY <1>1, NestedAppend
<1> QED BY <1>1, <1>2 DEF e

(* Every action finds the top that its state expects, reports an item that *)
(* has its place there and leaves a state that expects the new top: the    *)
(* end of an object,                                                       *)
LEMMA OENests ==
  ASSUME NEW c, NEW p, Fits(c, p), p.ret = "0", Nesting(p), NEW k, Enters(p.state, k, "OE"),
         NEW q, q = do_action(p, "OE"), q.ret = "0"
  PROVE  Nesting(q)
<1> DEFINE n == Nested(p.out)
           m == Nested(Flushed(p))
           o == Nested(q.out)
<1>1. Shape(n) /\ Modes(n) = p.stack /\ Expects(p, Top(n))
  BY NestingIs
<1>2. /\ Shape(m) /\ Modes(m) = p.stack
      /\ p.type = "NONE" => m = n
      /\ p.type # "NONE" => Top(m) = IF Top(n) = "KEYED" THEN "OBJECT" ELSE "ARRAY"
      /\ Flushed(p) \in Seq(Items)
  BY FlushedNests
<1>3. p.state \in {"_O", "OK"} \cup Ending
  BY DEF Enters, Spelt, Between
<1>4. /\ p.stack # <<>> /\ p.stack[Len(p.stack)] = "OBJECT"
      /\ q.state = "OK" /\ q.type = "NONE" /\ q.stack = SubSeq(p.stack, 1, Len(p.stack) - 1)
      /\ q.out = Append(Flushed(p), Item("OBJECT_END")) /\ q.expecting_key = FALSE
  BY DoOE DEF Moved
<1>5. o = Nest(m, "OBJECT_END")
  BY <1>2, <1>4, EndAppended DEF ItemTypes, Closing
<1> HIDE DEF n, m, o
<1>6. Mode(Top(m)) = "OBJECT"
  BY <1>2, <1>4, StackTop
<1>7. Len(m) > 1
  <2>1. Len(m) # 1
    BY <1>2, <1>4, StackTop
  <2>2. Len(m) \in Nat \ {0}
    BY <1>2, ShapeIs
  <2>3. \A j \in Nat \ {0} : j # 1 => j > 1
    OBVIOUS
  <2> QED BY <2>1, <2>2, <2>3
<1>8. Top(m) \in {"OBJECT", "KEYED"}
  BY <1>2, <1>6, <1>7, ShapeIs DEF Mode
<1>9. Top(m) = "OBJECT"
  BY <1>1, <1>2, <1>3, <1>8 DEF Expects, Resumed, Comments, Ending, Ints, Floats
<1>10. /\ Shape(o) /\ Modes(o) = q.stack /\ Top(o) \in {"ROOT", "OBJECT", "ARRAY"}
  BY <1>2, <1>4, <1>5, <1>9, NestEnd
<1>11. Expects(q, Top(o))
  BY <1>4, <1>10 DEF Expects, Resumed, Comments, Ints, Floats, Literals, Strings
<1> QED BY <1>10, <1>11, NestingFrom DEF o

(* of an array, *)
LEMMA AENests ==
  ASSUME NEW c, NEW p, Fits(c, p), p.ret = "0", Nesting(p), NEW k, Enters(p.state, k, "AE"),
         NEW q, q = do_action(p, "AE"), q.ret = "0"
  PROVE  Nesting(q)
<1> DEFINE n == Nested(p.out)
           m == Nested(Flushed(p))
           o == Nested(q.out)
<1>1. Shape(n) /\ Modes(n) = p.stack /\ Expects(p, Top(n))
  BY NestingIs
<1>2. /\ Shape(m) /\ Modes(m) = p.stack
      /\ p.type = "NONE" => m = n
      /\ p.type # "NONE" => Top(m) = IF Top(n) = "KEYED" THEN "OBJECT" ELSE "ARRAY"
      /\ Flushed(p) \in Seq(Items)
  BY FlushedNests
<1>3. p.state \in {"_A", "OK"} \cup Ending
  BY DEF Enters, Spelt, Between
<1>4. /\ p.stack # <<>> /\ p.stack[Len(p.stack)] = "ARRAY"
      /\ q.state = "OK" /\ q.type = "NONE" /\ q.stack = SubSeq(p.stack, 1, Len(p.stack) - 1)
      /\ q.out = Append(Flushed(p), Item("ARRAY_END")) /\ q.expecting_key = p.expecting_key
  BY DoAE DEF Moved
<1>5. o = Nest(m, "ARRAY_END")
  BY <1>2, <1>4, EndAppended DEF ItemTypes, Closing
<1> HIDE DEF n, m, o
<1>6. Mode(Top(m)) = "ARRAY"
  BY <1>2, <1>4, StackTop
<1>7. Top(m) = "ARRAY"
  BY <1>6 DEF Mode
<1>8. ~p.expecting_key
  BY <1>1, <1>3 DEF Expects, Resumed, Comments, Ending, Strings
<1>9. /\ Shape(o) /\ Modes(o) = q.stack /\ Top(o) \in {"ROOT", "OBJECT", "ARRAY"}
  BY <1>2, <1>4, <1>5, <1>7, NestEnd
<1>10. Expects(q, Top(o))
  BY <1>4, <1>8, <1>9 DEF Expects, Resumed, Comments, Ints, Floats, Literals, Strings
<1> QED BY <1>9, <1>10, NestingFrom DEF o

(* a comma, *)
LEMMA SPNests ==
  ASSUME NEW c, NEW p, Fits(c, p), p.ret = "0", Nesting(p), NEW k, Enters(p.state, k, "SP"),
         NEW q, q = do_action(p, "SP"), q.ret = "0"
  PROVE  Nesting(q)
<1> DEFINE n == Nested(p.out)
           m == Nested(Flushed(p))
<1>1. Shape(n) /\ Modes(n) = p.stack /\ Expects(p, Top(n))
  BY NestingIs
<1>2. /\ Shape(m) /\ Modes(m) = p.stack
      /\ p.type = "NONE" => m = n
      /\ p.type # "NONE" => Top(m) = IF Top(n) = "KEYED" THEN "OBJECT" ELSE "ARRAY"
  BY FlushedNests
<1>3. p.state \in {"OK"} \cup Ending
  BY DEF Enters, Spelt, Between
<1>4. /\ p.stack # <<>> /\ q.type = "NONE" /\ q.stack = p.stack /\ q.out = Flushed(p)
      /\ p.stack[Len(p.stack)] = "OBJECT" => q.expecting_key = TRUE /\ q.state = "_K"
      /\ p.stack[Len(p.stack)] # "OBJECT" => q.expecting_key = p.expecting_key /\ q.state = "_V"
  <2>1. /\ p.stack # <<>> /\ q.type = "NONE" /\ q.stack = p.stack /\ q.out = Flushed(p)
        /\ q.state = IF p.stack[Len(p.stack)] = "OBJECT" THEN "_K" ELSE "_V"
    BY DoSP DEF Moved
  <2>2. /\ p.stack[Len(p.stack)] = "OBJECT" => q.expecting_key = TRUE
        /\ p.stack[Len(p.stack)] # "OBJECT" => q.expecting_key = p.expecting_key
    BY DoSP
  <2> HIDE DEF n, m
  <2> QED BY <2>1, <2>2
<1>5. q.out = Flushed(p) /\ m = Nested(q.out)
  BY <1>4
<1> HIDE DEF n, m
<1>6. Mode(Top(m)) = p.stack[Len(p.stack)] /\ Len(m) > 1
  <2>1. Len(m) # 1
    BY <1>2, <1>4, StackTop
  <2>2. Len(m) \in Nat \ {0}
    BY <1>2, ShapeIs
  <2>3. \A j \in Nat \ {0} : j # 1 => j > 1
    OBVIOUS
  <2>4. Mode(Top(m)) = p.stack[Len(p.stack)]
    BY <1>2, <1>4, StackTop
  <2> QED BY <2>1, <2>2, <2>3, <2>4
<1>7. Top(m) \in {"OBJECT", "ARRAY"}
  <2>1. Top(m) \in {"OBJECT", "ARRAY", "KEYED"}
    BY <1>2, <1>6, ShapeIs
  <2> QED BY <1>1, <1>2, <1>3, <2>1 DEF Expects, Resumed, Comments, Ending, Ints, Floats
<1>8. ~p.expecting_key
  BY <1>1, <1>3 DEF Expects, Resumed, Comments, Ending, Strings
<1>9. Expects(q, Top(m))
  BY <1>4, <1>6, <1>7, <1>8 DEF Mode, Expects, Resumed, Comments, Ints, Floats, Literals, Strings
<1> QED BY <1>2, <1>4, <1>5, <1>9, NestingFrom

(* the begin of a comment, *)
LEMMA CommentNests ==
  ASSUME NEW c, NEW p, Fits(c, p), p.ret = "0", Nesting(p),
         p.state \in Between \cup {"Z0", "I0", "R2"},
         NEW q, q.state \in {"C1", "Y1"}, q.type = "NONE", q.stack = p.stack,
         q.out = Flushed(p), q.expecting_key = p.expecting_key, q.save_state = p.state
  PROVE  Nesting(q)
<1> DEFINE n == Nested(p.out)
           m == Nested(Flushed(p))
<1>1. Shape(n) /\ Modes(n) = p.stack /\ Expects(p, Top(n))
  BY NestingIs
<1>2. /\ Shape(m) /\ Modes(m) = p.stack
      /\ p.type = "NONE" => m = n
      /\ p.type # "NONE" => Top(m) = IF Top(n) = "KEYED" THEN "OBJECT" ELSE "ARRAY"
  BY FlushedNests
<1>3. m = Nested(q.out)
  OBVIOUS
<1> HIDE DEF n, m
<1>4. Expects(q, Top(m))
  BY <1>1, <1>2
     DEF Expects, Resumed, Comments, Ints, Floats, Literals, Strings, Between
<1> QED BY <1>2, <1>3, <1>4, NestingFrom

(* of an object, *)
LEMMA OBNests ==
  ASSUME NEW c, NEW p, Fits(c, p), p.ret = "0", Nesting(p), NEW k, Enters(p.state, k, "OB"),
         NEW q, q = do_action(p, "OB"), q.ret = "0"
  PROVE  Nesting(q)
<1> DEFINE n == Nested(p.out)
           o == Nested(q.out)
<1>1. Shape(n) /\ Modes(n) = p.stack /\ Expects(p, Top(n))
  BY NestingIs
<1>2. p.state \in {"GO", "_V", "_A"}
  BY DEF Enters, Spelt, Between
<1>3. /\ q.state = "_O" /\ q.type = "NONE" /\ q.stack = Append(p.stack, "OBJECT")
      /\ q.out = Append(p.out, Item("OBJECT_BEGIN")) /\ q.expecting_key = TRUE
  BY DoOB DEF Moved
<1>4. o = Nest(n, "OBJECT_BEGIN")
  <2>1. p.out \in Seq(Items) /\ "OBJECT_BEGIN" \in ItemTypes
    BY Fields DEF ItemTypes, Opening, Fits, Items
  <2> QED BY <1>3, <2>1, EndAppended
<1> HIDE DEF n, o
<1>5. Top(n) \in {"START", "ARRAY", "KEYED"}
  BY <1>1, <1>2 DEF Expects, Resumed, Comments
<1>6. Shape(o) /\ Modes(o) = q.stack /\ Top(o) = "OBJECT"
  <2>1. Shape(o) /\ Modes(o) = Append(Modes(n), "OBJECT") /\ Top(o) = "OBJECT"
    BY <1>1, <1>4, <1>5, NestOpen DEF Modal
  <2> QED BY <1>1, <1>3, <2>1
<1>7. Expects(q, Top(o))
  BY <1>3, <1>6 DEF Expects, Resumed, Comments, Ints, Floats, Literals, Strings
<1> QED BY <1>6, <1>7, NestingFrom DEF o

(* of an array, *)
LEMMA ABNests ==
  ASSUME NEW c, NEW p, Fits(c, p), p.ret = "0", Nesting(p), NEW k, Enters(p.state, k, "AB"),
         NEW q, q = do_action(p, "AB"), q.ret = "0"
  PROVE  Nesting(q)
<1> DEFINE n == Nested(p.out)
           o == Nested(q.out)
<1>1. Shape(n) /\ Modes(n) = p.stack /\ Expects(p, Top(n))
  BY NestingIs
<1>2. p.state \in {"GO", "_V", "_A"}
  BY DEF Enters, Spelt, Between
<1>3. /\ q.state = "_A" /\ q.type = "NONE" /\ q.stack = Append(p.stack, "ARRAY")
      /\ q.out = Append(p.out, Item("ARRAY_BEGIN")) /\ q.expecting_key = p.expecting_key
  BY DoAB DEF Moved
<1>4. o = Nest(n, "ARRAY_BEGIN")
  <2>1. p.out \in Seq(Items) /\ "ARRAY_BEGIN" \in ItemTypes
    BY Fields DEF ItemTypes, Opening, Fits, Items
  <2> QED BY <1>3, <2>1, EndAppended
<1> HIDE DEF n, o
<1>5. Top(n) \in {"START", "ARRAY", "KEYED"} /\ ~p.expecting_key
  BY <1>1, <1>2 DEF Expects, Resumed, Comments, Strings
<1>6. Shape(o) /\ Modes(o) = q.stack /\ Top(o) = "ARRAY"
  <2>1. Shape(o) /\ Modes(o) = Append(Modes(n), "ARRAY") /\ Top(o) = "ARRAY"
    BY <1>1, <1>4, <1>5, NestOpen DEF Modal
  <2> QED BY <1>1, <1>3, <2>1
<1>7. Expects(q, Top(o))
  BY <1>3, <1>5, <1>6 DEF Expects, Resumed, Comments, Ints, Floats, Literals, Strings
<1> QED BY <1>6, <1>7, NestingFrom DEF o

(* the end of a string, *)
LEMMA SENests ==
  ASSUME NEW c, NEW p, Fits(c, p), p.ret = "0", Nesting(p), NEW k, Enters(p.state, k, "SE"),
         NEW q, q = do_action(p, "SE"), q.ret = "0"
  PROVE  Nesting(q)
<1> DEFINE n == Nested(p.out)
           o == Nested(q.out)
           t == IF p.expecting_key THEN "KEY" ELSE "STRING"
           s == IF p.expecting_key THEN "CO" ELSE "OK"
<1>1. Shape(n) /\ Modes(n) = p.stack /\ Expects(p, Top(n))
  BY NestingIs
<1>2. p.state = "_S"
  BY DEF Enters, Spelt, Between
<1>3. /\ q.state = s /\ q.type = "NONE" /\ q.stack = p.stack
      /\ q.out = Append(p.out, [type |-> t, data |-> p.buffer]) /\ q.expecting_key = FALSE
  BY DoSE DEF Moved
<1>4. o = Nest(n, t)
  <2>1. t \in ItemTypes
    BY DEF ItemTypes
  <2> HIDE DEF t
  <2>2. p.buffer \in Seq(Char)
    BY Fields DEF Fits
  <2> QED BY <1>3, <2>1, <2>2, ItemAppended
<1> HIDE DEF n, o
<1>5. CASE p.expecting_key
  <2>1. Top(n) = "OBJECT"
    BY <1>1, <1>2, <1>5 DEF Expects, Resumed, Comments, Strings
  <2>2. t = "KEY" /\ s = "CO"
    BY <1>5
  <2> HIDE DEF t, s
  <2>3. Shape(o) /\ Modes(o) = q.stack /\ Top(o) = "KEYED"
    BY <1>1, <1>3, <1>4, <2>1, <2>2, NestItem
  <2>4. Expects(q, Top(o))
    BY <1>3, <2>2, <2>3 DEF Expects, Resumed, Comments, Ints, Floats, Literals, Strings
  <2> QED BY <2>3, <2>4, NestingFrom DEF o
<1>6. CASE ~p.expecting_key
  <2>1. Top(n) \in {"ARRAY", "KEYED"}
    BY <1>1, <1>2, <1>6 DEF Expects, Resumed, Comments, Strings
  <2>2. t = "STRING" /\ s = "OK" /\ "STRING" \in Scalars
    BY <1>6 DEF Scalars
  <2> HIDE DEF t, s
  <2>3. Shape(o) /\ Modes(o) = q.stack /\ Top(o) \in {"OBJECT", "ARRAY"}
    BY <1>1, <1>3, <1>4, <2>1, <2>2, NestItem
  <2>4. Expects(q, Top(o))
    BY <1>3, <2>2, <2>3 DEF Expects, Resumed, Comments, Ints, Floats, Literals, Strings
  <2> QED BY <2>3, <2>4, NestingFrom DEF o
<1> QED BY <1>5, <1>6

(* No item, the same structures open: only what is expected changes. *)
LEMMA SameNests ==
  ASSUME NEW p, Nesting(p), p.ret = "0",
         NEW q, q.out = p.out, q.stack = p.stack,
         Expects(p, Top(Nested(p.out))) => Expects(q, Top(Nested(p.out)))
  PROVE  Nesting(q)
<1>1. LET n == Nested(p.out) IN Shape(n) /\ Modes(n) = p.stack /\ Expects(p, Top(n))
  BY NestingIs
<1> QED BY <1>1, NestingFrom

(* Actions that only note what comes. *)
LEMMA LeafNests ==
  ASSUME NEW c, NEW p, Fits(c, p), p.ret = "0", Nesting(p), NEW n \in Leaves,
         NEW k, Enters(p.state, k, n), NEW q, q = do_action(p, n), q.ret = "0"
  PROVE  Nesting(q)
<1> DEFINE t == Top(Nested(p.out))
<1>1. /\ q.state = Target[n] /\ q.type = (IF n = "KS" THEN "NONE" ELSE PendingType[n])
      /\ q.stack = p.stack /\ q.out = p.out /\ q.expecting_key = p.expecting_key
  BY DoLeave DEF Moved
<1> HIDE DEF t
<1>2. ASSUME Expects(p, t) PROVE Expects(q, t)
  <2> USE DEF Expects, Resumed, Comments, Ints, Floats, Literals, Strings, Enters, Spelt, Between
  <2>1. CASE n = "KS"
    BY <1>1, <1>2, <2>1 DEF Target
  <2>2. CASE n \in {"FA", "TR", "NU"}
    BY <1>1, <1>2, <2>2 DEF Target, PendingType
  <2>3. CASE n \in {"DE", "DF"}
    BY <1>1, <1>2, <2>3 DEF Target, PendingType
  <2>4. CASE n \in {"MX", "ZX", "IX"}
    BY <1>1, <1>2, <2>4 DEF Target, PendingType
  <2> QED BY <2>1, <2>2, <2>3, <2>4 DEF Leaves
<1> QED BY <1>1, <1>2, SameNests DEF t

(* A state of the table entered without an action. *)
LEMMA StateNests ==
  ASSUME NEW c, NEW p, Fits(c, p), p.ret = "0", Nesting(p), NEW n \in States,
         NEW k, Enters(p.state, k, n), NEW q, q = [p EXCEPT !.state = n]
  PROVE  Nesting(q)
<1> DEFINE t == Top(Nested(p.out))
<1>1. /\ q.state = n /\ q.type = p.type /\ q.save_state = p.save_state
      /\ q.stack = p.stack /\ q.out = p.out /\ q.expecting_key = p.expecting_key
  BY DEF Fits, Parsers
<1> HIDE DEF t
<1>2. ASSUME Expects(p, t) PROVE Expects(q, t)
  <2> USE DEF Expects, Resumed, Comments, Ints, Floats, Literals, Strings, Enters, Spelt, Between
  <2>1. CASE n \in Between
    BY <1>1, <1>2, <2>1 DEF Ending
  <2>2. CASE n \in Strings
    BY <1>1, <1>2, <2>2
  <2>3. CASE n \in Ints \cup Floats
    BY <1>1, <1>2, <2>3
  <2>4. CASE n \in Literals
    BY <1>1, <1>2, <2>4
  <2>5. CASE n \in Comments
    BY <1>1, <1>2, <2>5
  <2> QED BY <2>1, <2>2, <2>3, <2>4, <2>5, StatesAre
<1> QED BY <1>1, <1>2, SameNests DEF t

-----------------------------------------------------------------------------
(* Strings are UTF-8 *)

(* The characters outside of ASCII. *)
Unplain == {"<2>", "<3>", "<4>", "<c>", Other}

(* None of those has a row of its own. *)
LEMMA QuotesAreNamed ==
  {C_SPACE, C_LCURB, C_RCURB, C_COMMA, C_QUOTE} \cap Unplain = {}
<1>1. C_SPACE \notin Unplain
  BY Zenon DEF C_SPACE, Unplain, Other
<1>2. C_LCURB \notin Unplain
  BY Zenon DEF C_LCURB, Unplain, Other
<1>3. C_RCURB \notin Unplain
  BY Zenon DEF C_RCURB, Unplain, Other
<1>4. C_COMMA \notin Unplain
  BY Zenon DEF C_COMMA, Unplain, Other
<1>5. C_QUOTE \notin Unplain
  BY Zenon DEF C_QUOTE, Unplain, Other
<1> QED BY <1>1, <1>2, <1>3, <1>4, <1>5

(* Nor do the tables name them. *)
LEMMA NamedArePlain == Named \cap Unplain = {}
<1>1. Named = {C_SPACE, C_LCURB, C_RCURB, C_COMMA, C_QUOTE}
              \cup (Named \ {C_SPACE, C_LCURB, C_RCURB, C_COMMA, C_QUOTE})
  BY DEF Named, White
<1>2. (Named \ {C_SPACE, C_LCURB, C_RCURB, C_COMMA, C_QUOTE}) \cap Unplain = {}
  BY DEF Named, White, Hex, Digit, Sign, Unplain, Other
<1> QED BY <1>1, <1>2, QuotesAreNamed

(* Only strings and comments take any character. *)
LEMMA EntersNamed ==
  ASSUME NEW st, NEW k, NEW n, Enters(st, k, n), n \notin {"C2", "Y1"},
         ~(n = "_S" /\ st = "_S")
  PROVE  k \in Named
<1>1. /\ White \subseteq Named /\ Hex \subseteq Named /\ Digit \subseteq Named
      /\ Sign \subseteq Named /\ Escapable \subseteq Named /\ Digit \ {"0"} \subseteq Named
      /\ {"e", "E"} \subseteq Named
  BY DEF Named, Hex, Digit, Escapable
<1>2. {C_LCURB, C_RCURB, "[", "]", ":", C_COMMA, C_QUOTE, "\\", "/", ".",
       "l", "n", "r", "s", "t", "u", "*", "#", "0", "-", "e", "a", "f", "\n"} \subseteq Named
  BY DEF Named, Hex, Digit, Sign, White
<1> QED BY <1>1, <1>2 DEF Enters, Spelt

(* A character that ends or begins anything is ASCII. *)
LEMMA PlainChar ==
  ASSUME NEW c, NEW p, Fits(c, p), NEW ch, NEW n, Enters(p.state, Class(ch), n),
         InUtf8(p, ch), n \notin {"C2", "Y1"}, ~(n = "_S" /\ p.state = "_S")
  PROVE  /\ ch \in Named /\ ch \notin Unplain
         /\ p.utf8_multibyte_left = 0 /\ Left(p, ch) = 0 /\ Utf8Next(0, ch) = 0
<1>1. Class(ch) \in Named
  BY EntersNamed
<1>2. Other \notin Named
  BY NamedArePlain DEF Unplain
<1>3. ch \in Named /\ ch \notin Unplain
  BY <1>1, <1>2, NamedArePlain DEF Class
<1>4. p.utf8_multibyte_left \in 0 .. 3
  BY Fields DEF Fits
<1>5. p.utf8_multibyte_left = 0
  BY <1>3, <1>4 DEF InUtf8, Unplain
<1> QED BY <1>3, <1>5 DEF Left, Utf8Next, Unplain, utf8_header_table

(* ASCII after a whole sequence is whole. *)
LEMMA Utf8Push ==
  ASSUME NEW b \in Seq(Char), NEW x \in Char, Utf8Left(b) = 0, x \notin Unplain
  PROVE  Utf8Left(Append(b, x)) = 0
<1>1. Utf8Left(Append(b, x)) = Utf8Next(Utf8Left(b), x)
  BY Utf8LeftAppend
<1> QED BY <1>1 DEF Utf8Next, Unplain, utf8_header_table

(* What is kept of a character continues the sequence of the buffer. *)
LEMMA KeptUtf8 ==
  ASSUME NEW c, NEW p, Fits(c, p), p.ret = "0", Utf8(p), NEW ch \in Char, NEW n,
         Enters(p.state, Class(ch), n), InUtf8(p, ch)
  PROVE  /\ Utf8Left(Kept(p, ch, n)) = IF n = "_S" THEN Left(p, ch) ELSE 0
         /\ n \notin {"_S", "C2", "Y1"} => Left(p, ch) = 0
<1>0. /\ p.buffer \in Seq(Char) /\ p.utf8_multibyte_left \in 0 .. 3
      /\ Utf8Left(p.buffer) = IF p.state = "_S" THEN p.utf8_multibyte_left ELSE 0
      /\ p.state \notin {"_S", "C2", "Y1"} => p.utf8_multibyte_left = 0
  BY Fields DEF Fits, Utf8
<1>1. CASE n = "_S" /\ p.state = "_S"
  <2>1. Kept(p, ch, n) = Append(p.buffer, ch)
    BY <1>1 DEF Kept, buffer_policy_table
  <2>2. Utf8Left(Append(p.buffer, ch)) = Utf8Next(p.utf8_multibyte_left, ch)
    BY <1>0, <1>1, Utf8LeftAppend
  <2>3. Utf8Next(p.utf8_multibyte_left, ch) = Left(p, ch)
    BY <1>0 DEF Utf8Next, Left, InUtf8, utf8_header_table
  <2> QED BY <1>1, <2>1, <2>2, <2>3
<1>2. CASE n \in {"C2", "Y1"}
  <2>1. p.state \in Comments
    BY <1>2 DEF Enters, Spelt, Between, Comments
  <2>2. Kept(p, ch, n) = p.buffer
    BY <1>2, <2>1 DEF Kept, buffer_policy_table, Comments, Number
  <2> QED BY <1>0, <1>2, <2>1, <2>2 DEF Comments
<1>3. CASE n \notin {"C2", "Y1"} /\ ~(n = "_S" /\ p.state = "_S")
  <2>1. ch \notin Unplain /\ p.utf8_multibyte_left = 0 /\ Left(p, ch) = 0
    BY <1>3, PlainChar
  <2>2. Utf8Left(p.buffer) = 0
    BY <1>0, <2>1
  <2>3. Kept(p, ch, n) \in {p.buffer, Append(p.buffer, ch), Append(p.buffer, Unescaped(ch))}
    BY DEF Kept
  <2>4. Unescaped(ch) \in Char /\ Unescaped(ch) \notin Unplain
    BY <2>1, UnescapedIs DEF Unplain, Other
  <2>5. Utf8Left(Kept(p, ch, n)) = 0
    BY <1>0, <2>1, <2>2, <2>3, <2>4, Utf8Push
  <2> QED BY <2>1, <2>5
<1> QED BY <1>1, <1>2, <1>3

(* Without the digits of its escape a string is what it was before them. *)
LEMMA Utf8Shorter ==
  ASSUME NEW b \in Seq(Char), NEW i \in 1 .. Len(b), b[i] \in Hex,
         Utf8Left(SubSeq(b, 1, i)) = 0
  PROVE  Utf8Left(SubSeq(b, 1, i - 1)) = 0
<1> DEFINE a == SubSeq(b, 1, i - 1)
<1>1. SubSeq(b, 1, i) = Append(a, b[i]) /\ a \in Seq(Char) /\ b[i] \in Char
  <2>1. Len(b) \in Nat /\ i \in Nat
    OBVIOUS
  <2>2. a \in Seq(Char) /\ Len(a) = i - 1 /\ (\A j \in 1 .. i - 1 : a[j] = b[j]) /\ b[i] \in Char
    OBVIOUS
  <2>3. /\ SubSeq(b, 1, i) \in Seq(Char) /\ Len(SubSeq(b, 1, i)) = i
        /\ \A j \in 1 .. i : SubSeq(b, 1, i)[j] = b[j]
    OBVIOUS
  <2> HIDE DEF a
  <2> DEFINE d == SubSeq(b, 1, i)
             e == Append(a, b[i])
  <2>4. e \in Seq(Char) /\ Len(e) = i /\ \A j \in 1 .. i : e[j] = b[j]
    BY <2>1, <2>2
  <2>5. d \in Seq(Char) /\ Len(d) = i /\ \A j \in 1 .. i : d[j] = b[j]
    BY <2>3
  <2> HIDE DEF d, e
  <2>6. d = e
    BY <2>4, <2>5, SeqEqual
  <2> QED BY <2>2, <2>6 DEF d, e
<1> HIDE DEF a
<1>2. Utf8Next(Utf8Left(a), b[i]) = 0
  BY <1>1, Utf8LeftAppend
<1>3. b[i] # "<c>"
  BY DEF Hex, Digit
<1>4. Utf8Left(a) = 0
  BY <1>2, <1>3 DEF Utf8Next
<1> QED BY <1>4 DEF a

(* The same for all four digits. *)
LEMMA Utf8Undigited ==
  ASSUME NEW b \in Seq(Char), Len(b) >= 4, \A i \in Len(b) - 3 .. Len(b) : b[i] \in Hex,
         Utf8Left(b) = 0
  PROVE  Utf8Left(SubSeq(b, 1, Len(b) - 4)) = 0
<1> DEFINE l == Len(b)
<1>0. l \in Nat /\ l >= 4 /\ SubSeq(b, 1, l) = b
  OBVIOUS
<1>1. /\ l \in 1 .. Len(b) /\ l - 1 \in 1 .. Len(b) /\ l - 2 \in 1 .. Len(b) /\ l - 3 \in 1 .. Len(b)
      /\ b[l] \in Hex /\ b[l - 1] \in Hex /\ b[l - 2] \in Hex /\ b[l - 3] \in Hex
      /\ (l - 1) - 1 = l - 2 /\ (l - 2) - 1 = l - 3 /\ (l - 3) - 1 = l - 4
  BY <1>0
<1> HIDE DEF l
<1>2. Utf8Left(SubSeq(b, 1, l - 1)) = 0
  BY <1>0, <1>1, Utf8Shorter
<1>3. Utf8Left(SubSeq(b, 1, l - 2)) = 0
  BY <1>1, <1>2, Utf8Shorter
<1>4. Utf8Left(SubSeq(b, 1, l - 3)) = 0
  BY <1>1, <1>3, Utf8Shorter
<1>5. Utf8Left(SubSeq(b, 1, l - 4)) = 0
  BY <1>1, <1>4, Utf8Shorter
<1> QED BY <1>5 DEF l

(* The bytes of a code point are a whole sequence. *)
LEMMA Utf8Decoded ==
  ASSUME NEW b \in Seq(Char), Utf8Left(b) = 0, NEW k \in 1 .. 4
  PROVE  Utf8Left(b \o Utf8Bytes(k)) = 0
<1>0. /\ "<1>" \in Char /\ "<2>" \in Char /\ "<3>" \in Char /\ "<4>" \in Char /\ "<c>" \in Char
  BY DEF Char, Bytes
<1>a. ASSUME NEW a \in Seq(Char), NEW x \in Char
      PROVE  Append(a, x) \in Seq(Char) /\ Utf8Left(Append(a, x)) = Utf8Next(Utf8Left(a), x)
  BY Utf8LeftAppend
<1>b. /\ Utf8Next(0, "<1>") = 0 /\ Utf8Next(0, "<2>") = 1 /\ Utf8Next(0, "<3>") = 2
      /\ Utf8Next(0, "<4>") = 3 /\ Utf8Next(1, "<c>") = 0 /\ Utf8Next(2, "<c>") = 1
      /\ Utf8Next(3, "<c>") = 2
  BY DEF Utf8Next, utf8_header_table
<1>1. CASE k = 1
  <2>1. b \o Utf8Bytes(k) = Append(b, "<1>")
    BY <1>0, <1>1 DEF Utf8Bytes
  <2> QED BY <1>0, <1>a, <1>b, <2>1
<1>2. CASE k = 2
  <2> DEFINE a1 == Append(b, "<2>")
             a2 == Append(a1, "<c>")
  <2>1. b \o Utf8Bytes(k) = a2
    BY <1>0, <1>2 DEF Utf8Bytes
  <2>2. a1 \in Seq(Char) /\ Utf8Left(a1) = 1
    BY <1>0, <1>a, <1>b
  <2> HIDE DEF a1
  <2>3. a2 \in Seq(Char) /\ Utf8Left(a2) = 0
    BY <1>0, <1>a, <1>b, <2>2
  <2> HIDE DEF a2
  <2> QED BY <2>1, <2>3
<1>3. CASE k = 3
  <2> DEFINE a1 == Append(b, "<3>")
             a2 == Append(a1, "<c>")
             a3 == Append(a2, "<c>")
  <2>1. b \o Utf8Bytes(k) = a3
    BY <1>0, <1>3 DEF Utf8Bytes
  <2>2. a1 \in Seq(Char) /\ Utf8Left(a1) = 2
    BY <1>0, <1>a, <1>b
  <2> HIDE DEF a1
  <2>3. a2 \in Seq(Char) /\ Utf8Left(a2) = 1
    BY <1>0, <1>a, <1>b, <2>2
  <2> HIDE DEF a2
  <2>4. a3 \in Seq(Char) /\ Utf8Left(a3) = 0
    BY <1>0, <1>a, <1>b, <2>3
  <2> HIDE DEF a3
  <2> QED BY <2>1, <2>4
<1>4. CASE k = 4
  <2> DEFINE a1 == Append(b, "<4>")
             a2 == Append(a1, "<c>")
             a3 == Append(a2, "<c>")
             a4 == Append(a3, "<c>")
  <2>1. b \o Utf8Bytes(k) = a4
    BY <1>0, <1>4 DEF Utf8Bytes
  <2>2. a1 \in Seq(Char) /\ Utf8Left(a1) = 3
    BY <1>0, <1>a, <1>b
  <2> HIDE DEF a1
  <2>3. a2 \in Seq(Char) /\ Utf8Left(a2) = 2
    BY <1>0, <1>a, <1>b, <2>2
  <2> HIDE DEF a2
  <2>4. a3 \in Seq(Char) /\ Utf8Left(a3) = 1
    BY <1>0, <1>a, <1>b, <2>3
  <2> HIDE DEF a3
  <2>5. a4 \in Seq(Char) /\ Utf8Left(a4) = 0
    BY <1>0, <1>a, <1>b, <2>4
  <2> HIDE DEF a4
  <2> QED BY <2>1, <2>5
<1> QED BY <1>1, <1>2, <1>3, <1>4

-----------------------------------------------------------------------------
(* Errors *)

(* The items once a structure has begun. *)
Begun(p, x) == Append(p.out, Item(x))

(* What an action that fails has already reported. *)
LEMMA ErrorOut ==
  ASSUME NEW c, NEW p, Fits(c, p), p.ret = "0", NEW n \in Actions,
         n = "UC" => Len(p.buffer) >= 4, NEW q, q = do_action(p, n), q.ret # "0"
  PROVE  \/ q.out = p.out
         \/ q.out = Flushed(p)
         \/ n = "OB" /\ q.out = Begun(p, "OBJECT_BEGIN")
         \/ n = "AB" /\ q.out = Begun(p, "ARRAY_BEGIN")
<1> DEFINE b == do_buffer(p)
           o == Flushed(p)
<1>0. p \in Parsers(c) /\ b = [p EXCEPT !.out = o, !.buffer = <<>>] /\ b \in Parsers(c)
  BY FlushedIs DEF Fits
<1> HIDE DEF b, o
<1>1. b.out = o /\ b.ret = "0"
  BY <1>0 DEF Parsers
<1>3. ASSUME NEW a, NEW m, a = state_pop(b, m), a.ret # "0" PROVE a.out = o
  <2>1. CASE b.stack = <<>>
    <3>1. a = Fail(b, "POP_EMPTY")
      BY <1>3, <2>1 DEF state_pop
    <3> QED BY <1>0, <1>1, <3>1 DEF Fail, Parsers
  <2>2. CASE b.stack # <<>>
    <3> DEFINE d == [b EXCEPT !.stack = SubSeq(b.stack, 1, Len(b.stack) - 1)]
    <3>1. a = d \/ a = Fail(d, "POP_UNEXPECTED_MODE")
      BY <1>3, <2>2 DEF state_pop
    <3>2. d.out = o /\ Fail(d, "POP_UNEXPECTED_MODE").out = o
      BY <1>0, <1>1 DEF Fail, Parsers
    <3> HIDE DEF d
    <3> QED BY <3>1, <3>2
  <2> QED BY <2>1, <2>2
<1>4. ASSUME NEW x \in ItemTypes, NEW m, NEW a, a = state_push(do_callback(p, x), m), a.ret # "0"
      PROVE  a.out = Begun(p, x)
  <2> DEFINE d == do_callback(p, x)
  <2>1. d.out = Begun(p, x) /\ d.ret = "0"
    BY <1>0 DEF do_callback, Begun, Item, Parsers
  <2>2. Fits(c, d)
    BY CallbackFits
  <2> HIDE DEF d
  <2>3. \A e : Fail(d, e).out = d.out
    BY <2>2 DEF Fits, Fail, Parsers
  <2>4. a.out = d.out
    BY <1>4, <2>2, <2>3 DEF Fits, state_push, Parsers, d
  <2> QED BY <2>1, <2>4
<1>5. CASE n = "OE"
  <2> DEFINE a == state_pop(b, "OBJECT")
  <2>1. q.out = IF a.ret = "0" THEN q.out ELSE a.out
    BY <1>5 DEF do_action, Call, act_oe, Chk, DoBuffer, b, Target, PendingType
  <2>2. a.ret # "0"
    BY <1>5, DoBufferFits, StatePopFits, CallbackFits
       DEF do_action, Call, act_oe, Chk, DoBuffer, b, do_callback, Fits, Parsers, Target,
           PendingType
  <2> QED BY <1>3, <2>1, <2>2 DEF o
<1>6. CASE n = "AE"
  <2> DEFINE a == state_pop(b, "ARRAY")
  <2>1. q.out = IF a.ret = "0" THEN q.out ELSE a.out
    BY <1>6 DEF do_action, Call, act_ae, Chk, DoBuffer, b, Target, PendingType
  <2>2. a.ret # "0"
    BY <1>6, DoBufferFits, StatePopFits, CallbackFits
       DEF do_action, Call, act_ae, Chk, DoBuffer, b, do_callback, Fits, Parsers, Target,
           PendingType
  <2> QED BY <1>3, <2>1, <2>2 DEF o
<1>7. CASE n = "SP"
  <2> DEFINE a == act_sp(b)
  <2>1. q = IF a.ret = "0" THEN [a EXCEPT !.state = a.state, !.type = "NONE"] ELSE a
    BY <1>7 DEF do_action, Call, Chk, DoBuffer, Target, PendingType, b
  <2>2. a = Fail(b, "COMMA_OUT_OF_STRUCTURE") \/ a = [b EXCEPT !.expecting_key = TRUE, !.state = "_K"]
        \/ a = [b EXCEPT !.state = "_V"]
    BY DEF act_sp
  <2>3. a.out = o
    BY <1>0, <2>2 DEF Fail, Parsers
  <2> HIDE DEF a
  <2> QED BY <1>0, <2>1, <2>2, <2>3 DEF Parsers, Fail, o
<1>8. CASE n = "CB"
  <2> DEFINE a == act_cb(b)
  <2>1. q = IF a.ret = "0" THEN [a EXCEPT !.state = "C1", !.type = "NONE"] ELSE a
    BY <1>8 DEF do_action, Call, Chk, DoBuffer, Target, PendingType, b
  <2>2. a = Fail(b, "COMMENT_NOT_ALLOWED") \/ a = [b EXCEPT !.save_state = b.state]
    BY DEF act_cb
  <2> HIDE DEF a
  <2> QED BY <1>0, <2>1, <2>2 DEF Parsers, Fail, o
<1>9. CASE n = "YB"
  <2> DEFINE a == act_yb(b)
  <2>1. q = IF a.ret = "0" THEN [a EXCEPT !.state = "Y1", !.type = "NONE"] ELSE a
    BY <1>9 DEF do_action, Call, Chk, DoBuffer, Target, PendingType, b
  <2>2. a = Fail(b, "COMMENT_NOT_ALLOWED") \/ a = [b EXCEPT !.save_state = b.state]
    BY DEF act_yb
  <2> HIDE DEF a
  <2> QED BY <1>0, <2>1, <2>2 DEF Parsers, Fail, o
<1>10. CASE n = "OB"
  <2> DEFINE a == state_push(do_callback(p, "OBJECT_BEGIN"), "OBJECT")
             d == IF a.ret = "0" THEN [a EXCEPT !.expecting_key = TRUE] ELSE a
  <2>0. "OBJECT_BEGIN" \in ItemTypes
    BY DEF ItemTypes, Opening
  <2>1. q = IF d.ret = "0" THEN [d EXCEPT !.state = "_O", !.type = "NONE"] ELSE d
    BY <1>10 DEF do_action, Call, Chk, DoBuffer, Target, PendingType, act_ob
  <2> HIDE DEF a
  <2>2. a.ret # "0" /\ q = a
    <3>1. CASE a.ret = "0"
      <4>1. d.ret = "0" /\ q = [d EXCEPT !.state = "_O", !.type = "NONE"]
        BY <2>1, <3>1
      <4> HIDE DEF d
      <4> QED BY <4>1
    <3>2. CASE a.ret # "0"
      BY <2>1, <3>2
    <3> QED BY <3>1, <3>2
  <2>3. a.out = Begun(p, "OBJECT_BEGIN")
    BY <1>4, <2>0, <2>2 DEF a
  <2> QED BY <1>10, <2>2, <2>3
<1>11. CASE n = "AB"
  <2> DEFINE a == state_push(do_callback(p, "ARRAY_BEGIN"), "ARRAY")
  <2>0. "ARRAY_BEGIN" \in ItemTypes
    BY DEF ItemTypes, Opening
  <2>1. q = IF a.ret = "0" THEN [a EXCEPT !.state = "_A", !.type = "NONE"] ELSE a
    BY <1>11 DEF do_action, Call, Chk, DoBuffer, Target, PendingType, act_ab
  <2> HIDE DEF a
  <2>2. a.ret # "0" /\ q = a
    BY <2>1
  <2>3. a.out = Begun(p, "ARRAY_BEGIN")
    BY <1>4, <2>0, <2>2 DEF a
  <2> QED BY <1>11, <2>2, <2>3
<1>12. CASE n = "SE"
  BY <1>0, <1>12 DEF do_action, Call, Chk, DoBuffer, act_se, do_callback_withbuf, Parsers
<1>13. CASE n = "CE"
  BY <1>0, <1>13 DEF do_action, Call, Chk, DoBuffer, act_ce, Parsers
<1>14. CASE n = "UC"
  <2>1. q.ret # "0" => q.out = p.out
    BY <1>14, DoUC DEF Moved
  <2> QED BY <2>1
<1>15. CASE n \in Leaves
  BY <1>0, <1>15 DEF do_action, Call, Chk, DoBuffer, Leaves
<1> QED BY <1>5, <1>6, <1>7, <1>8, <1>9, <1>10, <1>11, <1>12, <1>13, <1>14, <1>15 DEF Actions

(* Every action, successful or not, keeps the nesting. *)
LEMMA ActionNests ==
  ASSUME NEW c, NEW p, Fits(c, p), p.ret = "0", Nesting(p), NEW k, NEW n \in Actions,
         Enters(p.state, k, n), n = "UC" => Len(p.buffer) >= 4, NEW q, q = do_action(p, n)
  PROVE  Nesting(q)
<1>1. CASE q.ret # "0"
  <2>0. LET m == Nested(p.out) IN Shape(m) /\ Expects(p, Top(m))
    BY NestingIs
  <2>1. Nested(p.out) # <<"BAD">> /\ Nested(Flushed(p)) # <<"BAD">>
    BY <2>0, FlushedNests, ShapeIs
  <2>2. ASSUME n \in {"OB", "AB"} PROVE Top(Nested(p.out)) \in {"START", "ARRAY", "KEYED"}
    <3>1. p.state \in {"GO", "_V", "_A"}
      BY <2>2 DEF Enters, Spelt, Between
    <3> QED BY <2>0, <3>1 DEF Expects, Resumed, Comments
  <2>3. p.out \in Seq(Items) /\ {"OBJECT_BEGIN", "ARRAY_BEGIN"} \subseteq ItemTypes
    BY Fields DEF Fits, Items, ItemTypes, Opening
  <2>4. n = "OB" => Nested(Begun(p, "OBJECT_BEGIN")) # <<"BAD">>
    <3>1. Nested(Begun(p, "OBJECT_BEGIN")) = Nest(Nested(p.out), "OBJECT_BEGIN")
      BY <2>3, EndAppended DEF Begun
    <3>2. n = "OB" => Shape(Nest(Nested(p.out), "OBJECT_BEGIN"))
      BY <2>0, <2>2, NestOpen DEF Modal
    <3> QED BY <3>1, <3>2, ShapeIs
  <2>5. n = "AB" => Nested(Begun(p, "ARRAY_BEGIN")) # <<"BAD">>
    <3>1. Nested(Begun(p, "ARRAY_BEGIN")) = Nest(Nested(p.out), "ARRAY_BEGIN")
      BY <2>3, EndAppended DEF Begun
    <3>2. n = "AB" => Shape(Nest(Nested(p.out), "ARRAY_BEGIN"))
      BY <2>0, <2>2, NestOpen DEF Modal
    <3> QED BY <3>1, <3>2, ShapeIs
  <2>6. Nested(q.out) # <<"BAD">>
    BY <1>1, <2>1, <2>4, <2>5, ErrorOut
  <2> QED BY <1>1, <2>6 DEF Nesting
<1>2. CASE q.ret = "0"
  <2>1. CASE n = "OE"
    BY <1>2, <2>1, OENests
  <2>2. CASE n = "AE"
    BY <1>2, <2>2, AENests
  <2>3. CASE n = "SP"
    BY <1>2, <2>3, SPNests
  <2>4. CASE n \in {"CB", "YB"}
    <3>1. p.state \in Between \cup {"Z0", "I0", "R2"}
      BY <2>4 DEF Enters, Spelt, Between
    <3>2. /\ q.state \in {"C1", "Y1"} /\ q.type = "NONE" /\ q.stack = p.stack
          /\ q.out = Flushed(p) /\ q.expecting_key = p.expecting_key /\ q.save_state = p.state
      BY <1>2, <2>4, DoCB, DoYB DEF Moved
    <3> QED BY <3>1, <3>2, CommentNests
  <2>5. CASE n = "OB"
    BY <1>2, <2>5, OBNests
  <2>6. CASE n = "AB"
    BY <1>2, <2>6, ABNests
  <2>7. CASE n = "SE"
    BY <1>2, <2>7, SENests
  <2>8. CASE n = "CE"
    <3>1. p.state \in Comments
      BY <2>8 DEF Enters, Spelt, Between, Comments
    <3>2. /\ q.state = IF p.save_state \in Between THEN p.save_state ELSE "OK"
          /\ q.type = "NONE" /\ q.stack = p.stack /\ q.out = p.out
      BY <1>2, <2>8, DoCE DEF Moved
    <3>3. q.expecting_key = p.expecting_key
      BY <1>2, <2>8, DoCE
    <3>4. q.state = Resumed(p) /\ q.state \in Between
      BY <3>1, <3>2 DEF Resumed, Between
    <3>5. Resumed(q) = q.state /\ q.state \notin Comments
      BY <3>4 DEF Resumed, Between, Comments
    <3>6. ASSUME NEW t, Expects(p, t) PROVE Expects(q, t)
      BY <3>1, <3>2, <3>3, <3>4, <3>5, <3>6 DEF Expects
    <3> QED BY <3>2, <3>6, SameNests
  <2>9. CASE n = "UC"
    <3>1. p.state = "U4"
      BY <2>9 DEF Enters, Spelt, Between
    <3>2. /\ q.state \in {"_S", "D1"} /\ q.type = "NONE" /\ q.stack = p.stack /\ q.out = p.out
          /\ q.expecting_key = p.expecting_key
      BY <1>2, <2>9, DoUC DEF Moved
    <3>3. ASSUME NEW t, Expects(p, t) PROVE Expects(q, t)
      BY <3>1, <3>2, <3>3 DEF Expects, Resumed, Comments, Ints, Floats, Literals, Strings
    <3> QED BY <3>2, <3>3, SameNests
  <2>10. CASE n \in Leaves
    BY <1>2, <2>10, LeafNests
  <2> QED BY <2>1, <2>2, <2>3, <2>4, <2>5, <2>6, <2>7, <2>8, <2>9, <2>10 DEF Actions
<1> QED BY <1>1, <1>2

-----------------------------------------------------------------------------
(* Every character keeps the invariant *)

(* Every item of a sequence is well-formed UTF-8. *)
Whole(o) == \A k \in DOMAIN o : Utf8Left(o[k].data) = 0

(* A whole string may be appended. *)
LEMMA WholeAppend ==
  ASSUME NEW o \in Seq(Items), Whole(o), NEW t, NEW d, Utf8Left(d) = 0
  PROVE  Whole(Append(o, [type |-> t, data |-> d]))
<1> DEFINE e == [type |-> t, data |-> d]
           a == Append(o, e)
<1>1. e.data = d
  OBVIOUS
<1> HIDE DEF e
<1>2. /\ Len(o) \in Nat /\ DOMAIN o = 1 .. Len(o) /\ DOMAIN a = 1 .. Len(o) + 1
      /\ \A i \in 1 .. Len(o) : a[i] = o[i]
      /\ a[Len(o) + 1] = e
  OBVIOUS
<1> HIDE DEF a
<1>3. ASSUME NEW i \in DOMAIN a PROVE Utf8Left(a[i].data) = 0
  <2>1. i \in 1 .. Len(o) \/ i = Len(o) + 1
    BY <1>2
  <2> QED BY <1>1, <1>2, <2>1 DEF Whole
<1> QED BY <1>3 DEF Whole, a, e

(* An action reports whole strings and leaves a whole one in the buffer. *)
LEMMA ActionWhole ==
  ASSUME NEW c, NEW p, Fits(c, p), p.ret = "0", Nesting(p), Whole(p.out),
         Utf8Left(p.buffer) = 0, p.utf8_multibyte_left = 0, NEW n \in Actions,
         n = "UC" => /\ Len(p.buffer) >= 4
                     /\ \A i \in Len(p.buffer) - 3 .. Len(p.buffer) : p.buffer[i] \in Hex,
         NEW q, q = do_action(p, n)
  PROVE  /\ Whole(q.out)
         /\ q.ret = "0" => Utf8Left(q.buffer) = 0 /\ q.utf8_multibyte_left = 0
<1>0. /\ p.out \in Seq(Items) /\ p.buffer \in Seq(Char) /\ Flushed(p) \in Seq(Items)
      /\ Utf8Left(<<>>) = 0
  BY Fields, FlushedNests, Utf8LeftEmpty DEF Fits, Items
<1>1. Whole(Flushed(p))
  BY <1>0, WholeAppend DEF Flushed
<1>2. ASSUME NEW o \in Seq(Items), Whole(o), NEW t PROVE Whole(Append(o, Item(t)))
  BY <1>0, <1>2, WholeAppend DEF Item
<1>3. CASE q.ret # "0"
  <2>1. \/ q.out = p.out \/ q.out = Flushed(p)
        \/ q.out = Begun(p, "OBJECT_BEGIN") \/ q.out = Begun(p, "ARRAY_BEGIN")
    BY <1>3, ErrorOut
  <2> QED BY <1>0, <1>1, <1>2, <1>3, <2>1 DEF Begun
<1>4. CASE q.ret = "0"
  <2>1. CASE n = "OE"
    BY <1>0, <1>1, <1>2, <1>4, <2>1, DoOE DEF Moved
  <2>2. CASE n = "AE"
    BY <1>0, <1>1, <1>2, <1>4, <2>2, DoAE DEF Moved
  <2>3. CASE n = "SP"
    BY <1>0, <1>1, <1>4, <2>3, DoSP DEF Moved
  <2>4. CASE n \in {"CB", "YB"}
    BY <1>0, <1>1, <1>4, <2>4, DoCB, DoYB DEF Moved
  <2>5. CASE n = "OB"
    BY <1>0, <1>2, <1>4, <2>5, DoOB DEF Moved
  <2>6. CASE n = "AB"
    BY <1>0, <1>2, <1>4, <2>6, DoAB DEF Moved
  <2>7. CASE n = "SE"
    <3> DEFINE t == IF p.expecting_key THEN "KEY" ELSE "STRING"
    <3>1. /\ q.buffer = <<>> /\ q.utf8_multibyte_left = p.utf8_multibyte_left
          /\ q.out = Append(p.out, [type |-> t, data |-> p.buffer])
      BY <1>4, <2>7, DoSE DEF Moved
    <3> HIDE DEF t
    <3> QED BY <1>0, <3>1, WholeAppend
  <2>8. CASE n = "CE"
    BY <1>0, <1>4, <2>8, DoCE DEF Moved
  <2>9. CASE n = "UC"
    <3> DEFINE s == SubSeq(p.buffer, 1, Len(p.buffer) - 4)
    <3>1. Utf8Left(s) = 0 /\ s \in Seq(Char)
      <4>1. s \in Seq(Char)
        BY <1>0, <2>9
      <4>2. Utf8Left(s) = 0
        BY <1>0, <2>9, Utf8Undigited
      <4> QED BY <4>1, <4>2
    <3>2. \A k \in 1 .. 4 : Utf8Left(s \o Utf8Bytes(k)) = 0
      <4> HIDE DEF s
      <4> QED BY <3>1, Utf8Decoded
    <3>3. /\ \/ \E k \in 1 .. 4 : q.buffer = s \o Utf8Bytes(k)
             \/ q.buffer = s
          /\ q.out = p.out /\ q.utf8_multibyte_left = p.utf8_multibyte_left
      BY <1>4, <2>9, DoUC DEF Moved
    <3> HIDE DEF s
    <3> QED BY <3>1, <3>2, <3>3
  <2>10. CASE n \in Leaves
    BY <1>4, <2>10, DoLeave DEF Moved
  <2> QED BY <2>1, <2>2, <2>3, <2>4, <2>5, <2>6, <2>7, <2>8, <2>9, <2>10 DEF Actions
<1> QED BY <1>3, <1>4

(* Taking a character and keeping it in the buffer changes nothing that    *)
(* Nesting speaks of.                                                      *)
LEMMA TakenNests ==
  ASSUME NEW p, NEW v, Nesting(p), p.ret = "0",
         v.out = p.out, v.stack = p.stack, v.state = p.state, v.save_state = p.save_state,
         v.type = p.type, v.expecting_key = p.expecting_key
  PROVE  Nesting(v)
BY SameNests DEF Expects, Resumed

(* A character keeps the nesting and the strings. *)
LEMMA CharKeeps ==
  ASSUME NEW c, IsConfig(c), NEW p, Fits(c, p), p.ret = "0", HasDigits(p), Nesting(p), Utf8(p),
         NEW ch \in Char, NEW r, r = json_parser_char(p, ch)
  PROVE  Nesting(r) /\ Utf8(r)
<1>1. CASE \E l \in 0 .. 3, e \in Returned \ {"0"} : r = Failed(p, l, e)
  <2>1. PICK l \in 0 .. 3, e \in Returned \ {"0"} : r = Failed(p, l, e)
    BY <1>1
  <2>2. r.ret # "0" /\ r.out = p.out
    BY <2>1, FailedFits
  <2> QED BY <2>2 DEF Nesting, Utf8
<1>2. ASSUME NEW n, NEW m, NEW v, v = Taken(p, Left(p, ch), Kept(p, ch, n), m),
             InUtf8(p, ch), Enters(p.state, Class(ch), n), Fits(c, v),
             r = IF n \in States THEN [v EXCEPT !.state = n] ELSE do_action(v, n)
      PROVE  Nesting(r) /\ Utf8(r)
  <2>1. p \in Parsers(c) /\ v \in Parsers(c)
    BY <1>2 DEF Fits
  <2>2. /\ v.ret = "0" /\ v.buffer = Kept(p, ch, n) /\ v.utf8_multibyte_left = Left(p, ch)
        /\ v.out = p.out /\ v.stack = p.stack /\ v.state = p.state
        /\ v.save_state = p.save_state /\ v.type = p.type /\ v.expecting_key = p.expecting_key
    BY <1>2, <2>1, TakenIs
  <2>3. Nesting(v) /\ Whole(v.out)
    BY <2>2, TakenNests DEF Utf8, Whole
  <2>4. /\ Utf8Left(v.buffer) = IF n = "_S" THEN v.utf8_multibyte_left ELSE 0
        /\ n \notin {"_S", "C2", "Y1"} => v.utf8_multibyte_left = 0
    BY <1>2, <2>2, KeptUtf8
  <2>5. CASE n \in States
    <3>1. r = [v EXCEPT !.state = n]
      BY <1>2, <2>5
    <3>2. Nesting(r)
      BY <1>2, <2>2, <2>3, <2>5, <3>1, StateNests
    <3>3. /\ r.state = n /\ r.buffer = v.buffer /\ r.out = v.out
          /\ r.utf8_multibyte_left = v.utf8_multibyte_left
      BY <2>1, <3>1 DEF Parsers
    <3>4. Utf8(r)
      BY <2>3, <2>4, <3>3 DEF Utf8, Whole
    <3> QED BY <3>2, <3>4
  <2>6. CASE n \notin States
    <3>1. n \in Actions /\ n \notin {"_S", "C2", "Y1"}
      BY <1>2, <2>6, EntersAction, StatesAre DEF Strings, Comments
    <3>2. n = "UC" => /\ Len(v.buffer) >= 4
                      /\ \A i \in Len(v.buffer) - 3 .. Len(v.buffer) : v.buffer[i] \in Hex
      BY <1>2, <2>2, DigitsKept
    <3>3. r = do_action(v, n)
      BY <1>2, <2>6
    <3>4. Nesting(r)
      BY <1>2, <2>2, <2>3, <3>1, <3>2, <3>3, ActionNests
    <3>5. Whole(r.out) /\ (r.ret = "0" => Utf8Left(r.buffer) = 0 /\ r.utf8_multibyte_left = 0)
      BY <1>2, <2>2, <2>3, <2>4, <3>1, <3>2, <3>3, ActionWhole
    <3>6. Utf8(r)
      BY <3>5 DEF Utf8, Whole
    <3> QED BY <3>4, <3>6
  <2> QED BY <2>5, <2>6
<1>3. CASE \E n, m :
             LET v == Taken(p, Left(p, ch), Kept(p, ch, n), m)
             IN  /\ InUtf8(p, ch) /\ n # "__" /\ Enters(p.state, Class(ch), n)
                 /\ n = NextState(p.state, Class(ch)) /\ Fits(c, v)
                 /\ r = IF n \in States THEN [v EXCEPT !.state = n] ELSE do_action(v, n)
  <2>1. PICK n, m :
             /\ InUtf8(p, ch) /\ Enters(p.state, Class(ch), n)
             /\ Fits(c, Taken(p, Left(p, ch), Kept(p, ch, n), m))
             /\ r = IF n \in States
                    THEN [Taken(p, Left(p, ch), Kept(p, ch, n), m) EXCEPT !.state = n]
                    ELSE do_action(Taken(p, Left(p, ch), Kept(p, ch, n), m), n)
    BY <1>3
  <2> QED BY <1>2, <2>1
<1> QED BY <1>1, <1>3, CharIs

(* Nothing is nested and nothing is read at first. *)
LEMMA InitKeeps ==
  ASSUME NEW c, IsConfig(c)
  PROVE  Nesting(json_parser_init(c)) /\ Utf8(json_parser_init(c))
<1> DEFINE p == json_parser_init(c)
           n == <<"START">>
<1>1. /\ p.out = <<>> /\ p.stack = <<>> /\ p.state = "GO" /\ p.type = "NONE"
      /\ p.expecting_key = FALSE /\ p.buffer = <<>> /\ p.utf8_multibyte_left = 0
  BY DEF json_parser_init
<1> HIDE DEF p
<1>2. Nested(p.out) = n
  BY <1>1, NestedEmpty
<1>3. n \in Seq(Opens) /\ Len(n) = 1 /\ n[1] = "START"
  BY DEF Opens
<1>4. Shape(n) /\ Top(n) = "START"
  BY <1>3 DEF Shape, Top, Opens
<1>5. Modes(n) = p.stack
  <2>1. p.stack \in Seq(Modal) /\ Len(p.stack) = Len(n) - 1
    BY <1>1, <1>3
  <2>2. \A i \in 1 .. Len(p.stack) : p.stack[i] = Mode(n[i + 1])
    BY <1>3, <2>1
  <2> HIDE DEF n
  <2>3. Len(n) \in Nat \ {0} /\ n \in Seq(Opens)
    BY <1>3
  <2> DEFINE s == p.stack
  <2>4. s \in Seq(Modal) /\ Len(s) = Len(n) - 1 /\ \A i \in 1 .. Len(s) : s[i] = Mode(n[i + 1])
    BY <2>1, <2>2
  <2> HIDE DEF s
  <2>5. Modes(n) = s
    BY <2>3, <2>4, ModesEqual
  <2> QED BY <2>5 DEF s
<1>6. Expects(p, Top(n))
  BY <1>1, <1>4 DEF Expects, Resumed, Comments, Strings, Ints, Floats, Literals
<1>7. Nesting(p)
  BY <1>2, <1>4, <1>5, <1>6, NestingFrom
<1>8. Utf8(p)
  BY <1>1, Utf8LeftEmpty DEF Utf8
<1> QED BY <1>7, <1>8 DEF p

-----------------------------------------------------------------------------
(* A text that is read in pieces is one run *)

(* json_parser_char after every character of s, as json_parser_string()    *)
(* calls it; P is the run from parser p.                                   *)
IsRun(P, p, s) ==
  P = [i \in 0 .. Len(s) |-> IF i = 0 THEN p
                             ELSE Chk(P[i - 1], LAMBDA q : json_parser_char(q, s[i]))]

(* There is a run of every text. *)
LEMMA RunExists ==
  ASSUME NEW p, NEW s, s \in Seq(Char)
  PROVE  \E P : IsRun(P, p, s)
<1> DEFINE G(x, i) == Chk(x, LAMBDA q : json_parser_char(q, s[i]))
           E(m) == \E f : f = [i \in 0 .. m |-> IF i = 0 THEN p ELSE G(f[i - 1], i)]
           T == {m \in 0 .. Len(s) : E(m)}
<1>0. Len(s) \in Nat
  OBVIOUS
<1>1. 0 \in T
  <2> DEFINE f == [i \in 0 .. 0 |-> p]
  <2> HIDE DEF G
  <2>1. f = [i \in 0 .. 0 |-> IF i = 0 THEN p ELSE G(f[i - 1], i)]
    OBVIOUS
  <2>2. E(0)
    BY <2>1
  <2> HIDE DEF E
  <2> QED BY <1>0, <2>2
<1>2. ASSUME NEW m \in 1 .. Len(s), m - 1 \in T
      PROVE  m \in T
  <2> HIDE DEF G
  <2>1. PICK h : h = [i \in 0 .. m - 1 |-> IF i = 0 THEN p ELSE G(h[i - 1], i)]
    BY <1>2
  <2> DEFINE f == [i \in 0 .. m |-> IF i = m THEN G(h[m - 1], m) ELSE h[i]]
  <2>2. ASSUME NEW i \in 0 .. m
        PROVE  f[i] = IF i = 0 THEN p ELSE G(f[i - 1], i)
    <3>1. CASE i = 0
      BY <1>0, <1>2, <2>1, <3>1
    <3>2. CASE i = m
      <4>1. i # 0 /\ i - 1 \in 0 .. m /\ i - 1 # m
        BY <1>0, <1>2, <3>2
      <4>2. f[i - 1] = h[i - 1]
        BY <4>1
      <4> QED BY <3>2, <4>1, <4>2
    <3>3. CASE i # 0 /\ i # m
      <4>1. i \in 0 .. m - 1 /\ i - 1 \in 0 .. m /\ i - 1 # m
        BY <1>0, <1>2, <3>3
      <4>2. f[i - 1] = h[i - 1] /\ f[i] = h[i]
        BY <4>1, <3>3
      <4>3. h[i] = G(h[i - 1], i)
        BY <2>1, <4>1, <3>3
      <4> QED BY <3>3, <4>2, <4>3
    <3> QED BY <3>1, <3>2, <3>3
  <2>3. f = [i \in 0 .. m |-> IF i = 0 THEN p ELSE G(f[i - 1], i)]
    <3> HIDE DEF f
    <3>1. f = [i \in 0 .. m |-> f[i]]
      BY DEF f
    <3> QED BY <2>2, <3>1
  <2>4. E(m)
    <3> HIDE DEF f
    <3> QED BY <2>3
  <2> HIDE DEF E
  <2> QED BY <1>0, <2>4
<1>3. Len(s) \in T
  <2> HIDE DEF T
  <2>1. \A n \in 0 .. Len(s) : n \in T
    BY <1>0, <1>1, <1>2, IntervalInduction
  <2> QED BY <1>0, <2>1
<1> QED BY <1>3 DEF IsRun

(* There is one run. *)
LEMMA RunUnique ==
  ASSUME NEW p, NEW s, s \in Seq(Char), NEW P, NEW Q, IsRun(P, p, s), IsRun(Q, p, s)
  PROVE  \A i \in 0 .. Len(s) : P[i] = Q[i]
<1> DEFINE G(x, i) == Chk(x, LAMBDA q : json_parser_char(q, s[i]))
           T == {i \in 0 .. Len(s) : P[i] = Q[i]}
<1>0. Len(s) \in Nat
  OBVIOUS
<1>1. /\ P = [i \in 0 .. Len(s) |-> IF i = 0 THEN p ELSE G(P[i - 1], i)]
      /\ Q = [i \in 0 .. Len(s) |-> IF i = 0 THEN p ELSE G(Q[i - 1], i)]
  BY DEF IsRun
<1> HIDE DEF G
<1>2. 0 \in T
  BY <1>0, <1>1
<1>3. ASSUME NEW i \in 1 .. Len(s), i - 1 \in T PROVE i \in T
  <2>1. i \in 0 .. Len(s) /\ i # 0 /\ P[i - 1] = Q[i - 1]
    BY <1>0, <1>3
  <2>2. P[i] = G(P[i - 1], i) /\ Q[i] = G(Q[i - 1], i)
    BY <1>1, <2>1
  <2> QED BY <2>1, <2>2
<1> HIDE DEF T
<1>4. \A i \in 0 .. Len(s) : i \in T
  BY <1>0, <1>2, <1>3, IntervalInduction
<1> QED BY <1>4 DEF T

(* What each character does in a run. *)
LEMMA RunSteps ==
  ASSUME NEW p, NEW s, s \in Seq(Char), NEW P, IsRun(P, p, s)
  PROVE  /\ P[0] = p
         /\ \A i \in 1 .. Len(s) :
              P[i] = IF P[i - 1].ret = "0" THEN json_parser_char(P[i - 1], s[i])
                     ELSE P[i - 1]
<1>0. Len(s) \in Nat
  OBVIOUS
<1> DEFINE G(x, i) == Chk(x, LAMBDA q : json_parser_char(q, s[i]))
<1>1. P = [i \in 0 .. Len(s) |-> IF i = 0 THEN p ELSE G(P[i - 1], i)]
  BY DEF IsRun
<1>2. ASSUME NEW x, NEW i
      PROVE  G(x, i) = IF x.ret = "0" THEN json_parser_char(x, s[i]) ELSE x
  BY DEF Chk
<1> HIDE DEF G
<1> QED BY <1>0, <1>1, <1>2

(* A call of json_parser_string() on a part of a text continues its run. *)
LEMMA StringIsRun ==
  ASSUME NEW p, NEW s, s \in Seq(Char), NEW P, IsRun(P, p, s),
         NEW a \in 0 .. Len(s), NEW b \in a .. Len(s)
  PROVE  json_parser_string(P[a], SubSeq(s, a + 1, b)) = P[b]
<1> DEFINE t == SubSeq(s, a + 1, b)
           G(x, i) == Chk(x, LAMBDA q : json_parser_char(q, t[i]))
           f == [i \in 0 .. Len(t) |-> P[a + i]]
<1>1. /\ Len(s) \in Nat /\ Len(t) = b - a /\ t \in Seq(Char)
      /\ \A i \in 1 .. b - a : t[i] = s[a + i]
  OBVIOUS
<1> HIDE DEF t
<1>2. ASSUME NEW i \in 0 .. Len(t)
      PROVE  f[i] = IF i = 0 THEN P[a] ELSE G(f[i - 1], i)
  <2>1. CASE i = 0
    BY <1>1, <2>1
  <2>2. CASE i # 0
    <3>1. /\ a + i \in 1 .. Len(s) /\ (a + i) - 1 = a + (i - 1)
          /\ i - 1 \in 0 .. Len(t) /\ s[a + i] = t[i]
      BY <1>1, <2>2
    <3>2. P[a + i] = IF P[a + (i - 1)].ret = "0"
                     THEN json_parser_char(P[a + (i - 1)], s[a + i]) ELSE P[a + (i - 1)]
      BY <3>1, RunSteps
    <3>3. f[i] = P[a + i] /\ f[i - 1] = P[a + (i - 1)]
      BY <3>1
    <3>4. G(f[i - 1], i) = IF f[i - 1].ret = "0" THEN json_parser_char(f[i - 1], t[i])
                           ELSE f[i - 1]
      BY DEF Chk
    <3> HIDE DEF f, G
    <3> QED BY <2>2, <3>1, <3>2, <3>3, <3>4
  <2> QED BY <2>1, <2>2
<1>3. IsRun(f, P[a], t)
  <2>1. f = [i \in 0 .. Len(t) |-> f[i]]
    OBVIOUS
  <2> HIDE DEF f, G
  <2>2. f = [i \in 0 .. Len(t) |-> IF i = 0 THEN P[a] ELSE G(f[i - 1], i)]
    BY <1>2, <2>1
  <2> QED BY <2>2 DEF IsRun, G
<1> DEFINE R == CHOOSE R : IsRun(R, P[a], t)
<1>4. IsRun(R, P[a], t)
  BY <1>3
<1>5. json_parser_string(P[a], t) = R[Len(t)]
  BY DEF json_parser_string, IsRun
<1> HIDE DEF R
<1>6. R[Len(t)] = f[Len(t)]
  <2> HIDE DEF f
  <2> QED BY <1>1, <1>3, <1>4, RunUnique
<1>7. f[Len(t)] = P[b]
  BY <1>1
<1> QED BY <1>5, <1>6, <1>7 DEF t

(* Nothing is read after an error. *)
LEMMA RunStops ==
  ASSUME NEW p, NEW s, s \in Seq(Char), NEW P, IsRun(P, p, s),
         NEW a \in 0 .. Len(s)
  PROVE  P[a].ret # "0" => \A b \in a .. Len(s) : P[b] = P[a]
<1> HAVE P[a].ret # "0"
<1> DEFINE T == {i \in 0 .. Len(s) - a : P[a + i] = P[a]}
<1>0. Len(s) \in Nat /\ Len(s) - a \in Nat
  OBVIOUS
<1>1. 0 \in T
  BY <1>0
<1>2. ASSUME NEW i \in 1 .. Len(s) - a, i - 1 \in T PROVE i \in T
  <2>1. a + i \in 1 .. Len(s) /\ (a + i) - 1 = a + (i - 1) /\ i \in 0 .. Len(s) - a
    BY <1>0
  <2>2. P[a + (i - 1)] = P[a]
    BY <1>2
  <2> QED BY <2>1, <2>2, RunSteps
<1>3. \A i \in 0 .. Len(s) - a : i \in T
  <2> HIDE DEF T
  <2> QED BY <1>0, <1>1, <1>2, IntervalInduction
<1>4. ASSUME NEW b \in a .. Len(s) PROVE P[b] = P[a]
  <2>1. b - a \in 0 .. Len(s) - a /\ a + (b - a) = b
    BY <1>0
  <2>2. b - a \in T
    BY <1>3, <2>1
  <2> QED BY <2>1, <2>2
<1> QED BY <1>4

(* The pieces of Parse are one run. *)
LEMMA ParseIsRun ==
  ASSUME NEW config, NEW s, s \in Seq(Char),
         NEW P, IsRun(P, json_parser_init(config), s)
  PROVE  Parse(config, s) = P[Len(s)]
<1> DEFINE n == Len(s)
           K == n \div Piece + 1
           upto(k) == IF Piece * k < n THEN Piece * k ELSE n
           piece(k) == SubSeq(s, Piece * (k - 1) + 1, upto(k))
           G(x, k) == Chk(x, LAMBDA q : json_parser_string(q, piece(k)))
           init == json_parser_init(config)
           f == [k \in 0 .. K |-> P[upto(k)]]
<1>1. /\ n \in Nat /\ K \in Nat \ {0} /\ upto(0) = 0 /\ upto(K) = n
      /\ \A k \in 1 .. K : /\ upto(k - 1) = Piece * (k - 1)
                           /\ upto(k - 1) \in 0 .. n /\ upto(k) \in upto(k - 1) .. n
  BY DEF Piece
<1>2. ASSUME NEW k \in 1 .. K
      PROVE  G(P[upto(k - 1)], k) = P[upto(k)]
  <2> DEFINE a == upto(k - 1)
             b == upto(k)
  <2>1. a = Piece * (k - 1) /\ a \in 0 .. n /\ b \in a .. n
    BY <1>1
  <2>2. piece(k) = SubSeq(s, a + 1, b)
    BY <2>1
  <2>3. G(P[a], k) = IF P[a].ret = "0" THEN json_parser_string(P[a], piece(k)) ELSE P[a]
    BY DEF Chk
  <2> HIDE DEF a, b, piece, G
  <2>4. json_parser_string(P[a], SubSeq(s, a + 1, b)) = P[b]
    BY <2>1, StringIsRun
  <2>5. ASSUME P[a].ret # "0" PROVE P[b] = P[a]
    <3>1. a \in 0 .. Len(s)
      BY <2>1
    <3>2. P[a].ret # "0" => \A c \in a .. Len(s) : P[c] = P[a]
      BY <3>1, RunStops
    <3> QED BY <2>1, <2>5, <3>2
  <2>6. G(P[a], k) = P[b]
    BY <2>2, <2>3, <2>4, <2>5
  <2> QED BY <2>6 DEF a, b
<1>3. P[0] = init
  BY RunSteps
<1> HIDE DEF G, upto, K, init, n
<1>4. f = [k \in 0 .. K |-> IF k = 0 THEN init ELSE G(f[k - 1], k)]
  <2>1. ASSUME NEW k \in 0 .. K PROVE f[k] = IF k = 0 THEN init ELSE G(f[k - 1], k)
    <3>1. CASE k = 0
      BY <1>1, <1>3, <3>1
    <3>2. CASE k # 0
      <4>1. k \in 1 .. K /\ k - 1 \in 0 .. K
        BY <1>1, <3>2
      <4> QED BY <1>2, <3>2, <4>1
    <3> QED BY <3>1, <3>2
  <2>2. f = [k \in 0 .. K |-> f[k]]
    OBVIOUS
  <2> HIDE DEF f
  <2> QED BY <2>1, <2>2
<1> DEFINE R == CHOOSE R : R = [k \in 0 .. K |-> IF k = 0 THEN init ELSE G(R[k - 1], k)]
<1>5. R = [k \in 0 .. K |-> IF k = 0 THEN init ELSE G(R[k - 1], k)]
  <2> HIDE DEF f
  <2> QED BY <1>4
<1>6. Parse(config, s) = R[K]
  BY DEF Parse, G, upto, K, init, n
<1> HIDE DEF R, f
<1> DEFINE T == {k \in 0 .. K : R[k] = f[k]}
<1>7. 0 \in T
  BY <1>1, <1>4, <1>5
<1>8. ASSUME NEW k \in 1 .. K, k - 1 \in T PROVE k \in T
  <2>1. k \in 0 .. K /\ k # 0 /\ R[k - 1] = f[k - 1]
    BY <1>1, <1>8
  <2>2. R[k] = G(R[k - 1], k) /\ f[k] = G(f[k - 1], k)
    BY <1>4, <1>5, <2>1
  <2> QED BY <2>1, <2>2
<1> HIDE DEF T
<1>9. \A k \in 0 .. K : k \in T
  BY <1>1, <1>7, <1>8, IntervalInduction
<1>10. R[K] = f[K] /\ f[K] = P[n]
  BY <1>1, <1>9 DEF T, f
<1> QED BY <1>6, <1>10 DEF n

-----------------------------------------------------------------------------
(* The theorems *)

(* The texts are made of the characters that there are. *)
LEMMA CharsAreNamed ==
  ASSUME NEW s \in Sources
  PROVE  s.start \in Seq(Char) /\ s.alphabet \subseteq Char
<1>1. s.start \in Seq(Char)
  BY SourcesAssumption
<1>2. s.alphabet \subseteq Fed
  BY DEF Fed
<1> QED BY <1>1, <1>2 DEF Char

(* What holds of a parser after every character of a text. *)
Held(c, p) ==
  Fits(c, p) /\ (p.ret = "0" => HasDigits(p)) /\ Nesting(p) /\ Utf8(p)

(* It holds before the first character, *)
LEMMA InitHeld ==
  ASSUME NEW c, IsConfig(c)
  PROVE  Held(c, json_parser_init(c))
BY InitFits, InitKeeps DEF Held

(* and after each. *)
LEMMA CharHeld ==
  ASSUME NEW c, IsConfig(c), NEW p, Held(c, p), p.ret = "0", NEW ch \in Char
  PROVE  Held(c, json_parser_char(p, ch))
BY CharFits, CharKeeps DEF Held

-----------------------------------------------------------------------------
(* One turn of the loop *)

(* The type that a leaf leaves pending. *)
LeafType(n) == IF n = "KS" THEN "NONE" ELSE PendingType[n]

(* p after a character that was no error, with n the entry of the table. *)
Turn(p, ch, n, r) ==
  LET b == Kept(p, ch, n)
  IN \/ /\ n \in States /\ r.state = n /\ r.type = p.type /\ r.buffer = b /\ r.out = p.out
        /\ r.save_state = p.save_state
     \/ /\ n \in Leaves /\ r.state = Target[n] /\ r.buffer = b /\ r.out = p.out
        /\ r.type = LeafType(n)
     \/ /\ n \in {"OB", "AB"} /\ r.state = (IF n = "OB" THEN "_O" ELSE "_A")
        /\ r.type = "NONE" /\ r.buffer = b
        /\ r.out = Append(p.out, Item(IF n = "OB" THEN "OBJECT_BEGIN" ELSE "ARRAY_BEGIN"))
     \/ /\ n \in {"OE", "AE"} /\ r.state = "OK" /\ r.type = "NONE" /\ r.buffer = <<>>
        /\ r.out = Append(Flushed(p), Item(IF n = "OE" THEN "OBJECT_END" ELSE "ARRAY_END"))
     \/ /\ n = "SP" /\ r.state \in {"_K", "_V"} /\ r.type = "NONE" /\ r.buffer = <<>>
        /\ r.out = Flushed(p)
     \/ /\ n \in {"CB", "YB"} /\ r.state = (IF n = "CB" THEN "C1" ELSE "Y1")
        /\ r.type = "NONE" /\ r.buffer = <<>> /\ r.out = Flushed(p) /\ r.save_state = p.state
     \/ /\ n = "CE" /\ r.state = Resumed(p) /\ r.type = "NONE" /\ r.buffer = b
        /\ r.out = p.out /\ r.save_state = p.save_state
     \/ /\ n = "SE" /\ r.state = (IF p.expecting_key THEN "CO" ELSE "OK")
        /\ r.type = "NONE" /\ r.buffer = <<>>
        /\ r.out = Append(p.out, [type |-> IF p.expecting_key THEN "KEY" ELSE "STRING",
                                  data |-> b])
     \/ /\ n = "UC" /\ r.state \in {"_S", "D1"} /\ r.type = "NONE" /\ r.out = p.out
        /\ Len(b) >= 4
        /\ \/ \E k \in 1 .. 4 : r.buffer = SubSeq(b, 1, Len(b) - 4) \o Utf8Bytes(k)
           \/ r.buffer = SubSeq(b, 1, Len(b) - 4)

(* Only numbers and strings are kept in the buffer. *)
LEMMA KeptNothing ==
  ASSUME NEW p, NEW ch, NEW n, n \notin Number, n # "_S", p.state \notin {"U1", "U2", "U3", "U4"}
  PROVE  Kept(p, ch, n) = p.buffer
BY DEF Kept, buffer_policy_table

(* A character that is no error is such a turn. *)
LEMMA CharTurns ==
  ASSUME NEW c, IsConfig(c), NEW p, Fits(c, p), p.ret = "0", HasDigits(p), NEW ch \in Char,
         NEW r, r = json_parser_char(p, ch), r.ret = "0"
  PROVE  \E n : /\ InUtf8(p, ch) /\ n # "__" /\ n = NextState(p.state, Class(ch))
                /\ Enters(p.state, Class(ch), n) /\ Turn(p, ch, n, r)
<1>1. ~ \E l \in 0 .. 3, e \in Returned \ {"0"} : r = Failed(p, l, e)
  BY FailedFits
<1>2. PICK n, m :
             /\ InUtf8(p, ch) /\ n # "__" /\ Enters(p.state, Class(ch), n)
             /\ n = NextState(p.state, Class(ch))
             /\ Fits(c, Taken(p, Left(p, ch), Kept(p, ch, n), m))
             /\ r = IF n \in States
                    THEN [Taken(p, Left(p, ch), Kept(p, ch, n), m) EXCEPT !.state = n]
                    ELSE do_action(Taken(p, Left(p, ch), Kept(p, ch, n), m), n)
  BY <1>1, CharIs
<1> DEFINE v == Taken(p, Left(p, ch), Kept(p, ch, n), m)
           b == Kept(p, ch, n)
<1>3. Fits(c, v) /\ r = (IF n \in States THEN [v EXCEPT !.state = n] ELSE do_action(v, n))
  BY <1>2
<1>4. p \in Parsers(c) /\ v \in Parsers(c)
  BY <1>3 DEF Fits
<1>5. /\ v.state = p.state /\ v.save_state = p.save_state /\ v.type = p.type
      /\ v.expecting_key = p.expecting_key /\ v.ret = "0" /\ v.out = p.out /\ v.buffer = b
  BY <1>4, TakenIs
<1>6. n = "UC" => Len(b) >= 4
  BY <1>2, DigitsKept
<1> HIDE DEF v, b
<1>7. CASE n \in States
  <2>1. r.state = n /\ r.type = v.type /\ r.buffer = v.buffer /\ r.out = v.out /\ r.save_state = v.save_state
    BY <1>3, <1>4, <1>7 DEF Parsers
  <2> QED BY <1>2, <1>5, <1>7, <2>1 DEF Turn, b
<1>8. CASE n \notin States
  <2>1. r = do_action(v, n) /\ n \in Actions
    BY <1>2, <1>3, <1>8, EntersAction
  <2>2. Flushed(v) = IF p.type = "NONE" THEN p.out ELSE Append(p.out, [type |-> p.type, data |-> b])
    BY <1>5 DEF Flushed
  <2>3. n \in {"OE", "AE", "SP", "CB", "YB"} => b = p.buffer
    <3>1. ASSUME n \in {"OE", "AE", "SP", "CB", "YB"}
          PROVE  n \notin Number /\ n # "_S" /\ p.state \notin {"U1", "U2", "U3", "U4"}
      BY <1>2, <3>1 DEF Enters, Spelt, Between, Ending, Number
    <3> QED BY <3>1, KeptNothing DEF b
  <2>4. n \in {"OE", "AE", "SP", "CB", "YB"} => Flushed(v) = Flushed(p)
    BY <2>2, <2>3 DEF Flushed
  <2>5. CASE n = "OE"
    <3>1. /\ r.state = "OK" /\ r.type = "NONE" /\ r.buffer = <<>>
          /\ r.out = Append(Flushed(v), Item("OBJECT_END"))
      BY <1>3, <1>5, <2>1, <2>5, DoOE DEF Moved
    <3> QED BY <1>2, <1>5, <2>4, <2>5, <3>1 DEF Turn
  <2>6. CASE n = "AE"
    <3>1. /\ r.state = "OK" /\ r.type = "NONE" /\ r.buffer = <<>>
          /\ r.out = Append(Flushed(v), Item("ARRAY_END"))
      BY <1>3, <1>5, <2>1, <2>6, DoAE DEF Moved
    <3> QED BY <1>2, <1>5, <2>4, <2>6, <3>1 DEF Turn
  <2>7. CASE n = "SP"
    <3>1. /\ r.state = (IF v.stack[Len(v.stack)] = "OBJECT" THEN "_K" ELSE "_V") /\ r.type = "NONE" /\ r.buffer = <<>>
          /\ r.out = Flushed(v)
      BY <1>3, <1>5, <2>1, <2>7, DoSP DEF Moved
    <3> QED BY <1>2, <1>5, <2>4, <2>7, <3>1 DEF Turn
  <2>8. CASE n = "CB"
    <3>1. /\ r.state = "C1" /\ r.type = "NONE" /\ r.buffer = <<>>
          /\ r.out = Flushed(v) /\ r.save_state = v.state
      <4>1. r = do_action(v, "CB")
        BY <2>1, <2>8
      <4>2. Moved(r, v, "C1", "NONE", v.stack, <<>>, Flushed(v)) /\ r.save_state = v.state
        BY <1>3, <1>5, <4>1, DoCB
      <4> QED BY <4>2 DEF Moved
    <3> QED BY <1>2, <1>5, <2>4, <2>8, <3>1 DEF Turn
  <2>9. CASE n = "YB"
    <3>1. /\ r.state = "Y1" /\ r.type = "NONE" /\ r.buffer = <<>>
          /\ r.out = Flushed(v) /\ r.save_state = v.state
      <4>1. r = do_action(v, "YB")
        BY <2>1, <2>9
      <4>2. Moved(r, v, "Y1", "NONE", v.stack, <<>>, Flushed(v)) /\ r.save_state = v.state
        BY <1>3, <1>5, <4>1, DoYB
      <4> QED BY <4>2 DEF Moved
    <3> QED BY <1>2, <1>5, <2>4, <2>9, <3>1 DEF Turn
  <2>10. CASE n = "CE"
    <3>1. p.state \in Comments
      BY <1>2, <2>10 DEF Enters, Spelt, Between, Comments
    <3>2. Resumed(p) = IF p.save_state \in Between THEN p.save_state ELSE "OK"
      BY <3>1 DEF Resumed
    <3>3. /\ r.state = (IF v.save_state \in Between THEN v.save_state ELSE "OK") /\ r.type = "NONE"
          /\ r.buffer = v.buffer /\ r.out = v.out /\ r.save_state = v.save_state
      BY <1>3, <1>5, <2>1, <2>10, DoCE DEF Moved
    <3> QED BY <1>2, <1>5, <2>10, <3>2, <3>3 DEF Turn, b
  <2>11. CASE n = "SE"
    <3>1. /\ r.state = (IF v.expecting_key THEN "CO" ELSE "OK") /\ r.type = "NONE" /\ r.buffer = <<>>
          /\ r.out = Append(v.out, [type |-> IF v.expecting_key THEN "KEY" ELSE "STRING", data |-> v.buffer])
      BY <1>3, <1>5, <2>1, <2>11, DoSE DEF Moved
    <3> QED BY <1>2, <1>5, <2>11, <3>1 DEF Turn, b
  <2>12. CASE n = "OB"
    <3>1. /\ r.state = "_O" /\ r.type = "NONE" /\ r.buffer = v.buffer
          /\ r.out = Append(v.out, Item("OBJECT_BEGIN"))
      BY <1>3, <1>5, <2>1, <2>12, DoOB DEF Moved
    <3> QED BY <1>2, <1>5, <2>12, <3>1 DEF Turn, b
  <2>13. CASE n = "AB"
    <3>1. /\ r.state = "_A" /\ r.type = "NONE" /\ r.buffer = v.buffer
          /\ r.out = Append(v.out, Item("ARRAY_BEGIN"))
      BY <1>3, <1>5, <2>1, <2>13, DoAB DEF Moved
    <3> QED BY <1>2, <1>5, <2>13, <3>1 DEF Turn, b
  <2>14. CASE n = "UC"
    <3>1. \/ \E k \in 1 .. 4 :
              Moved(r, v, "_S", "NONE", v.stack,
                    SubSeq(b, 1, Len(b) - 4) \o Utf8Bytes(k), v.out)
          \/ Moved(r, v, "D1", "NONE", v.stack, SubSeq(b, 1, Len(b) - 4), v.out)
      BY <1>3, <1>5, <1>6, <2>1, <2>14, DoUC
    <3> QED BY <1>2, <1>5, <1>6, <2>14, <3>1 DEF Moved, Turn, b
  <2>15. CASE n \in Leaves
    <3>1. Moved(r, v, Target[n], LeafType(n), v.stack, v.buffer, v.out)
      BY <1>3, <1>5, <2>1, <2>15, DoLeave DEF LeafType
    <3>2. r.state = Target[n] /\ r.type = LeafType(n) /\ r.buffer = Kept(p, ch, n) /\ r.out = p.out
      BY <1>5, <3>1 DEF Moved, b
    <3> QED BY <1>2, <2>15, <3>2 DEF Turn
  <2> QED BY <2>1, <2>5, <2>6, <2>7, <2>8, <2>9, <2>10, <2>11, <2>12, <2>13, <2>14, <2>15
          DEF Actions
<1> QED BY <1>7, <1>8

-----------------------------------------------------------------------------
(* Folds that the invariants are made of: Stripped, NumberState,           *)
(* print_quoted and Printed                                                *)

(* The text without layout and comments, after every character of s. *)
IsStripped(f, s) ==
  f = [i \in 0 .. Len(s) |-> IF i = 0 THEN [mode |-> "plain", text |-> <<>>] ELSE BareNext(f[i - 1], s[i])]

(* The fold behind Stripped exists, *)
LEMMA StrippedExists ==
  ASSUME NEW S, NEW s \in Seq(S)
  PROVE  \E f : IsStripped(f, s)
<1> DEFINE G(x, i) == BareNext(x, s[i])
           E(m) == \E f : f = [i \in 0 .. m |-> IF i = 0 THEN [mode |-> "plain", text |-> <<>>] ELSE G(f[i - 1], i)]
           T == {m \in 0 .. Len(s) : E(m)}
<1>0. Len(s) \in Nat
  OBVIOUS
<1>1. 0 \in T
  <2> DEFINE f == [i \in 0 .. 0 |-> [mode |-> "plain", text |-> <<>>]]
  <2> HIDE DEF G
  <2>1. f = [i \in 0 .. 0 |-> IF i = 0 THEN [mode |-> "plain", text |-> <<>>] ELSE G(f[i - 1], i)]
    OBVIOUS
  <2>2. E(0)
    BY <2>1
  <2> HIDE DEF E
  <2> QED BY <1>0, <2>2
<1>2. ASSUME NEW m \in 1 .. Len(s), m - 1 \in T
      PROVE  m \in T
  <2> HIDE DEF G
  <2>1. PICK h : h = [i \in 0 .. m - 1 |-> IF i = 0 THEN [mode |-> "plain", text |-> <<>>] ELSE G(h[i - 1], i)]
    BY <1>2
  <2> DEFINE f == [i \in 0 .. m |-> IF i = m THEN G(h[m - 1], m) ELSE h[i]]
  <2>2. ASSUME NEW i \in 0 .. m
        PROVE  f[i] = IF i = 0 THEN [mode |-> "plain", text |-> <<>>] ELSE G(f[i - 1], i)
    <3>1. CASE i = 0
      BY <1>0, <1>2, <2>1, <3>1
    <3>2. CASE i = m
      <4>1. i # 0 /\ i - 1 \in 0 .. m /\ i - 1 # m
        BY <1>0, <1>2, <3>2
      <4>2. f[i - 1] = h[i - 1]
        BY <4>1
      <4> QED BY <3>2, <4>1, <4>2
    <3>3. CASE i # 0 /\ i # m
      <4>1. i \in 0 .. m - 1 /\ i - 1 \in 0 .. m /\ i - 1 # m
        BY <1>0, <1>2, <3>3
      <4>2. f[i - 1] = h[i - 1] /\ f[i] = h[i]
        BY <4>1, <3>3
      <4>3. h[i] = G(h[i - 1], i)
        BY <2>1, <4>1, <3>3
      <4> QED BY <3>3, <4>2, <4>3
    <3> QED BY <3>1, <3>2, <3>3
  <2>3. f = [i \in 0 .. m |-> IF i = 0 THEN [mode |-> "plain", text |-> <<>>] ELSE G(f[i - 1], i)]
    <3> HIDE DEF f
    <3>1. f = [i \in 0 .. m |-> f[i]]
      BY DEF f
    <3> QED BY <2>2, <3>1
  <2>4. E(m)
    <3> HIDE DEF f
    <3> QED BY <2>3
  <2> HIDE DEF E
  <2> QED BY <1>0, <2>4
<1>3. Len(s) \in T
  <2> HIDE DEF T
  <2> QED BY <1>0, <1>1, <1>2, IntervalInduction
<1> QED BY <1>3 DEF IsStripped

(* and takes a further character as BareNext does; *)
LEMMA StrippedAppend ==
  ASSUME NEW S, NEW s \in Seq(S), NEW e \in S
  PROVE  Stripped(Append(s, e)) = BareNext(Stripped(s), e)
<1> DEFINE t == Append(s, e)
           f == CHOOSE f : IsStripped(f, s)
           h == CHOOSE h : IsStripped(h, t)
           T == {i \in 0 .. Len(s) : h[i] = f[i]}
<1>0. /\ Len(s) \in Nat /\ t \in Seq(S) /\ Len(t) = Len(s) + 1 /\ t[Len(t)] = e
      /\ \A i \in 1 .. Len(s) : t[i] = s[i]
  OBVIOUS
<1> HIDE DEF t
<1>1. IsStripped(f, s) /\ IsStripped(h, t)
  BY <1>0, StrippedExists
<1>2. Stripped(s) = f[Len(s)] /\ Stripped(t) = h[Len(t)]
  BY DEF Stripped, IsStripped
<1> HIDE DEF f, h
<1>3. /\ f[0] = [mode |-> "plain", text |-> <<>>] /\ h[0] = [mode |-> "plain", text |-> <<>>]
      /\ \A i \in 1 .. Len(s) : f[i] = BareNext(f[i - 1], s[i])
      /\ \A i \in 1 .. Len(t) : h[i] = BareNext(h[i - 1], t[i])
  <2>1. Len(t) \in Nat
    BY <1>0
  <2>2. f = [i \in 0 .. Len(s) |-> IF i = 0 THEN [mode |-> "plain", text |-> <<>>] ELSE BareNext(f[i - 1], s[i])]
    BY <1>1 DEF IsStripped
  <2>3. h = [i \in 0 .. Len(t) |-> IF i = 0 THEN [mode |-> "plain", text |-> <<>>] ELSE BareNext(h[i - 1], t[i])]
    BY <1>1 DEF IsStripped
  <2>4. f[0] = [mode |-> "plain", text |-> <<>>] /\ \A i \in 1 .. Len(s) : f[i] = BareNext(f[i - 1], s[i])
    <3>1. ASSUME NEW i \in 1 .. Len(s) PROVE f[i] = BareNext(f[i - 1], s[i])
      <4>1. i \in 0 .. Len(s) /\ i # 0
        BY <1>0
      <4> QED BY <2>2, <4>1
    <3>2. 0 \in 0 .. Len(s)
      BY <1>0
    <3>3. f[0] = [mode |-> "plain", text |-> <<>>]
      BY <2>2, <3>2
    <3> QED BY <3>1, <3>3
  <2>5. h[0] = [mode |-> "plain", text |-> <<>>] /\ \A i \in 1 .. Len(t) : h[i] = BareNext(h[i - 1], t[i])
    <3>1. ASSUME NEW i \in 1 .. Len(t) PROVE h[i] = BareNext(h[i - 1], t[i])
      <4>1. i \in 0 .. Len(t) /\ i # 0
        BY <2>1
      <4> QED BY <2>3, <4>1
    <3>2. 0 \in 0 .. Len(t)
      BY <2>1
    <3>3. h[0] = [mode |-> "plain", text |-> <<>>]
      BY <2>3, <3>2
    <3> QED BY <3>1, <3>3
  <2> QED BY <2>4, <2>5
<1>4. 0 \in T
  BY <1>0, <1>3
<1>5. ASSUME NEW i \in 1 .. Len(s), i - 1 \in T PROVE i \in T
  <2>1. i \in 0 .. Len(s) /\ i \in 1 .. Len(t) /\ t[i] = s[i] /\ h[i - 1] = f[i - 1]
    BY <1>0, <1>5
  <2>2. f[i] = BareNext(f[i - 1], s[i]) /\ h[i] = BareNext(h[i - 1], t[i])
    BY <1>3, <2>1
  <2> QED BY <2>1, <2>2
<1> HIDE DEF T
<1>6. h[Len(s)] = f[Len(s)]
  <2>1. \A i \in 0 .. Len(s) : i \in T
    BY <1>0, <1>4, <1>5, IntervalInduction
  <2> QED BY <1>0, <2>1 DEF T
<1>7. h[Len(t)] = BareNext(h[Len(t) - 1], t[Len(t)]) /\ Len(t) - 1 = Len(s)
  BY <1>0, <1>3
<1>8. h[Len(t)] = BareNext(f[Len(s)], e)
  BY <1>0, <1>6, <1>7
<1> QED BY <1>2, <1>8 DEF t

(* without characters it is where it starts. *)
LEMMA StrippedEmpty == Stripped(<<>>) = [mode |-> "plain", text |-> <<>>]
<1> DEFINE s == <<>>
           f == CHOOSE f : IsStripped(f, s)
<1>1. s \in Seq({}) /\ Len(s) = 0
  OBVIOUS
<1> HIDE DEF s
<1>2. IsStripped(f, s)
  BY <1>1, StrippedExists
<1>3. Stripped(s) = f[Len(s)]
  BY DEF Stripped, IsStripped
<1> HIDE DEF f
<1>4. f[0] = [mode |-> "plain", text |-> <<>>]
  BY <1>1, <1>2 DEF IsStripped
<1> QED BY <1>1, <1>3, <1>4 DEF s


(* The state of the tables after every character of s. *)
IsNumberState(f, s) ==
  f = [i \in 0 .. Len(s) |-> IF i = 0 THEN "_V" ELSE NumberNext(f[i - 1], s[i])]

(* The fold behind NumberState exists, *)
LEMMA NumberStateExists ==
  ASSUME NEW S, NEW s \in Seq(S)
  PROVE  \E f : IsNumberState(f, s)
<1> DEFINE G(x, i) == NumberNext(x, s[i])
           E(m) == \E f : f = [i \in 0 .. m |-> IF i = 0 THEN "_V" ELSE G(f[i - 1], i)]
           T == {m \in 0 .. Len(s) : E(m)}
<1>0. Len(s) \in Nat
  OBVIOUS
<1>1. 0 \in T
  <2> DEFINE f == [i \in 0 .. 0 |-> "_V"]
  <2> HIDE DEF G
  <2>1. f = [i \in 0 .. 0 |-> IF i = 0 THEN "_V" ELSE G(f[i - 1], i)]
    OBVIOUS
  <2>2. E(0)
    BY <2>1
  <2> HIDE DEF E
  <2> QED BY <1>0, <2>2
<1>2. ASSUME NEW m \in 1 .. Len(s), m - 1 \in T
      PROVE  m \in T
  <2> HIDE DEF G
  <2>1. PICK h : h = [i \in 0 .. m - 1 |-> IF i = 0 THEN "_V" ELSE G(h[i - 1], i)]
    BY <1>2
  <2> DEFINE f == [i \in 0 .. m |-> IF i = m THEN G(h[m - 1], m) ELSE h[i]]
  <2>2. ASSUME NEW i \in 0 .. m
        PROVE  f[i] = IF i = 0 THEN "_V" ELSE G(f[i - 1], i)
    <3>1. CASE i = 0
      BY <1>0, <1>2, <2>1, <3>1
    <3>2. CASE i = m
      <4>1. i # 0 /\ i - 1 \in 0 .. m /\ i - 1 # m
        BY <1>0, <1>2, <3>2
      <4>2. f[i - 1] = h[i - 1]
        BY <4>1
      <4> QED BY <3>2, <4>1, <4>2
    <3>3. CASE i # 0 /\ i # m
      <4>1. i \in 0 .. m - 1 /\ i - 1 \in 0 .. m /\ i - 1 # m
        BY <1>0, <1>2, <3>3
      <4>2. f[i - 1] = h[i - 1] /\ f[i] = h[i]
        BY <4>1, <3>3
      <4>3. h[i] = G(h[i - 1], i)
        BY <2>1, <4>1, <3>3
      <4> QED BY <3>3, <4>2, <4>3
    <3> QED BY <3>1, <3>2, <3>3
  <2>3. f = [i \in 0 .. m |-> IF i = 0 THEN "_V" ELSE G(f[i - 1], i)]
    <3> HIDE DEF f
    <3>1. f = [i \in 0 .. m |-> f[i]]
      BY DEF f
    <3> QED BY <2>2, <3>1
  <2>4. E(m)
    <3> HIDE DEF f
    <3> QED BY <2>3
  <2> HIDE DEF E
  <2> QED BY <1>0, <2>4
<1>3. Len(s) \in T
  <2> HIDE DEF T
  <2> QED BY <1>0, <1>1, <1>2, IntervalInduction
<1> QED BY <1>3 DEF IsNumberState

(* and takes a further character as NumberNext does; *)
LEMMA NumberStateAppend ==
  ASSUME NEW S, NEW s \in Seq(S), NEW e \in S
  PROVE  NumberState(Append(s, e)) = NumberNext(NumberState(s), e)
<1> DEFINE t == Append(s, e)
           f == CHOOSE f : IsNumberState(f, s)
           h == CHOOSE h : IsNumberState(h, t)
           T == {i \in 0 .. Len(s) : h[i] = f[i]}
<1>0. /\ Len(s) \in Nat /\ t \in Seq(S) /\ Len(t) = Len(s) + 1 /\ t[Len(t)] = e
      /\ \A i \in 1 .. Len(s) : t[i] = s[i]
  OBVIOUS
<1> HIDE DEF t
<1>1. IsNumberState(f, s) /\ IsNumberState(h, t)
  BY <1>0, NumberStateExists
<1>2. NumberState(s) = f[Len(s)] /\ NumberState(t) = h[Len(t)]
  BY DEF NumberState, IsNumberState
<1> HIDE DEF f, h
<1>3. /\ f[0] = "_V" /\ h[0] = "_V"
      /\ \A i \in 1 .. Len(s) : f[i] = NumberNext(f[i - 1], s[i])
      /\ \A i \in 1 .. Len(t) : h[i] = NumberNext(h[i - 1], t[i])
  <2>1. Len(t) \in Nat
    BY <1>0
  <2>2. f = [i \in 0 .. Len(s) |-> IF i = 0 THEN "_V" ELSE NumberNext(f[i - 1], s[i])]
    BY <1>1 DEF IsNumberState
  <2>3. h = [i \in 0 .. Len(t) |-> IF i = 0 THEN "_V" ELSE NumberNext(h[i - 1], t[i])]
    BY <1>1 DEF IsNumberState
  <2>4. f[0] = "_V" /\ \A i \in 1 .. Len(s) : f[i] = NumberNext(f[i - 1], s[i])
    <3>1. ASSUME NEW i \in 1 .. Len(s) PROVE f[i] = NumberNext(f[i - 1], s[i])
      <4>1. i \in 0 .. Len(s) /\ i # 0
        BY <1>0
      <4> QED BY <2>2, <4>1
    <3>2. 0 \in 0 .. Len(s)
      BY <1>0
    <3>3. f[0] = "_V"
      BY <2>2, <3>2
    <3> QED BY <3>1, <3>3
  <2>5. h[0] = "_V" /\ \A i \in 1 .. Len(t) : h[i] = NumberNext(h[i - 1], t[i])
    <3>1. ASSUME NEW i \in 1 .. Len(t) PROVE h[i] = NumberNext(h[i - 1], t[i])
      <4>1. i \in 0 .. Len(t) /\ i # 0
        BY <2>1
      <4> QED BY <2>3, <4>1
    <3>2. 0 \in 0 .. Len(t)
      BY <2>1
    <3>3. h[0] = "_V"
      BY <2>3, <3>2
    <3> QED BY <3>1, <3>3
  <2> QED BY <2>4, <2>5
<1>4. 0 \in T
  BY <1>0, <1>3
<1>5. ASSUME NEW i \in 1 .. Len(s), i - 1 \in T PROVE i \in T
  <2>1. i \in 0 .. Len(s) /\ i \in 1 .. Len(t) /\ t[i] = s[i] /\ h[i - 1] = f[i - 1]
    BY <1>0, <1>5
  <2>2. f[i] = NumberNext(f[i - 1], s[i]) /\ h[i] = NumberNext(h[i - 1], t[i])
    BY <1>3, <2>1
  <2> QED BY <2>1, <2>2
<1> HIDE DEF T
<1>6. h[Len(s)] = f[Len(s)]
  <2>1. \A i \in 0 .. Len(s) : i \in T
    BY <1>0, <1>4, <1>5, IntervalInduction
  <2> QED BY <1>0, <2>1 DEF T
<1>7. h[Len(t)] = NumberNext(h[Len(t) - 1], t[Len(t)]) /\ Len(t) - 1 = Len(s)
  BY <1>0, <1>3
<1>8. h[Len(t)] = NumberNext(f[Len(s)], e)
  BY <1>0, <1>6, <1>7
<1> QED BY <1>2, <1>8 DEF t

(* without characters it is where it starts. *)
LEMMA NumberStateEmpty == NumberState(<<>>) = "_V"
<1> DEFINE s == <<>>
           f == CHOOSE f : IsNumberState(f, s)
<1>1. s \in Seq({}) /\ Len(s) = 0
  OBVIOUS
<1> HIDE DEF s
<1>2. IsNumberState(f, s)
  BY <1>1, NumberStateExists
<1>3. NumberState(s) = f[Len(s)]
  BY DEF NumberState, IsNumberState
<1> HIDE DEF f
<1>4. f[0] = "_V"
  BY <1>1, <1>2 DEF IsNumberState
<1> QED BY <1>1, <1>3, <1>4 DEF s


(* The string in quotes, after every character of s. *)
Isprint_quoted(f, s) ==
  f = [i \in 0 .. Len(s) |-> IF i = 0 THEN <<C_QUOTE>> ELSE f[i - 1] \o escaped(s[i])]

(* The fold behind print_quoted exists, *)
LEMMA print_quotedExists ==
  ASSUME NEW S, NEW s \in Seq(S)
  PROVE  \E f : Isprint_quoted(f, s)
<1> DEFINE G(x, i) == x \o escaped(s[i])
           E(m) == \E f : f = [i \in 0 .. m |-> IF i = 0 THEN <<C_QUOTE>> ELSE G(f[i - 1], i)]
           T == {m \in 0 .. Len(s) : E(m)}
<1>0. Len(s) \in Nat
  OBVIOUS
<1>1. 0 \in T
  <2> DEFINE f == [i \in 0 .. 0 |-> <<C_QUOTE>>]
  <2> HIDE DEF G
  <2>1. f = [i \in 0 .. 0 |-> IF i = 0 THEN <<C_QUOTE>> ELSE G(f[i - 1], i)]
    OBVIOUS
  <2>2. E(0)
    BY <2>1
  <2> HIDE DEF E
  <2> QED BY <1>0, <2>2
<1>2. ASSUME NEW m \in 1 .. Len(s), m - 1 \in T
      PROVE  m \in T
  <2> HIDE DEF G
  <2>1. PICK h : h = [i \in 0 .. m - 1 |-> IF i = 0 THEN <<C_QUOTE>> ELSE G(h[i - 1], i)]
    BY <1>2
  <2> DEFINE f == [i \in 0 .. m |-> IF i = m THEN G(h[m - 1], m) ELSE h[i]]
  <2>2. ASSUME NEW i \in 0 .. m
        PROVE  f[i] = IF i = 0 THEN <<C_QUOTE>> ELSE G(f[i - 1], i)
    <3>1. CASE i = 0
      BY <1>0, <1>2, <2>1, <3>1
    <3>2. CASE i = m
      <4>1. i # 0 /\ i - 1 \in 0 .. m /\ i - 1 # m
        BY <1>0, <1>2, <3>2
      <4>2. f[i - 1] = h[i - 1]
        BY <4>1
      <4> QED BY <3>2, <4>1, <4>2
    <3>3. CASE i # 0 /\ i # m
      <4>1. i \in 0 .. m - 1 /\ i - 1 \in 0 .. m /\ i - 1 # m
        BY <1>0, <1>2, <3>3
      <4>2. f[i - 1] = h[i - 1] /\ f[i] = h[i]
        BY <4>1, <3>3
      <4>3. h[i] = G(h[i - 1], i)
        BY <2>1, <4>1, <3>3
      <4> QED BY <3>3, <4>2, <4>3
    <3> QED BY <3>1, <3>2, <3>3
  <2>3. f = [i \in 0 .. m |-> IF i = 0 THEN <<C_QUOTE>> ELSE G(f[i - 1], i)]
    <3> HIDE DEF f
    <3>1. f = [i \in 0 .. m |-> f[i]]
      BY DEF f
    <3> QED BY <2>2, <3>1
  <2>4. E(m)
    <3> HIDE DEF f
    <3> QED BY <2>3
  <2> HIDE DEF E
  <2> QED BY <1>0, <2>4
<1>3. Len(s) \in T
  <2> HIDE DEF T
  <2> QED BY <1>0, <1>1, <1>2, IntervalInduction
<1> QED BY <1>3 DEF Isprint_quoted

(* and adds the escape of a further character; *)
LEMMA print_quotedAppend ==
  ASSUME NEW S, NEW s \in Seq(S), NEW e \in S
  PROVE  print_quoted(Append(s, e)) = print_quoted(s) \o escaped(e)
<1> DEFINE t == Append(s, e)
           f == CHOOSE f : Isprint_quoted(f, s)
           h == CHOOSE h : Isprint_quoted(h, t)
           T == {i \in 0 .. Len(s) : h[i] = f[i]}
<1>0. /\ Len(s) \in Nat /\ t \in Seq(S) /\ Len(t) = Len(s) + 1 /\ t[Len(t)] = e
      /\ \A i \in 1 .. Len(s) : t[i] = s[i]
  OBVIOUS
<1> HIDE DEF t
<1>1. Isprint_quoted(f, s) /\ Isprint_quoted(h, t)
  BY <1>0, print_quotedExists
<1>2. print_quoted(s) = f[Len(s)] /\ print_quoted(t) = h[Len(t)]
  BY DEF print_quoted, Isprint_quoted
<1> HIDE DEF f, h
<1>3. /\ f[0] = <<C_QUOTE>> /\ h[0] = <<C_QUOTE>>
      /\ \A i \in 1 .. Len(s) : f[i] = f[i - 1] \o escaped(s[i])
      /\ \A i \in 1 .. Len(t) : h[i] = h[i - 1] \o escaped(t[i])
  <2>1. Len(t) \in Nat
    BY <1>0
  <2>2. f = [i \in 0 .. Len(s) |-> IF i = 0 THEN <<C_QUOTE>> ELSE f[i - 1] \o escaped(s[i])]
    BY <1>1 DEF Isprint_quoted
  <2>3. h = [i \in 0 .. Len(t) |-> IF i = 0 THEN <<C_QUOTE>> ELSE h[i - 1] \o escaped(t[i])]
    BY <1>1 DEF Isprint_quoted
  <2>4. f[0] = <<C_QUOTE>> /\ \A i \in 1 .. Len(s) : f[i] = f[i - 1] \o escaped(s[i])
    <3>1. ASSUME NEW i \in 1 .. Len(s) PROVE f[i] = f[i - 1] \o escaped(s[i])
      <4>1. i \in 0 .. Len(s) /\ i # 0
        BY <1>0
      <4> QED BY <2>2, <4>1
    <3>2. 0 \in 0 .. Len(s)
      BY <1>0
    <3>3. f[0] = <<C_QUOTE>>
      BY <2>2, <3>2
    <3> QED BY <3>1, <3>3
  <2>5. h[0] = <<C_QUOTE>> /\ \A i \in 1 .. Len(t) : h[i] = h[i - 1] \o escaped(t[i])
    <3>1. ASSUME NEW i \in 1 .. Len(t) PROVE h[i] = h[i - 1] \o escaped(t[i])
      <4>1. i \in 0 .. Len(t) /\ i # 0
        BY <2>1
      <4> QED BY <2>3, <4>1
    <3>2. 0 \in 0 .. Len(t)
      BY <2>1
    <3>3. h[0] = <<C_QUOTE>>
      BY <2>3, <3>2
    <3> QED BY <3>1, <3>3
  <2> QED BY <2>4, <2>5
<1>4. 0 \in T
  <2>1. 0 \in 0 .. Len(s)
    BY <1>0
  <2>2. h[0] = f[0]
    BY <1>3
  <2> QED BY <2>1, <2>2
<1>5. ASSUME NEW i \in 1 .. Len(s), i - 1 \in T PROVE i \in T
  <2>1. i \in 0 .. Len(s) /\ i \in 1 .. Len(t) /\ t[i] = s[i] /\ h[i - 1] = f[i - 1]
    BY <1>0, <1>5
  <2>2. f[i] = f[i - 1] \o escaped(s[i]) /\ h[i] = h[i - 1] \o escaped(t[i])
    BY <1>3, <2>1
  <2> QED BY <2>1, <2>2
<1> HIDE DEF T
<1>6. h[Len(s)] = f[Len(s)]
  <2>1. \A i \in 0 .. Len(s) : i \in T
    BY <1>0, <1>4, <1>5, IntervalInduction
  <2> QED BY <1>0, <2>1 DEF T
<1>7. h[Len(t)] = h[Len(t) - 1] \o escaped(t[Len(t)]) /\ Len(t) - 1 = Len(s)
  <2>1. Len(t) \in 1 .. Len(t) /\ Len(t) - 1 = Len(s)
    BY <1>0
  <2> QED BY <1>3, <2>1
<1>8. h[Len(t)] = f[Len(s)] \o escaped(e)
  BY <1>0, <1>6, <1>7
<1> QED BY <1>2, <1>8 DEF t

(* without characters there is the quote. *)
LEMMA print_quotedEmpty == print_quoted(<<>>) = <<C_QUOTE>>
<1> DEFINE s == <<>>
           f == CHOOSE f : Isprint_quoted(f, s)
<1>1. s \in Seq({}) /\ Len(s) = 0
  OBVIOUS
<1> HIDE DEF s
<1>2. Isprint_quoted(f, s)
  BY <1>1, print_quotedExists
<1>3. print_quoted(s) = f[Len(s)]
  BY DEF print_quoted, Isprint_quoted
<1> HIDE DEF f
<1>4. f[0] = <<C_QUOTE>>
  BY <1>1, <1>2 DEF Isprint_quoted
<1> QED BY <1>1, <1>3, <1>4 DEF s

(* The printer after items. *)
Prints(items, pretty) == json_vprint_args(json_print_init, items, pretty)

(* The printer after every item of s. *)
IsPrints(f, s, pretty) ==
  f = [i \in 0 .. Len(s) |-> IF i = 0 THEN json_print_init ELSE json_print_mode(f[i - 1], s[i], pretty)]

(* The fold behind json_vprint_args exists, *)
LEMMA PrintsExists ==
  ASSUME NEW pretty, NEW S, NEW s \in Seq(S)
  PROVE  \E f : IsPrints(f, s, pretty)
<1> DEFINE G(x, i) == json_print_mode(x, s[i], pretty)
           E(m) == \E f : f = [i \in 0 .. m |-> IF i = 0 THEN json_print_init ELSE G(f[i - 1], i)]
           T == {m \in 0 .. Len(s) : E(m)}
<1>0. Len(s) \in Nat
  OBVIOUS
<1>1. 0 \in T
  <2> DEFINE f == [i \in 0 .. 0 |-> json_print_init]
  <2> HIDE DEF G
  <2>1. f = [i \in 0 .. 0 |-> IF i = 0 THEN json_print_init ELSE G(f[i - 1], i)]
    OBVIOUS
  <2>2. E(0)
    BY <2>1
  <2> HIDE DEF E
  <2> QED BY <1>0, <2>2
<1>2. ASSUME NEW m \in 1 .. Len(s), m - 1 \in T
      PROVE  m \in T
  <2> HIDE DEF G
  <2>1. PICK h : h = [i \in 0 .. m - 1 |-> IF i = 0 THEN json_print_init ELSE G(h[i - 1], i)]
    BY <1>2
  <2> DEFINE f == [i \in 0 .. m |-> IF i = m THEN G(h[m - 1], m) ELSE h[i]]
  <2>2. ASSUME NEW i \in 0 .. m
        PROVE  f[i] = IF i = 0 THEN json_print_init ELSE G(f[i - 1], i)
    <3>1. CASE i = 0
      BY <1>0, <1>2, <2>1, <3>1
    <3>2. CASE i = m
      <4>1. i # 0 /\ i - 1 \in 0 .. m /\ i - 1 # m
        BY <1>0, <1>2, <3>2
      <4>2. f[i - 1] = h[i - 1]
        BY <4>1
      <4> QED BY <3>2, <4>1, <4>2
    <3>3. CASE i # 0 /\ i # m
      <4>1. i \in 0 .. m - 1 /\ i - 1 \in 0 .. m /\ i - 1 # m
        BY <1>0, <1>2, <3>3
      <4>2. f[i - 1] = h[i - 1] /\ f[i] = h[i]
        BY <4>1, <3>3
      <4>3. h[i] = G(h[i - 1], i)
        BY <2>1, <4>1, <3>3
      <4> QED BY <3>3, <4>2, <4>3
    <3> QED BY <3>1, <3>2, <3>3
  <2>3. f = [i \in 0 .. m |-> IF i = 0 THEN json_print_init ELSE G(f[i - 1], i)]
    <3> HIDE DEF f
    <3>1. f = [i \in 0 .. m |-> f[i]]
      BY DEF f
    <3> QED BY <2>2, <3>1
  <2>4. E(m)
    <3> HIDE DEF f
    <3> QED BY <2>3
  <2> HIDE DEF E
  <2> QED BY <1>0, <2>4
<1>3. Len(s) \in T
  <2> HIDE DEF T
  <2> QED BY <1>0, <1>1, <1>2, IntervalInduction
<1> QED BY <1>3 DEF IsPrints

(* and takes a further item as json_print_mode does; *)
LEMMA PrintsAppend ==
  ASSUME NEW pretty, NEW S, NEW s \in Seq(S), NEW e \in S
  PROVE  Prints(Append(s, e), pretty) = json_print_mode(Prints(s, pretty), e, pretty)
<1> DEFINE t == Append(s, e)
           f == CHOOSE f : IsPrints(f, s, pretty)
           h == CHOOSE h : IsPrints(h, t, pretty)
           T == {i \in 0 .. Len(s) : h[i] = f[i]}
<1>0. /\ Len(s) \in Nat /\ t \in Seq(S) /\ Len(t) = Len(s) + 1 /\ t[Len(t)] = e
      /\ \A i \in 1 .. Len(s) : t[i] = s[i]
  OBVIOUS
<1> HIDE DEF t
<1>1. IsPrints(f, s, pretty) /\ IsPrints(h, t, pretty)
  BY <1>0, PrintsExists
<1>2. Prints(s, pretty) = f[Len(s)] /\ Prints(t, pretty) = h[Len(t)]
  BY DEF Prints, json_vprint_args, IsPrints
<1> HIDE DEF f, h
<1>3. /\ f[0] = json_print_init /\ h[0] = json_print_init
      /\ \A i \in 1 .. Len(s) : f[i] = json_print_mode(f[i - 1], s[i], pretty)
      /\ \A i \in 1 .. Len(t) : h[i] = json_print_mode(h[i - 1], t[i], pretty)
  <2>1. Len(t) \in Nat
    BY <1>0
  <2>2. f = [i \in 0 .. Len(s) |-> IF i = 0 THEN json_print_init ELSE json_print_mode(f[i - 1], s[i], pretty)]
    BY <1>1 DEF IsPrints
  <2>3. h = [i \in 0 .. Len(t) |-> IF i = 0 THEN json_print_init ELSE json_print_mode(h[i - 1], t[i], pretty)]
    BY <1>1 DEF IsPrints
  <2>4. f[0] = json_print_init /\ \A i \in 1 .. Len(s) : f[i] = json_print_mode(f[i - 1], s[i], pretty)
    <3>1. ASSUME NEW i \in 1 .. Len(s) PROVE f[i] = json_print_mode(f[i - 1], s[i], pretty)
      <4>1. i \in 0 .. Len(s) /\ i # 0
        BY <1>0
      <4> QED BY <2>2, <4>1
    <3>2. 0 \in 0 .. Len(s)
      BY <1>0
    <3>3. f[0] = json_print_init
      BY <2>2, <3>2
    <3> QED BY <3>1, <3>3
  <2>5. h[0] = json_print_init /\ \A i \in 1 .. Len(t) : h[i] = json_print_mode(h[i - 1], t[i], pretty)
    <3>1. ASSUME NEW i \in 1 .. Len(t) PROVE h[i] = json_print_mode(h[i - 1], t[i], pretty)
      <4>1. i \in 0 .. Len(t) /\ i # 0
        BY <2>1
      <4> QED BY <2>3, <4>1
    <3>2. 0 \in 0 .. Len(t)
      BY <2>1
    <3>3. h[0] = json_print_init
      BY <2>3, <3>2
    <3> QED BY <3>1, <3>3
  <2> QED BY <2>4, <2>5
<1>4. 0 \in T
  BY <1>0, <1>3
<1>5. ASSUME NEW i \in 1 .. Len(s), i - 1 \in T PROVE i \in T
  <2>1. i \in 0 .. Len(s) /\ i \in 1 .. Len(t) /\ t[i] = s[i] /\ h[i - 1] = f[i - 1]
    BY <1>0, <1>5
  <2>2. f[i] = json_print_mode(f[i - 1], s[i], pretty) /\ h[i] = json_print_mode(h[i - 1], t[i], pretty)
    BY <1>3, <2>1
  <2> QED BY <2>1, <2>2
<1> HIDE DEF T
<1>6. h[Len(s)] = f[Len(s)]
  <2>1. \A i \in 0 .. Len(s) : i \in T
    BY <1>0, <1>4, <1>5, IntervalInduction
  <2> QED BY <1>0, <2>1 DEF T
<1>7. h[Len(t)] = json_print_mode(h[Len(t) - 1], t[Len(t)], pretty) /\ Len(t) - 1 = Len(s)
  BY <1>0, <1>3
<1>8. h[Len(t)] = json_print_mode(f[Len(s)], e, pretty)
  BY <1>0, <1>6, <1>7
<1> QED BY <1>2, <1>8 DEF t

(* without items the printer is as it starts. *)
LEMMA PrintsEmpty ==
  ASSUME NEW pretty
  PROVE  Prints(<<>>, pretty) = json_print_init
<1> DEFINE s == <<>>
           f == CHOOSE f : IsPrints(f, s, pretty)
<1>1. s \in Seq({}) /\ Len(s) = 0
  OBVIOUS
<1> HIDE DEF s
<1>2. IsPrints(f, s, pretty)
  BY <1>1, PrintsExists
<1>3. Prints(s, pretty) = f[Len(s)]
  BY DEF Prints, json_vprint_args, IsPrints
<1> HIDE DEF f
<1>4. f[0] = json_print_init
  BY <1>1, <1>2 DEF IsPrints
<1> QED BY <1>1, <1>3, <1>4 DEF s

-----------------------------------------------------------------------------
(* Items are legible: their data and their depth *)

(* All items spell their types. *)
AllSpell(o) == \A k \in DOMAIN o : Spells(o[k])

(* So they do with one more. *)
LEMMA SpellAppend ==
  ASSUME NEW o \in Seq(Items), AllSpell(o), NEW e, Spells(e)
  PROVE  AllSpell(Append(o, e))
<1> DEFINE a == Append(o, e)
<1>2. /\ Len(o) \in Nat /\ DOMAIN o = 1 .. Len(o) /\ DOMAIN a = 1 .. Len(o) + 1
      /\ \A i \in 1 .. Len(o) : a[i] = o[i]
      /\ a[Len(o) + 1] = e
  OBVIOUS
<1> HIDE DEF a
<1>3. ASSUME NEW i \in DOMAIN a PROVE Spells(a[i])
  <2>1. i \in 1 .. Len(o) \/ i = Len(o) + 1
    BY <1>2
  <2> QED BY <1>2, <2>1 DEF AllSpell
<1> QED BY <1>3 DEF AllSpell, a

(* No prefix of the items nests deeper than m. *)
Depths(m, o) == \A k \in 0 .. Len(o) : Len(Nested(SubSeq(o, 1, k))) - 1 <= m

(* So it is with one more item. *)
LEMMA DepthAppend ==
  ASSUME NEW o \in Seq(Items), NEW e \in Items, NEW m \in Nat, Depths(m, o),
         Len(Nested(Append(o, e))) - 1 <= m
  PROVE  Depths(m, Append(o, e))
<1> DEFINE a == Append(o, e)
<1>1. /\ Len(o) \in Nat /\ Len(a) = Len(o) + 1 /\ SubSeq(a, 1, Len(o) + 1) = a
      /\ \A k \in 0 .. Len(o) : SubSeq(a, 1, k) = SubSeq(o, 1, k)
  OBVIOUS
<1> HIDE DEF a
<1>2. ASSUME NEW k \in 0 .. Len(a) PROVE Len(Nested(SubSeq(a, 1, k))) - 1 <= m
  <2>1. k \in 0 .. Len(o) \/ k = Len(o) + 1
    BY <1>1
  <2>2. CASE k \in 0 .. Len(o)
    BY <1>1, <2>2 DEF Depths
  <2>3. CASE k = Len(o) + 1
    BY <1>1, <2>3 DEF a
  <2> QED BY <2>1, <2>2, <2>3
<1> QED BY <1>2 DEF Depths, a

(* The stack bounds the nesting. *)
LEMMA ShapeLen ==
  ASSUME NEW c, NEW p, Fits(c, p), IsConfig(c), c.max_nesting > 0,
         NEW n, Shape(n), Modes(n) = p.stack
  PROVE  Len(n) - 1 <= c.max_nesting
<1>1. n \in Seq(Opens) /\ Len(n) \in Nat \ {0}
  BY ShapeIs
<1>2. Len(p.stack) = Len(n) - 1
  BY <1>1, ModesAre
<1>3. p.config = c /\ Len(p.stack) <= p.stack_size /\ p.stack_size = c.max_nesting
  BY Fields DEF Fits, Room, IsConfig
<1> QED BY <1>2, <1>3

(* The number or the constant that is pending is spelled by the buffer. *)
LEMMA PendingSpells ==
  ASSUME NEW c, NEW p, Fits(c, p), p.ret = "0", Nesting(p), Buffered(p),
         p.state \in Between \cup Ending \cup Comments
  PROVE  Spells([type |-> p.type, data |-> p.buffer])
<1> DEFINE e == [type |-> p.type, data |-> p.buffer]
<1>1. CASE p.state \in Ending
  <2>1. p.state \in Ints \cup Floats /\ p.state \notin Strings
    BY <1>1 DEF Ending, Ints, Floats, Strings
  <2>2. NumberState(p.buffer) = p.state
    BY <2>1 DEF Buffered
  <2>3. Expects(p, Top(Nested(p.out)))
    BY NestingIs
  <2>4. Resumed(p) = p.state
    BY <1>1 DEF Ending, Resumed, Comments
  <2>5. \/ p.state \in {"Z0", "I0"} /\ p.type = "INT"
        \/ p.state \in {"R2", "X3"} /\ p.type = "FLOAT"
    BY <1>1, <2>3, <2>4 DEF Expects, Ending, Ints, Floats
  <2>6. e.type = p.type /\ e.data = p.buffer
    OBVIOUS
  <2> HIDE DEF e
  <2> QED BY <2>2, <2>5, <2>6 DEF Spells, e
<1>2. CASE p.state \in Between \cup Comments
  <2>1. p.state \notin Strings /\ p.state \notin Ints \cup Floats
    BY <1>2 DEF Between, Comments, Ints, Floats, Strings
  <2> QED BY <2>1 DEF Buffered
<1> QED BY <1>1, <1>2

(* Without one there is nothing in the buffer. *)
LEMMA NothingBuffered ==
  ASSUME NEW p, Buffered(p), p.type = "NONE", p.state \notin Strings \cup Ints \cup Floats
  PROVE  p.buffer = <<>>
<1> DEFINE e == [type |-> p.type, data |-> p.buffer]
<1>1. e.type = "NONE" /\ e.data = p.buffer
  OBVIOUS
<1>2. Spells(e)
  BY DEF Buffered
<1> HIDE DEF e
<1> QED BY <1>1, <1>2 DEF Spells

(* What may stand in a string may stand in a longer one, *)
LEMMA ReadableAppend ==
  ASSUME NEW b \in Seq(Char), Readable(b), NEW x, x \notin ErrorChar \cup {"<x>"}
  PROVE  Readable(Append(b, x))
<1> DEFINE a == Append(b, x)
<1>1. /\ Len(b) \in Nat /\ DOMAIN b = 1 .. Len(b) /\ DOMAIN a = 1 .. Len(b) + 1
      /\ \A i \in 1 .. Len(b) : a[i] = b[i]
      /\ a[Len(b) + 1] = x
  OBVIOUS
<1> HIDE DEF a
<1>2. ASSUME NEW i \in DOMAIN a PROVE a[i] \notin ErrorChar \cup {"<x>"}
  <2>1. i \in 1 .. Len(b) \/ i = Len(b) + 1
    BY <1>1
  <2> QED BY <1>1, <2>1 DEF Readable
<1> QED BY <1>2 DEF Readable, a

(* in a shorter one, *)
LEMMA ReadableShorter ==
  ASSUME NEW b \in Seq(Char), Readable(b), NEW k \in 0 .. Len(b)
  PROVE  Readable(SubSeq(b, 1, k)) /\ SubSeq(b, 1, k) \in Seq(Char)
<1> DEFINE a == SubSeq(b, 1, k)
<1>1. /\ Len(b) \in Nat /\ DOMAIN b = 1 .. Len(b) /\ DOMAIN a = 1 .. k
      /\ \A i \in 1 .. k : a[i] = b[i] /\ a \in Seq(Char)
      /\ a \in Seq(Char)
  OBVIOUS
<1> HIDE DEF a
<1>2. ASSUME NEW i \in DOMAIN a PROVE a[i] \notin ErrorChar \cup {"<x>"}
  <2>1. i \in 1 .. Len(b)
    BY <1>1
  <2> QED BY <1>1, <1>2, <2>1 DEF Readable
<1> QED BY <1>1, <1>2 DEF Readable, a

(* and so may the bytes of an escape. *)
LEMMA ReadableBytes ==
  ASSUME NEW b \in Seq(Char), Readable(b), NEW k \in 1 .. 4
  PROVE  Readable(b \o Utf8Bytes(k))
<1> DEFINE u == Utf8Bytes(k)
           a == b \o u
<1>1. u \in Seq({"<1>", "<2>", "<3>", "<4>", "<c>"})
  <2>1. CASE k = 1
    BY <2>1 DEF Utf8Bytes
  <2>2. CASE k = 2
    BY <2>2 DEF Utf8Bytes
  <2>3. CASE k = 3
    BY <2>3 DEF Utf8Bytes
  <2>4. CASE k = 4
    BY <2>4 DEF Utf8Bytes
  <2> QED BY <2>1, <2>2, <2>3, <2>4
<1>2. {"<1>", "<2>", "<3>", "<4>", "<c>"} \cap (ErrorChar \cup {"<x>"}) = {}
  BY DEF ErrorChar
<1> DEFINE S == {"<1>", "<2>", "<3>", "<4>", "<c>"}
<1>3. u \in Seq(S) /\ S \cap (ErrorChar \cup {"<x>"}) = {}
  BY <1>1, <1>2
<1> HIDE DEF u, S
<1>4. /\ Len(b) \in Nat /\ Len(u) \in Nat /\ DOMAIN b = 1 .. Len(b)
      /\ DOMAIN a = 1 .. Len(b) + Len(u)
      /\ \A i \in 1 .. Len(b) : a[i] = b[i]
      /\ \A i \in Len(b) + 1 .. Len(b) + Len(u) : a[i] = u[i - Len(b)]
      /\ \A i \in 1 .. Len(u) : u[i] \in S
  BY <1>3
<1> HIDE DEF a
<1>5. ASSUME NEW i \in DOMAIN a PROVE a[i] \notin ErrorChar \cup {"<x>"}
  <2>1. CASE i \in 1 .. Len(b)
    BY <1>4, <2>1 DEF Readable
  <2>2. CASE i \in Len(b) + 1 .. Len(b) + Len(u)
    <3>1. i - Len(b) \in 1 .. Len(u)
      BY <1>4, <2>2
    <3> QED BY <1>3, <1>4, <2>2, <3>1
  <2> QED BY <1>4, <2>1, <2>2
<1> QED BY <1>5 DEF Readable, a, u

Numbers == Ints \cup Floats

(* The rows of an array and of a value agree on the begin of a number. *)
LEMMA ArrayValue ==
  ASSUME NEW k, {NextState("_A", k), NextState("_V", k)} \cap {"MX", "ZX", "IX"} # {}
  PROVE  NextState("_V", k) = NextState("_A", k)
<1>1. /\ NextState("_A", k) = Row(Layout("_A") ++ BeginOfValue ++ On({"]"}, "AE"), k)
      /\ NextState("_V", k) = Row(Layout("_V") ++ BeginOfValue, k)
  BY DEF NextState, Row, state_transition_table
<1>2. \A x : Row(Layout(x), k) \in {x, "CB", "YB", "__"} /\ (Has(Layout(x), k) <=> k \in White \cup {"/", "#"})
  BY RowOver, RowOn, DomOver, DomOn DEF Layout
<1>3. NextState("_A", k) = IF Has(Layout("_A"), k) THEN Row(Layout("_A"), k)
                           ELSE IF Has(BeginOfValue, k) THEN Row(BeginOfValue, k)
                           ELSE Row(On({"]"}, "AE"), k)
  BY <1>1, RowOver, DomOver
<1>4. NextState("_V", k) = IF Has(Layout("_V"), k) THEN Row(Layout("_V"), k) ELSE Row(BeginOfValue, k)
  BY <1>1, RowOver
<1>5. ~Has(Layout("_A"), k) /\ ~Has(Layout("_V"), k)
  BY <1>2, <1>3, <1>4
<1>6. Has(BeginOfValue, k)
  BY <1>3, <1>4, <1>5, RowOn DEF Row, Has
<1> QED BY <1>3, <1>4, <1>5, <1>6

(* The digits of numbers are kept and followed by the tables. *)
LEMMA NumberKept ==
  ASSUME NEW c, NEW p, Fits(c, p), Buffered(p), NEW ch \in Char, NEW n,
         n \in Number, n = NextState(p.state, Class(ch)),
         p.state \in Numbers \/ (p.state \in {"_V", "_A"} /\ p.type = "NONE")
  PROVE  /\ Kept(p, ch, n) = Append(p.buffer, ch)
         /\ NumberState(Kept(p, ch, n)) = IF n \in DOMAIN Target THEN Target[n] ELSE n
<1>0. p.buffer \in Seq(Char) /\ p.state \in States
  BY Fields DEF Fits
<1>1. Kept(p, ch, n) = Append(p.buffer, ch)
  <2>1. n # "_S"
    BY DEF Number
  <2>2. buffer_policy_table(p.state, n) = "append"
    BY <2>1 DEF buffer_policy_table
  <2> QED BY <2>2 DEF Kept
<1>2. NumberState(Append(p.buffer, ch)) = NumberNext(NumberState(p.buffer), ch)
  BY <1>0, NumberStateAppend
<1>3. NumberNext(NumberState(p.buffer), ch) = IF n \in DOMAIN Target THEN Target[n] ELSE n
  <2>1. CASE p.state \in Numbers
    <3>1. p.state \notin Strings
      BY <2>1 DEF Numbers, Ints, Floats, Strings
    <3>2. NumberState(p.buffer) = p.state
      BY <2>1, <3>1 DEF Buffered, Numbers
    <3> QED BY <1>0, <3>2 DEF NumberNext
  <2>2. CASE p.state \in {"_V", "_A"} /\ p.type = "NONE"
    <3>1. p.state \notin Strings \cup Ints \cup Floats
      BY <2>2 DEF Ints, Floats, Strings
    <3>2. p.buffer = <<>>
      BY <2>2, <3>1, NothingBuffered
    <3>3. NumberState(p.buffer) = "_V"
      BY <3>2, NumberStateEmpty
    <3>4. NextState("_V", Class(ch)) = n
      <4>1. CASE p.state = "_V"
        BY <4>1
      <4>2. CASE p.state = "_A"
        <5>1. Enters("_A", Class(ch), n)
          BY <1>0, <4>2, RowEnters DEF Number
        <5>2. n \in {"MX", "ZX", "IX"}
          BY <5>1 DEF Enters, Spelt, Number, Ending, Between
        <5> QED BY <4>2, <5>2, ArrayValue
      <4> QED BY <2>2, <4>1, <4>2
    <3>5. "_V" \in States
      BY StatesAre DEF Between
    <3> QED BY <3>3, <3>4, <3>5 DEF NumberNext
  <2> QED BY <2>1, <2>2
<1> QED BY <1>1, <1>2, <1>3

(* What a string keeps may stand in one. *)
LEMMA StringKept ==
  ASSUME NEW c, NEW p, Fits(c, p), NEW ch \in Char, NEW n, InUtf8(p, ch),
         Readable(p.buffer)
  PROVE  Readable(Kept(p, ch, n)) /\ Kept(p, ch, n) \in Seq(Char)
<1>0. p.buffer \in Seq(Char)
  BY Fields DEF Fits
<1>1. ch \notin ErrorChar \cup {"<x>"}
  BY DEF InUtf8
<1>2. Unescaped(ch) \notin ErrorChar \cup {"<x>"} /\ Unescaped(ch) \in Char
  BY <1>1, UnescapedIs DEF ErrorChar
<1>3. \A x \in Char : Append(p.buffer, x) \in Seq(Char)
  BY <1>0
<1> QED BY <1>0, <1>1, <1>2, <1>3, ReadableAppend DEF Kept

-----------------------------------------------------------------------------
(* The buffer holds what is under way *)

(* No state of a string is one of a number. *)
LEMMA StringsApart == Strings \cap (Ints \cup Floats) = {}
BY DEF Strings, Ints, Floats

(* Nothing is pending in most states. *)
LEMMA NonePending ==
  ASSUME NEW p, Nesting(p), p.ret = "0"
  PROVE  p.state \notin {"OK"} \cup Ints \cup Floats => p.type = "NONE"
<1>1. Expects(p, Top(Nested(p.out)))
  BY NestingIs
<1>2. CASE p.state \in Comments
  BY <1>1, <1>2 DEF Expects
<1>3. CASE p.state \notin Comments
  <2>1. Resumed(p) = p.state
    BY <1>3 DEF Resumed
  <2> QED BY <1>1, <2>1 DEF Expects
<1> QED BY <1>2, <1>3

(* Three kinds of state, three kinds of buffer. *)
LEMMA BufferedFrom ==
  ASSUME NEW r,
         \/ r.state \in Strings /\ Readable(r.buffer)
         \/ r.state \in Numbers /\ NumberState(r.buffer) = r.state
         \/ r.state \notin Strings \cup Numbers /\ r.buffer = <<>> /\ r.type \notin
              {"KEY", "STRING", "INT", "FLOAT"}
         \/ r.state \notin Strings \cup Numbers /\ Spells([type |-> r.type, data |-> r.buffer])
  PROVE  Buffered(r)
<1>1. CASE r.state \in Strings /\ Readable(r.buffer)
  BY <1>1, StringsApart DEF Buffered
<1>2. CASE r.state \in Numbers /\ NumberState(r.buffer) = r.state
  <2>1. r.state \notin Strings /\ r.state \in Ints \cup Floats
    BY <1>2 DEF Numbers, Ints, Floats, Strings
  <2> QED BY <1>2, <2>1 DEF Buffered
<1> DEFINE e == [type |-> r.type, data |-> r.buffer]
<1>3. CASE r.state \notin Strings \cup Numbers /\ r.buffer = <<>> /\ r.type \notin
              {"KEY", "STRING", "INT", "FLOAT"}
  <2>1. e.type = r.type /\ e.data = r.buffer
    OBVIOUS
  <2> HIDE DEF e
  <2>2. Spells(e)
    BY <1>3, <2>1 DEF Spells
  <2> QED BY <1>3, <2>2 DEF Buffered, Numbers, e
<1>4. CASE r.state \notin Strings \cup Numbers /\ Spells(e)
  BY <1>4 DEF Buffered, Numbers
<1> QED BY <1>1, <1>2, <1>3, <1>4

(* The buffer after a state of the tables. *)
LEMMA StateBuffers ==
  ASSUME NEW c, NEW p, Fits(c, p), p.ret = "0", Nesting(p), Buffered(p),
         NEW ch \in Char, NEW n, n \in States, InUtf8(p, ch), n # "__",
         n = NextState(p.state, Class(ch)), Enters(p.state, Class(ch), n),
         NEW r, r.state = n, r.type = p.type, r.buffer = Kept(p, ch, n)
  PROVE  Buffered(r)
<1>0. p.state \in States /\ p.buffer \in Seq(Char)
  BY Fields DEF Fits
<1>1. CASE n \in Strings
  <2>1. Readable(p.buffer)
    <3>1. CASE p.state \in Strings
      BY <3>1, StringsApart DEF Buffered
    <3>2. CASE p.state \notin Strings
      <4>1. p.state \in {"_O", "_K", "_V", "_A"}
        BY <1>1, <3>2 DEF Enters, Strings, Spelt, Between, Ending
      <4>2. p.type = "NONE" /\ p.state \notin Strings \cup Ints \cup Floats
        BY <4>1, NonePending DEF Strings, Ints, Floats
      <4>3. p.buffer = <<>>
        BY <4>2, NothingBuffered
      <4> QED BY <4>3 DEF Readable
    <3> QED BY <3>1, <3>2
  <2>2. Readable(r.buffer)
    BY <2>1, StringKept
  <2> QED BY <1>1, <2>2, BufferedFrom
<1>2. CASE n \in Numbers
  <2>1. n \in Number /\ p.state \in Numbers /\ n \notin DOMAIN Target
    <3>1. n \in {"Z0", "I0", "R2", "X1", "X2", "X3"} /\ p.state \in {"M0", "I0", "R1", "R2", "X1", "X2", "X3"}
      BY <1>2 DEF Enters, Spelt, Numbers, Ints, Floats, Between
    <3> QED BY <3>1 DEF Number, Numbers, Ints, Floats, Target
  <2>2. NumberState(r.buffer) = n
    BY <2>1, NumberKept
  <2> QED BY <1>2, <2>2, BufferedFrom
<1>3. CASE n \notin Strings /\ n \notin Numbers
  <2>1. n \notin Number /\ n # "_S" /\ p.state \notin {"U1", "U2", "U3", "U4"}
    <3>1. n \notin Number /\ n # "_S" /\ n \notin {"U2", "U3", "U4", "UC"}
      BY <1>3, StatesAre DEF Strings, Numbers, Ints, Floats, Between, Number, Literals, Comments
    <3>2. p.state \in {"U1", "U2", "U3", "U4"} => n \in {"U2", "U3", "U4", "UC"}
      BY DEF Enters, Spelt, Between, Ending
    <3> QED BY <3>1, <3>2
  <2>2. r.buffer = p.buffer
    BY <2>1, KeptNothing
  <2>3. CASE n \in Between
    <3>1. p.state \in Between \cup Ending \cup Comments
      BY <2>3 DEF Enters, Spelt, Between, Ending
    <3>2. Spells([type |-> p.type, data |-> p.buffer])
      BY <3>1, PendingSpells
    <3> QED BY <1>3, <2>2, <3>2, BufferedFrom
  <2>4. CASE n \notin Between
    <3>1. p.state \in {"_V", "_A"} \cup Literals \cup Comments
      BY <1>3, <2>4, StatesAre DEF Enters, Spelt, Literals, Comments, Numbers, Strings, Ints, Floats
    <3>2. p.type = "NONE" /\ p.state \notin Strings \cup Ints \cup Floats
      BY <3>1, NonePending DEF Strings, Ints, Floats, Literals, Comments
    <3>3. p.buffer = <<>>
      BY <3>2, NothingBuffered
    <3> QED BY <1>3, <2>2, <3>2, <3>3, BufferedFrom
  <2> QED BY <2>3, <2>4
<1> QED BY <1>1, <1>2, <1>3

(* The states after which an item that is pending is reported. *)
LEMMA ReportFrom ==
  ASSUME NEW st, NEW k, NEW n \in {"OE", "AE", "SP", "CB", "YB"}, Enters(st, k, n)
  PROVE  st \in Between \cup Ending \cup Comments
BY DEF Enters, Spelt, Between, Ending

(* The buffer after every character. *)
LEMMA TurnBuffers ==
  ASSUME NEW c, NEW p, Fits(c, p), p.ret = "0", Nesting(p), Buffered(p),
         NEW ch \in Char, NEW n, InUtf8(p, ch), n # "__",
         n = NextState(p.state, Class(ch)), Enters(p.state, Class(ch), n),
         NEW r, Turn(p, ch, n, r)
  PROVE  Buffered(r)
<1>0. p.state \in States /\ p.buffer \in Seq(Char)
  BY Fields DEF Fits
<1>1. CASE n \in States /\ r.state = n /\ r.type = p.type /\ r.buffer = Kept(p, ch, n)
  BY <1>1, StateBuffers
<1>2. CASE n \in Leaves /\ r.state = Target[n] /\ r.buffer = Kept(p, ch, n) /\ r.type = LeafType(n)
  <2>1. CASE n \in {"DE", "DF", "MX", "ZX", "IX"}
    <3>1. p.state \in Numbers \cup {"_V", "_A"}
      BY <2>1 DEF Enters, Spelt, Numbers, Ints, Floats, Between
    <3>2. p.state \in {"_V", "_A"} => p.type = "NONE"
      BY NonePending DEF Ints, Floats
    <3>3. n \in Number /\ n \in DOMAIN Target /\ Target[n] \in Numbers
      BY <2>1 DEF Number, Target, Numbers, Ints, Floats
    <3>4. NumberState(r.buffer) = Target[n]
      BY <1>2, <3>1, <3>2, <3>3, NumberKept
    <3> QED BY <1>2, <3>3, <3>4, BufferedFrom
  <2>2. CASE n \in {"KS", "FA", "TR", "NU"}
    <3>1. p.state \in Literals \cup {"CO"}
      BY <2>2 DEF Enters, Spelt, Literals, Between
    <3>2. p.type = "NONE" /\ p.state \notin Strings \cup Ints \cup Floats
      BY <3>1, NonePending DEF Strings, Ints, Floats, Literals
    <3>3. n \notin Number /\ n # "_S" /\ p.state \notin {"U1", "U2", "U3", "U4"}
      BY <2>2, <3>2 DEF Number, Strings
    <3>4. r.buffer = <<>>
      BY <1>2, <3>2, <3>3, NothingBuffered, KeptNothing
    <3>5. r.state \notin Strings \cup Numbers /\ r.type \notin {"KEY", "STRING", "INT", "FLOAT"}
      BY <1>2, <2>2 DEF Target, LeafType, PendingType, Strings, Numbers, Ints, Floats
    <3> QED BY <3>4, <3>5, BufferedFrom
  <2> QED BY <1>2, <2>1, <2>2 DEF Leaves
<1>3. CASE n \in {"OB", "AB"} /\ r.state \in {"_O", "_A"} /\ r.type = "NONE" /\ r.buffer = Kept(p, ch, n)
  <2>1. p.state \in {"GO", "_V", "_A"}
    BY <1>3 DEF Enters, Spelt, Between
  <2>2. p.type = "NONE" /\ p.state \notin Strings \cup Ints \cup Floats
    BY <2>1, NonePending DEF Strings, Ints, Floats
  <2>3. n \notin Number /\ n # "_S" /\ p.state \notin {"U1", "U2", "U3", "U4"}
    BY <1>3, <2>2 DEF Number, Strings
  <2>4. r.buffer = <<>>
    BY <1>3, <2>2, <2>3, NothingBuffered, KeptNothing
  <2> QED BY <1>3, <2>4, BufferedFrom DEF Strings, Numbers, Ints, Floats
<1>4. CASE r.state \in {"OK", "_K", "_V", "C1", "Y1", "CO"} /\ r.type = "NONE" /\ r.buffer = <<>>
  BY <1>4, BufferedFrom DEF Strings, Numbers, Ints, Floats
<1>5. CASE n = "CE" /\ r.state = Resumed(p) /\ r.type = "NONE" /\ r.buffer = Kept(p, ch, n)
  <2>1. p.state \in Comments
    BY <1>5 DEF Enters, Spelt, Between, Comments
  <2>2. p.type = "NONE" /\ p.state \notin Strings \cup Ints \cup Floats
    BY <2>1, NonePending DEF Strings, Ints, Floats, Comments
  <2>3. n \notin Number /\ n # "_S" /\ p.state \notin {"U1", "U2", "U3", "U4"}
    BY <1>5, <2>2 DEF Number, Strings
  <2>4. r.buffer = <<>>
    BY <1>5, <2>2, <2>3, NothingBuffered, KeptNothing
  <2>5. Resumed(p) \in Between
    BY <2>1 DEF Resumed, Between
  <2> QED BY <1>5, <2>4, <2>5, BufferedFrom DEF Strings, Numbers, Ints, Floats, Between
<1>6. CASE /\ n = "UC" /\ r.state \in {"_S", "D1"}
           /\ Len(Kept(p, ch, n)) >= 4
           /\ \/ \E k \in 1 .. 4 :
                   r.buffer = SubSeq(Kept(p, ch, n), 1, Len(Kept(p, ch, n)) - 4) \o Utf8Bytes(k)
              \/ r.buffer = SubSeq(Kept(p, ch, n), 1, Len(Kept(p, ch, n)) - 4)
  <2>1. p.state = "U4"
    BY <1>6 DEF Enters, Spelt, Between
  <2>2. Readable(p.buffer)
    BY <2>1, StringsApart DEF Buffered, Strings
  <2> DEFINE b == Kept(p, ch, n)
             k == Len(b) - 4
             d == SubSeq(b, 1, k)
  <2>3. b \in Seq(Char) /\ Readable(b) /\ Len(b) >= 4
    BY <1>6, <2>2, StringKept
  <2>4. r.buffer = d \/ \E i \in 1 .. 4 : r.buffer = d \o Utf8Bytes(i)
    BY <1>6
  <2>5. k \in 0 .. Len(b)
    <3> HIDE DEF b
    <3> QED BY <2>3
  <2> HIDE DEF b, k
  <2>6. d \in Seq(Char) /\ Readable(d)
    BY <2>3, <2>5, ReadableShorter
  <2> HIDE DEF d
  <2>7. Readable(r.buffer)
    BY <2>4, <2>6, ReadableBytes
  <2> QED BY <1>6, <2>7, BufferedFrom DEF Strings
<1> QED BY <1>1, <1>2, <1>3, <1>4, <1>5, <1>6 DEF Turn

-----------------------------------------------------------------------------
(* Every character keeps the items legible *)

(* Items that spell their types and keep the limit of nesting. *)
Wellmade(c, o) == AllSpell(o) /\ (c.max_nesting > 0 => Depths(c.max_nesting, o))

(* Legible() in these words. *)
LEMMA LegibleIs ==
  ASSUME NEW c, NEW p, Fits(c, p)
  PROVE  Legible(p) <=> Wellmade(c, p.out) /\ Buffered(p)
<1>1. p.config = c
  BY Fields DEF Fits
<1> QED BY <1>1 DEF Legible, Wellmade, AllSpell, Depths

(* The items stay so with what is appended to them, *)
LEMMA WellmadeOut ==
  ASSUME NEW c, IsConfig(c), NEW r, Fits(c, r), r.ret = "0", Nesting(r),
         NEW o \in Seq(Items), Wellmade(c, o), NEW e \in Items, Spells(e),
         r.out = Append(o, e)
  PROVE  Wellmade(c, r.out)
<1>1. AllSpell(r.out)
  BY SpellAppend DEF Wellmade
<1>2. ASSUME c.max_nesting > 0 PROVE Depths(c.max_nesting, r.out)
  <2>1. Shape(Nested(r.out)) /\ Modes(Nested(r.out)) = r.stack
    BY NestingIs
  <2>2. Len(Nested(r.out)) - 1 <= c.max_nesting
    BY <1>2, <2>1, ShapeLen
  <2>3. c.max_nesting \in Nat /\ Depths(c.max_nesting, o)
    BY <1>2 DEF Wellmade, IsConfig
  <2> QED BY <2>2, <2>3, DepthAppend
<1> QED BY <1>1, <1>2 DEF Wellmade

(* and with what is pending. *)
LEMMA WellmadeFlushed ==
  ASSUME NEW c, IsConfig(c), NEW p, Fits(c, p), p.ret = "0", Nesting(p), Buffered(p),
         Wellmade(c, p.out), p.state \in Between \cup Ending \cup Comments
  PROVE  Wellmade(c, Flushed(p)) /\ Flushed(p) \in Seq(Items)
<1>0. /\ p.out \in Seq(Items) /\ p.buffer \in Seq(Char) /\ p.type \in Pending
      /\ Flushed(p) \in Seq(Items) /\ Shape(Nested(Flushed(p))) /\ Modes(Nested(Flushed(p))) = p.stack
  BY Fields, FlushedNests DEF Fits, Items
<1>1. CASE p.type = "NONE"
  <2>1. Flushed(p) = p.out
    BY <1>1 DEF Flushed
  <2> QED BY <1>0, <2>1
<1>2. CASE p.type # "NONE"
  <2> DEFINE e == [type |-> p.type, data |-> p.buffer]
  <2>1. Flushed(p) = Append(p.out, e) /\ e \in Items /\ Spells(e)
    BY <1>0, <1>2, PendingSpells DEF Flushed, Items, Pending, ItemTypes
  <2> HIDE DEF e
  <2>2. AllSpell(Flushed(p))
    BY <1>0, <2>1, SpellAppend DEF Wellmade
  <2>3. ASSUME c.max_nesting > 0 PROVE Depths(c.max_nesting, Flushed(p))
    <3>1. Len(Nested(Flushed(p))) - 1 <= c.max_nesting
      BY <1>0, <2>3, ShapeLen
    <3>2. c.max_nesting \in Nat /\ Depths(c.max_nesting, p.out)
      BY <2>3 DEF Wellmade, IsConfig
    <3> QED BY <1>0, <2>1, <3>1, <3>2, DepthAppend
  <2> QED BY <1>0, <2>2, <2>3 DEF Wellmade
<1> QED BY <1>1, <1>2

(* The begin or the end of a structure has no data. *)
LEMMA ItemSpells ==
  ASSUME NEW t \in Opening \cup Closing
  PROVE  Item(t) \in Items /\ Spells(Item(t))
<1> DEFINE e == Item(t)
<1>1. e.type = t /\ e.data = <<>> /\ e \in Items
  BY DEF Item, Items, ItemTypes
<1> HIDE DEF e
<1>2. t \notin {"KEY", "STRING", "INT", "FLOAT"}
  BY DEF Opening, Closing
<1>3. Spells(e)
  BY <1>1, <1>2 DEF Spells
<1> QED BY <1>1, <1>3 DEF e

(* A character keeps what the items are made of. *)
LEMMA CharLegible ==
  ASSUME NEW c, IsConfig(c), NEW p, Held(c, p), p.ret = "0", Legible(p),
         NEW ch \in Char, NEW r, r = json_parser_char(p, ch), r.ret = "0"
  PROVE  Legible(r)
<1>0. Fits(c, p) /\ HasDigits(p) /\ Nesting(p) /\ Wellmade(c, p.out) /\ Buffered(p)
  BY LegibleIs DEF Held
<1>1. Fits(c, r) /\ Nesting(r)
  BY CharHeld DEF Held
<1>2. PICK n : /\ InUtf8(p, ch) /\ n # "__" /\ n = NextState(p.state, Class(ch))
               /\ Enters(p.state, Class(ch), n) /\ Turn(p, ch, n, r)
  BY <1>0, CharTurns
<1>3. Buffered(r)
  BY <1>0, <1>2, TurnBuffers
<1>4. p.out \in Seq(Items) /\ p.buffer \in Seq(Char)
  BY <1>0, Fields DEF Fits, Items
<1>5. n \in {"OE", "AE", "SP", "CB", "YB"} => Wellmade(c, Flushed(p)) /\ Flushed(p) \in Seq(Items)
  <2> HAVE n \in {"OE", "AE", "SP", "CB", "YB"}
  <2>1. p.state \in Between \cup Ending \cup Comments
    BY <1>2, ReportFrom
  <2> QED BY <1>0, <2>1, WellmadeFlushed
<1>6. CASE r.out = p.out
  BY <1>0, <1>1, <1>3, <1>6, LegibleIs
<1>7. CASE r.out = Flushed(p) /\ n \in {"SP", "CB", "YB"}
  BY <1>1, <1>3, <1>5, <1>7, LegibleIs
<1>8. CASE \E t \in Opening : r.out = Append(p.out, Item(t))
  <2>1. PICK t \in Opening : r.out = Append(p.out, Item(t))
    BY <1>8
  <2>2. Item(t) \in Items /\ Spells(Item(t))
    BY ItemSpells
  <2>3. Wellmade(c, r.out)
    BY <1>0, <1>1, <1>4, <2>1, <2>2, WellmadeOut
  <2> QED BY <1>1, <1>3, <2>3, LegibleIs
<1>9. CASE (\E t \in Closing : r.out = Append(Flushed(p), Item(t))) /\ n \in {"OE", "AE"}
  <2>1. PICK t \in Closing : r.out = Append(Flushed(p), Item(t))
    BY <1>9
  <2>2. Item(t) \in Items /\ Spells(Item(t))
    BY ItemSpells
  <2>3. Wellmade(c, r.out)
    BY <1>1, <1>5, <1>9, <2>1, <2>2, WellmadeOut
  <2> QED BY <1>1, <1>3, <2>3, LegibleIs
<1>10. CASE n = "SE" /\ \E t \in {"KEY", "STRING"} :
              r.out = Append(p.out, [type |-> t, data |-> Kept(p, ch, n)])
  <2>1. PICK t \in {"KEY", "STRING"} : r.out = Append(p.out, [type |-> t, data |-> Kept(p, ch, n)])
    BY <1>10
  <2> DEFINE e == [type |-> t, data |-> Kept(p, ch, n)]
  <2>2. p.state = "_S"
    BY <1>2, <1>10 DEF Enters, Spelt, Between
  <2>3. Kept(p, ch, n) = p.buffer
    BY <1>10, <2>2, KeptNothing DEF Number
  <2>4. Readable(p.buffer)
    BY <1>0, <2>2, StringsApart DEF Buffered, Strings
  <2>5. e.type = t /\ e.data = p.buffer /\ e \in Items
    BY <1>4, <2>3 DEF Items, ItemTypes
  <2>6. r.out = Append(p.out, e)
    BY <2>1
  <2> HIDE DEF e
  <2>7. Spells(e)
    BY <2>4, <2>5 DEF Spells
  <2>8. Wellmade(c, r.out)
    BY <1>0, <1>1, <1>4, <2>5, <2>6, <2>7, WellmadeOut
  <2> QED BY <1>1, <1>3, <2>8, LegibleIs
<1>11. \/ r.out = p.out
       \/ r.out = Flushed(p) /\ n \in {"SP", "CB", "YB"}
       \/ \E t \in Opening : r.out = Append(p.out, Item(t))
       \/ (\E t \in Closing : r.out = Append(Flushed(p), Item(t))) /\ n \in {"OE", "AE"}
       \/ n = "SE" /\ \E t \in {"KEY", "STRING"} :
              r.out = Append(p.out, [type |-> t, data |-> Kept(p, ch, n)])
  <2>1. "ARRAY_BEGIN" \in Opening /\ "OBJECT_BEGIN" \in Opening
    BY DEF Opening
  <2>2. "ARRAY_END" \in Closing /\ "OBJECT_END" \in Closing
    BY DEF Closing
  <2> QED BY <1>2, <2>1, <2>2 DEF Turn
<1> QED BY <1>6, <1>7, <1>8, <1>9, <1>10, <1>11

-----------------------------------------------------------------------------
(* Where the tables lead *)

(* The characters of the tables that stand for themselves here. *)
Literal == {"\n", "\t", "[", "]", ":", "\\", "/", "*", "#"} \cup Hex \cup Sign \cup
  {".", "l", "n", "r", "s", "t", "u"}

(* The five others are none of them, *)
LEMMA LiteralsApart == {C_SPACE, C_LCURB, C_RCURB, C_COMMA, C_QUOTE} \cap Literal = {}
<1>1. C_SPACE \notin Literal
  BY Zenon DEF C_SPACE, Literal, Hex, Digit, Sign
<1>2. C_LCURB \notin Literal
  BY Zenon DEF C_LCURB, Literal, Hex, Digit, Sign
<1>3. C_RCURB \notin Literal
  BY Zenon DEF C_RCURB, Literal, Hex, Digit, Sign
<1>4. C_COMMA \notin Literal
  BY Zenon DEF C_COMMA, Literal, Hex, Digit, Sign
<1>5. C_QUOTE \notin Literal
  BY Zenon DEF C_QUOTE, Literal, Hex, Digit, Sign
<1> QED BY <1>1, <1>2, <1>3, <1>4, <1>5

(* and all different. *)
LEMMA QuotesApart ==
  /\ C_SPACE \notin {C_LCURB, C_RCURB, C_COMMA, C_QUOTE}
  /\ C_LCURB \notin {C_SPACE, C_RCURB, C_COMMA, C_QUOTE}
  /\ C_RCURB \notin {C_LCURB, C_SPACE, C_COMMA, C_QUOTE}
  /\ C_COMMA \notin {C_LCURB, C_RCURB, C_SPACE, C_QUOTE}
  /\ C_QUOTE \notin {C_LCURB, C_RCURB, C_COMMA, C_SPACE}
<1>1. C_SPACE # C_LCURB
  BY Zenon DEF C_SPACE, C_LCURB
<1>2. C_SPACE # C_RCURB
  BY Zenon DEF C_SPACE, C_RCURB
<1>3. C_SPACE # C_COMMA
  BY Zenon DEF C_SPACE, C_COMMA
<1>4. C_SPACE # C_QUOTE
  BY Zenon DEF C_SPACE, C_QUOTE
<1>5. C_LCURB # C_RCURB
  BY Zenon DEF C_LCURB, C_RCURB
<1>6. C_LCURB # C_COMMA
  BY Zenon DEF C_LCURB, C_COMMA
<1>7. C_LCURB # C_QUOTE
  BY Zenon DEF C_LCURB, C_QUOTE
<1>8. C_RCURB # C_COMMA
  BY Zenon DEF C_RCURB, C_COMMA
<1>9. C_RCURB # C_QUOTE
  BY Zenon DEF C_RCURB, C_QUOTE
<1>10. C_COMMA # C_QUOTE
  BY Zenon DEF C_COMMA, C_QUOTE
<1> QED BY <1>1, <1>2, <1>3, <1>4, <1>5, <1>6, <1>7, <1>8, <1>9, <1>10

(* In the words of the tables: *)
LEMMA Apart ==
  \A k \in {C_SPACE, C_LCURB, C_RCURB, C_COMMA, C_QUOTE} :
    /\ k # "\n" /\ k # "\t" /\ k # "[" /\ k # "]" /\ k # ":" /\ k # "\\" /\ k # "/" /\ k # "#"
    /\ k # "-" /\ k # "." /\ k \notin Digit /\ k # "0" /\ k # "f" /\ k # "n" /\ k # "t" /\ k # "e" /\ k # "E"
BY LiteralsApart DEF Literal, Hex, Digit, Sign


(* What the tables say of the characters that the printer writes. *)
Leads(st, k, n) ==
  \/ n = st /\ k \in White /\ st \in Between
  \/ n = "OK" /\ k \in White /\ st \in Ending
  \/ n = "OB" /\ k = C_LCURB /\ st \in {"GO", "_V", "_A"}
  \/ n = "AB" /\ k = "[" /\ st \in {"GO", "_V", "_A"}
  \/ n = "OE" /\ k = C_RCURB /\ st \in {"_O", "OK"} \cup Ending
  \/ n = "AE" /\ k = "]" /\ st \in {"_A", "OK"} \cup Ending
  \/ n = "SP" /\ k = C_COMMA /\ st \in {"OK"} \cup Ending
  \/ n = "KS" /\ k = ":" /\ st = "CO"
  \/ n = "_S" /\ k = C_QUOTE /\ st \in {"_O", "_K", "_V", "_A"}
  \/ n = "_S" /\ k \in All \ {C_QUOTE, "\\", "\n", "\t"} /\ st = "_S"
  \/ n = "SE" /\ k = C_QUOTE /\ st = "_S"
  \/ n = "E0" /\ k = "\\" /\ st = "_S"
  \/ n = "_S" /\ k \in Escapable /\ st = "E0"
  \/ n = "T1" /\ k = "t" /\ st \in {"_V", "_A"}
  \/ n = "F1" /\ k = "f" /\ st \in {"_V", "_A"}
  \/ n = "N1" /\ k = "n" /\ st \in {"_V", "_A"}
  \/ Spelt(st, k, n)

(* They say so. *)
LEMMA RowLeads ==
  ASSUME NEW st, NEW k, NEW n, Leads(st, k, n)
  PROVE  NextState(st, k) = n
<1>0. NextState(st, k) = Row(state_transition_table[st], k)
  BY DEF NextState, Row
<1>a. C_COMMA # C_RCURB /\ C_QUOTE # C_LCURB /\ C_QUOTE # C_RCURB /\ C_LCURB # C_SPACE /\ C_RCURB # C_SPACE /\ C_COMMA # C_SPACE /\ C_QUOTE # C_SPACE
  BY QuotesApart
<1> USE DEF Leads, Spelt, Between, Ending, White
<1>1. CASE st = "GO"
  <2>1. NextState(st, k) = Row(Layout("GO") ++ On({C_LCURB}, "OB") ++ On({"["}, "AB"), k)
    BY <1>0, <1>1 DEF state_transition_table
  <2>2. NextState(st, k) =
          IF k \in White THEN "GO" ELSE IF k = "/" THEN "CB"
          ELSE IF k = "#" THEN "YB"
          ELSE IF k = C_LCURB THEN "OB"
          ELSE IF k = "[" THEN "AB" ELSE "__"
    BY <2>1, RowOver, RowOn, DomOver, DomOn DEF Layout
  <2> QED BY <1>1, <1>a, <2>2, Apart DEF Digit, Escapable
<1>2. CASE st = "OK"
  <2>1. NextState(st, k) = Row(Layout("OK") ++ EndOfItem, k)
    BY <1>0, <1>2 DEF state_transition_table
  <2>2. NextState(st, k) =
          IF k \in White THEN "OK" ELSE IF k = "/" THEN "CB"
          ELSE IF k = "#" THEN "YB"
          ELSE IF k = C_RCURB THEN "OE"
          ELSE IF k = "]" THEN "AE"
          ELSE IF k = C_COMMA THEN "SP" ELSE "__"
    BY <2>1, RowOver, RowOn, DomOver, DomOn DEF Layout, EndOfItem
  <2> QED BY <1>2, <1>a, <2>2, Apart DEF Digit, Escapable
<1>3. CASE st = "_O"
  <2>1. NextState(st, k) = Row(Layout("_O") ++ On({C_RCURB}, "OE") ++ On({C_QUOTE}, "_S"), k)
    BY <1>0, <1>3 DEF state_transition_table
  <2>2. NextState(st, k) =
          IF k \in White THEN "_O" ELSE IF k = "/" THEN "CB"
          ELSE IF k = "#" THEN "YB"
          ELSE IF k = C_RCURB THEN "OE"
          ELSE IF k = C_QUOTE THEN "_S" ELSE "__"
    BY <2>1, RowOver, RowOn, DomOver, DomOn DEF Layout
  <2> QED BY <1>3, <1>a, <2>2, Apart DEF Digit, Escapable
<1>4. CASE st = "_K"
  <2>1. NextState(st, k) = Row(Layout("_K") ++ On({C_QUOTE}, "_S"), k)
    BY <1>0, <1>4 DEF state_transition_table
  <2>2. NextState(st, k) =
          IF k \in White THEN "_K" ELSE IF k = "/" THEN "CB"
          ELSE IF k = "#" THEN "YB"
          ELSE IF k = C_QUOTE THEN "_S" ELSE "__"
    BY <2>1, RowOver, RowOn, DomOver, DomOn DEF Layout
  <2> QED BY <1>4, <1>a, <2>2, Apart DEF Digit, Escapable
<1>5. CASE st = "CO"
  <2>1. NextState(st, k) = Row(Layout("CO") ++ On({":"}, "KS"), k)
    BY <1>0, <1>5 DEF state_transition_table
  <2>2. NextState(st, k) =
          IF k \in White THEN "CO" ELSE IF k = "/" THEN "CB"
          ELSE IF k = "#" THEN "YB"
          ELSE IF k = ":" THEN "KS" ELSE "__"
    BY <2>1, RowOver, RowOn, DomOver, DomOn DEF Layout
  <2> QED BY <1>5, <1>a, <2>2, Apart DEF Digit, Escapable
<1>6. CASE st = "_V"
  <2>1. NextState(st, k) = Row(Layout("_V") ++ BeginOfValue, k)
    BY <1>0, <1>6 DEF state_transition_table
  <2>2. NextState(st, k) =
          IF k \in White THEN "_V" ELSE IF k = "/" THEN "CB"
          ELSE IF k = "#" THEN "YB"
          ELSE IF k = C_LCURB THEN "OB"
          ELSE IF k = "[" THEN "AB"
          ELSE IF k = C_QUOTE THEN "_S"
          ELSE IF k = "-" THEN "MX"
          ELSE IF k = "0" THEN "ZX"
          ELSE IF k \in Digit \ {"0"} THEN "IX"
          ELSE IF k = "f" THEN "F1"
          ELSE IF k = "n" THEN "N1"
          ELSE IF k = "t" THEN "T1" ELSE "__"
    BY <2>1, RowOver, RowOn, DomOver, DomOn DEF Layout, BeginOfValue
  <2> QED BY <1>6, <1>a, <2>2, Apart DEF Digit, Escapable
<1>7. CASE st = "_A"
  <2>1. NextState(st, k) = Row(Layout("_A") ++ BeginOfValue ++ On({"]"}, "AE"), k)
    BY <1>0, <1>7 DEF state_transition_table
  <2>2. NextState(st, k) =
          IF k \in White THEN "_A" ELSE IF k = "/" THEN "CB"
          ELSE IF k = "#" THEN "YB"
          ELSE IF k = C_LCURB THEN "OB"
          ELSE IF k = "[" THEN "AB"
          ELSE IF k = C_QUOTE THEN "_S"
          ELSE IF k = "-" THEN "MX"
          ELSE IF k = "0" THEN "ZX"
          ELSE IF k \in Digit \ {"0"} THEN "IX"
          ELSE IF k = "f" THEN "F1"
          ELSE IF k = "n" THEN "N1"
          ELSE IF k = "t" THEN "T1"
          ELSE IF k = "]" THEN "AE" ELSE "__"
    BY <2>1, RowOver, RowOn, DomOver, DomOn DEF Layout, BeginOfValue
  <2> QED BY <1>7, <1>a, <2>2, Apart DEF Digit, Escapable
<1>8. CASE st = "_S"
  <2>1. NextState(st, k) = Row(On({C_QUOTE}, "SE") ++ On({"\\"}, "E0") ++ On(All \ {"\n", "\t"}, "_S"), k)
    BY <1>0, <1>8 DEF state_transition_table
  <2>2. NextState(st, k) =
          IF k = C_QUOTE THEN "SE" ELSE IF k = "\\" THEN "E0"
          ELSE IF k \in All \ {"\n", "\t"} THEN "_S" ELSE "__"
    BY <2>1, RowOver, RowOn, DomOver, DomOn
  <2> QED BY <1>8, <1>a, <2>2, Apart DEF Digit, Escapable
<1>9. CASE st = "E0"
  <2>1. NextState(st, k) = Row(On({C_QUOTE, "\\", "/", "b", "f", "n", "r", "t"}, "_S") ++ On({"u"}, "U1"), k)
    BY <1>0, <1>9 DEF state_transition_table
  <2>2. NextState(st, k) =
          IF k \in {C_QUOTE, "\\", "/", "b", "f", "n", "r", "t"} THEN "_S"
          ELSE IF k = "u" THEN "U1" ELSE "__"
    BY <2>1, RowOver, RowOn, DomOver, DomOn
  <2> QED BY <1>9, <1>a, <2>2, Apart DEF Digit, Escapable
<1>10. CASE st = "Z0"
  <2>1. NextState(st, k) = Row(Layout("OK") ++ EndOfItem ++ On({"."}, "DF"), k)
    BY <1>0, <1>10 DEF state_transition_table
  <2>2. NextState(st, k) =
          IF k \in White THEN "OK" ELSE IF k = "/" THEN "CB"
          ELSE IF k = "#" THEN "YB"
          ELSE IF k = C_RCURB THEN "OE"
          ELSE IF k = "]" THEN "AE"
          ELSE IF k = C_COMMA THEN "SP"
          ELSE IF k = "." THEN "DF" ELSE "__"
    BY <2>1, RowOver, RowOn, DomOver, DomOn DEF Layout, EndOfItem
  <2> QED BY <1>10, <1>a, <2>2, Apart DEF Digit, Escapable
<1>11. CASE st = "I0"
  <2>1. NextState(st, k) = Row(Layout("OK") ++ EndOfItem ++ On({"."}, "DF") ++ On(Digit, "I0") ++ On({"e", "E"}, "DE"), k)
    BY <1>0, <1>11 DEF state_transition_table
  <2>2. NextState(st, k) =
          IF k \in White THEN "OK" ELSE IF k = "/" THEN "CB"
          ELSE IF k = "#" THEN "YB"
          ELSE IF k = C_RCURB THEN "OE"
          ELSE IF k = "]" THEN "AE"
          ELSE IF k = C_COMMA THEN "SP"
          ELSE IF k = "." THEN "DF"
          ELSE IF k \in Digit THEN "I0"
          ELSE IF k \in {"e", "E"} THEN "DE" ELSE "__"
    BY <2>1, RowOver, RowOn, DomOver, DomOn DEF Layout, EndOfItem
  <2> QED BY <1>11, <1>a, <2>2, Apart DEF Digit, Escapable
<1>12. CASE st = "R2"
  <2>1. NextState(st, k) = Row(Layout("OK") ++ EndOfItem ++ On(Digit, "R2") ++ On({"e", "E"}, "X1"), k)
    BY <1>0, <1>12 DEF state_transition_table
  <2>2. NextState(st, k) =
          IF k \in White THEN "OK" ELSE IF k = "/" THEN "CB"
          ELSE IF k = "#" THEN "YB"
          ELSE IF k = C_RCURB THEN "OE"
          ELSE IF k = "]" THEN "AE"
          ELSE IF k = C_COMMA THEN "SP"
          ELSE IF k \in Digit THEN "R2"
          ELSE IF k \in {"e", "E"} THEN "X1" ELSE "__"
    BY <2>1, RowOver, RowOn, DomOver, DomOn DEF Layout, EndOfItem
  <2> QED BY <1>12, <1>a, <2>2, Apart DEF Digit, Escapable
<1>13. CASE st = "X3"
  <2>1. NextState(st, k) = Row(On(White, "OK") ++ EndOfItem ++ On(Digit, "X3"), k)
    BY <1>0, <1>13 DEF state_transition_table
  <2>2. NextState(st, k) =
          IF k \in White THEN "OK" ELSE IF k = C_RCURB THEN "OE"
          ELSE IF k = "]" THEN "AE"
          ELSE IF k = C_COMMA THEN "SP"
          ELSE IF k \in Digit THEN "X3" ELSE "__"
    BY <2>1, RowOver, RowOn, DomOver, DomOn DEF EndOfItem
  <2> QED BY <1>13, <1>a, <2>2, Apart DEF Digit, Escapable
<1>14. CASE st = "T1"
  <2>1. NextState(st, k) = Row(On({"r"}, "T2"), k)
    BY <1>0, <1>14 DEF state_transition_table
  <2>2. NextState(st, k) =
          IF k = "r" THEN "T2" ELSE "__"
    BY <2>1, RowOver, RowOn, DomOver, DomOn
  <2> QED BY <1>14, <1>a, <2>2, Apart DEF Digit, Escapable
<1>15. CASE st = "T2"
  <2>1. NextState(st, k) = Row(On({"u"}, "T3"), k)
    BY <1>0, <1>15 DEF state_transition_table
  <2>2. NextState(st, k) =
          IF k = "u" THEN "T3" ELSE "__"
    BY <2>1, RowOver, RowOn, DomOver, DomOn
  <2> QED BY <1>15, <1>a, <2>2, Apart DEF Digit, Escapable
<1>16. CASE st = "T3"
  <2>1. NextState(st, k) = Row(On({"e"}, "TR"), k)
    BY <1>0, <1>16 DEF state_transition_table
  <2>2. NextState(st, k) =
          IF k = "e" THEN "TR" ELSE "__"
    BY <2>1, RowOver, RowOn, DomOver, DomOn
  <2> QED BY <1>16, <1>a, <2>2, Apart DEF Digit, Escapable
<1>17. CASE st = "F1"
  <2>1. NextState(st, k) = Row(On({"a"}, "F2"), k)
    BY <1>0, <1>17 DEF state_transition_table
  <2>2. NextState(st, k) =
          IF k = "a" THEN "F2" ELSE "__"
    BY <2>1, RowOver, RowOn, DomOver, DomOn
  <2> QED BY <1>17, <1>a, <2>2, Apart DEF Digit, Escapable
<1>18. CASE st = "F2"
  <2>1. NextState(st, k) = Row(On({"l"}, "F3"), k)
    BY <1>0, <1>18 DEF state_transition_table
  <2>2. NextState(st, k) =
          IF k = "l" THEN "F3" ELSE "__"
    BY <2>1, RowOver, RowOn, DomOver, DomOn
  <2> QED BY <1>18, <1>a, <2>2, Apart DEF Digit, Escapable
<1>19. CASE st = "F3"
  <2>1. NextState(st, k) = Row(On({"s"}, "F4"), k)
    BY <1>0, <1>19 DEF state_transition_table
  <2>2. NextState(st, k) =
          IF k = "s" THEN "F4" ELSE "__"
    BY <2>1, RowOver, RowOn, DomOver, DomOn
  <2> QED BY <1>19, <1>a, <2>2, Apart DEF Digit, Escapable
<1>20. CASE st = "F4"
  <2>1. NextState(st, k) = Row(On({"e"}, "FA"), k)
    BY <1>0, <1>20 DEF state_transition_table
  <2>2. NextState(st, k) =
          IF k = "e" THEN "FA" ELSE "__"
    BY <2>1, RowOver, RowOn, DomOver, DomOn
  <2> QED BY <1>20, <1>a, <2>2, Apart DEF Digit, Escapable
<1>21. CASE st = "N1"
  <2>1. NextState(st, k) = Row(On({"u"}, "N2"), k)
    BY <1>0, <1>21 DEF state_transition_table
  <2>2. NextState(st, k) =
          IF k = "u" THEN "N2" ELSE "__"
    BY <2>1, RowOver, RowOn, DomOver, DomOn
  <2> QED BY <1>21, <1>a, <2>2, Apart DEF Digit, Escapable
<1>22. CASE st = "N2"
  <2>1. NextState(st, k) = Row(On({"l"}, "N3"), k)
    BY <1>0, <1>22 DEF state_transition_table
  <2>2. NextState(st, k) =
          IF k = "l" THEN "N3" ELSE "__"
    BY <2>1, RowOver, RowOn, DomOver, DomOn
  <2> QED BY <1>22, <1>a, <2>2, Apart DEF Digit, Escapable
<1>23. CASE st = "N3"
  <2>1. NextState(st, k) = Row(On({"l"}, "NU"), k)
    BY <1>0, <1>23 DEF state_transition_table
  <2>2. NextState(st, k) =
          IF k = "l" THEN "NU" ELSE "__"
    BY <2>1, RowOver, RowOn, DomOver, DomOn
  <2> QED BY <1>23, <1>a, <2>2, Apart DEF Digit, Escapable
<1> QED BY <1>1, <1>2, <1>3, <1>4, <1>5, <1>6, <1>7, <1>8, <1>9, <1>10, <1>11, <1>12, <1>13,
           <1>14, <1>15, <1>16, <1>17, <1>18, <1>19, <1>20, <1>21, <1>22, <1>23

-----------------------------------------------------------------------------
(* A character that must be accepted *)

-----------------------------------------------------------------------------
(* What is read without an error *)

(* A parser that has read a text without an error. *)
Live(c, p) == Held(c, p) /\ p.ret = "0" /\ Legible(p)

(* An action succeeds that finds room for what it opens and open what it   *)
(* closes.                                                                 *)
Possible(c, p, n) ==
  \/ n \in States \cup Leaves \cup {"SE"}
  \/ n \in {"OB", "AB"} /\ (c.max_nesting > 0 => Len(p.stack) < c.max_nesting)
  \/ n \in {"OE", "AE", "SP"} /\ p.stack # <<>>
     /\ (n = "OE" => p.stack[Len(p.stack)] = "OBJECT")
     /\ (n = "AE" => p.stack[Len(p.stack)] = "ARRAY")

(* A possible action succeeds, *)
LEMMA DoSucceeds ==
  ASSUME NEW c, IsConfig(c), NEW p, Fits(c, p), p.ret = "0", NEW n, n \notin States,
         Possible(c, p, n)
  PROVE  do_action(p, n).ret = "0"
<1>0. p \in Parsers(c) /\ p.config = c
  BY Fields DEF Fits
<1>1. CASE n \in Leaves
  <2>1. do_action(p, n).ret = p.ret
    BY <1>0, <1>1 DEF do_action, Call, Chk, DoBuffer, Leaves, Parsers
  <2> QED BY <2>1
<1>2. CASE n = "SE"
  <2> DEFINE s == IF p.expecting_key THEN "CO" ELSE "OK"
             o == Append(p.out, [type |-> IF p.expecting_key THEN "KEY" ELSE "STRING",
                                 data |-> p.buffer])
  <2>1. act_se(p) = [p EXCEPT !.out = o, !.buffer = <<>>, !.state = s, !.expecting_key = FALSE]
    BY <1>0 DEF act_se, do_callback_withbuf, Parsers
  <2> HIDE DEF s, o
  <2>2. act_se(p).ret = "0"
    BY <1>0, <2>1 DEF Parsers
  <2>3. do_action(p, n) = [act_se(p) EXCEPT !.state = @, !.type = "NONE"]
    BY <1>2, <2>2 DEF do_action, Call, Chk, DoBuffer, Target, PendingType
  <2> QED BY <1>0, <2>1, <2>3 DEF Parsers
<1>3. CASE n \in {"OB", "AB"}
  <2>1. Len(p.stack) < p.stack_size \/ c.max_nesting = 0
    BY <1>0, <1>3, StatesAre DEF Possible, Leaves, Fits, Room, IsConfig
  <2>2. CASE n = "OB"
    BY <1>0, <2>1, <2>2 DEF do_action, Call, Chk, act_ob, DoBuffer, state_push, Fail,
       do_callback, Parsers
  <2>3. CASE n = "AB"
    BY <1>0, <2>1, <2>3 DEF do_action, Call, Chk, act_ab, DoBuffer, state_push, Fail,
       do_callback, Parsers
  <2> QED BY <1>3, <2>2, <2>3
<1>4. CASE n \in {"OE", "AE", "SP"}
  <2> DEFINE b == do_buffer(p)
             o == Flushed(p)
  <2>1. b = [p EXCEPT !.out = o, !.buffer = <<>>] /\ b \in Parsers(c)
    BY FlushedIs
  <2>2. /\ b.stack = p.stack /\ b.ret = "0"
    BY <1>0, <2>1 DEF Parsers
  <2>3. /\ p.stack # <<>> /\ (n = "OE" => p.stack[Len(p.stack)] = "OBJECT")
        /\ (n = "AE" => p.stack[Len(p.stack)] = "ARRAY")
    BY <1>4, StatesAre DEF Possible, Leaves
  <2>4. do_action(p, n) = Chk(Call(n, b),
          LAMBDA q : [q EXCEPT !.state = IF n \in DOMAIN Target THEN Target[n] ELSE @,
                  !.type = IF n \in DOMAIN PendingType THEN PendingType[n] ELSE "NONE"])
    BY <1>4 DEF do_action, DoBuffer
  <2> HIDE DEF b
  <2>5. CASE n = "OE"
    BY <2>1, <2>2, <2>3, <2>4, <2>5 DEF Call, act_oe, state_pop, Chk, do_callback, Parsers
  <2>6. CASE n = "AE"
    BY <2>1, <2>2, <2>3, <2>4, <2>6 DEF Call, act_ae, state_pop, Chk, do_callback, Parsers
  <2>7. CASE n = "SP"
    BY <2>1, <2>2, <2>3, <2>4, <2>7 DEF Call, act_sp, Chk, Parsers
  <2> QED BY <1>4, <2>5, <2>6, <2>7
<1> QED BY <1>1, <1>2, <1>3, <1>4 DEF Possible

(* and so does the character that calls for it. *)
LEMMA CharGoes ==
  ASSUME NEW c, IsConfig(c), c.max_data = 0, NEW p, Live(c, p), NEW ch \in Char,
         NEW n, n = NextState(p.state, Class(ch)), n # "__", InUtf8(p, ch),
         Possible(c, p, n), NEW r, r = json_parser_char(p, ch)
  PROVE  Live(c, r) /\ Turn(p, ch, n, r) /\ Enters(p.state, Class(ch), n)
<1>0. Fits(c, p) /\ p.ret = "0" /\ HasDigits(p) /\ Held(c, p) /\ Legible(p)
  BY DEF Live, Held
<1>1. PICK m : /\ Fits(c, Taken(p, Left(p, ch), Kept(p, ch, n), m))
               /\ r = IF n \in States
                      THEN [Taken(p, Left(p, ch), Kept(p, ch, n), m) EXCEPT !.state = n]
                      ELSE do_action(Taken(p, Left(p, ch), Kept(p, ch, n), m), n)
  <2>1. ~(~InUtf8(p, ch) \/ NextState(p.state, Class(ch)) = "__" \/ c.max_data > 0)
    BY DEF IsConfig
  <2> QED BY <1>0, <2>1, CharIs
<1> DEFINE v == Taken(p, Left(p, ch), Kept(p, ch, n), m)
<1>2. Fits(c, v) /\ r = (IF n \in States THEN [v EXCEPT !.state = n] ELSE do_action(v, n))
  BY <1>1
<1>3. v.ret = "0" /\ v.stack = p.stack /\ v \in Parsers(c)
  BY <1>0, <1>2, TakenIs DEF Fits
<1> HIDE DEF v
<1>4. r.ret = "0"
  <2>1. CASE n \in States
    BY <1>2, <1>3, <2>1 DEF Parsers
  <2>2. CASE n \notin States
    <3>1. Possible(c, v, n)
      BY <1>3 DEF Possible
    <3> QED BY <1>2, <1>3, <2>2, <3>1, DoSucceeds
  <2> QED BY <2>1, <2>2
<1>5. Live(c, r)
  BY <1>0, <1>4, CharHeld, CharLegible DEF Live
<1>6. Turn(p, ch, n, r) /\ Enters(p.state, Class(ch), n)
  BY <1>0, <1>4, CharTurns
<1> QED BY <1>5, <1>6

-----------------------------------------------------------------------------
(* Texts, one after the other *)

(* json_parser_string() is the run of json_parser_char() on its text. *)
LEMMA ReadIsRun ==
  ASSUME NEW p, NEW s, s \in Seq(Char), NEW P, IsRun(P, p, s)
  PROVE  json_parser_string(p, s) = P[Len(s)] /\ P[0] = p
<1>1. P[0] = p
  BY RunSteps
<1>2. 0 \in 0 .. Len(s) /\ Len(s) \in 0 .. Len(s) /\ SubSeq(s, 1, Len(s)) = s /\ 0 + 1 = 1
  OBVIOUS
<1>3. \A a \in 0 .. Len(s) : \A b \in a .. Len(s) :
        json_parser_string(P[a], SubSeq(s, a + 1, b)) = P[b]
  BY StringIsRun
<1>4. json_parser_string(P[0], SubSeq(s, 0 + 1, Len(s))) = P[Len(s)]
  BY <1>2, <1>3
<1> QED BY <1>1, <1>2, <1>4

(* A text is read in two parts as in one, *)
LEMMA ReadConcat ==
  ASSUME NEW p, NEW s, s \in Seq(Char), NEW t, t \in Seq(Char)
  PROVE  json_parser_string(p, s \o t) = json_parser_string(json_parser_string(p, s), t)
<1> DEFINE u == s \o t
           a == Len(s)
           b == Len(u)
<1>1. /\ u \in Seq(Char) /\ a \in 0 .. b /\ b \in 0 .. b /\ b \in a .. b /\ 0 \in 0 .. b /\ a \in 0 .. a
      /\ SubSeq(u, 0 + 1, a) = s /\ SubSeq(u, a + 1, b) = t
  OBVIOUS
<1> HIDE DEF u, a, b
<1>2. PICK P : IsRun(P, p, u)
  BY <1>1, RunExists
<1>3. json_parser_string(p, u) = P[b] /\ P[0] = p
  BY <1>1, <1>2, ReadIsRun DEF b
<1>4. json_parser_string(P[0], SubSeq(u, 0 + 1, a)) = P[a]
  <2>1. a \in 0 .. Len(u) /\ 0 \in 0 .. Len(u)
    BY <1>1 DEF b
  <2>2. a \in Nat
    BY DEF a
  <2>3. \A x \in 0 .. Len(u) : \A y \in x .. Len(u) :
          json_parser_string(P[x], SubSeq(u, x + 1, y)) = P[y]
    BY <1>1, <1>2, StringIsRun
  <2> QED BY <2>1, <2>3
<1>5. json_parser_string(P[a], SubSeq(u, a + 1, b)) = P[b]
  <2>1. a \in 0 .. Len(u) /\ b \in a .. Len(u)
    BY <1>1 DEF b
  <2> QED BY <1>1, <1>2, <2>1, StringIsRun
<1> QED BY <1>1, <1>3, <1>4, <1>5 DEF u

(* the empty one changes nothing, *)
LEMMA ReadEmpty ==
  ASSUME NEW p
  PROVE  json_parser_string(p, <<>>) = p
<1> DEFINE s == <<>>
<1>1. s \in Seq(Char) /\ Len(s) = 0
  OBVIOUS
<1> HIDE DEF s
<1>2. PICK P : IsRun(P, p, s)
  BY <1>1, RunExists
<1> QED BY <1>1, <1>2, ReadIsRun DEF s

(* and one character is json_parser_char(). *)
LEMMA ReadOne ==
  ASSUME NEW p, p.ret = "0", NEW ch \in Char
  PROVE  json_parser_string(p, <<ch>>) = json_parser_char(p, ch)
<1> DEFINE s == <<ch>>
<1>1. s \in Seq(Char) /\ Len(s) = 1 /\ s[1] = ch
  OBVIOUS
<1> HIDE DEF s
<1>2. PICK P : IsRun(P, p, s)
  BY <1>1, RunExists
<1>3. json_parser_string(p, s) = P[1] /\ P[0] = p
  <2>1. json_parser_string(p, s) = P[Len(s)] /\ P[0] = p
    BY <1>1, <1>2, ReadIsRun
  <2> QED BY <1>1, <2>1
<1>4. P[1] = json_parser_char(P[0], ch)
  <2>1. \A i \in 1 .. Len(s) :
              P[i] = IF P[i - 1].ret = "0" THEN json_parser_char(P[i - 1], s[i])
                     ELSE P[i - 1]
    BY <1>1, <1>2, RunSteps
  <2> QED BY <1>1, <1>3, <2>1
<1> QED BY <1>3, <1>4 DEF s

(* Parse() is json_parser_string() on a new parser. *)
LEMMA ParseIsString ==
  ASSUME NEW c, NEW s, s \in Seq(Char)
  PROVE  Parse(c, s) = json_parser_string(json_parser_init(c), s)
<1>1. PICK P : IsRun(P, json_parser_init(c), s)
  BY RunExists
<1> QED BY <1>1, ParseIsRun, ReadIsRun

(* None of the characters that the tables name is an error. *)
LEMMA NamedAreFine == Named \cap ({"<c>", "<x>"} \cup ErrorChar) = {}
<1>1. \A k \in {C_SPACE, C_LCURB, C_RCURB, C_COMMA, C_QUOTE} : k \notin {"<c>", "<x>", "^", "NUL"}
  <2>1. C_SPACE \notin {"<c>", "<x>", "^", "NUL"}
    BY Zenon DEF C_SPACE
  <2>2. C_LCURB \notin {"<c>", "<x>", "^", "NUL"}
    BY Zenon DEF C_LCURB
  <2>3. C_RCURB \notin {"<c>", "<x>", "^", "NUL"}
    BY Zenon DEF C_RCURB
  <2>4. C_COMMA \notin {"<c>", "<x>", "^", "NUL"}
    BY Zenon DEF C_COMMA
  <2>5. C_QUOTE \notin {"<c>", "<x>", "^", "NUL"}
    BY Zenon DEF C_QUOTE
  <2> QED BY <2>1, <2>2, <2>3, <2>4, <2>5
<1>2. \A k \in Literal : k \notin {"<c>", "<x>", "^", "NUL"}
  BY DEF Literal, Hex, Digit, Sign
<1>3. Named \subseteq Literal \cup {C_SPACE, C_LCURB, C_RCURB, C_COMMA, C_QUOTE}
  BY DEF Named, White, Literal
<1> QED BY <1>1, <1>2, <1>3 DEF ErrorChar

(* A character of the tables that leads somewhere is read. *)
LEMMA NamedGoes ==
  ASSUME NEW c, IsConfig(c), c.max_data = 0, NEW p, Live(c, p),
         p.state \notin {"_S", "C2", "Y1"}, NEW ch \in Named,
         NEW n, n = NextState(p.state, ch), n # "__", Possible(c, p, n),
         NEW r, r = json_parser_char(p, ch)
  PROVE  /\ Live(c, r) /\ Turn(p, ch, n, r) /\ Enters(p.state, ch, n) /\ ch \in Char
         /\ Class(ch) = ch
<1>1. Class(ch) = ch /\ ch \in Char
  BY DEF Class, Char
<1>2. p.utf8_multibyte_left = 0
  BY DEF Live, Held, Utf8
<1>3. InUtf8(p, ch)
  BY <1>2, NamedAreFine DEF InUtf8
<1>4. Live(c, r) /\ Turn(p, ch, n, r) /\ Enters(p.state, Class(ch), n)
  BY <1>1, <1>3, CharGoes
<1> QED BY <1>1, <1>4

(* So is one in a text after others. *)
LEMMA RunLive ==
  ASSUME NEW c, NEW p, NEW s, s \in Seq(Char), NEW P, IsRun(P, p, s),
         NEW i \in 1 .. Len(s), P[i - 1].ret = "0"
  PROVE  P[i] = json_parser_char(P[i - 1], s[i])
BY RunSteps

-----------------------------------------------------------------------------
(* Layout and words read back *)

(* q is p after layout: a number may have ended. *)
Rested(p, q) ==
  /\ q.out = p.out /\ q.type = p.type /\ q.buffer = p.buffer
  /\ q.state = p.state \/ (p.state \in Ending /\ q.state = "OK")

(* A character of layout changes nothing that is told, *)
LEMMA LayoutGoes ==
  ASSUME NEW c, IsConfig(c), c.max_data = 0, NEW p, Live(c, p),
         p.state \in Between \cup Ending, NEW ch \in White,
         NEW r, r = json_parser_char(p, ch)
  PROVE  Live(c, r) /\ Rested(p, r)
<1> DEFINE n == IF p.state \in Ending THEN "OK" ELSE p.state
<1>1. /\ Leads(p.state, ch, n) /\ n \in Between
      /\ n = p.state \/ (n = "OK" /\ p.state \in Ending)
  BY DEF Leads, Between, Ending
<1>2. ch \in Named /\ p.state \notin {"_S", "C2", "Y1", "U1", "U2", "U3", "U4"}
  BY DEF Named, Between, Ending
<1> HIDE DEF n
<1>3. n = NextState(p.state, ch) /\ n # "__" /\ n \in States /\ n # "_S" /\ n \notin Number
  BY <1>1, RowLeads, StatesAre DEF Between, Number
<1>4. Live(c, r) /\ Turn(p, ch, n, r)
  BY <1>2, <1>3, NamedGoes DEF Possible
<1>5. Kept(p, ch, n) = p.buffer
  BY <1>2, <1>3, KeptNothing
<1>6. r.state = n /\ r.type = p.type /\ r.buffer = p.buffer /\ r.out = p.out
  BY <1>1, <1>4, <1>5 DEF Turn, Between, Leaves
<1> QED BY <1>1, <1>4, <1>6 DEF Rested

(* nor does another one, *)
LEMMA RestedAgain ==
  ASSUME NEW p, NEW q, NEW r, Rested(p, q), Rested(q, r), p.state \in Between \cup Ending
  PROVE  Rested(p, r) /\ q.state \in Between \cup Ending
BY DEF Rested, Between, Ending

(* nor does any number of them. *)
LEMMA LayoutRead ==
  ASSUME NEW c, IsConfig(c), c.max_data = 0, NEW p, Live(c, p),
         p.state \in Between \cup Ending, NEW t, t \in Seq(White),
         NEW q, q = json_parser_string(p, t)
  PROVE  Live(c, q) /\ Rested(p, q)
<1>0. t \in Seq(Char) /\ Len(t) \in Nat /\ \A i \in 1 .. Len(t) : t[i] \in White
  <2>1. White \subseteq Char
    BY DEF Char, Named
  <2> HIDE DEF White
  <2> QED BY <2>1
<1>1. PICK P : IsRun(P, p, t)
  BY <1>0, RunExists
<1>2. q = P[Len(t)] /\ P[0] = p
  BY <1>0, <1>1, ReadIsRun
<1> DEFINE T == {i \in 0 .. Len(t) : Live(c, P[i]) /\ Rested(p, P[i])}
<1>3. 0 \in T
  BY <1>0, <1>2 DEF Rested
<1>4. ASSUME NEW i \in 1 .. Len(t), i - 1 \in T PROVE i \in T
  <2>1. Live(c, P[i - 1]) /\ Rested(p, P[i - 1]) /\ i \in 0 .. Len(t) /\ t[i] \in White
    BY <1>0, <1>4
  <2>2. P[i] = json_parser_char(P[i - 1], t[i])
    BY <1>0, <1>1, <2>1, RunLive DEF Live
  <2>3. P[i - 1].state \in Between \cup Ending
    BY <2>1, RestedAgain DEF Rested, Between
  <2>4. Live(c, P[i]) /\ Rested(P[i - 1], P[i])
    BY <2>1, <2>2, <2>3, LayoutGoes
  <2>5. Rested(p, P[i])
    BY <2>1, <2>4, RestedAgain
  <2> QED BY <2>1, <2>4, <2>5
<1> HIDE DEF T
<1>5. \A i \in 0 .. Len(t) : i \in T
  BY <1>0, <1>3, <1>4, IntervalInduction
<1>6. Len(t) \in T
  BY <1>0, <1>5
<1> QED BY <1>2, <1>6 DEF T

(* The letters of a word. *)
LEMMA LetterGoes ==
  ASSUME NEW c, IsConfig(c), c.max_data = 0, NEW p, Live(c, p),
         p.state \in {"_V", "_A"} \cup Literals, NEW ch, NEW n,
         Leads(p.state, ch, n), n \in Literals \cup {"TR", "FA", "NU"},
         NEW r, r = json_parser_char(p, ch)
  PROVE  /\ Live(c, r) /\ r.buffer = p.buffer /\ r.out = p.out
         /\ n \in Literals => r.state = n
         /\ n \in {"TR", "FA", "NU"} => r.state = "OK" /\ r.type = PendingType[n]
<1>1. n = NextState(p.state, ch) /\ n # "__"
  BY RowLeads DEF Literals
<1>2. ch \in Named
  BY DEF Leads, Spelt, Literals, Between, Ending, Named, Hex
<1>3. p.state \notin {"_S", "C2", "Y1", "U1", "U2", "U3", "U4"}
  BY DEF Literals
<1>4. n \in States \cup Leaves
  BY StatesAre DEF Leaves
<1>5. Live(c, r) /\ Turn(p, ch, n, r)
  BY <1>1, <1>2, <1>3, <1>4, NamedGoes DEF Possible
<1>6. Kept(p, ch, n) = p.buffer
  BY <1>3, KeptNothing DEF Literals, Number
<1>7. CASE n \in Literals
  <2>1. r.state = n /\ r.buffer = p.buffer /\ r.out = p.out
    BY <1>5, <1>6, <1>7 DEF Turn, Literals, Leaves
  <2> QED BY <1>5, <1>7, <2>1 DEF Literals
<1>8. CASE n \in {"TR", "FA", "NU"}
  <2>1. n \notin States /\ n \notin Literals
    BY <1>8, StatesAre DEF Between, Strings, Ints, Floats, Literals, Comments
  <2>2. r.state = Target[n] /\ r.type = LeafType(n) /\ r.buffer = p.buffer /\ r.out = p.out
    BY <1>5, <1>6, <1>8, <2>1 DEF Turn
  <2>3. Target[n] = "OK" /\ LeafType(n) = PendingType[n]
    BY <1>8 DEF Target, LeafType
  <2> QED BY <1>5, <2>1, <2>2, <2>3
<1> QED BY <1>7, <1>8

(* true, false and null are read. *)
LEMMA WordRead ==
  ASSUME NEW c, IsConfig(c), c.max_data = 0, NEW p, Live(c, p), p.state \in {"_V", "_A"},
         NEW w \in {"TRUE", "FALSE", "NULL"},
         NEW q, q = json_parser_string(p, Words[w])
  PROVE  Live(c, q) /\ q.state = "OK" /\ q.type = w /\ q.buffer = p.buffer /\ q.out = p.out
<1> DEFINE t == Words[w]
<1>1. /\ w = "TRUE" => t = <<"t", "r", "u", "e">>
      /\ w = "FALSE" => t = <<"f", "a", "l", "s", "e">>
      /\ w = "NULL" => t = <<"n", "u", "l", "l">>
  BY DEF Words
<1>2. {"t", "r", "u", "e", "f", "a", "l", "s", "n"} \subseteq Char
  BY DEF Char, Named, Hex
<1>3. /\ t \in Seq(Char)
      /\ w = "TRUE" => Len(t) = 4 /\ t[1] = "t" /\ t[2] = "r" /\ t[3] = "u" /\ t[4] = "e"
      /\ w = "FALSE" => Len(t) = 5 /\ t[1] = "f" /\ t[2] = "a" /\ t[3] = "l" /\ t[4] = "s" /\ t[5] = "e"
      /\ w = "NULL" => Len(t) = 4 /\ t[1] = "n" /\ t[2] = "u" /\ t[3] = "l" /\ t[4] = "l"
  <2> HIDE DEF t
  <2>1. CASE w = "TRUE"
    <3> DEFINE x == <<"t", "r", "u", "e">>
    <3>1. x \in Seq(Char) /\ Len(x) = 4 /\ x[1] = "t" /\ x[2] = "r" /\ x[3] = "u" /\ x[4] = "e"
      BY <1>2
    <3>2. t = x
      BY <1>1, <2>1
    <3> HIDE DEF x
    <3> QED BY <2>1, <3>1, <3>2
  <2>2. CASE w = "FALSE"
    <3> DEFINE x == <<"f", "a", "l", "s", "e">>
    <3>1. x \in Seq(Char) /\ Len(x) = 5 /\ x[1] = "f" /\ x[2] = "a" /\ x[3] = "l" /\ x[4] = "s" /\ x[5] = "e"
      BY <1>2
    <3>2. t = x
      BY <1>1, <2>2
    <3> HIDE DEF x
    <3> QED BY <2>2, <3>1, <3>2
  <2>3. CASE w = "NULL"
    <3> DEFINE x == <<"n", "u", "l", "l">>
    <3>1. x \in Seq(Char) /\ Len(x) = 4 /\ x[1] = "n" /\ x[2] = "u" /\ x[3] = "l" /\ x[4] = "l"
      BY <1>2
    <3>2. t = x
      BY <1>1, <2>3
    <3> HIDE DEF x
    <3> QED BY <2>3, <3>1, <3>2
  <2> QED BY <2>1, <2>2, <2>3
<1> HIDE DEF t
<1>4. PICK P : IsRun(P, p, t)
  BY <1>3, RunExists
<1>5. q = P[Len(t)] /\ P[0] = p
  BY <1>3, <1>4, ReadIsRun DEF t
<1>6. \A i \in 1 .. Len(t) : Live(c, P[i - 1]) => P[i] = json_parser_char(P[i - 1], t[i])
  BY <1>3, <1>4, RunLive DEF Live
<1>7. CASE w = "TRUE"
  <2>0. Len(t) = 4 /\ t[1] = "t" /\ t[2] = "r" /\ t[3] = "u" /\ t[4] = "e"
    BY <1>3, <1>7
  <2>1. P[1] = json_parser_char(p, "t") /\ Leads(p.state, "t", "T1")
    BY <1>5, <1>6, <2>0 DEF Leads
  <2>2. Live(c, P[1]) /\ P[1].buffer = p.buffer /\ P[1].out = p.out /\ P[1].state = "T1"
    BY <2>1, LetterGoes DEF Literals
  <2>3. P[2] = json_parser_char(P[1], "r") /\ Leads("T1", "r", "T2")
    BY <1>6, <2>0, <2>2 DEF Leads, Spelt
  <2>4. Live(c, P[2]) /\ P[2].buffer = p.buffer /\ P[2].out = p.out /\ P[2].state = "T2"
    BY <2>2, <2>3, LetterGoes DEF Literals
  <2>5. P[3] = json_parser_char(P[2], "u") /\ Leads("T2", "u", "T3")
    BY <1>6, <2>0, <2>4 DEF Leads, Spelt
  <2>6. Live(c, P[3]) /\ P[3].buffer = p.buffer /\ P[3].out = p.out /\ P[3].state = "T3"
    BY <2>4, <2>5, LetterGoes DEF Literals
  <2>7. P[4] = json_parser_char(P[3], "e") /\ Leads("T3", "e", "TR")
    BY <1>6, <2>0, <2>6 DEF Leads, Spelt
  <2>8. Live(c, P[4]) /\ P[4].buffer = p.buffer /\ P[4].out = p.out /\ P[4].state = "OK"
        /\ P[4].type = PendingType["TR"]
    BY <2>6, <2>7, LetterGoes DEF Literals
  <2> QED BY <1>5, <1>7, <2>0, <2>8 DEF PendingType
<1>8. CASE w = "FALSE"
  <2>0. Len(t) = 5 /\ t[1] = "f" /\ t[2] = "a" /\ t[3] = "l" /\ t[4] = "s" /\ t[5] = "e"
    BY <1>3, <1>8
  <2>1. P[1] = json_parser_char(p, "f") /\ Leads(p.state, "f", "F1")
    BY <1>5, <1>6, <2>0 DEF Leads
  <2>2. Live(c, P[1]) /\ P[1].buffer = p.buffer /\ P[1].out = p.out /\ P[1].state = "F1"
    BY <2>1, LetterGoes DEF Literals
  <2>3. P[2] = json_parser_char(P[1], "a") /\ Leads("F1", "a", "F2")
    BY <1>6, <2>0, <2>2 DEF Leads, Spelt
  <2>4. Live(c, P[2]) /\ P[2].buffer = p.buffer /\ P[2].out = p.out /\ P[2].state = "F2"
    BY <2>2, <2>3, LetterGoes DEF Literals
  <2>5. P[3] = json_parser_char(P[2], "l") /\ Leads("F2", "l", "F3")
    BY <1>6, <2>0, <2>4 DEF Leads, Spelt
  <2>6. Live(c, P[3]) /\ P[3].buffer = p.buffer /\ P[3].out = p.out /\ P[3].state = "F3"
    BY <2>4, <2>5, LetterGoes DEF Literals
  <2>7. P[4] = json_parser_char(P[3], "s") /\ Leads("F3", "s", "F4")
    BY <1>6, <2>0, <2>6 DEF Leads, Spelt
  <2>8. Live(c, P[4]) /\ P[4].buffer = p.buffer /\ P[4].out = p.out /\ P[4].state = "F4"
    BY <2>6, <2>7, LetterGoes DEF Literals
  <2>9. P[5] = json_parser_char(P[4], "e") /\ Leads("F4", "e", "FA")
    BY <1>6, <2>0, <2>8 DEF Leads, Spelt
  <2>10. Live(c, P[5]) /\ P[5].buffer = p.buffer /\ P[5].out = p.out /\ P[5].state = "OK"
        /\ P[5].type = PendingType["FA"]
    BY <2>8, <2>9, LetterGoes DEF Literals
  <2> QED BY <1>5, <1>8, <2>0, <2>10 DEF PendingType
<1>9. CASE w = "NULL"
  <2>0. Len(t) = 4 /\ t[1] = "n" /\ t[2] = "u" /\ t[3] = "l" /\ t[4] = "l"
    BY <1>3, <1>9
  <2>1. P[1] = json_parser_char(p, "n") /\ Leads(p.state, "n", "N1")
    BY <1>5, <1>6, <2>0 DEF Leads
  <2>2. Live(c, P[1]) /\ P[1].buffer = p.buffer /\ P[1].out = p.out /\ P[1].state = "N1"
    BY <2>1, LetterGoes DEF Literals
  <2>3. P[2] = json_parser_char(P[1], "u") /\ Leads("N1", "u", "N2")
    BY <1>6, <2>0, <2>2 DEF Leads, Spelt
  <2>4. Live(c, P[2]) /\ P[2].buffer = p.buffer /\ P[2].out = p.out /\ P[2].state = "N2"
    BY <2>2, <2>3, LetterGoes DEF Literals
  <2>5. P[3] = json_parser_char(P[2], "l") /\ Leads("N2", "l", "N3")
    BY <1>6, <2>0, <2>4 DEF Leads, Spelt
  <2>6. Live(c, P[3]) /\ P[3].buffer = p.buffer /\ P[3].out = p.out /\ P[3].state = "N3"
    BY <2>4, <2>5, LetterGoes DEF Literals
  <2>7. P[4] = json_parser_char(P[3], "l") /\ Leads("N3", "l", "NU")
    BY <1>6, <2>0, <2>6 DEF Leads, Spelt
  <2>8. Live(c, P[4]) /\ P[4].buffer = p.buffer /\ P[4].out = p.out /\ P[4].state = "OK"
        /\ P[4].type = PendingType["NU"]
    BY <2>6, <2>7, LetterGoes DEF Literals
  <2> QED BY <1>5, <1>9, <2>0, <2>8 DEF PendingType
<1> QED BY <1>7, <1>8, <1>9

-----------------------------------------------------------------------------
(* Numbers read back *)

(* A prefix is a shorter prefix and a character. *)
LEMMA PrefixStep ==
  ASSUME NEW S, NEW s, s \in Seq(S), NEW i \in 1 .. Len(s)
  PROVE  /\ SubSeq(s, 1, i) = Append(SubSeq(s, 1, i - 1), s[i])
         /\ SubSeq(s, 1, i - 1) \in Seq(S) /\ SubSeq(s, 1, i) \in Seq(S) /\ s[i] \in S
         /\ SubSeq(s, 1, 0) = <<>> /\ SubSeq(s, 1, Len(s)) = s
OBVIOUS

(* What the tables do not read as a number does not become one. *)
LEMMA NumberPrefix ==
  ASSUME NEW d, d \in Seq(Char), NumberState(d) # "__", NEW i \in 0 .. Len(d)
  PROVE  NumberState(SubSeq(d, 1, i)) # "__"
<1> DEFINE T == {k \in 0 .. Len(d) - i : NumberState(SubSeq(d, 1, i + k)) = "__"}
<1>0. Len(d) \in Nat /\ Len(d) - i \in Nat
  OBVIOUS
<1> SUFFICES ASSUME NumberState(SubSeq(d, 1, i)) = "__" PROVE FALSE
  OBVIOUS
<1>1. 0 \in T
  BY <1>0
<1>2. ASSUME NEW k \in 1 .. Len(d) - i, k - 1 \in T PROVE k \in T
  <2>1. i + k \in 1 .. Len(d) /\ (i + k) - 1 = i + (k - 1) /\ k \in 0 .. Len(d) - i
    BY <1>0
  <2>2. /\ SubSeq(d, 1, i + k) = Append(SubSeq(d, 1, (i + k) - 1), d[i + k])
        /\ SubSeq(d, 1, (i + k) - 1) \in Seq(Char) /\ d[i + k] \in Char
    BY <2>1, PrefixStep
  <2>3. NumberState(SubSeq(d, 1, (i + k) - 1)) = "__"
    BY <1>2, <2>1
  <2>4. NumberState(SubSeq(d, 1, i + k)) = NumberNext("__", d[i + k])
    BY <2>2, <2>3, NumberStateAppend
  <2>5. NumberNext("__", d[i + k]) = "__"
    BY StatesAre DEF NumberNext, Number, Between, Strings, Ints, Floats, Literals, Comments
  <2> QED BY <2>1, <2>4, <2>5
<1> HIDE DEF T
<1>3. \A k \in 0 .. Len(d) - i : k \in T
  BY <1>0, <1>1, <1>2, IntervalInduction
<1>4. Len(d) - i \in T
  BY <1>0, <1>3
<1>5. i + (Len(d) - i) = Len(d) /\ SubSeq(d, 1, Len(d)) = d
  BY <1>0
<1> QED BY <1>4, <1>5 DEF T

(* A digit of a number is read. *)
LEMMA DigitGoes ==
  ASSUME NEW c, IsConfig(c), c.max_data = 0, NEW p, Live(c, p), NEW ch \in Char,
         NEW st, st \in Numbers \cup {"_V"}, p.state = st \/ (st = "_V" /\ p.state = "_A"),
         NEW m, m = NumberNext(st, ch), m # "__",
         NEW r, r = json_parser_char(p, ch)
  PROVE  /\ Live(c, r) /\ r.out = p.out /\ r.buffer = Append(p.buffer, ch)
         /\ r.state = m /\ m \in Numbers
<1> DEFINE n == NextState(st, Class(ch))
<1>1. st \in States
  BY StatesAre DEF Numbers, Between
<1>2. n \in Number /\ m = IF n \in DOMAIN Target THEN Target[n] ELSE n
  BY <1>1 DEF NumberNext
<1> HIDE DEF n
<1>3. Enters(st, Class(ch), n)
  BY <1>1, <1>2, RowEnters DEF Number, n
<1>4. Class(ch) \in Named
  BY <1>2, <1>3, EntersNamed DEF Number
<1>5. ch \in Named /\ Class(ch) = ch
  BY <1>4, NamedArePlain DEF Class, Unplain
<1>6. NextState(p.state, ch) = n
  <2>1. CASE p.state = st
    BY <1>5, <2>1 DEF n
  <2>2. CASE st = "_V" /\ p.state = "_A"
    <3>1. n \in {"MX", "ZX", "IX"}
      BY <1>2, <1>3, <2>2 DEF Enters, Spelt, Number, Between, Ending
    <3> QED BY <1>5, <2>2, <3>1, ArrayValue DEF n
  <2> QED BY <2>1, <2>2
<1>7. p.state \notin {"_S", "C2", "Y1", "U1", "U2", "U3", "U4"}
  BY DEF Numbers, Ints, Floats
<1>8. n \in States \cup Leaves /\ n # "__" /\ n # "_S"
  BY <1>2, StatesAre DEF Number, Leaves, Ints, Floats
<1>9. Live(c, r) /\ Turn(p, ch, n, r)
  BY <1>5, <1>6, <1>7, <1>8, NamedGoes DEF Possible
<1>10. Kept(p, ch, n) = Append(p.buffer, ch)
  BY <1>2, <1>8 DEF Kept, buffer_policy_table
<1>11. n \in DOMAIN Target <=> n \in Leaves
  BY <1>2 DEF Number, Target, Leaves
<1>12. n \in Leaves => n \notin States
  BY <1>2, StatesAre DEF Number, Leaves, Between, Strings, Ints, Floats, Literals, Comments
<1>13. r.state = m /\ r.out = p.out /\ r.buffer = Kept(p, ch, n)
  <2>1. CASE n \in States
    <3>1. n \in {"Z0", "I0", "R2", "X1", "X2", "X3"}
      BY <1>2, <1>11, <1>12, <2>1 DEF Number, Leaves
    <3> QED BY <1>2, <1>9, <1>11, <1>12, <2>1, <3>1 DEF Turn
  <2>2. CASE n \in Leaves
    <3>1. n \in {"MX", "ZX", "IX", "DF", "DE"} /\ n \notin States
      BY <1>2, <1>12, <2>2 DEF Number, Leaves
    <3> QED BY <1>2, <1>9, <1>11, <2>2, <3>1 DEF Turn
  <2> QED BY <1>8, <2>1, <2>2
<1>14. m \in Numbers
  BY <1>2 DEF Number, Target, Numbers, Ints, Floats
<1> QED BY <1>9, <1>10, <1>13, <1>14

(* A number is read. *)
LEMMA NumberRead ==
  ASSUME NEW c, IsConfig(c), c.max_data = 0, NEW p, Live(c, p), p.state \in {"_V", "_A"},
         p.buffer = <<>>, NEW d, d \in Seq(Char), NumberState(d) \in Ending,
         NEW q, q = json_parser_string(p, d)
  PROVE  Live(c, q) /\ q.state = NumberState(d) /\ q.buffer = d /\ q.out = p.out
<1>0. Len(d) \in Nat /\ NumberState(<<>>) = "_V" /\ NumberState(d) # "__" /\ SubSeq(d, 1, 0) = <<>>
  BY NumberStateEmpty DEF Ending
<1>1. PICK P : IsRun(P, p, d)
  BY RunExists
<1>2. q = P[Len(d)] /\ P[0] = p
  BY <1>1, ReadIsRun
<1> DEFINE st(i) == NumberState(SubSeq(d, 1, i))
           T == {i \in 0 .. Len(d) :
                  /\ Live(c, P[i]) /\ P[i].out = p.out /\ P[i].buffer = SubSeq(d, 1, i)
                  /\ st(i) \in Numbers \cup {"_V"}
                  /\ P[i].state = st(i) \/ (i = 0 /\ st(i) = "_V" /\ P[i].state = "_A")}
<1>3. 0 \in T
  <2>1. st(0) = "_V" /\ P[0].buffer = SubSeq(d, 1, 0) /\ P[0].state \in {"_V", "_A"} /\ P[0].out = p.out
    BY <1>0, <1>2
  <2>2. 0 \in 0 .. Len(d)
    BY <1>0
  <2> HIDE DEF st
  <2> QED BY <1>2, <2>1, <2>2
<1>4. ASSUME NEW i \in 1 .. Len(d), i - 1 \in T PROVE i \in T
  <2>1. /\ Live(c, P[i - 1]) /\ P[i - 1].out = p.out /\ P[i - 1].buffer = SubSeq(d, 1, i - 1)
        /\ st(i - 1) \in Numbers \cup {"_V"} /\ i \in 0 .. Len(d)
        /\ P[i - 1].state = st(i - 1) \/ (st(i - 1) = "_V" /\ P[i - 1].state = "_A")
    BY <1>0, <1>4
  <2>2. /\ SubSeq(d, 1, i) = Append(SubSeq(d, 1, i - 1), d[i])
        /\ SubSeq(d, 1, i - 1) \in Seq(Char) /\ d[i] \in Char
    BY PrefixStep
  <2>3. st(i) = NumberNext(st(i - 1), d[i])
    BY <2>2, NumberStateAppend
  <2>4. st(i) # "__"
    BY <1>0, <2>1, NumberPrefix
  <2>5. P[i] = json_parser_char(P[i - 1], d[i])
    BY <1>1, <2>1, RunLive DEF Live
  <2> HIDE DEF st
  <2>6. /\ Live(c, P[i]) /\ P[i].out = P[i - 1].out /\ P[i].buffer = Append(P[i - 1].buffer, d[i])
        /\ P[i].state = st(i) /\ st(i) \in Numbers
    <3> DEFINE x == P[i - 1]
               y == P[i]
               s == st(i - 1)
               m == st(i)
    <3>1. /\ Live(c, x) /\ d[i] \in Char /\ s \in Numbers \cup {"_V"}
          /\ x.state = s \/ (s = "_V" /\ x.state = "_A")
          /\ m = NumberNext(s, d[i]) /\ m # "__" /\ y = json_parser_char(x, d[i])
      BY <2>1, <2>2, <2>3, <2>4, <2>5
    <3> HIDE DEF x, y, s, m
    <3>2. /\ Live(c, y) /\ y.out = x.out /\ y.buffer = Append(x.buffer, d[i])
          /\ y.state = m /\ m \in Numbers
      BY <3>1, DigitGoes
    <3> QED BY <3>2 DEF x, y, m
  <2> QED BY <2>1, <2>2, <2>6
<1> HIDE DEF T
<1>5. \A i \in 0 .. Len(d) : i \in T
  BY <1>0, <1>3, <1>4, IntervalInduction
<1>6. Len(d) \in T
  BY <1>0, <1>5
<1>7. SubSeq(d, 1, Len(d)) = d
  BY <1>0
<1> QED BY <1>2, <1>6, <1>7 DEF T, Ending

-----------------------------------------------------------------------------
(* Strings read back *)

(* One continuation byte too many or too few stays wrong. *)
LEMMA Utf8Prefix ==
  ASSUME NEW d, d \in Seq(Char), Utf8Left(d) # -1, NEW i \in 0 .. Len(d)
  PROVE  Utf8Left(SubSeq(d, 1, i)) # -1
<1> DEFINE T == {k \in 0 .. Len(d) - i : Utf8Left(SubSeq(d, 1, i + k)) = -1}
<1>0. Len(d) \in Nat /\ Len(d) - i \in Nat
  OBVIOUS
<1> SUFFICES ASSUME Utf8Left(SubSeq(d, 1, i)) = -1 PROVE FALSE
  OBVIOUS
<1>1. 0 \in T
  BY <1>0
<1>2. ASSUME NEW k \in 1 .. Len(d) - i, k - 1 \in T PROVE k \in T
  <2>1. i + k \in 1 .. Len(d) /\ (i + k) - 1 = i + (k - 1) /\ k \in 0 .. Len(d) - i
    BY <1>0
  <2>2. /\ SubSeq(d, 1, i + k) = Append(SubSeq(d, 1, (i + k) - 1), d[i + k])
        /\ SubSeq(d, 1, (i + k) - 1) \in Seq(Char) /\ d[i + k] \in Char
    BY <2>1, PrefixStep
  <2>3. Utf8Left(SubSeq(d, 1, (i + k) - 1)) = -1
    BY <1>2, <2>1
  <2>4. Utf8Left(SubSeq(d, 1, i + k)) = Utf8Next(-1, d[i + k])
    BY <2>2, <2>3, Utf8LeftAppend
  <2>5. Utf8Next(-1, d[i + k]) = -1
    BY DEF Utf8Next
  <2> QED BY <2>1, <2>4, <2>5
<1> HIDE DEF T
<1>3. \A k \in 0 .. Len(d) - i : k \in T
  BY <1>0, <1>1, <1>2, IntervalInduction
<1>4. Len(d) - i \in T
  BY <1>0, <1>3
<1>5. i + (Len(d) - i) = Len(d) /\ SubSeq(d, 1, Len(d)) = d
  BY <1>0
<1> QED BY <1>4, <1>5 DEF T

(* The characters that have an escape, but for the control character. *)
LEMMA EscapesAre ==
  ASSUME NEW ch \in DOMAIN character_escape, ch # "^"
  PROVE  \E e : /\ escaped(ch) = <<"\\", e>> /\ e \in Escapable /\ e \in Named
                /\ Unescaped(e) = ch
<1>1. ch \in {"\n", "\t", "CR", "BS", "FF", C_QUOTE, "\\"}
  BY DEF character_escape
<1>2. C_QUOTE \notin {"\n", "\t", "CR", "BS", "FF", "\\", "^", "b", "f", "n", "r", "t"}
  BY Zenon DEF C_QUOTE
<1>3. /\ character_escape["\n"] = <<"\\", "n">> /\ character_escape["\t"] = <<"\\", "t">>
      /\ character_escape["CR"] = <<"\\", "r">> /\ character_escape["BS"] = <<"\\", "b">>
      /\ character_escape["FF"] = <<"\\", "f">>
      /\ character_escape[C_QUOTE] = <<"\\", C_QUOTE>> /\ character_escape["\\"] = <<"\\", "\\">>
  <2>0. \A x \in {"\n", "\t", "CR", "BS", "FF", C_QUOTE, "\\"} : x \in DOMAIN character_escape
    BY DEF character_escape
  <2> QED BY <1>2 DEF character_escape
<1>4. /\ Unescaped("n") = "\n" /\ Unescaped("t") = "\t" /\ Unescaped("r") = "CR"
      /\ Unescaped("b") = "BS" /\ Unescaped("f") = "FF" /\ Unescaped("\\") = "\\"
      /\ Unescaped(C_QUOTE) = C_QUOTE
  BY <1>2 DEF Unescaped
<1>5. {C_QUOTE, "\\", "b", "f", "n", "r", "t"} \subseteq Escapable
      /\ Escapable \subseteq Named
  BY DEF Escapable, Named, Hex
<1>6. escaped(ch) = character_escape[ch]
  BY DEF escaped
<1> QED BY <1>1, <1>3, <1>4, <1>5, <1>6

(* A character that needs no escape is read as itself. *)
LEMMA CopyGoes ==
  ASSUME NEW c, IsConfig(c), c.max_data = 0, NEW p, Live(c, p), p.state = "_S",
         NEW ch \in Char, ch \notin DOMAIN character_escape,
         ch \notin ErrorChar \cup {"<x>"}, Utf8Left(Append(p.buffer, ch)) # -1,
         NEW r, r = json_parser_char(p, ch)
  PROVE  Live(c, r) /\ r.state = "_S" /\ r.buffer = Append(p.buffer, ch) /\ r.out = p.out
<1>1. ch \notin {"\n", "\t", C_QUOTE, "\\"}
  BY DEF character_escape
<1>2. /\ Class(ch) \in All \ {C_QUOTE, "\\", "\n", "\t"}
  <2>1. Other \notin {"\n", "\t", "\\"} /\ Other # C_QUOTE
    BY QuotesAreNamed DEF Other, Unplain
  <2> QED BY <1>1, <2>1 DEF Class, All
<1>3. Leads("_S", Class(ch), "_S")
  BY <1>2 DEF Leads
<1>4. NextState(p.state, Class(ch)) = "_S"
  BY <1>3, RowLeads
<1>5. /\ p.buffer \in Seq(Char) /\ p.utf8_multibyte_left \in 0 .. 3
      /\ Utf8Left(p.buffer) = p.utf8_multibyte_left
  BY Fields DEF Live, Held, Fits, Utf8
<1>6. Utf8Next(p.utf8_multibyte_left, ch) # -1
  BY <1>5, Utf8LeftAppend
<1>7. p.utf8_multibyte_left > 0 <=> ch = "<c>"
  BY <1>5, <1>6 DEF Utf8Next
<1>8. InUtf8(p, ch)
  BY <1>7 DEF InUtf8
<1>9. "_S" \in States
  BY StatesAre DEF Strings
<1>10. Live(c, r) /\ Turn(p, ch, "_S", r)
  BY <1>4, <1>8, <1>9, CharGoes DEF Possible
<1>11. r.state = "_S" /\ r.buffer = Kept(p, ch, "_S") /\ r.out = p.out
  BY <1>9, <1>10 DEF Turn, Leaves
<1>12. Kept(p, ch, "_S") = Append(p.buffer, ch)
  BY DEF Kept, buffer_policy_table
<1> QED BY <1>10, <1>11, <1>12

(* Two characters are one and the other. *)
LEMMA TwoIsOneAndOne ==
  ASSUME NEW S, NEW a \in S, NEW b \in S
  PROVE  <<a>> \in Seq(S) /\ <<b>> \in Seq(S) /\ <<a, b>> = <<a>> \o <<b>>
<1> DEFINE x == <<a>>
           y == <<b>>
           z == <<a, b>>
<1>1. /\ x \in Seq(S) /\ Len(x) = 1 /\ x[1] = a
      /\ y \in Seq(S) /\ Len(y) = 1 /\ y[1] = b
      /\ z \in Seq(S) /\ Len(z) = 2 /\ z[1] = a /\ z[2] = b
  OBVIOUS
<1> HIDE DEF x, y, z
<1>2. z = x \o y
  <2>1. x \o y \in Seq(S) /\ Len(x \o y) = 2 /\ (x \o y)[1] = a /\ (x \o y)[2] = b
    <3>1. /\ x \o y \in Seq(S) /\ Len(x \o y) = Len(x) + Len(y)
          /\ \A i \in 1 .. Len(x) + Len(y) : (x \o y)[i] = IF i <= Len(x) THEN x[i] ELSE y[i - Len(x)]
      BY <1>1, ConcatProperties
    <3> QED BY <1>1, <3>1
  <2> DEFINE w == x \o y
  <2>2. w \in Seq(S) /\ Len(w) = 2 /\ w[1] = a /\ w[2] = b
    BY <2>1
  <2> HIDE DEF w
  <2>3. \A i \in 1 .. 2 : w[i] = z[i]
    BY <1>1, <2>2
  <2>4. w = z
    BY <1>1, <2>2, <2>3, SeqEqual
  <2> QED BY <2>4 DEF w
<1> QED BY <1>1, <1>2 DEF x, y, z

(* A text of two characters is read one after the other. *)
LEMMA ReadTwo ==
  ASSUME NEW p, p.ret = "0", NEW a \in Char, NEW b \in Char,
         json_parser_char(p, a).ret = "0"
  PROVE  json_parser_string(p, <<a, b>>) = json_parser_char(json_parser_char(p, a), b)
<1> DEFINE x == <<a>>
           y == <<b>>
           z == <<a, b>>
<1>1. x \in Seq(Char) /\ y \in Seq(Char) /\ z = x \o y
  BY TwoIsOneAndOne
<1>2. json_parser_string(p, x) = json_parser_char(p, a)
  BY ReadOne
<1> HIDE DEF x, y, z
<1>3. json_parser_string(p, z) = json_parser_string(json_parser_char(p, a), y)
  BY <1>1, <1>2, ReadConcat
<1> QED BY <1>3, ReadOne DEF y, z

(* An escape is read as what it stands for. *)
LEMMA EscapeGoes ==
  ASSUME NEW c, IsConfig(c), c.max_data = 0, NEW p, Live(c, p), p.state = "_S",
         p.utf8_multibyte_left = 0, NEW e \in Escapable,
         NEW r, r = json_parser_string(p, <<"\\", e>>)
  PROVE  /\ Live(c, r) /\ r.state = "_S" /\ r.buffer = Append(p.buffer, Unescaped(e))
         /\ r.out = p.out
<1>0. "\\" \in Named /\ e \in Named /\ Named \subseteq Char
  BY DEF Escapable, Named, Char, Hex
<1>1. Class("\\") = "\\" /\ Class(e) = e
  BY <1>0 DEF Class
<1>2. Leads("_S", "\\", "E0") /\ Leads("E0", e, "_S")
  BY DEF Leads
<1>3. NextState(p.state, "\\") = "E0" /\ NextState("E0", e) = "_S"
  BY <1>2, RowLeads
<1>4. "_S" \in States /\ "E0" \in States
  BY StatesAre DEF Strings
<1>5. InUtf8(p, "\\")
  BY <1>0, NamedAreFine DEF InUtf8
<1> DEFINE q == json_parser_char(p, "\\")
<1>6. Live(c, q) /\ Turn(p, "\\", "E0", q)
  BY <1>0, <1>1, <1>3, <1>4, <1>5, CharGoes DEF Possible
<1> HIDE DEF q
<1>7. q.state = "E0" /\ q.buffer = Kept(p, "\\", "E0") /\ q.out = p.out
  BY <1>4, <1>6 DEF Turn, Leaves
<1>8. Kept(p, "\\", "E0") = p.buffer
  BY KeptNothing DEF Number
<1> DEFINE s == json_parser_char(q, e)
<1>9. Live(c, s) /\ Turn(q, e, "_S", s)
  BY <1>0, <1>3, <1>4, <1>6, <1>7, NamedGoes DEF Possible
<1> HIDE DEF s
<1>10. s.state = "_S" /\ s.buffer = Kept(q, e, "_S") /\ s.out = q.out
  BY <1>4, <1>9 DEF Turn, Leaves
<1>11. Kept(q, e, "_S") = Append(q.buffer, Unescaped(e))
  BY <1>7 DEF Kept, buffer_policy_table
<1>12. r = s
  BY <1>0, <1>6, ReadTwo DEF q, s, Live
<1> QED BY <1>7, <1>8, <1>9, <1>10, <1>11, <1>12

(* A character of a string is printed as one that may be read. *)
LEMMA EscapedRead ==
  ASSUME NEW c, IsConfig(c), c.max_data = 0, NEW p, Live(c, p), p.state = "_S",
         NEW ch \in Char, ch \notin ErrorChar \cup {"<x>"},
         Utf8Left(Append(p.buffer, ch)) # -1,
         NEW r, r = json_parser_string(p, escaped(ch))
  PROVE  /\ escaped(ch) \in Seq(Char)
         /\ Live(c, r) /\ r.state = "_S" /\ r.buffer = Append(p.buffer, ch) /\ r.out = p.out
<1>1. CASE ch \notin DOMAIN character_escape
  <2>1. escaped(ch) = <<ch>> /\ <<ch>> \in Seq(Char)
    BY <1>1 DEF escaped
  <2>2. r = json_parser_char(p, ch)
    BY <2>1, ReadOne DEF Live
  <2>3. Live(c, r) /\ r.state = "_S" /\ r.buffer = Append(p.buffer, ch) /\ r.out = p.out
    BY <1>1, <2>2, CopyGoes
  <2>4. escaped(ch) \in Seq(Char)
    BY <2>1
  <2> QED BY <2>3, <2>4
<1>2. CASE ch \in DOMAIN character_escape
  <2>1. PICK e : escaped(ch) = <<"\\", e>> /\ e \in Escapable /\ e \in Named /\ Unescaped(e) = ch
    BY <1>2, EscapesAre DEF ErrorChar
  <2>2. "\\" \in Char /\ e \in Char
    BY <2>1 DEF Char, Named
  <2>3. <<"\\", e>> \in Seq(Char)
    BY <2>2
  <2>4. /\ p.buffer \in Seq(Char) /\ p.utf8_multibyte_left \in 0 .. 3
        /\ Utf8Left(p.buffer) = p.utf8_multibyte_left
    BY Fields DEF Live, Held, Fits, Utf8
  <2>5. Utf8Next(p.utf8_multibyte_left, ch) # -1
    BY <2>4, Utf8LeftAppend
  <2>6. ch # "<c>"
    <3>1. ch \in {"\n", "\t", "CR", "BS", "FF", "^", C_QUOTE, "\\"}
      BY <1>2 DEF character_escape
    <3>2. C_QUOTE # "<c>"
      BY QuotesAreNamed DEF Unplain
    <3> QED BY <3>1, <3>2
  <2>7. p.utf8_multibyte_left = 0
    BY <2>4, <2>5, <2>6 DEF Utf8Next
  <2> QED BY <2>1, <2>3, <2>7, EscapeGoes
<1> QED BY <1>1, <1>2

(* The quote that begins a string. *)
LEMMA QuoteGoes ==
  ASSUME NEW c, IsConfig(c), c.max_data = 0, NEW p, Live(c, p),
         p.state \in {"_O", "_K", "_V", "_A"}, NEW r, r = json_parser_char(p, C_QUOTE)
  PROVE  /\ Live(c, r) /\ r.state = "_S" /\ r.buffer = p.buffer /\ r.out = p.out
         /\ C_QUOTE \in Char
<1>1. Leads(p.state, C_QUOTE, "_S") /\ C_QUOTE \in Named
  BY DEF Leads, Named
<1>2. NextState(p.state, C_QUOTE) = "_S"
  BY <1>1, RowLeads
<1>3. "_S" \in States
  BY StatesAre DEF Strings
<1>4. Live(c, r) /\ Turn(p, C_QUOTE, "_S", r) /\ C_QUOTE \in Char
  BY <1>1, <1>2, <1>3, NamedGoes DEF Possible
<1>5. r.state = "_S" /\ r.buffer = Kept(p, C_QUOTE, "_S") /\ r.out = p.out
  BY <1>3, <1>4 DEF Turn, Leaves
<1>6. Kept(p, C_QUOTE, "_S") = p.buffer
  BY DEF Kept, buffer_policy_table, Number
<1> QED BY <1>4, <1>5, <1>6

(* A string is read but for the quote that ends it. *)
LEMMA QuotedRead ==
  ASSUME NEW c, IsConfig(c), c.max_data = 0, NEW p, Live(c, p),
         p.state \in {"_O", "_K", "_V", "_A"}, p.buffer = <<>>,
         NEW d, d \in Seq(Char), Readable(d), Utf8Left(d) # -1,
         NEW q, q = json_parser_string(p, print_quoted(d))
  PROVE  /\ print_quoted(d) \in Seq(Char)
         /\ Live(c, q) /\ q.state = "_S" /\ q.buffer = d /\ q.out = p.out
<1>0. /\ Len(d) \in Nat /\ SubSeq(d, 1, 0) = <<>> /\ SubSeq(d, 1, Len(d)) = d
      /\ \A i \in 1 .. Len(d) : d[i] \in Char /\ d[i] \notin ErrorChar \cup {"<x>"}
  BY DEF Readable
<1> DEFINE s(i) == print_quoted(SubSeq(d, 1, i))
           r(i) == json_parser_string(p, s(i))
           T == {i \in 0 .. Len(d) :
                  /\ s(i) \in Seq(Char)
                  /\ Live(c, r(i)) /\ r(i).state = "_S"
                  /\ r(i).buffer = SubSeq(d, 1, i) /\ r(i).out = p.out}
<1>1. 0 \in T
  <2>1. s(0) = <<C_QUOTE>>
    BY <1>0, print_quotedEmpty
  <2>2. C_QUOTE \in Char
    BY DEF Char, Named
  <2>3. <<C_QUOTE>> \in Seq(Char)
    BY <2>2
  <2>4. r(0) = json_parser_char(p, C_QUOTE)
    BY <2>1, <2>2, ReadOne DEF Live
  <2> HIDE DEF s, r
  <2>5. Live(c, r(0)) /\ r(0).state = "_S" /\ r(0).buffer = p.buffer /\ r(0).out = p.out
    BY <2>4, QuoteGoes
  <2>6. s(0) \in Seq(Char)
    BY <2>1, <2>3
  <2>7. r(0).buffer = SubSeq(d, 1, 0)
    BY <1>0, <2>5
  <2>8. 0 \in 0 .. Len(d)
    BY <1>0
  <2> QED BY <2>5, <2>6, <2>7, <2>8
<1>2. ASSUME NEW i \in 1 .. Len(d), i - 1 \in T PROVE i \in T
  <2>1. /\ SubSeq(d, 1, i) = Append(SubSeq(d, 1, i - 1), d[i])
        /\ SubSeq(d, 1, i - 1) \in Seq(Char) /\ d[i] \in Char
    BY PrefixStep
  <2>2. s(i) = s(i - 1) \o escaped(d[i])
    BY <2>1, print_quotedAppend
  <2>3. Utf8Left(SubSeq(d, 1, i)) # -1 /\ i \in 0 .. Len(d)
    BY <1>0, Utf8Prefix
  <2> DEFINE v == r(i - 1)
             w == json_parser_string(v, escaped(d[i]))
  <2>4. /\ s(i - 1) \in Seq(Char) /\ v = json_parser_string(p, s(i - 1))
        /\ Live(c, v) /\ v.state = "_S" /\ v.buffer = SubSeq(d, 1, i - 1) /\ v.out = p.out
    BY <1>2
  <2>5. r(i) = json_parser_string(p, s(i))
    OBVIOUS
  <2> HIDE DEF s, r, v
  <2>6. Utf8Left(Append(v.buffer, d[i])) # -1 /\ d[i] \notin ErrorChar \cup {"<x>"}
    BY <1>0, <2>1, <2>3, <2>4
  <2>7. escaped(d[i]) \in Seq(Char) /\ Live(c, w) /\ w.state = "_S"
        /\ w.buffer = Append(v.buffer, d[i]) /\ w.out = v.out
    BY <2>1, <2>4, <2>6, EscapedRead
  <2>8. r(i) = w
    <3> DEFINE x == s(i - 1)
               y == escaped(d[i])
    <3>1. x \in Seq(Char) /\ y \in Seq(Char) /\ v = json_parser_string(p, x)
          /\ r(i) = json_parser_string(p, x \o y)
      BY <2>2, <2>4, <2>5, <2>7
    <3> HIDE DEF x, y
    <3>2. r(i) = json_parser_string(v, y)
      BY <3>1, ReadConcat
    <3> QED BY <3>2 DEF y
  <2>9. s(i) \in Seq(Char)
    BY <2>2, <2>4, <2>7, ConcatProperties
  <2> HIDE DEF w
  <2> QED BY <2>1, <2>3, <2>4, <2>7, <2>8, <2>9
<1> HIDE DEF T
<1>3. \A i \in 0 .. Len(d) : i \in T
  BY <1>0, <1>1, <1>2, IntervalInduction
<1>4. Len(d) \in T
  BY <1>0, <1>3
<1> QED BY <1>0, <1>4 DEF T

(* q is p after a string. *)
Told(c, p, d, q) ==
  /\ Live(c, q) /\ q.type = "NONE" /\ q.buffer = <<>>
  /\ Top(Nested(p.out)) = "OBJECT" =>
       q.state = "CO" /\ q.out = Append(p.out, [type |-> "KEY", data |-> d])
  /\ Top(Nested(p.out)) # "OBJECT" =>
       q.state = "OK" /\ q.out = Append(p.out, [type |-> "STRING", data |-> d])

(* The quote that ends it: a string is read. *)
LEMMA StringRead ==
  ASSUME NEW c, IsConfig(c), c.max_data = 0, NEW p, Live(c, p),
         p.state \in {"_O", "_K", "_V", "_A"}, p.buffer = <<>>,
         NEW d, d \in Seq(Char), Readable(d), Utf8Left(d) = 0,
         NEW q, q = json_parser_string(p, print_string(d))
  PROVE  print_string(d) \in Seq(Char) /\ Told(c, p, d, q)
<1> DEFINE v == json_parser_string(p, print_quoted(d))
<1>1. /\ print_quoted(d) \in Seq(Char)
      /\ Live(c, v) /\ v.state = "_S" /\ v.buffer = d /\ v.out = p.out
  <2>1. Utf8Left(d) # -1
    OBVIOUS
  <2> QED BY <2>1, QuotedRead
<1>2. C_QUOTE \in Char /\ C_QUOTE \in Named /\ Class(C_QUOTE) = C_QUOTE
  BY DEF Char, Named, Class
<1>3. print_string(d) = print_quoted(d) \o <<C_QUOTE>> /\ <<C_QUOTE>> \in Seq(Char)
      /\ print_string(d) \in Seq(Char)
  <2> DEFINE x == print_quoted(d)
  <2>1. x \in Seq(Char) /\ print_string(d) = Append(x, C_QUOTE)
    BY <1>1 DEF print_string
  <2> HIDE DEF x
  <2>2. Append(x, C_QUOTE) = x \o <<C_QUOTE>> /\ Append(x, C_QUOTE) \in Seq(Char)
    BY <1>2, <2>1
  <2> QED BY <1>2, <2>1, <2>2 DEF x
<1>4. q = json_parser_char(v, C_QUOTE)
  <2> DEFINE x == print_quoted(d)
             y == <<C_QUOTE>>
  <2>1. x \in Seq(Char) /\ y \in Seq(Char) /\ v = json_parser_string(p, x)
        /\ q = json_parser_string(p, x \o y)
    BY <1>1, <1>3
  <2> HIDE DEF x, y, v
  <2>2. q = json_parser_string(v, y)
    BY <2>1, ReadConcat
  <2> QED BY <1>1, <1>2, <2>2, ReadOne DEF y, Live
<1> HIDE DEF v
<1>5. Leads("_S", C_QUOTE, "SE")
  BY DEF Leads
<1>6. NextState(v.state, Class(C_QUOTE)) = "SE"
  BY <1>1, <1>2, <1>5, RowLeads
<1>7. v.utf8_multibyte_left = 0
  <2>1. /\ v.utf8_multibyte_left \in 0 .. 3 /\ Utf8Left(d) = v.utf8_multibyte_left
    BY <1>1, Fields DEF Live, Held, Fits, Utf8
  <2> QED BY <2>1
<1>8. InUtf8(v, C_QUOTE)
  BY <1>2, <1>7, NamedAreFine DEF InUtf8
<1>9. Live(c, q) /\ Turn(v, C_QUOTE, "SE", q)
  BY <1>1, <1>2, <1>4, <1>6, <1>8, CharGoes DEF Possible
<1>10. "SE" \notin States /\ "SE" \notin Leaves
  BY StatesAre DEF Leaves, Between, Strings, Ints, Floats, Literals, Comments
<1>11. Kept(v, C_QUOTE, "SE") = v.buffer
  BY <1>1, KeptNothing DEF Number
<1>12. /\ q.state = (IF v.expecting_key THEN "CO" ELSE "OK") /\ q.type = "NONE" /\ q.buffer = <<>>
       /\ q.out = Append(v.out, [type |-> IF v.expecting_key THEN "KEY" ELSE "STRING", data |-> d])
  BY <1>1, <1>9, <1>10, <1>11 DEF Turn
<1>13. v.expecting_key \in BOOLEAN /\ (v.expecting_key <=> Top(Nested(p.out)) = "OBJECT")
  <2>1. Nesting(v) /\ v.ret = "0" /\ v.expecting_key \in BOOLEAN
    BY <1>1, Fields DEF Live, Held, Fits
  <2>2. Expects(v, Top(Nested(p.out)))
    BY <1>1, <2>1, NestingIs
  <2>3. Resumed(v) = "_S"
    BY <1>1 DEF Resumed, Comments
  <2>4. IF v.expecting_key THEN Top(Nested(p.out)) = "OBJECT"
        ELSE Top(Nested(p.out)) \in {"ARRAY", "KEYED"}
    BY <2>2, <2>3 DEF Expects, Strings
  <2> QED BY <2>1, <2>4
<1>14. CASE v.expecting_key
  BY <1>1, <1>3, <1>9, <1>12, <1>13, <1>14 DEF Told
<1>15. CASE ~v.expecting_key
  BY <1>1, <1>3, <1>9, <1>12, <1>13, <1>15 DEF Told
<1> QED BY <1>13, <1>14, <1>15

-----------------------------------------------------------------------------
(* The nesting that is printed *)

(* Where an item has its place. *)
LEMMA NestTop ==
  ASSUME NEW n, NEW t, Nest(n, t) # <<"BAD">>
  PROVE  /\ t \in Opening => Top(n) \in {"START", "ARRAY", "KEYED"}
         /\ t = "OBJECT_END" => Top(n) = "OBJECT"
         /\ t = "ARRAY_END" => Top(n) = "ARRAY"
         /\ t = "KEY" => Top(n) = "OBJECT"
         /\ t \in Scalars => Top(n) \in {"ARRAY", "KEYED"}
BY DEF Nest, Top, Opening, Scalars

(* After an item that has none there is none. *)
LEMMA NestBad ==
  ASSUME NEW t
  PROVE  Nest(<<"BAD">>, t) = <<"BAD">>
<1> DEFINE n == <<"BAD">>
<1>1. Len(n) = 1 /\ n[1] = "BAD"
  OBVIOUS
<1> HIDE DEF n
<1>2. n[Len(n)] = "BAD"
  BY <1>1
<1>3. Nest(n, t) = <<"BAD">>
  BY <1>2 DEF Nest
<1> QED BY <1>3 DEF n

(* Every prefix of items that nest does. *)
LEMMA NestedPrefix ==
  ASSUME NEW o \in Seq(Items), Nested(o) # <<"BAD">>, NEW i \in 0 .. Len(o)
  PROVE  Nested(SubSeq(o, 1, i)) # <<"BAD">>
<1> DEFINE T == {k \in 0 .. Len(o) - i : Nested(SubSeq(o, 1, i + k)) = <<"BAD">>}
<1>0. Len(o) \in Nat /\ Len(o) - i \in Nat
  OBVIOUS
<1> SUFFICES ASSUME Nested(SubSeq(o, 1, i)) = <<"BAD">> PROVE FALSE
  OBVIOUS
<1>1. 0 \in T
  BY <1>0
<1>2. ASSUME NEW k \in 1 .. Len(o) - i, k - 1 \in T PROVE k \in T
  <2>1. i + k \in 1 .. Len(o) /\ (i + k) - 1 = i + (k - 1) /\ k \in 0 .. Len(o) - i
    BY <1>0
  <2>2. /\ SubSeq(o, 1, i + k) = Append(SubSeq(o, 1, (i + k) - 1), o[i + k])
        /\ SubSeq(o, 1, (i + k) - 1) \in Seq(Items) /\ o[i + k] \in Items
    BY <2>1, PrefixStep
  <2>3. Nested(SubSeq(o, 1, (i + k) - 1)) = <<"BAD">>
    BY <1>2, <2>1
  <2>4. Nested(SubSeq(o, 1, i + k)) = Nest(<<"BAD">>, o[i + k].type)
    BY <2>2, <2>3, NestedAppend
  <2> QED BY <2>1, <2>4, NestBad
<1> HIDE DEF T
<1>3. \A k \in 0 .. Len(o) - i : k \in T
  BY <1>0, <1>1, <1>2, IntervalInduction
<1>4. Len(o) - i \in T
  BY <1>0, <1>3
<1>5. i + (Len(o) - i) = Len(o) /\ SubSeq(o, 1, Len(o)) = o
  BY <1>0
<1> QED BY <1>4, <1>5 DEF T

(* A line break and tabulators are layout. *)
LEMMA IndentIsLayout ==
  ASSUME NEW level \in Int
  PROVE  print_indent(level) \in Seq(White) /\ print_indent(level) \in Seq(Char)
<1> DEFINE tabs == [i \in 1 .. level |-> "\t"]
           n == IF level > 0 THEN level ELSE 0
<1>1. 1 .. level = 1 .. n /\ n \in Nat
  OBVIOUS
<1>2. {"\n", "\t"} \subseteq White
  BY DEF White
<1> HIDE DEF n
<1>3. tabs \in Seq(White)
  <2>1. tabs \in [1 .. n -> White]
    BY <1>1, <1>2
  <2> HIDE DEF tabs
  <2> QED BY <1>1, <2>1
<1> HIDE DEF tabs
<1>4. <<"\n">> \in Seq(White)
  BY <1>2
<1>5. print_indent(level) = <<"\n">> \o tabs
  BY DEF print_indent, tabs
<1>6. print_indent(level) \in Seq(White)
  BY <1>3, <1>4, <1>5, ConcatProperties
<1>7. White \subseteq Char
  BY DEF Char, Named
<1> DEFINE x == print_indent(level)
<1>8. x \in Seq(White)
  BY <1>6
<1> HIDE DEF x
<1>9. x \in Seq(Char)
  <2> HIDE DEF White
  <2> QED BY <1>7, <1>8
<1> QED BY <1>6, <1>9 DEF x

-----------------------------------------------------------------------------
(* One item read back *)

(* q has read what printer made of the items o. *)
Stands(c, o, printer, q) ==
  /\ Live(c, q) /\ o \in Seq(Items) /\ Flushed(q) = o
  /\ printer.indentlevel \in Int
  /\ printer.afterkey \in BOOLEAN /\ printer.first \in BOOLEAN
  /\ IF printer.afterkey
     THEN q.state = "_V" /\ ~printer.enter_object /\ Top(Nested(o)) = "KEYED"
     ELSE IF printer.enter_object THEN q.state \in {"GO", "_O", "_A"}
     ELSE q.state \in {"OK"} \cup Ending

(* What is open when o was reported, and where a parser is that waits. *)
LEMMA OpenIs ==
  ASSUME NEW c, NEW q, Live(c, q), NEW o, o = Flushed(q), NEW t, t = Top(Nested(o))
  PROVE  /\ Shape(Nested(o)) /\ Modes(Nested(o)) = q.stack
         /\ q.state = "GO" => t = "START"
         /\ q.state \in {"_O", "_K"} => t = "OBJECT"
         /\ q.state = "_A" => t = "ARRAY"
         /\ q.state = "CO" => t = "KEYED"
         /\ q.state = "_V" => t \in {"ARRAY", "KEYED"}
         /\ q.state \in {"OK"} \cup Ending => t \in {"ARRAY", "OBJECT", "ROOT"}
         /\ q.state \in Between \ {"OK"} => q.type = "NONE" /\ q.buffer = <<>> /\ o = q.out
<1>1. Fits(c, q) /\ q.ret = "0" /\ Nesting(q) /\ Legible(q)
  BY DEF Live, Held
<1>2. /\ Shape(Nested(o)) /\ Modes(Nested(o)) = q.stack
      /\ q.type = "NONE" => Nested(o) = Nested(q.out)
      /\ q.type # "NONE" => t = IF Top(Nested(q.out)) = "KEYED" THEN "OBJECT" ELSE "ARRAY"
  BY <1>1, FlushedNests
<1>3. Expects(q, Top(Nested(q.out)))
  BY <1>1, NestingIs
<1>4. q.state \notin Comments => Resumed(q) = q.state
  BY DEF Resumed
<1>5. Between \cap Comments = {} /\ Ending \cap Comments = {}
      /\ Ending \subseteq Ints \cup Floats /\ Between \cap (Strings \cup Ints \cup Floats) = {}
  BY DEF Between, Comments, Ending, Ints, Floats, Strings
<1>6. CASE q.state \in Between \ {"OK"}
  <2>1. Resumed(q) = q.state /\ q.state \notin {"OK"} \cup Ints \cup Floats \cup Strings
    BY <1>4, <1>5, <1>6
  <2>2. q.type = "NONE"
    BY <1>3, <2>1 DEF Expects
  <2>3. q.buffer = <<>>
    BY <1>1, <2>1, <2>2, NothingBuffered DEF Legible
  <2>4. o = q.out
    BY <2>2 DEF Flushed
  <2>5. q.state \notin Ending
    BY <2>1 DEF Ending, Ints, Floats
  <2> HIDE DEF Ending
  <2> QED BY <1>2, <1>3, <1>6, <2>1, <2>2, <2>3, <2>4, <2>5 DEF Expects
<1>7. CASE q.state = "OK"
  <2>1. Resumed(q) = "OK"
    BY <1>4, <1>7 DEF Comments
  <2>2. q.type = "NONE" => t \in {"ARRAY", "OBJECT", "ROOT"}
    BY <1>2, <1>3, <2>1 DEF Expects
  <2>3. q.type # "NONE" => t \in {"ARRAY", "OBJECT"}
    BY <1>2
  <2> QED BY <1>2, <1>7, <2>2, <2>3
<1>8. CASE q.state \in Ending
  <2>1. Resumed(q) = q.state /\ q.state \in Ints \cup Floats
    BY <1>4, <1>5, <1>8
  <2>2. q.type # "NONE"
    BY <1>3, <2>1 DEF Expects
  <2>3. t \in {"ARRAY", "OBJECT"}
    BY <1>2, <2>2
  <2>4. q.state \notin Between
    BY <1>5, <2>1
  <2> QED BY <1>2, <1>8, <2>3, <2>4 DEF Between
<1>9. q.state \notin Between \cup Ending => q.state \notin {"GO", "_O", "_K", "_A", "CO", "_V", "OK"}
  BY DEF Between
<1> QED BY <1>2, <1>6, <1>7, <1>8, <1>9

(* The comma before an item. *)
LEMMA CommaGoes ==
  ASSUME NEW c, IsConfig(c), c.max_data = 0, NEW p, Live(c, p),
         p.state \in {"OK"} \cup Ending, Top(Nested(Flushed(p))) \in {"ARRAY", "OBJECT"},
         NEW r, r = json_parser_char(p, C_COMMA)
  PROVE  /\ Live(c, r) /\ r.out = Flushed(p) /\ r.state \in {"_K", "_V"}
         /\ C_COMMA \in Char
<1>1. Leads(p.state, C_COMMA, "SP") /\ C_COMMA \in Named
  BY DEF Leads, Named
<1>2. NextState(p.state, C_COMMA) = "SP"
  BY <1>1, RowLeads
<1>3. /\ Shape(Nested(Flushed(p))) /\ Modes(Nested(Flushed(p))) = p.stack
  BY OpenIs
<1>4. p.stack # <<>>
  <2> DEFINE n == Nested(Flushed(p))
  <2>1. Shape(n) /\ p.stack = Modes(n) /\ Top(n) \in {"ARRAY", "OBJECT"}
    BY <1>3
  <2> HIDE DEF n
  <2>2. Len(n) > 1 /\ Len(n) \in Nat \ {0}
    BY <2>1, ShapeIs
  <2>3. Len(n) # 1
    <3> DEFINE k == Len(n)
    <3>1. k > 1 /\ k \in Nat
      BY <2>2
    <3> HIDE DEF k
    <3>2. k # 1
      BY <3>1
    <3> QED BY <3>2 DEF k
  <2> QED BY <2>1, <2>3, StackTop
<1>5. p.state \notin {"_S", "C2", "Y1"}
  BY DEF Ending
<1>6. Live(c, r) /\ Turn(p, C_COMMA, "SP", r) /\ C_COMMA \in Char
  BY <1>1, <1>2, <1>4, <1>5, NamedGoes DEF Possible
<1>7. "SP" \notin States /\ "SP" \notin Leaves
  BY StatesAre DEF Leaves, Between, Strings, Ints, Floats, Literals, Comments
<1> QED BY <1>6, <1>7 DEF Turn

(* Ready for an item that is no end. *)
Ready(c, o, q) ==
  /\ Live(c, q) /\ q.out = o /\ q.type = "NONE" /\ q.buffer = <<>>
  /\ q.state \in {"GO", "_O", "_K", "_V", "_A"}

(* Ready for an end: a value may be pending. *)
Closable(c, o, q) ==
  /\ Live(c, q) /\ Flushed(q) = o /\ q.state \in {"GO", "_O", "_A", "_V", "OK"} \cup Ending

(* Layout changes neither. *)
LEMMA LayoutBefore ==
  ASSUME NEW c, IsConfig(c), c.max_data = 0, NEW o, NEW p, NEW t, t \in Seq(White),
         NEW q, q = json_parser_string(p, t)
  PROVE  /\ Ready(c, o, p) => Ready(c, o, q)
         /\ Closable(c, o, p) => Closable(c, o, q)
         /\ Closable(c, o, p) => q.state \in {p.state, "OK"}
<1>1. ASSUME Live(c, p), p.state \in {"GO", "_O", "_K", "_V", "_A", "OK"} \cup Ending
      PROVE  Live(c, q) /\ Rested(p, q) /\ Flushed(q) = Flushed(p)
  <2>1. p.state \in Between \cup Ending
    BY <1>1 DEF Between
  <2>2. Live(c, q) /\ Rested(p, q)
    BY <1>1, <2>1, LayoutRead
  <2> QED BY <2>2 DEF Rested, Flushed
<1>2. ASSUME Ready(c, o, p) PROVE Ready(c, o, q)
  <2>1. Live(c, q) /\ Rested(p, q) /\ p.state \notin Ending
    BY <1>1, <1>2 DEF Ready, Ending
  <2> QED BY <1>2, <2>1 DEF Ready, Rested
<1>3. ASSUME Closable(c, o, p) PROVE Closable(c, o, q) /\ q.state \in {p.state, "OK"}
  <2>1. Live(c, q) /\ Rested(p, q) /\ Flushed(q) = Flushed(p)
    BY <1>1, <1>3 DEF Closable
  <2>2. q.state = p.state \/ q.state = "OK"
    BY <2>1 DEF Rested
  <2> QED BY <1>3, <2>1, <2>2 DEF Closable
<1> QED BY <1>2, <1>3

(* Where a parser is that is ready, by what is open. *)
LEMMA ReadyAt ==
  ASSUME NEW c, NEW o, NEW q, Ready(c, o, q), NEW t, t = Top(Nested(o))
  PROVE  /\ Shape(Nested(o)) /\ Modes(Nested(o)) = q.stack /\ Flushed(q) = o
         /\ t \in {"START", "ARRAY", "KEYED"} => q.state \in {"GO", "_V", "_A"}
         /\ t \in {"ARRAY", "KEYED"} => q.state \in {"_V", "_A"}
         /\ t = "OBJECT" => q.state \in {"_O", "_K"}
<1>1. Flushed(q) = o /\ Live(c, q)
  BY DEF Ready, Flushed
<1> QED BY <1>1, OpenIs DEF Ready

(* The place of a parser after an item. *)
Follows(c, o, e, r) ==
  /\ Live(c, r) /\ Flushed(r) = Append(o, e)
  /\ e.type \in Opening => r.state \in {"_O", "_A"}
  /\ e.type = "KEY" => r.state = "_V"
  /\ e.type \notin Opening \cup {"KEY"} => r.state \in {"OK"} \cup Ending

(* An object or an array begins. *)
LEMMA OpeningRead ==
  ASSUME NEW c, IsConfig(c), c.max_data = 0, NEW o \in Seq(Items), NEW p, Ready(c, o, p),
         NEW e \in Items, Spells(e), e.type \in Opening,
         Nest(Nested(o), e.type) # <<"BAD">>,
         c.max_nesting > 0 => Len(Nest(Nested(o), e.type)) - 1 <= c.max_nesting,
         NEW ch, ch = (IF e.type = "OBJECT_BEGIN" THEN C_LCURB ELSE "["),
         NEW r, r = json_parser_char(p, ch)
  PROVE  Follows(c, o, e, r) /\ ch \in Char
<1> DEFINE k == IF e.type = "OBJECT_BEGIN" THEN "OB" ELSE "AB"
           x == IF e.type = "OBJECT_BEGIN" THEN "OBJECT" ELSE "ARRAY"
           n == Nested(o)
<1>1. Top(n) \in {"START", "ARRAY", "KEYED"}
  BY NestTop
<1>2. p.state \in {"GO", "_V", "_A"} /\ Shape(n) /\ Modes(n) = p.stack /\ Live(c, p)
      /\ p.out = o /\ p.buffer = <<>>
  BY <1>1, ReadyAt DEF Ready
<1>3. Leads(p.state, ch, k) /\ ch \in Named /\ k \in {"OB", "AB"}
  BY <1>2 DEF Leads, Named
<1>4. k = NextState(p.state, ch) /\ k # "__"
  BY <1>3, RowLeads
<1>5. c.max_nesting > 0 => Len(p.stack) < c.max_nesting
  <2> DEFINE m == Nest(n, e.type)
  <2>1. x \in Modal /\ m = Nest(n, IF x = "OBJECT" THEN "OBJECT_BEGIN" ELSE "ARRAY_BEGIN")
    BY DEF Modal, Opening
  <2>2. c.max_nesting > 0 => Len(m) - 1 <= c.max_nesting
    OBVIOUS
  <2> HIDE DEF x, m, n
  <2>3. Shape(m) /\ Modes(m) = Append(p.stack, x)
    BY <1>1, <1>2, <2>1, NestOpen
  <2>4. Len(m) \in Nat \ {0} /\ m \in Seq(Opens) /\ p.stack \in Seq(Modal)
    BY <1>2, <2>3, ShapeIs, Fields DEF Live, Held, Fits, Modal
  <2>5. Len(Modes(m)) = Len(m) - 1
    BY <2>4, ModesAre
  <2>6. Len(m) - 1 = Len(p.stack) + 1
    BY <2>1, <2>3, <2>4, <2>5
  <2>7. Len(p.stack) \in Nat /\ c.max_nesting \in Nat
    BY <2>4 DEF IsConfig
  <2> QED BY <2>2, <2>6, <2>7
<1> HIDE DEF k, x, n
<1>6. Live(c, r) /\ Turn(p, ch, k, r) /\ ch \in Char
  BY <1>2, <1>3, <1>4, <1>5, NamedGoes DEF Possible
<1>7. k \notin States /\ k \notin Leaves
  BY <1>3, StatesAre DEF Leaves, Between, Strings, Ints, Floats, Literals, Comments
<1>8. /\ r.state = (IF k = "OB" THEN "_O" ELSE "_A") /\ r.type = "NONE"
      /\ r.out = Append(p.out, Item(IF k = "OB" THEN "OBJECT_BEGIN" ELSE "ARRAY_BEGIN"))
  BY <1>3, <1>6, <1>7 DEF Turn
<1>9. Item(IF k = "OB" THEN "OBJECT_BEGIN" ELSE "ARRAY_BEGIN") = e
  <2>1. e.data = <<>>
    BY DEF Spells, Opening
  <2>2. e.type = IF k = "OB" THEN "OBJECT_BEGIN" ELSE "ARRAY_BEGIN"
    BY DEF Opening, k
  <2>3. e = [type |-> e.type, data |-> e.data]
    BY DEF Items
  <2> QED BY <2>1, <2>2, <2>3 DEF Item
<1>10. Flushed(r) = Append(o, e)
  BY <1>2, <1>8, <1>9 DEF Flushed
<1>11. e.type # "KEY"
  BY DEF Opening
<1>12. r.state \in {"_O", "_A"}
  BY <1>8
<1> QED BY <1>6, <1>10, <1>11, <1>12 DEF Follows

(* An object or an array ends. *)
LEMMA ClosingRead ==
  ASSUME NEW c, IsConfig(c), c.max_data = 0, NEW o \in Seq(Items), NEW p, Closable(c, o, p),
         NEW e \in Items, Spells(e), e.type \in Closing,
         Nest(Nested(o), e.type) # <<"BAD">>,
         p.state = "_V" => Top(Nested(o)) = "KEYED",
         NEW ch, ch = (IF e.type = "OBJECT_END" THEN C_RCURB ELSE "]"),
         NEW r, r = json_parser_char(p, ch)
  PROVE  Follows(c, o, e, r) /\ ch \in Char
<1> DEFINE k == IF e.type = "OBJECT_END" THEN "OE" ELSE "AE"
           n == Nested(o)
<1>1. Top(n) = (IF e.type = "OBJECT_END" THEN "OBJECT" ELSE "ARRAY")
  BY NestTop DEF Closing
<1>2. Shape(n) /\ Modes(n) = p.stack /\ Live(c, p) /\ Flushed(p) = o
      /\ p.state \in (IF e.type = "OBJECT_END" THEN {"_O"} ELSE {"_A"}) \cup {"OK"} \cup Ending
  <2>1. Live(c, p) /\ Flushed(p) = o /\ p.state \in {"GO", "_O", "_A", "_V", "OK"} \cup Ending
    BY DEF Closable
  <2> QED BY <1>1, <2>1, OpenIs
<1>3. Leads(p.state, ch, k) /\ ch \in Named /\ k \in {"OE", "AE"}
  BY <1>2 DEF Leads, Named
<1>4. k = NextState(p.state, ch) /\ k # "__"
  BY <1>3, RowLeads
<1>5. p.stack # <<>> /\ p.stack[Len(p.stack)] = IF k = "OE" THEN "OBJECT" ELSE "ARRAY"
  <2>1. Top(n) = IF k = "OE" THEN "OBJECT" ELSE "ARRAY"
    BY <1>1 DEF Closing
  <2> HIDE DEF n, k
  <2>2. Len(n) \in Nat \ {0} /\ Len(n) > 1
    BY <1>2, <1>3, <2>1, ShapeIs
  <2>3. Len(n) # 1
    <3> DEFINE l == Len(n)
    <3>1. l > 1 /\ l \in Nat
      BY <2>2
    <3> HIDE DEF l
    <3>2. l # 1
      BY <3>1
    <3> QED BY <3>2 DEF l
  <2> QED BY <1>2, <1>3, <2>1, <2>3, StackTop DEF Mode
<1>6. p.state \notin {"_S", "C2", "Y1"}
  BY <1>2 DEF Ending
<1> HIDE DEF k, n
<1>7. Live(c, r) /\ Turn(p, ch, k, r) /\ ch \in Char
  BY <1>2, <1>3, <1>4, <1>5, <1>6, NamedGoes DEF Possible
<1>8. k \notin States /\ k \notin Leaves
  BY <1>3, StatesAre DEF Leaves, Between, Strings, Ints, Floats, Literals, Comments
<1>9. /\ r.state = "OK" /\ r.type = "NONE"
      /\ r.out = Append(Flushed(p), Item(IF k = "OE" THEN "OBJECT_END" ELSE "ARRAY_END"))
  BY <1>3, <1>7, <1>8 DEF Turn
<1>10. Item(IF k = "OE" THEN "OBJECT_END" ELSE "ARRAY_END") = e
  <2>1. e.data = <<>>
    BY DEF Spells, Closing
  <2>2. e.type = IF k = "OE" THEN "OBJECT_END" ELSE "ARRAY_END"
    BY DEF Closing, k
  <2>3. e = [type |-> e.type, data |-> e.data]
    BY DEF Items
  <2> QED BY <2>1, <2>2, <2>3 DEF Item
<1>11. Flushed(r) = Append(o, e)
  BY <1>2, <1>9, <1>10 DEF Flushed
<1>12. e.type \notin Opening \cup {"KEY"}
  BY DEF Opening, Closing
<1> QED BY <1>7, <1>9, <1>11, <1>12 DEF Follows

(* A string that is a value. *)
LEMMA ValueStringRead ==
  ASSUME NEW c, IsConfig(c), c.max_data = 0, NEW o \in Seq(Items), NEW p, Ready(c, o, p),
         NEW e \in Items, Spells(e), Utf8Left(e.data) = 0, e.type = "STRING",
         Nest(Nested(o), e.type) # <<"BAD">>,
         NEW r, r = json_parser_string(p, print_string(e.data))
  PROVE  Follows(c, o, e, r) /\ print_string(e.data) \in Seq(Char)
<1>1. Top(Nested(o)) \in {"ARRAY", "KEYED"}
  BY NestTop DEF Scalars
<1>2. p.state \in {"_V", "_A"} /\ Live(c, p) /\ p.out = o /\ p.buffer = <<>>
  BY <1>1, ReadyAt DEF Ready
<1>3. e.data \in Seq(Char) /\ Readable(e.data) /\ e = [type |-> "STRING", data |-> e.data]
  BY DEF Items, Spells
<1>4. /\ print_string(e.data) \in Seq(Char) /\ Live(c, r) /\ r.type = "NONE"
      /\ r.state = "OK" /\ r.out = Append(p.out, [type |-> "STRING", data |-> e.data])
  <2> DEFINE d == e.data
  <2>1. d \in Seq(Char) /\ Readable(d) /\ Utf8Left(d) = 0 /\ p.state \in {"_O", "_K", "_V", "_A"}
        /\ r = json_parser_string(p, print_string(d)) /\ Top(Nested(p.out)) # "OBJECT"
    BY <1>1, <1>2, <1>3
  <2> HIDE DEF d
  <2>2. print_string(d) \in Seq(Char) /\ Told(c, p, d, r)
    BY <1>2, <2>1, StringRead
  <2>3. Told(c, p, e.data, r) /\ print_string(e.data) \in Seq(Char)
    BY <2>2 DEF d
  <2> QED BY <2>1, <2>3 DEF Told
<1>5. Flushed(r) = Append(o, e)
  BY <1>2, <1>3, <1>4 DEF Flushed
<1> QED BY <1>4, <1>5 DEF Follows, Opening

(* A key and its colon. *)
LEMMA KeyRead ==
  ASSUME NEW c, IsConfig(c), c.max_data = 0, NEW o \in Seq(Items), NEW p, Ready(c, o, p),
         NEW e \in Items, Spells(e), Utf8Left(e.data) = 0, e.type = "KEY",
         Nest(Nested(o), e.type) # <<"BAD">>,
         NEW t, t \in Seq(White),
         NEW r, r = json_parser_string(p, print_string(e.data) \o <<":">> \o t)
  PROVE  Follows(c, o, e, r) /\ print_string(e.data) \o <<":">> \o t \in Seq(Char)
<1>1. Top(Nested(o)) = "OBJECT"
  BY NestTop
<1>2. p.state \in {"_O", "_K"} /\ Live(c, p) /\ p.out = o /\ p.buffer = <<>>
  BY <1>1, ReadyAt DEF Ready
<1>3. e.data \in Seq(Char) /\ Readable(e.data) /\ e = [type |-> "KEY", data |-> e.data]
  BY DEF Items, Spells
<1> DEFINE s == print_string(e.data)
           v == json_parser_string(p, s)
<1>4. /\ s \in Seq(Char) /\ Live(c, v) /\ v.type = "NONE" /\ v.buffer = <<>>
      /\ v.state = "CO" /\ v.out = Append(p.out, [type |-> "KEY", data |-> e.data])
  <2> DEFINE d == e.data
  <2>1. d \in Seq(Char) /\ Readable(d) /\ Utf8Left(d) = 0 /\ p.state \in {"_O", "_K", "_V", "_A"}
        /\ v = json_parser_string(p, print_string(d)) /\ Top(Nested(p.out)) = "OBJECT"
        /\ s = print_string(d)
    BY <1>1, <1>2, <1>3
  <2> HIDE DEF d, v, s
  <2>2. print_string(d) \in Seq(Char) /\ Told(c, p, d, v)
    BY <1>2, <2>1, StringRead
  <2>3. Told(c, p, e.data, v)
    BY <2>2 DEF d
  <2> QED BY <2>1, <2>2, <2>3 DEF Told
<1>5. v = json_parser_string(p, s)
  OBVIOUS
<1> HIDE DEF v
<1> DEFINE w == json_parser_char(v, ":")
<1>6. Leads("CO", ":", "KS") /\ ":" \in Named /\ "KS" \in Leaves
  BY DEF Leads, Named, Leaves
<1>7. NextState(v.state, ":") = "KS"
  BY <1>4, <1>6, RowLeads
<1>8. Live(c, w) /\ Turn(v, ":", "KS", w) /\ ":" \in Char
  BY <1>4, <1>6, <1>7, NamedGoes DEF Possible
<1>9. "KS" \notin States
  BY StatesAre DEF Between, Strings, Ints, Floats, Literals, Comments
<1> HIDE DEF w
<1>10. w.state = "_V" /\ w.type = "NONE" /\ w.out = v.out
  BY <1>6, <1>8, <1>9 DEF Turn, Target, LeafType
<1>11. t \in Seq(Char) /\ <<":">> \in Seq(Char)
  <2>1. White \subseteq Char
    BY DEF Char, Named
  <2> HIDE DEF White
  <2> QED BY <1>8, <2>1
<1> DEFINE y == <<":">>
<1>12. /\ s \o y \in Seq(Char) /\ (s \o y) \o t \in Seq(Char)
       /\ r = json_parser_string(p, (s \o y) \o t)
  <2>1. y \in Seq(Char)
    BY <1>11
  <2>2. r = json_parser_string(p, (s \o y) \o t)
    OBVIOUS
  <2> HIDE DEF s, y
  <2> QED BY <1>4, <1>11, <2>1, <2>2, ConcatProperties
<1>13. json_parser_string(v, y) = w
  BY <1>4, <1>8, ReadOne DEF w, Live
<1> HIDE DEF s, y
<1>14. r = json_parser_string(w, t)
  <2>1. y \in Seq(Char)
    BY <1>11 DEF y
  <2>2. json_parser_string(p, s \o y) = json_parser_string(v, y)
    BY <1>4, <1>5, <2>1, ReadConcat
  <2> DEFINE x == s \o y
  <2>3. x \in Seq(Char) /\ r = json_parser_string(p, x \o t) /\ json_parser_string(p, x) = w
    BY <1>12, <1>13, <2>2
  <2> HIDE DEF x
  <2> QED BY <1>11, <2>3, ReadConcat
<1>15. Live(c, r) /\ Rested(w, r)
  BY <1>8, <1>10, <1>11, <1>14, LayoutRead DEF Between
<1>16. r.state = "_V" /\ r.type = "NONE" /\ r.out = Append(o, e)
  BY <1>2, <1>3, <1>4, <1>10, <1>15 DEF Rested, Ending
<1>17. Flushed(r) = Append(o, e)
  BY <1>16 DEF Flushed
<1> QED BY <1>12, <1>15, <1>16, <1>17 DEF Follows, Opening, s, y

(* A number. *)
LEMMA ValueNumberRead ==
  ASSUME NEW c, IsConfig(c), c.max_data = 0, NEW o \in Seq(Items), NEW p, Ready(c, o, p),
         NEW e \in Items, Spells(e), e.type \in {"INT", "FLOAT"},
         Nest(Nested(o), e.type) # <<"BAD">>,
         NEW r, r = json_parser_string(p, e.data)
  PROVE  Follows(c, o, e, r) /\ e.data \in Seq(Char)
<1>1. Top(Nested(o)) \in {"ARRAY", "KEYED"}
  BY NestTop DEF Scalars
<1>2. p.state \in {"_V", "_A"} /\ Live(c, p) /\ p.out = o /\ p.buffer = <<>>
  BY <1>1, ReadyAt DEF Ready
<1>3. e.data \in Seq(Char) /\ e = [type |-> e.type, data |-> e.data]
      /\ NumberState(e.data) \in IF e.type = "INT" THEN {"Z0", "I0"} ELSE {"R2", "X3"}
  BY DEF Items, Spells
<1>4. NumberState(e.data) \in Ending
  BY <1>3 DEF Ending
<1>5. Live(c, r) /\ r.state = NumberState(e.data) /\ r.buffer = e.data /\ r.out = p.out
  BY <1>2, <1>3, <1>4, NumberRead
<1>6. r.type = e.type
  <2>1. r.state \in IF e.type = "INT" THEN {"Z0", "I0"} ELSE {"R2", "X3"}
    BY <1>3, <1>5
  <2>2. Nesting(r) /\ r.ret = "0"
    BY <1>5 DEF Live, Held
  <2>3. Expects(r, Top(Nested(r.out)))
    BY <2>2, NestingIs
  <2>4. Resumed(r) = r.state
    BY <2>1 DEF Resumed, Comments
  <2>5. (r.state \in Ints => r.type = "INT") /\ (r.state \in Floats => r.type = "FLOAT")
    BY <2>3, <2>4 DEF Expects
  <2> QED BY <2>1, <2>5 DEF Ints, Floats
<1>7. Flushed(r) = Append(o, e)
  BY <1>2, <1>3, <1>5, <1>6 DEF Flushed
<1> QED BY <1>3, <1>4, <1>5, <1>7 DEF Follows, Opening

(* true, false or null. *)
LEMMA ValueWordRead ==
  ASSUME NEW c, IsConfig(c), c.max_data = 0, NEW o \in Seq(Items), NEW p, Ready(c, o, p),
         NEW e \in Items, Spells(e), e.type \in {"TRUE", "FALSE", "NULL"},
         Nest(Nested(o), e.type) # <<"BAD">>,
         NEW r, r = json_parser_string(p, Words[e.type])
  PROVE  Follows(c, o, e, r) /\ Words[e.type] \in Seq(Char)
<1>1. Top(Nested(o)) \in {"ARRAY", "KEYED"}
  BY NestTop DEF Scalars
<1>2. p.state \in {"_V", "_A"} /\ Live(c, p) /\ p.out = o /\ p.buffer = <<>>
  BY <1>1, ReadyAt DEF Ready
<1>3. e = [type |-> e.type, data |-> <<>>]
  BY DEF Items, Spells
<1>4. Live(c, r) /\ r.state = "OK" /\ r.type = e.type /\ r.buffer = p.buffer /\ r.out = p.out
  BY <1>2, WordRead
<1>5. Flushed(r) = Append(o, e)
  BY <1>2, <1>3, <1>4 DEF Flushed
<1>6. {"t", "r", "u", "e", "f", "a", "l", "s", "n"} \subseteq Char
  BY DEF Char, Named, Hex
<1>7. Words[e.type] \in Seq(Char)
  <2>1. <<"t", "r", "u", "e">> \in Seq(Char)
    BY <1>6
  <2>2. <<"f", "a", "l", "s", "e">> \in Seq(Char)
    BY <1>6
  <2>3. <<"n", "u", "l", "l">> \in Seq(Char)
    BY <1>6
  <2>4. /\ Words["TRUE"] = <<"t", "r", "u", "e">>
        /\ Words["FALSE"] = <<"f", "a", "l", "s", "e">>
        /\ Words["NULL"] = <<"n", "u", "l", "l">>
    BY DEF Words
  <2> QED BY <2>1, <2>2, <2>3, <2>4
<1> QED BY <1>4, <1>5, <1>7 DEF Follows, Opening

-----------------------------------------------------------------------------
(* What the printer puts before an item *)

(* What json_print_mode() writes: a comma, a line break and the item. *)
Comma(printer, item) ==
  IF ~printer.enter_object /\ ~printer.afterkey /\ item.type \notin Closing
  THEN <<C_COMMA>> ELSE <<>>

Level(printer, item) ==
  IF item.type \in Opening THEN printer.indentlevel + 1
  ELSE IF item.type \in Closing THEN printer.indentlevel - 1
  ELSE printer.indentlevel

Indented(printer, item) ==
  IF item.type \in Closing THEN ~printer.enter_object
  ELSE \/ ~printer.enter_object /\ ~printer.afterkey
       \/ printer.enter_object /\ ~printer.first

Indent(printer, item, pretty) ==
  IF pretty /\ Indented(printer, item)
  THEN print_indent(IF item.type \in Closing THEN Level(printer, item) ELSE printer.indentlevel)
  ELSE <<>>

Body(item, pretty) ==
  CASE item.type = "ARRAY_BEGIN" -> <<"[">>
    [] item.type = "OBJECT_BEGIN" -> <<C_LCURB>>
    [] item.type = "ARRAY_END" -> <<"]">>
    [] item.type = "OBJECT_END" -> <<C_RCURB>>
    [] item.type \in {"INT", "FLOAT"} -> item.data
    [] item.type = "NULL" -> <<"n", "u", "l", "l">>
    [] item.type = "TRUE" -> <<"t", "r", "u", "e">>
    [] item.type = "FALSE" -> <<"f", "a", "l", "s", "e">>
    [] item.type = "KEY" -> print_string(item.data) \o
                            (IF pretty THEN <<":", C_SPACE>> ELSE <<":">>)
    [] item.type = "STRING" -> print_string(item.data)

(* json_print_mode() in these words: the fields of the printer, *)
LEMMA PrintIs ==
  ASSUME NEW printer, NEW item, NEW pretty,
         NEW m, m = json_print_mode(printer, item, pretty)
  PROVE  /\ m.indentlevel = Level(printer, item)
         /\ m.enter_object <=> item.type \in Opening
         /\ m.first \in BOOLEAN
         /\ m.afterkey \in BOOLEAN /\ (m.afterkey <=> item.type = "KEY")
<1>1. m.indentlevel = Level(printer, item) /\ m.first = FALSE
  BY DEF json_print_mode, Level
<1>2. m.enter_object <=> item.type \in Opening
  BY DEF json_print_mode
<1>3. m.afterkey \in BOOLEAN /\ (m.afterkey <=> item.type = "KEY")
  BY DEF json_print_mode
<1> QED BY <1>1, <1>2, <1>3

(* and its output. *)
LEMMA PrintOut ==
  ASSUME NEW printer, NEW item, NEW pretty \in BOOLEAN,
         printer.afterkey \in BOOLEAN, printer.first \in BOOLEAN
  PROVE  json_print_mode(printer, item, pretty).out =
           ((printer.out \o Comma(printer, item)) \o Indent(printer, item, pretty))
             \o Body(item, pretty)
BY DEF json_print_mode, Level, Comma, Indented, Indent, Body

(* The text before an item. *)
LEMMA BeforeItem ==
  ASSUME NEW printer, NEW item, NEW pretty, printer.indentlevel \in Int
  PROVE  /\ Comma(printer, item) \in Seq(Char)
         /\ Indent(printer, item, pretty) \in Seq(White)
         /\ Indent(printer, item, pretty) \in Seq(Char)
         /\ Level(printer, item) \in Int
<1>1. <<C_COMMA>> \in Seq(Char)
  <2>1. C_COMMA \in Char
    BY DEF Char, Named
  <2> QED BY <2>1
<1>2. Level(printer, item) \in Int
  BY DEF Level
<1>3. /\ print_indent(Level(printer, item)) \in Seq(White) /\ print_indent(printer.indentlevel) \in Seq(White)
      /\ print_indent(Level(printer, item)) \in Seq(Char) /\ print_indent(printer.indentlevel) \in Seq(Char)
  BY <1>2, IndentIsLayout
<1> HIDE DEF White
<1>4. <<>> \in Seq(Char) /\ <<>> \in Seq(White)
  OBVIOUS
<1> QED BY <1>1, <1>2, <1>3, <1>4 DEF Comma, Indent

(* A text in three parts is read part by part. *)
LEMMA ReadThree ==
  ASSUME NEW p, NEW s, s \in Seq(Char), NEW t, t \in Seq(Char), NEW u, u \in Seq(Char),
         NEW v, v \in Seq(Char)
  PROVE  /\ ((s \o t) \o u) \o v \in Seq(Char)
         /\ json_parser_string(p, ((s \o t) \o u) \o v) =
              json_parser_string(json_parser_string(json_parser_string(
                json_parser_string(p, s), t), u), v)
<1> DEFINE x == s \o t
           y == x \o u
<1>1. x \in Seq(Char)
  BY ConcatProperties
<1>2. json_parser_string(p, x) = json_parser_string(json_parser_string(p, s), t)
  BY ReadConcat
<1> HIDE DEF x
<1>3. y \in Seq(Char)
  BY <1>1, ConcatProperties
<1>4. json_parser_string(p, y) = json_parser_string(json_parser_string(p, x), u)
  BY <1>1, ReadConcat
<1> HIDE DEF y
<1>5. y \o v \in Seq(Char)
  BY <1>3, ConcatProperties
<1>6. json_parser_string(p, y \o v) = json_parser_string(json_parser_string(p, y), v)
  BY <1>3, ReadConcat
<1> QED BY <1>2, <1>4, <1>5, <1>6 DEF x, y

(* A parser that has read what comes before an item is ready for it. *)
LEMMA BeforeRead ==
  ASSUME NEW c, IsConfig(c), c.max_data = 0, NEW o \in Seq(Items), NEW printer, NEW p,
         Stands(c, o, printer, p), NEW e \in Items, Nest(Nested(o), e.type) # <<"BAD">>,
         NEW pretty,
         NEW q, q = json_parser_string(json_parser_string(p, Comma(printer, e)),
                                       Indent(printer, e, pretty))
  PROVE  /\ e.type \notin Closing => Ready(c, o, q)
         /\ e.type \in Closing => Closable(c, o, q) /\ (q.state = "_V" => Top(Nested(o)) = "KEYED")
<1> DEFINE v == json_parser_string(p, Comma(printer, e))
           t == Indent(printer, e, pretty)
<1>1. t \in Seq(White) /\ q = json_parser_string(v, t)
  BY BeforeItem DEF Stands
<1> HIDE DEF t
<1>2. Live(c, p) /\ Flushed(p) = o
  BY DEF Stands
<1>3. ASSUME e.type \notin Closing PROVE Ready(c, o, v)
  <2>1. CASE ~printer.enter_object /\ ~printer.afterkey
    <3>1. p.state \in {"OK"} \cup Ending
      BY <2>1 DEF Stands
    <3>2. Top(Nested(o)) \in {"ARRAY", "OBJECT", "ROOT"}
      BY <1>2, <3>1, OpenIs
    <3>3. Top(Nested(o)) # "ROOT"
      <4>1. e.type \in Opening \cup Scalars \cup {"KEY"}
        BY <1>3 DEF Items, ItemTypes, Scalars
      <4> QED BY <4>1, NestTop
    <3>4. C_COMMA \in Char /\ Comma(printer, e) = <<C_COMMA>>
      BY <1>3, <2>1 DEF Comma, Char, Named
    <3>5. v = json_parser_char(p, C_COMMA)
      BY <1>2, <3>4, ReadOne DEF Live
    <3> HIDE DEF v
    <3>6. Live(c, v) /\ v.out = o /\ v.state \in {"_K", "_V"}
      BY <1>2, <3>1, <3>2, <3>3, <3>5, CommaGoes
    <3>7. v.state \in Between \ {"OK"}
      BY <3>6 DEF Between
    <3>8. v.type = "NONE" /\ v.buffer = <<>>
      BY <3>6, <3>7, OpenIs
    <3> QED BY <3>6, <3>8 DEF Ready
  <2>2. CASE ~(~printer.enter_object /\ ~printer.afterkey)
    <3>1. Comma(printer, e) = <<>>
      BY <2>2 DEF Comma
    <3>2. v = p
      BY <3>1, ReadEmpty
    <3>3. p.state \in {"GO", "_O", "_A", "_V"}
      BY <2>2 DEF Stands
    <3>4. p.state \in Between \ {"OK"}
      BY <3>3 DEF Between
    <3>5. p.type = "NONE" /\ p.buffer = <<>> /\ o = p.out
      BY <1>2, <3>4, OpenIs
    <3> QED BY <1>2, <3>2, <3>3, <3>5 DEF Ready
  <2> QED BY <2>1, <2>2
<1>4. ASSUME e.type \in Closing
      PROVE  Closable(c, o, v) /\ (v.state = "_V" => Top(Nested(o)) = "KEYED")
  <2>1. Comma(printer, e) = <<>>
    BY <1>4 DEF Comma
  <2>2. v = p
    BY <2>1, ReadEmpty
  <2> QED BY <1>2, <2>2 DEF Stands, Closable, Ending
<1> HIDE DEF v
<1>5. ASSUME e.type \notin Closing PROVE Ready(c, o, q)
  BY <1>1, <1>3, <1>5, LayoutBefore
<1>6. ASSUME e.type \in Closing
      PROVE  Closable(c, o, q) /\ (q.state = "_V" => Top(Nested(o)) = "KEYED")
  <2>1. Closable(c, o, q)
    BY <1>1, <1>4, <1>6, LayoutBefore
  <2>2. q.state \in {v.state, "OK"}
    BY <1>1, <1>4, <1>6, LayoutBefore
  <2> QED BY <1>4, <1>6, <2>1, <2>2
<1> QED BY <1>5, <1>6

(* The item itself is read. *)
LEMMA BodyRead ==
  ASSUME NEW c, IsConfig(c), c.max_data = 0, NEW o \in Seq(Items), NEW p,
         NEW e \in Items, Spells(e), Utf8Left(e.data) = 0,
         Nest(Nested(o), e.type) # <<"BAD">>,
         c.max_nesting > 0 => Len(Nest(Nested(o), e.type)) - 1 <= c.max_nesting,
         e.type \notin Closing => Ready(c, o, p),
         e.type \in Closing => Closable(c, o, p) /\ (p.state = "_V" => Top(Nested(o)) = "KEYED"),
         NEW pretty \in BOOLEAN, NEW r, r = json_parser_string(p, Body(e, pretty))
  PROVE  Follows(c, o, e, r) /\ Body(e, pretty) \in Seq(Char)
<1>0. p.ret = "0"
  BY DEF Ready, Closable, Live
<1>1. ASSUME NEW ch, ch \in Char, Body(e, pretty) = <<ch>>
      PROVE  r = json_parser_char(p, ch) /\ Body(e, pretty) \in Seq(Char)
  <2>1. <<ch>> \in Seq(Char)
    BY <1>1
  <2> QED BY <1>0, <1>1, <2>1, ReadOne
<1>2. CASE e.type \in Opening
  <2> DEFINE ch == IF e.type = "OBJECT_BEGIN" THEN C_LCURB ELSE "["
  <2>1. Body(e, pretty) = <<ch>>
    BY <1>2 DEF Body, Opening
  <2>2. ch \in Char
    BY DEF Char, Named
  <2>3. ch = (IF e.type = "OBJECT_BEGIN" THEN C_LCURB ELSE "[")
    OBVIOUS
  <2>4. Ready(c, o, p)
    BY <1>2 DEF Opening, Closing
  <2> HIDE DEF ch
  <2>5. r = json_parser_char(p, ch) /\ Body(e, pretty) \in Seq(Char)
    BY <1>1, <2>1, <2>2
  <2> QED BY <1>2, <2>3, <2>4, <2>5, OpeningRead
<1>3. CASE e.type \in Closing
  <2> DEFINE ch == IF e.type = "OBJECT_END" THEN C_RCURB ELSE "]"
  <2>1. Body(e, pretty) = <<ch>>
    BY <1>3 DEF Body, Closing
  <2>2. ch \in Char
    BY DEF Char, Named
  <2>3. ch = (IF e.type = "OBJECT_END" THEN C_RCURB ELSE "]")
    OBVIOUS
  <2> HIDE DEF ch
  <2>4. r = json_parser_char(p, ch) /\ Body(e, pretty) \in Seq(Char)
    BY <1>1, <2>1, <2>2
  <2> QED BY <1>3, <2>3, <2>4, ClosingRead
<1>4. CASE e.type \in {"INT", "FLOAT"}
  <2>1. Body(e, pretty) = e.data /\ Ready(c, o, p)
    BY <1>4 DEF Body, Closing
  <2> QED BY <1>4, <2>1, ValueNumberRead
<1>5. CASE e.type \in {"TRUE", "FALSE", "NULL"}
  <2>1. /\ Words["TRUE"] = <<"t", "r", "u", "e">>
        /\ Words["FALSE"] = <<"f", "a", "l", "s", "e">>
        /\ Words["NULL"] = <<"n", "u", "l", "l">>
    BY DEF Words
  <2>2. /\ e.type = "TRUE" => Body(e, pretty) = <<"t", "r", "u", "e">>
        /\ e.type = "FALSE" => Body(e, pretty) = <<"f", "a", "l", "s", "e">>
        /\ e.type = "NULL" => Body(e, pretty) = <<"n", "u", "l", "l">>
    BY DEF Body
  <2>3. Body(e, pretty) = Words[e.type]
    BY <1>5, <2>1, <2>2
  <2>4. Ready(c, o, p)
    BY <1>5 DEF Closing
  <2> QED BY <1>5, <2>3, <2>4, ValueWordRead
<1>6. CASE e.type = "STRING"
  <2>1. Body(e, pretty) = print_string(e.data) /\ Ready(c, o, p)
    BY <1>6 DEF Body, Closing
  <2> QED BY <1>6, <2>1, ValueStringRead
<1>7. CASE e.type = "KEY"
  <2> DEFINE t == IF pretty THEN <<C_SPACE>> ELSE <<>>
             s == print_string(e.data)
             y == <<":">>
  <2>1. Ready(c, o, p) /\ Body(e, pretty) = s \o (IF pretty THEN <<":", C_SPACE>> ELSE <<":">>)
    BY <1>7 DEF Body, Closing
  <2>2. t \in Seq(White)
    <3>1. C_SPACE \in White
      BY DEF White
    <3> HIDE DEF White
    <3>2. <<C_SPACE>> \in Seq(White) /\ <<>> \in Seq(White)
      BY <3>1
    <3> QED BY <3>2
  <2>3. s \in Seq(Char)
    <3>1. Follows(c, o, e, json_parser_string(p, s \o y \o t)) /\ s \o y \o t \in Seq(Char)
      BY <1>7, <2>1, <2>2, KeyRead
    <3>2. Top(Nested(o)) = "OBJECT"
      BY <1>7, NestTop
    <3>3. p.state \in {"_O", "_K", "_V", "_A"} /\ Live(c, p) /\ p.buffer = <<>>
      BY <2>1, <3>2, ReadyAt DEF Ready
    <3>4. e.data \in Seq(Char) /\ Readable(e.data)
      BY <1>7 DEF Items, Spells
    <3> QED BY <3>3, <3>4, StringRead
  <2>4. Body(e, pretty) = s \o y \o t
    <3>1. ":" \in Char /\ C_SPACE \in Char
      BY DEF Char, Named, White
    <3>2. <<":", C_SPACE>> = y \o <<C_SPACE>> /\ y \in Seq(Char) /\ <<C_SPACE>> \in Seq(Char)
      BY <3>1, TwoIsOneAndOne
    <3> DEFINE z == <<C_SPACE>>
    <3>3. z \in Seq(Char) /\ <<":", C_SPACE>> = y \o z
      BY <3>2
    <3>4. t = IF pretty THEN z ELSE <<>>
      OBVIOUS
    <3> HIDE DEF s, t, z
    <3>5. y \in Seq(Char)
      BY <3>2
    <3>6. CASE pretty
      <4>1. Body(e, pretty) = s \o (y \o z) /\ t = z
        BY <2>1, <3>3, <3>4, <3>6
      <4> HIDE DEF y
      <4>2. y \in Seq(Char) /\ z \in Seq(Char) /\ s \in Seq(Char)
        BY <2>3, <3>3, <3>5
      <4>3. (s \o y) \o z = s \o (y \o z)
        BY <4>2, ConcatAssociative
      <4> QED BY <4>1, <4>3
    <3>7. CASE ~pretty
      <4>1. Body(e, pretty) = s \o y /\ t = <<>>
        BY <2>1, <3>4, <3>7
      <4> HIDE DEF y
      <4>2. s \o y \in Seq(Char)
        BY <2>3, <3>5, ConcatProperties
      <4>3. (s \o y) \o <<>> = s \o y
        BY <4>2, ConcatEmptySeq
      <4> QED BY <4>1, <4>3
    <3> QED BY <3>6, <3>7
  <2>5. r = json_parser_string(p, print_string(e.data) \o <<":">> \o t)
    BY <2>4
  <2>6. Body(e, pretty) = print_string(e.data) \o <<":">> \o t
    BY <2>4
  <2> HIDE DEF t
  <2> QED BY <1>7, <2>1, <2>2, <2>5, <2>6, KeyRead
<1> QED BY <1>2, <1>3, <1>4, <1>5, <1>6, <1>7 DEF Items, ItemTypes

-----------------------------------------------------------------------------
(* A document read back *)

(* One more item is printed and read. *)
LEMMA ItemRead ==
  ASSUME NEW c, IsConfig(c), c.max_data = 0, NEW o \in Seq(Items), NEW printer, NEW p,
         Stands(c, o, printer, p),
         NEW e \in Items, Spells(e), Utf8Left(e.data) = 0,
         Nest(Nested(o), e.type) # <<"BAD">>,
         c.max_nesting > 0 => Len(Nest(Nested(o), e.type)) - 1 <= c.max_nesting,
         NEW pretty \in BOOLEAN, NEW m, m = json_print_mode(printer, e, pretty),
         NEW i, i = json_parser_init(c), printer.out \in Seq(Char),
         p = json_parser_string(i, printer.out)
  PROVE  /\ m.out \in Seq(Char)
         /\ Stands(c, Append(o, e), m, json_parser_string(i, m.out))
<1> DEFINE s == Comma(printer, e)
           t == Indent(printer, e, pretty)
           u == Body(e, pretty)
           v == json_parser_string(json_parser_string(p, s), t)
           r == json_parser_string(v, u)
<1>1. /\ printer.indentlevel \in Int /\ printer.afterkey \in BOOLEAN /\ printer.first \in BOOLEAN
  BY DEF Stands
<1>2. /\ m.indentlevel = Level(printer, e)
      /\ (m.enter_object <=> e.type \in Opening)
      /\ m.first \in BOOLEAN
      /\ m.afterkey \in BOOLEAN /\ (m.afterkey <=> e.type = "KEY")
  BY PrintIs
<1>21. m.out = ((printer.out \o s) \o t) \o u
  BY <1>1, PrintOut
<1>3. s \in Seq(Char) /\ t \in Seq(Char) /\ Level(printer, e) \in Int
  BY <1>1, BeforeItem
<1>4. /\ e.type \notin Closing => Ready(c, o, v)
      /\ e.type \in Closing => Closable(c, o, v) /\ (v.state = "_V" => Top(Nested(o)) = "KEYED")
  BY BeforeRead
<1>5. r = json_parser_string(v, Body(e, pretty))
  OBVIOUS
<1>6. v = json_parser_string(json_parser_string(p, s), t)
  OBVIOUS
<1> HIDE DEF v, r
<1>7. Follows(c, o, e, r) /\ u \in Seq(Char)
  BY <1>4, <1>5, BodyRead
<1>8. u = Body(e, pretty)
  OBVIOUS
<1> HIDE DEF s, t, u
<1>9. m.out \in Seq(Char) /\ json_parser_string(i, m.out) = r
  <2> DEFINE x == printer.out
  <2>1. x \in Seq(Char) /\ p = json_parser_string(i, x) /\ m.out = ((x \o s) \o t) \o u
    BY <1>21
  <2> HIDE DEF x
  <2>2. /\ ((x \o s) \o t) \o u \in Seq(Char)
        /\ json_parser_string(i, ((x \o s) \o t) \o u) =
              json_parser_string(json_parser_string(json_parser_string(
                json_parser_string(i, x), s), t), u)
    BY <1>3, <1>7, <2>1, ReadThree
  <2> QED BY <1>5, <1>6, <1>8, <2>1, <2>2
<1>10. Append(o, e) \in Seq(Items)
  OBVIOUS
<1>11. e.type = "KEY" => Top(Nested(Append(o, e))) = "KEYED"
  <2> SUFFICES ASSUME e.type = "KEY" PROVE Top(Nested(Append(o, e))) = "KEYED"
    OBVIOUS
  <2>1. Nested(Append(o, e)) = Nest(Nested(o), e.type)
    BY NestedAppend
  <2>2. Top(Nested(o)) = "OBJECT"
    BY NestTop
  <2>3. Shape(Nested(o))
    BY OpenIs DEF Stands
  <2> QED BY <2>1, <2>2, <2>3, NestItem
<1>12. CASE e.type = "KEY"
  <2>1. m.afterkey /\ ~m.enter_object /\ m.afterkey \in BOOLEAN
    BY <1>2, <1>12 DEF Opening
  <2> QED BY <1>2, <1>3, <1>7, <1>9, <1>10, <1>11, <1>12, <2>1 DEF Stands, Follows
<1>13. CASE e.type \in Opening
  <2>1. ~m.afterkey /\ m.enter_object /\ m.afterkey \in BOOLEAN
    BY <1>2, <1>13 DEF Opening
  <2> QED BY <1>2, <1>3, <1>7, <1>9, <1>10, <1>13, <2>1 DEF Stands, Follows
<1>14. CASE e.type \notin Opening \cup {"KEY"}
  <2>1. ~m.afterkey /\ ~m.enter_object /\ m.afterkey \in BOOLEAN
    BY <1>2, <1>14
  <2> QED BY <1>2, <1>3, <1>7, <1>9, <1>10, <1>14, <2>1 DEF Stands, Follows
<1> QED BY <1>12, <1>13, <1>14

(* The new parser has read nothing of nothing. *)
LEMMA InitStands ==
  ASSUME NEW c, IsConfig(c), NEW i, i = json_parser_init(c)
  PROVE  Stands(c, <<>>, json_print_init, i)
<1>1. Held(c, i)
  BY InitHeld
<1>2. i.ret = "0" /\ i.out = <<>> /\ i.buffer = <<>> /\ i.state = "GO" /\ i.type = "NONE"
  BY DEF json_parser_init
<1>3. Legible(i)
  <2>1. Wellmade(c, <<>>)
    <3>1. AllSpell(<<>>)
      BY DEF AllSpell
    <3>2. ASSUME c.max_nesting > 0 PROVE Depths(c.max_nesting, <<>>)
      <4> DEFINE x == <<>>
      <4>1. Len(x) = 0 /\ \A k \in 0 .. 0 : SubSeq(x, 1, k) = x
        OBVIOUS
      <4>2. Nested(x) = <<"START">>
        BY NestedEmpty
      <4>3. Len(<<"START">>) = 1
        OBVIOUS
      <4> HIDE DEF x
      <4>4. \A k \in 0 .. Len(x) : Nested(SubSeq(x, 1, k)) = <<"START">>
        BY <4>1, <4>2
      <4>5. \A k \in 0 .. Len(x) : Len(Nested(SubSeq(x, 1, k))) = 1
        BY <4>3, <4>4
      <4>6. ASSUME NEW k \in 0 .. Len(x)
            PROVE  Len(Nested(SubSeq(x, 1, k))) - 1 <= c.max_nesting
        <5> DEFINE l == Len(Nested(SubSeq(x, 1, k)))
        <5>1. l = 1 /\ c.max_nesting \in Nat
          BY <4>5, <4>6 DEF IsConfig
        <5> HIDE DEF l
        <5>2. l - 1 <= c.max_nesting
          BY <5>1
        <5> QED BY <5>2 DEF l
      <4>7. Depths(c.max_nesting, x)
        BY <4>6 DEF Depths
      <4> QED BY <4>7 DEF x
    <3> QED BY <3>1, <3>2 DEF Wellmade
  <2>2. Spells([type |-> "NONE", data |-> <<>>])
    BY DEF Spells
  <2>3. Buffered(i)
    BY <1>2, <2>2, BufferedFrom DEF Strings, Numbers, Ints, Floats
  <2>4. Fits(c, i)
    BY <1>1 DEF Held
  <2> QED BY <1>2, <2>1, <2>3, <2>4, LegibleIs
<1>4. <<>> \in Seq(Items) /\ Flushed(i) = <<>>
  BY <1>2 DEF Flushed
<1> QED BY <1>1, <1>2, <1>3, <1>4 DEF Stands, Live, json_print_init

(* What the printer makes of items is read as them. *)
LEMMA PrintedRead ==
  ASSUME NEW c, IsConfig(c), c.max_data = 0, NEW o \in Seq(Items), Wellmade(c, o), Whole(o),
         Nested(o) # <<"BAD">>, NEW pretty \in BOOLEAN,
         NEW printer, printer = Prints(o, pretty)
  PROVE  /\ printer.out \in Seq(Char)
         /\ Stands(c, o, printer, json_parser_string(json_parser_init(c), printer.out))
<1> DEFINE i == json_parser_init(c)
           f(k) == Prints(SubSeq(o, 1, k), pretty)
           T == {k \in 0 .. Len(o) :
                  /\ f(k).out \in Seq(Char)
                  /\ Stands(c, SubSeq(o, 1, k), f(k), json_parser_string(i, f(k).out))}
<1>0. Len(o) \in Nat /\ SubSeq(o, 1, 0) = <<>> /\ SubSeq(o, 1, Len(o)) = o /\ 0 \in 0 .. Len(o)
  OBVIOUS
<1>1. 0 \in T
  <2>1. f(0) = json_print_init
    BY <1>0, PrintsEmpty
  <2>2. f(0).out = <<>>
    BY <2>1 DEF json_print_init
  <2>3. json_parser_string(i, f(0).out) = i
    BY <2>2, ReadEmpty
  <2>5. i = json_parser_init(c)
    OBVIOUS
  <2> HIDE DEF f, i
  <2>4. f(0).out \in Seq(Char)
    <3>1. <<>> \in Seq(Char)
      OBVIOUS
    <3> QED BY <2>2, <3>1
  <2>6. Stands(c, <<>>, f(0), i)
    BY <2>1, <2>5, InitStands
  <2> QED BY <1>0, <2>3, <2>4, <2>6
<1>2. ASSUME NEW k \in 1 .. Len(o), k - 1 \in T PROVE k \in T
  <2> DEFINE x == SubSeq(o, 1, k - 1)
             e == o[k]
             g == f(k - 1)
             m == f(k)
             p == json_parser_string(i, g.out)
  <2>1. SubSeq(o, 1, k) = Append(x, e) /\ x \in Seq(Items) /\ e \in Items /\ k \in 0 .. Len(o)
        /\ SubSeq(o, 1, k) \in Seq(Items)
    BY <1>0, PrefixStep
  <2>2. m = json_print_mode(g, e, pretty)
    BY <2>1, PrintsAppend
  <2>3. g.out \in Seq(Char) /\ Stands(c, x, g, p)
    BY <1>2
  <2>4. Spells(e) /\ Utf8Left(e.data) = 0
    BY DEF Wellmade, AllSpell, Whole
  <2>5. Nested(SubSeq(o, 1, k)) = Nest(Nested(x), e.type)
    BY <2>1, NestedAppend
  <2>6. Nest(Nested(x), e.type) # <<"BAD">>
    <3>1. Nested(SubSeq(o, 1, k)) # <<"BAD">>
      BY <2>1, NestedPrefix
    <3> QED BY <2>5, <3>1
  <2>7. c.max_nesting > 0 => Len(Nest(Nested(x), e.type)) - 1 <= c.max_nesting
    <3>1. c.max_nesting > 0 => Len(Nested(SubSeq(o, 1, k))) - 1 <= c.max_nesting
      BY <2>1 DEF Wellmade, Depths
    <3> QED BY <2>5, <3>1
  <2>8. p = json_parser_string(i, g.out) /\ i = json_parser_init(c)
    OBVIOUS
  <2> HIDE DEF f, i, x, e, g, m, p
  <2>9. m.out \in Seq(Char)
    BY <2>1, <2>2, <2>3, <2>4, <2>6, <2>7, <2>8, ItemRead
  <2>10. Stands(c, Append(x, e), m, json_parser_string(i, m.out))
    BY <2>1, <2>2, <2>3, <2>4, <2>6, <2>7, <2>8, ItemRead
  <2> QED BY <2>1, <2>9, <2>10 DEF m
<1> HIDE DEF T
<1>3. \A k \in 0 .. Len(o) : k \in T
  BY <1>0, <1>1, <1>2, IntervalInduction
<1>4. Len(o) \in T
  BY <1>0, <1>3
<1> QED BY <1>0, <1>4 DEF T

(* A parser without a limit on data. *)
LEMMA Unlimited ==
  ASSUME NEW c, IsConfig(c), NEW d, d = [c EXCEPT !.max_data = 0]
  PROVE  IsConfig(d) /\ d.max_data = 0 /\ d.max_nesting = c.max_nesting
BY DEF IsConfig

(* After a document nothing is pending and nothing is open. *)
LEMMA DocumentIs ==
  ASSUME NEW c, NEW p, Live(c, p), p.state = "OK", p.stack = <<>>
  PROVE  p.type = "NONE" /\ Nested(p.out) = <<"ROOT">>
<1> DEFINE n == Nested(p.out)
<1>1. Fits(c, p) /\ p.ret = "0" /\ Nesting(p)
  BY DEF Live, Held
<1>2. Shape(n) /\ Modes(n) = p.stack /\ Expects(p, Top(n))
  BY <1>1, NestingIs
<1> HIDE DEF n
<1>3. Len(n) = 1
  BY <1>2, StackTop
<1>4. n \in Seq(Opens) /\ Top(n) \notin {"OBJECT", "ARRAY", "KEYED"} /\ n[1] \in {"START", "ROOT"}
  <2>1. Top(n) \in {"OBJECT", "ARRAY", "KEYED"} <=> Len(n) > 1
    BY <1>2, ShapeIs
  <2> QED BY <1>2, <1>3, <2>1, ShapeIs
<1>5. Resumed(p) = "OK"
  BY DEF Resumed, Comments
<1>6. p.type = "NONE" /\ Top(n) = "ROOT"
  BY <1>2, <1>4, <1>5 DEF Expects
<1>7. n[1] = "ROOT"
  BY <1>3, <1>6 DEF Top
<1>8. n = <<"ROOT">>
  <2> DEFINE x == <<"ROOT">>
  <2>1. x \in Seq(Opens) /\ Len(x) = 1 /\ x[1] = "ROOT"
    BY DEF Opens
  <2> HIDE DEF x
  <2>2. n = x
    BY <1>3, <1>4, <1>7, <2>1, SeqEqual
  <2> QED BY <2>2 DEF x
<1> QED BY <1>6, <1>8 DEF n

(* Printed and read again its items are the same. *)
LEMMA ReadsBack ==
  ASSUME NEW c, IsConfig(c), NEW p, Live(c, p), p.state = "OK", p.stack = <<>>,
         NEW pretty \in BOOLEAN, NEW d, d = [c EXCEPT !.max_data = 0],
         NEW again, again = Parse(d, Printed(p.out, pretty))
  PROVE  again.ret = "0" /\ json_parser_is_done(again) /\ again.out = p.out
<1>1. IsConfig(d) /\ d.max_data = 0 /\ d.max_nesting = c.max_nesting
  BY Unlimited
<1> DEFINE o == p.out
           printer == Prints(o, pretty)
           i == json_parser_init(d)
<1>2. Nested(o) = <<"ROOT">>
  BY DocumentIs
<1>3. o \in Seq(Items) /\ Wellmade(d, o) /\ Whole(o)
  <2>1. Fits(c, p) /\ Legible(p) /\ Utf8(p)
    BY DEF Live, Held
  <2>2. Wellmade(c, o)
    BY <2>1, LegibleIs
  <2>3. o \in Seq(Items)
    BY <2>1, Fields DEF Fits, Items
  <2> QED BY <1>1, <2>1, <2>2, <2>3 DEF Wellmade, Utf8, Whole
<1>4. Printed(p.out, pretty) = printer.out
  BY DEF Printed, Prints
<1> HIDE DEF o
<1>5. Nested(o) # <<"BAD">>
  <2>1. <<"ROOT">> # <<"BAD">>
    OBVIOUS
  <2> QED BY <1>2, <2>1
<1>6. printer = Prints(o, pretty)
  OBVIOUS
<1> HIDE DEF printer
<1>7. printer.out \in Seq(Char)
  BY <1>1, <1>3, <1>5, <1>6, PrintedRead
<1>8. Stands(d, o, printer, json_parser_string(i, printer.out))
  BY <1>1, <1>3, <1>5, <1>6, PrintedRead
<1>9. again = json_parser_string(i, printer.out)
  BY <1>4, <1>7, ParseIsString
<1>10. Live(d, again) /\ Flushed(again) = o /\ again.state \in {"GO", "_O", "_A", "_V", "OK"} \cup Ending
  BY <1>8, <1>9 DEF Stands
<1>11. Top(Nested(o)) = "ROOT"
  <2> DEFINE x == <<"ROOT">>
  <2>1. Len(x) = 1 /\ x[1] = "ROOT"
    OBVIOUS
  <2>2. Nested(o) = x
    BY <1>2
  <2> HIDE DEF x
  <2> QED BY <2>1, <2>2 DEF Top
<1>12. /\ Shape(Nested(o)) /\ Modes(Nested(o)) = again.stack
       /\ again.state \in {"OK"} \cup Ending
  BY <1>10, <1>11, OpenIs
<1>13. again.stack = <<>>
  <2>1. Len(Nested(o)) = 1
    BY <1>2
  <2> QED BY <1>12, <2>1, StackTop
<1>14. again.type = "NONE"
  <2> SUFFICES ASSUME again.type # "NONE" PROVE FALSE
    OBVIOUS
  <2>1. Fits(d, again) /\ again.ret = "0" /\ Nesting(again)
    BY <1>10 DEF Live, Held
  <2>2. Top(Nested(Flushed(again))) = IF Top(Nested(again.out)) = "KEYED" THEN "OBJECT" ELSE "ARRAY"
    BY <2>1, FlushedNests
  <2> QED BY <1>10, <1>11, <2>2
<1>15. again.out = p.out
  BY <1>10, <1>14 DEF Flushed, o
<1>16. again.state # "GO" /\ again.ret = "0"
  BY <1>10, <1>12 DEF Ending, Live
<1> QED BY <1>13, <1>15, <1>16 DEF json_parser_is_done

-----------------------------------------------------------------------------
(* Strings that are printed as they are *)

(* Something appended, as a concatenation. *)
LEMMA AppendConcat ==
  ASSUME NEW S, NEW x, x \in Seq(S), NEW e \in S
  PROVE  Append(x, e) = x \o <<e>> /\ <<e>> \in Seq(S) /\ Append(x, e) \in Seq(S)
<1>1. Append(x, e) = x \o <<e>>
  OBVIOUS
<1>2. <<e>> \in Seq(S)
  OBVIOUS
<1>3. Append(x, e) \in Seq(S)
  OBVIOUS
<1> QED BY <1>1, <1>2, <1>3

(* Concatenation is associative, *)
LEMMA Regroup ==
  ASSUME NEW a, a \in Seq(Char), NEW b, b \in Seq(Char), NEW c, c \in Seq(Char)
  PROVE  (a \o b) \o c = a \o (b \o c) /\ a \o b \in Seq(Char) /\ b \o c \in Seq(Char)
<1>1. (a \o b) \o c = a \o (b \o c)
  BY ConcatAssociative
<1>2. a \o b \in Seq(Char)
  BY ConcatProperties
<1>3. b \o c \in Seq(Char)
  BY ConcatProperties
<1> QED BY <1>1, <1>2, <1>3

(* also with what is appended, *)
LEMMA AppendAfter ==
  ASSUME NEW a, a \in Seq(Char), NEW b, b \in Seq(Char), NEW ch \in Char
  PROVE  a \o Append(b, ch) = Append(a \o b, ch)
<1> DEFINE z == <<ch>>
<1>1. Append(b, ch) = b \o z /\ z \in Seq(Char)
  BY AppendConcat
<1>2. a \o b \in Seq(Char)
  BY ConcatProperties
<1>3. Append(a \o b, ch) = (a \o b) \o z
  <2> DEFINE ab == a \o b
  <2>1. ab \in Seq(Char)
    BY <1>2
  <2> HIDE DEF ab
  <2>2. Append(ab, ch) = ab \o z
    BY <2>1, AppendConcat
  <2> QED BY <2>2 DEF ab
<1> HIDE DEF z
<1> QED BY <1>1, <1>3, Regroup

(* and nothing is its unit. *)
LEMMA NothingAfter ==
  ASSUME NEW a, a \in Seq(Char)
  PROVE  a \o <<>> = a
BY ConcatEmptySeq

(* A string is printed as characters, *)
LEMMA EscapedType ==
  ASSUME NEW ch \in Char
  PROVE  escaped(ch) \in Seq(Char)
<1>1. CASE ch \notin DOMAIN character_escape
  BY <1>1 DEF escaped
<1>2. CASE ch \in DOMAIN character_escape /\ ch # "^"
  <2>1. PICK e : escaped(ch) = <<"\\", e>> /\ e \in Named
    BY <1>2, EscapesAre
  <2>2. "\\" \in Char /\ e \in Char
    BY <2>1 DEF Char, Named
  <2> QED BY <2>1, <2>2
<1>3. CASE ch \in DOMAIN character_escape /\ ch = "^"
  <2>1. escaped(ch) = <<"\\", "u", "0", "0", "0", "1">>
    <3>1. "^" # C_QUOTE
      BY NamedAreFine DEF Named, ErrorChar
    <3> QED BY <1>3, <3>1 DEF escaped, character_escape
  <2>2. {"\\", "u", "0", "1"} \subseteq Char
    BY DEF Char, Named, Hex, Digit
  <2>3. <<"\\", "u", "0", "0", "0", "1">> \in Seq(Char)
    BY <2>2
  <2> QED BY <2>1, <2>3
<1> QED BY <1>1, <1>2, <1>3

(* and so is the string as a whole. *)
LEMMA QuotedType ==
  ASSUME NEW d, d \in Seq(Char)
  PROVE  print_quoted(d) \in Seq(Char) /\ print_string(d) \in Seq(Char)
<1> DEFINE T == {i \in 0 .. Len(d) : print_quoted(SubSeq(d, 1, i)) \in Seq(Char)}
<1>0. Len(d) \in Nat /\ SubSeq(d, 1, 0) = <<>> /\ SubSeq(d, 1, Len(d)) = d /\ 0 \in 0 .. Len(d)
  OBVIOUS
<1>1. C_QUOTE \in Char
  BY DEF Char, Named
<1>2. 0 \in T
  <2>1. <<C_QUOTE>> \in Seq(Char)
    BY <1>1
  <2> QED BY <1>0, <2>1, print_quotedEmpty
<1>3. ASSUME NEW i \in 1 .. Len(d), i - 1 \in T PROVE i \in T
  <2>1. /\ SubSeq(d, 1, i) = Append(SubSeq(d, 1, i - 1), d[i])
        /\ SubSeq(d, 1, i - 1) \in Seq(Char) /\ d[i] \in Char /\ i \in 0 .. Len(d)
    BY <1>0, PrefixStep
  <2>2. print_quoted(SubSeq(d, 1, i)) = print_quoted(SubSeq(d, 1, i - 1)) \o escaped(d[i])
    BY <2>1, print_quotedAppend
  <2>3. print_quoted(SubSeq(d, 1, i - 1)) \in Seq(Char) /\ escaped(d[i]) \in Seq(Char)
    BY <1>3, <2>1, EscapedType
  <2> QED BY <2>1, <2>2, <2>3, ConcatProperties
<1> HIDE DEF T
<1>4. \A i \in 0 .. Len(d) : i \in T
  BY <1>0, <1>2, <1>3, IntervalInduction
<1>5. Len(d) \in T
  BY <1>0, <1>4
<1>6. print_quoted(d) \in Seq(Char)
  BY <1>0, <1>5 DEF T
<1> DEFINE x == print_quoted(d)
<1>7. x \in Seq(Char) /\ print_string(d) = Append(x, C_QUOTE)
  BY <1>6 DEF print_string
<1> HIDE DEF x
<1>8. Append(x, C_QUOTE) \in Seq(Char)
  BY <1>1, <1>7
<1> QED BY <1>6, <1>7, <1>8

(* A string without characters that have an escape is printed as it is. *)
LEMMA PlainPrinted ==
  ASSUME NEW d, d \in Seq(Char), \A i \in DOMAIN d : d[i] \notin DOMAIN character_escape
  PROVE  print_quoted(d) = <<C_QUOTE>> \o d
<1> DEFINE y == <<C_QUOTE>>
           T == {i \in 0 .. Len(d) : print_quoted(SubSeq(d, 1, i)) = y \o SubSeq(d, 1, i)}
<1>0. Len(d) \in Nat /\ SubSeq(d, 1, 0) = <<>> /\ SubSeq(d, 1, Len(d)) = d /\ 0 \in 0 .. Len(d)
      /\ \A i \in 1 .. Len(d) : d[i] \notin DOMAIN character_escape
  OBVIOUS
<1>1. y \in Seq(Char)
  <2>1. C_QUOTE \in Char
    BY DEF Char, Named
  <2> QED BY <2>1
<1>2. 0 \in T
  <2>1. y \o <<>> = y
    BY <1>1
  <2> QED BY <1>0, <2>1, print_quotedEmpty
<1>3. ASSUME NEW i \in 1 .. Len(d), i - 1 \in T PROVE i \in T
  <2> DEFINE x == SubSeq(d, 1, i - 1)
             e == d[i]
             z == <<e>>
  <2>1. /\ SubSeq(d, 1, i) = Append(x, e)
        /\ x \in Seq(Char) /\ e \in Char /\ i \in 0 .. Len(d)
    BY <1>0, PrefixStep
  <2>2. print_quoted(SubSeq(d, 1, i)) = print_quoted(x) \o escaped(e)
    BY <2>1, print_quotedAppend
  <2>3. escaped(e) = z /\ print_quoted(x) = y \o x
    BY <1>0, <1>3 DEF escaped
  <2> HIDE DEF x, y, e
  <2>4. z \in Seq(Char)
    BY <2>1
  <2>5. Append(x, e) = x \o z
    BY <2>1, AppendConcat
  <2> HIDE DEF z
  <2>6. (y \o x) \o z = y \o (x \o z)
    <3>1. y \in Seq(Char) /\ x \in Seq(Char)
      BY <1>1, <2>1 DEF y
    <3> HIDE DEF T
    <3> QED BY <2>4, <3>1, Regroup
  <2>7. print_quoted(SubSeq(d, 1, i)) = y \o SubSeq(d, 1, i)
    BY <2>1, <2>2, <2>3, <2>5, <2>6
  <2> QED BY <2>1, <2>7 DEF y
<1> HIDE DEF T
<1>4. \A i \in 0 .. Len(d) : i \in T
  BY <1>0, <1>2, <1>3, IntervalInduction
<1>5. Len(d) \in T
  BY <1>0, <1>4
<1> QED BY <1>0, <1>5 DEF T

-----------------------------------------------------------------------------
(* The printer without layout *)

(* Raw output, and what the printer knows of the item before. *)
Raw(o) == Prints(o, FALSE).out
Opened(o) == Prints(o, FALSE).enter_object
Keyed(o) == Prints(o, FALSE).afterkey

(* The comma before an item that is not the first. *)
Sep(o) == IF ~Opened(o) /\ ~Keyed(o) THEN <<C_COMMA>> ELSE <<>>
Lead(o) == Raw(o) \o Sep(o)

(* What is printed of an item are characters. *)
LEMMA BodyType ==
  ASSUME NEW e \in Items
  PROVE  Body(e, FALSE) \in Seq(Char)
<1>1. e.data \in Seq(Char) /\ e.type \in ItemTypes
  BY DEF Items
<1>2. Named \subseteq Char
  BY DEF Char
<1>3. {"[", "]", C_LCURB, C_RCURB, ":"} \subseteq Named
  BY DEF Named
<1>4. {"n", "u", "l", "t", "r", "e", "f", "a", "s"} \subseteq Named
  BY DEF Named, Hex
<1>5. CASE e.type \in Opening \cup Closing
  <2>1. \A ch \in Named : <<ch>> \in Seq(Char)
    BY <1>2
  <2>2. Body(e, FALSE) \in {<<"[">>, <<"]">>, <<C_LCURB>>, <<C_RCURB>>}
    BY <1>5 DEF Body, Opening, Closing
  <2> QED BY <1>3, <2>1, <2>2
<1>6. CASE e.type \in {"INT", "FLOAT"}
  BY <1>1, <1>6 DEF Body
<1>7. CASE e.type = "NULL"
  <2>1. <<"n", "u", "l", "l">> \in Seq(Char)
    BY <1>2, <1>4
  <2>2. Body(e, FALSE) = <<"n", "u", "l", "l">>
    BY <1>7 DEF Body
  <2> QED BY <2>1, <2>2
<1>8. CASE e.type = "TRUE"
  <2>1. <<"t", "r", "u", "e">> \in Seq(Char)
    BY <1>2, <1>4
  <2>2. Body(e, FALSE) = <<"t", "r", "u", "e">>
    BY <1>8 DEF Body
  <2> QED BY <2>1, <2>2
<1>9. CASE e.type = "FALSE"
  <2>1. <<"f", "a", "l", "s", "e">> \in Seq(Char)
    BY <1>2, <1>4
  <2>2. Body(e, FALSE) = <<"f", "a", "l", "s", "e">>
    BY <1>9 DEF Body
  <2> QED BY <2>1, <2>2
<1>10. CASE e.type = "KEY"
  <2>1. Body(e, FALSE) = print_string(e.data) \o <<":">>
    BY <1>10 DEF Body
  <2> DEFINE z == <<":">>
             s == print_string(e.data)
  <2>2. z \in Seq(Char)
    BY <1>2, <1>3
  <2>3. s \in Seq(Char)
    BY <1>1, QuotedType
  <2> HIDE DEF s, z
  <2>4. s \o z \in Seq(Char)
    BY <2>2, <2>3, ConcatProperties
  <2> QED BY <2>1, <2>4 DEF s, z
<1>11. CASE e.type = "STRING"
  <2>1. Body(e, FALSE) = print_string(e.data)
    BY <1>11 DEF Body
  <2> QED BY <1>1, <2>1, QuotedType
<1> QED BY <1>1, <1>5, <1>6, <1>7, <1>8, <1>9, <1>10, <1>11 DEF ItemTypes

(* Nothing is printed at the start, *)
LEMMA RawEmpty ==
  Raw(<<>>) = <<>> /\ Opened(<<>>)
<1>1. Prints(<<>>, FALSE) = json_print_init
  BY PrintsEmpty
<1>2. json_print_init.out = <<>> /\ json_print_init.enter_object
  BY DEF json_print_init
<1> HIDE DEF json_print_init
<1>3. Raw(<<>>) = <<>>
  BY <1>1, <1>2 DEF Raw
<1>4. Opened(<<>>)
  BY <1>1, <1>2 DEF Opened
<1> QED BY <1>3, <1>4

(* the output is made of characters, *)
LEMMA RawType ==
  ASSUME NEW o \in Seq(Items)
  PROVE  /\ Raw(o) \in Seq(Char) /\ Opened(o) \in BOOLEAN /\ Keyed(o) \in BOOLEAN
         /\ Prints(o, FALSE).first \in BOOLEAN
<1> DEFINE P(q) == /\ q.out \in Seq(Char) /\ q.enter_object \in BOOLEAN
                   /\ q.afterkey \in BOOLEAN /\ q.first \in BOOLEAN
           T == {i \in 0 .. Len(o) : P(Prints(SubSeq(o, 1, i), FALSE))}
<1>0. Len(o) \in Nat /\ SubSeq(o, 1, 0) = <<>> /\ SubSeq(o, 1, Len(o)) = o /\ 0 \in 0 .. Len(o)
  OBVIOUS
<1>1. 0 \in T
  <2>1. Prints(<<>>, FALSE) = json_print_init
    BY PrintsEmpty
  <2>2. P(json_print_init)
    BY DEF json_print_init
  <2> QED BY <1>0, <2>1, <2>2
<1>2. ASSUME NEW i \in 1 .. Len(o), i - 1 \in T PROVE i \in T
  <2> DEFINE x == SubSeq(o, 1, i - 1)
             e == o[i]
             q == Prints(x, FALSE)
             m == json_print_mode(q, e, FALSE)
  <2>1. SubSeq(o, 1, i) = Append(x, e) /\ x \in Seq(Items) /\ e \in Items /\ i \in 0 .. Len(o)
    BY <1>0, PrefixStep
  <2>2. Prints(SubSeq(o, 1, i), FALSE) = m
    BY <2>1, PrintsAppend
  <2>3. q.out \in Seq(Char) /\ q.afterkey \in BOOLEAN /\ q.first \in BOOLEAN
    BY <1>2
  <2> HIDE DEF x, e, q
  <2>4. m.first \in BOOLEAN /\ m.afterkey \in BOOLEAN
    BY PrintIs
  <2>5. m.enter_object \in BOOLEAN
    BY DEF json_print_mode
  <2>6. m.out = ((q.out \o Comma(q, e)) \o Indent(q, e, FALSE)) \o Body(e, FALSE)
    BY <2>3, PrintOut
  <2> DEFINE c == Comma(q, e)
             n == Indent(q, e, FALSE)
             b == Body(e, FALSE)
  <2>7. c \in Seq(Char)
    <3>1. C_COMMA \in Char
      BY DEF Char, Named
    <3> QED BY <3>1 DEF Comma
  <2>8. n \in Seq(Char)
    BY DEF Indent
  <2>9. b \in Seq(Char)
    BY <2>1, BodyType
  <2> HIDE DEF c, n, b, m
  <2>10. q.out \o c \in Seq(Char)
    BY <2>3, <2>7, ConcatProperties
  <2>11. (q.out \o c) \o n \in Seq(Char)
    BY <2>8, <2>10, ConcatProperties
  <2>12. ((q.out \o c) \o n) \o b \in Seq(Char)
    BY <2>9, <2>11, ConcatProperties
  <2>13. m.out \in Seq(Char)
    BY <2>6, <2>12 DEF c, n, b
  <2> QED BY <2>1, <2>2, <2>4, <2>5, <2>13
<1> HIDE DEF T
<1>3. \A i \in 0 .. Len(o) : i \in T
  BY <1>0, <1>1, <1>2, IntervalInduction
<1>4. P(Prints(o, FALSE))
  <2>1. Len(o) \in T
    BY <1>0, <1>3
  <2> QED BY <1>0, <2>1 DEF T
<1> QED BY <1>4 DEF Raw, Opened, Keyed

(* and an item adds what it looks like to it. *)
LEMMA RawAppend ==
  ASSUME NEW o \in Seq(Items), NEW e \in Items, NEW r, r = Append(o, e)
  PROVE  /\ Raw(r) = (IF e.type \in Closing THEN Raw(o) ELSE Lead(o)) \o Body(e, FALSE)
         /\ Opened(r) <=> e.type \in Opening
         /\ Keyed(r) <=> e.type = "KEY"
<1> DEFINE q == Prints(o, FALSE)
           m == json_print_mode(q, e, FALSE)
<1>1. Prints(r, FALSE) = m
  BY PrintsAppend
<1>2. q.out \in Seq(Char) /\ q.afterkey \in BOOLEAN /\ q.first \in BOOLEAN
  BY RawType DEF Raw, Opened, Keyed
<1>3. Raw(o) = q.out /\ Opened(o) = q.enter_object /\ Keyed(o) = q.afterkey
  BY DEF Raw, Opened, Keyed
<1> HIDE DEF q
<1>4. (m.enter_object <=> e.type \in Opening) /\ (m.afterkey <=> e.type = "KEY")
  BY PrintIs
<1>5. m.out = ((q.out \o Comma(q, e)) \o Indent(q, e, FALSE)) \o Body(e, FALSE)
  BY <1>2, PrintOut
<1>6. Indent(q, e, FALSE) = <<>>
  BY DEF Indent
<1>7. Comma(q, e) = IF e.type \in Closing THEN <<>> ELSE Sep(o)
  BY <1>3 DEF Comma, Sep
<1> DEFINE s == IF e.type \in Closing THEN Raw(o) ELSE Lead(o)
<1>8. q.out \o Comma(q, e) = s /\ s \in Seq(Char)
  <2>1. CASE e.type \in Closing
    BY <1>2, <1>3, <1>7, <2>1, NothingAfter
  <2>2. CASE e.type \notin Closing
    <3> DEFINE c == Sep(o)
    <3>1. c \in Seq(Char)
      <4>1. C_COMMA \in Char
        BY DEF Char, Named
      <4> QED BY <4>1 DEF Sep
    <3> HIDE DEF c
    <3>2. q.out \o c \in Seq(Char)
      BY <1>2, <3>1, ConcatProperties
    <3> QED BY <1>3, <1>7, <2>2, <3>2 DEF Lead, c
  <2> QED BY <2>1, <2>2
<1> HIDE DEF s
<1>9. s \o <<>> = s
  BY <1>8, NothingAfter
<1>10. m.out = s \o Body(e, FALSE)
  BY <1>5, <1>6, <1>8, <1>9
<1>11. Raw(r) = s \o Body(e, FALSE)
  BY <1>1, <1>10 DEF Raw
<1>12. (Opened(r) <=> e.type \in Opening) /\ (Keyed(r) <=> e.type = "KEY")
  <2> HIDE DEF m
  <2> QED BY <1>1, <1>4 DEF Opened, Keyed
<1> QED BY <1>11, <1>12 DEF s

(* The lead of an item is made of characters. *)
LEMMA LeadType ==
  ASSUME NEW o \in Seq(Items)
  PROVE  /\ Sep(o) \in Seq(Char) /\ Lead(o) \in Seq(Char)
         /\ (Opened(o) \/ Keyed(o)) => Lead(o) = Raw(o)
         /\ ~Opened(o) /\ ~Keyed(o) => Lead(o) = Append(Raw(o), C_COMMA)
<1>0. C_COMMA \in Char
  BY DEF Char, Named
<1>1. Sep(o) \in Seq(Char)
  BY <1>0 DEF Sep
<1>2. Raw(o) \in Seq(Char)
  BY RawType
<1> DEFINE x == Raw(o)
           c == Sep(o)
<1>3. x \in Seq(Char) /\ c \in Seq(Char) /\ Lead(o) = x \o c
  BY <1>1, <1>2 DEF Lead
<1>4. (Opened(o) \/ Keyed(o)) => c = <<>>
  BY DEF Sep
<1>5. ~Opened(o) /\ ~Keyed(o) => c = <<C_COMMA>>
  BY DEF Sep
<1> HIDE DEF c, x
<1>6. x \o c \in Seq(Char)
  BY <1>3, ConcatProperties
<1>7. x \o <<>> = x
  BY <1>3, NothingAfter
<1>8. Append(x, C_COMMA) = x \o <<C_COMMA>>
  BY <1>0, <1>3, AppendConcat
<1> QED BY <1>1, <1>3, <1>4, <1>5, <1>6, <1>7, <1>8 DEF x

-----------------------------------------------------------------------------
(* The text without layout and comments *)

(* The text so far and where its end is. *)
Bared(b, mode, kept) == b.mode = mode /\ b.text = kept

(* A character outside comments and strings, *)
LEMMA BareOutside ==
  ASSUME NEW b, b.mode = "plain", NEW ch
  PROVE  /\ ch \in White => Bared(BareNext(b, ch), "plain", b.text)
         /\ ch \notin White \cup {C_QUOTE, "#", "/"} =>
              Bared(BareNext(b, ch), "plain", Append(b.text, ch))
         /\ ch = C_QUOTE => Bared(BareNext(b, ch), "string", Append(b.text, ch))
         /\ ch = "#" => Bared(BareNext(b, ch), "yaml", b.text)
         /\ ch = "/" => Bared(BareNext(b, ch), "slash", b.text)
<1>0. C_QUOTE \notin White \cup {"#", "/"} /\ White \cap {"#", "/"} = {}
  BY QuotesApart, Apart DEF White
<1>1. ASSUME ch \in White PROVE Bared(BareNext(b, ch), "plain", b.text)
  BY <1>0, <1>1 DEF Bared, BareNext
<1>2. ASSUME ch \notin White \cup {C_QUOTE, "#", "/"}
      PROVE  Bared(BareNext(b, ch), "plain", Append(b.text, ch))
  BY <1>0, <1>2 DEF Bared, BareNext
<1>3. ASSUME ch = C_QUOTE PROVE Bared(BareNext(b, ch), "string", Append(b.text, ch))
  BY <1>0, <1>3 DEF Bared, BareNext
<1>4. ASSUME ch = "#" PROVE Bared(BareNext(b, ch), "yaml", b.text)
  BY <1>0, <1>4 DEF Bared, BareNext
<1>5. ASSUME ch = "/" PROVE Bared(BareNext(b, ch), "slash", b.text)
  BY <1>0, <1>5 DEF Bared, BareNext
<1> QED BY <1>1, <1>2, <1>3, <1>4, <1>5

(* in a string, *)
LEMMA BareString ==
  ASSUME NEW b, b.mode = "string", NEW ch
  PROVE  Bared(BareNext(b, ch), IF ch = C_QUOTE THEN "plain" ELSE "string", Append(b.text, ch))
<1>1. CASE ch = C_QUOTE
  BY <1>1 DEF Bared, BareNext
<1>2. CASE ch # C_QUOTE
  BY <1>2 DEF Bared, BareNext
<1> QED BY <1>1, <1>2

(* and in a comment. *)
LEMMA BareComment ==
  ASSUME NEW b, b.mode \in {"yaml", "slash", "c", "star"}, NEW ch
  PROVE  Bared(BareNext(b, ch),
               CASE b.mode = "yaml" -> IF ch = "\n" THEN "plain" ELSE "yaml"
                 [] b.mode = "slash" -> "c"
                 [] b.mode = "c" -> IF ch = "*" THEN "star" ELSE "c"
                 [] b.mode = "star" -> IF ch = "*" THEN "star"
                                       ELSE IF ch = "/" THEN "plain" ELSE "c",
               b.text)
<1>1. CASE b.mode = "yaml"
  BY <1>1 DEF Bared, BareNext
<1>2. CASE b.mode = "slash"
  BY <1>2 DEF Bared, BareNext
<1>3. CASE b.mode = "c"
  BY <1>3 DEF Bared, BareNext
<1>4. CASE b.mode = "star"
  BY <1>4 DEF Bared, BareNext
<1> QED BY <1>1, <1>2, <1>3, <1>4

(* The text that is left consists of characters. *)
LEMMA BareType ==
  ASSUME NEW t, t \in Seq(Char)
  PROVE  Stripped(t).text \in Seq(Char)
<1> DEFINE T == {i \in 0 .. Len(t) : Stripped(SubSeq(t, 1, i)).text \in Seq(Char)}
<1>0. Len(t) \in Nat /\ SubSeq(t, 1, 0) = <<>> /\ SubSeq(t, 1, Len(t)) = t /\ 0 \in 0 .. Len(t)
  OBVIOUS
<1>1. 0 \in T
  <2>1. Stripped(<<>>).text = <<>>
    BY StrippedEmpty
  <2>2. <<>> \in Seq(Char)
    OBVIOUS
  <2> QED BY <1>0, <2>1, <2>2
<1>2. ASSUME NEW i \in 1 .. Len(t), i - 1 \in T PROVE i \in T
  <2> DEFINE x == SubSeq(t, 1, i - 1)
             e == t[i]
             b == Stripped(x)
  <2>1. SubSeq(t, 1, i) = Append(x, e) /\ x \in Seq(Char) /\ e \in Char /\ i \in 0 .. Len(t)
    BY <1>0, PrefixStep
  <2>2. Stripped(SubSeq(t, 1, i)) = BareNext(b, e)
    BY <2>1, StrippedAppend
  <2>3. b.text \in Seq(Char)
    BY <1>2
  <2> HIDE DEF x, e, b
  <2>4. BareNext(b, e).text \in {b.text, Append(b.text, e)}
    BY DEF BareNext
  <2>5. Append(b.text, e) \in Seq(Char)
    BY <2>1, <2>3
  <2> QED BY <2>1, <2>2, <2>3, <2>4, <2>5
<1> HIDE DEF T
<1>3. \A i \in 0 .. Len(t) : i \in T
  BY <1>0, <1>1, <1>2, IntervalInduction
<1>4. Len(t) \in T
  BY <1>0, <1>3
<1> QED BY <1>0, <1>4 DEF T

-----------------------------------------------------------------------------
(* What the items have of the text x *)
Standing(p, x) ==
  LET st == Resumed(p)
      idle == st = "OK" /\ p.type = "NONE"
  IN  /\ st \in {"GO", "_O", "_A"} => Opened(p.out)
      /\ st = "CO" => Keyed(p.out) /\ Raw(p.out) = Append(x, ":")
      /\ idle => ~Opened(p.out) /\ ~Keyed(p.out) /\ Raw(p.out) = x
      /\ st # "CO" /\ ~idle => x = Lead(p.out) \o Unreported(p)

(* and of a string that is under way. *)
Unescapable(p) ==
  p.state \in Strings =>
    p.state = "_S" /\ \A i \in DOMAIN p.buffer : p.buffer[i] \notin DOMAIN character_escape

(* Both, with where the text ends, are Spelled. *)
LEMMA SpelledIs ==
  ASSUME NEW t, NEW p
  PROVE  Spelled(t, p) <=>
           /\ Stripped(t).mode = StripMode(p.state)
           /\ Standing(p, Stripped(t).text) /\ Unescapable(p)
<1>1. /\ Prints(p.out, FALSE).out = Raw(p.out) /\ Prints(p.out, FALSE).enter_object = Opened(p.out)
      /\ Prints(p.out, FALSE).afterkey = Keyed(p.out)
  BY DEF Raw, Opened, Keyed
<1> QED BY <1>1 DEF Spelled, Standing, Unescapable, Lead, Sep, Prints

(* What is not in a string, a word or a constant is the buffer. *)
LEMMA UnreportedIs ==
  ASSUME NEW p
  PROVE  /\ p.state \in Strings /\ p.type = "NONE" => Unreported(p) = <<C_QUOTE>> \o p.buffer
         /\ p.state \in Literals /\ p.type = "NONE" => Unreported(p) = Letters[p.state]
         /\ p.state \notin Strings \cup Literals /\ p.type \in {"TRUE", "FALSE", "NULL"} =>
              Unreported(p) = Words[p.type]
         /\ p.state \notin Strings \cup Literals /\ p.type \notin {"TRUE", "FALSE", "NULL"} =>
              Unreported(p) = p.buffer
<1>1. Strings \cap Literals = {}
  BY DEF Strings, Literals
<1>2. DOMAIN Words = {"TRUE", "FALSE", "NULL"}
  BY DEF Words
<1> HIDE DEF Words
<1>3. ASSUME p.state \in Strings, p.type = "NONE" PROVE Unreported(p) = <<C_QUOTE>> \o p.buffer
  BY <1>1, <1>2, <1>3 DEF Unreported
<1>4. ASSUME p.state \in Literals, p.type = "NONE" PROVE Unreported(p) = Letters[p.state]
  BY <1>1, <1>2, <1>4 DEF Unreported
<1>5. ASSUME p.state \notin Strings \cup Literals, p.type \in {"TRUE", "FALSE", "NULL"}
      PROVE  Unreported(p) = Words[p.type]
  BY <1>2, <1>5 DEF Unreported
<1>6. ASSUME p.state \notin Strings \cup Literals, p.type \notin {"TRUE", "FALSE", "NULL"}
      PROVE  Unreported(p) = p.buffer
  BY <1>2, <1>6 DEF Unreported
<1> QED BY <1>3, <1>4, <1>5, <1>6

(* Where the end of the text is in each state. *)
LEMMA ModeOf ==
  ASSUME NEW p
  PROVE  /\ p.state \in Strings => StripMode(p.state) = "string"
         /\ p.state \in Between \cup Numbers \cup Literals => StripMode(p.state) = "plain"
         /\ p.state = "Y1" => StripMode(p.state) = "yaml"
         /\ p.state = "C1" => StripMode(p.state) = "slash"
         /\ p.state = "C2" => StripMode(p.state) = "c"
         /\ p.state = "C3" => StripMode(p.state) = "star"
<1>1. ASSUME p.state \in Strings PROVE StripMode(p.state) = "string"
  BY <1>1 DEF StripMode, Strings
<1>2. ASSUME p.state \in Between \cup Numbers \cup Literals PROVE StripMode(p.state) = "plain"
  <2>1. p.state \notin Strings \cup {"Y1", "C1", "C2", "C3"}
    BY <1>2 DEF Between, Numbers, Ints, Floats, Literals, Strings
  <2> QED BY <2>1 DEF StripMode
<1>3. p.state \in {"Y1", "C1", "C2", "C3"} => p.state \notin Strings
  BY DEF Strings
<1>4. ASSUME p.state = "Y1" PROVE StripMode(p.state) = "yaml"
  BY <1>3, <1>4 DEF StripMode
<1>5. ASSUME p.state = "C1" PROVE StripMode(p.state) = "slash"
  BY <1>3, <1>5 DEF StripMode
<1>6. ASSUME p.state = "C2" PROVE StripMode(p.state) = "c"
  BY <1>3, <1>6 DEF StripMode
<1>7. ASSUME p.state = "C3" PROVE StripMode(p.state) = "star"
  BY <1>3, <1>7 DEF StripMode
<1> QED BY <1>1, <1>2, <1>4, <1>5, <1>6, <1>7

(* The pending type and the buffer in each state. *)
LEMMA LiveIs ==
  ASSUME NEW c, NEW p, Live(c, p)
  PROVE  /\ p.out \in Seq(Items) /\ p.buffer \in Seq(Char) /\ p.type \in Pending
         /\ p.state \in States
         /\ p.state \in (Between \ {"OK"}) \cup Comments => p.type = "NONE" /\ p.buffer = <<>>
         /\ p.state \in Comments => Resumed(p) \in Between
         /\ p.state \notin Comments => Resumed(p) = p.state
         /\ p.state \in Strings => p.type = "NONE"
         /\ p.state \in Literals => p.type = "NONE" /\ p.buffer = <<>>
         /\ p.state \in Ints => p.type = "INT"
         /\ p.state \in Floats => p.type = "FLOAT"
<1>0. Fits(c, p) /\ p.ret = "0" /\ Nesting(p) /\ Buffered(p)
  BY DEF Live, Held, Legible
<1>1. p.out \in Seq(Items) /\ p.buffer \in Seq(Char) /\ p.type \in Pending /\ p.state \in States
  BY <1>0, Fields DEF Fits, Items
<1>2. Expects(p, Top(Nested(p.out)))
  BY <1>0, NestingIs
<1>3. p.state \in Comments => Resumed(p) \in Between
  BY DEF Resumed, Between
<1>4. p.state \notin Comments => Resumed(p) = p.state
  BY DEF Resumed
<1>5. p.state \in Strings \cup Literals \cup (Between \ {"OK"}) \cup Comments => p.type = "NONE"
  <2>1. p.state \in Strings \cup Literals \cup (Between \ {"OK"}) =>
          p.state \notin Comments \cup {"OK"} \cup Ints \cup Floats
    BY DEF Strings, Literals, Between, Comments, Ints, Floats
  <2>2. p.state \in Comments => p.type = "NONE"
    BY <1>2 DEF Expects
  <2>3. p.state \notin Comments \cup {"OK"} \cup Ints \cup Floats => p.type = "NONE"
    BY <1>2, <1>4 DEF Expects
  <2> QED BY <2>1, <2>2, <2>3
<1>6. p.state \in Ints => p.type = "INT"
  <2>1. p.state \in Ints => p.state \notin Comments
    BY DEF Comments, Ints
  <2> QED BY <1>2, <1>4, <2>1 DEF Expects
<1>7. p.state \in Floats => p.type = "FLOAT"
  <2>1. p.state \in Floats => p.state \notin Comments
    BY DEF Comments, Floats
  <2> QED BY <1>2, <1>4, <2>1 DEF Expects
<1>8. p.state \in Literals \cup (Between \ {"OK"}) \cup Comments => p.buffer = <<>>
  <2>1. p.state \in Literals \cup (Between \ {"OK"}) \cup Comments =>
          p.state \notin Strings \cup Ints \cup Floats
    BY DEF Strings, Literals, Between, Comments, Ints, Floats
  <2> QED BY <1>0, <1>5, <2>1, NothingBuffered
<1> QED BY <1>1, <1>3, <1>4, <1>5, <1>6, <1>7, <1>8

(* The text x has been told to the callback, *)
LEMMA StandIdle ==
  ASSUME NEW r, NEW y, r.state = "OK", r.type = "NONE",
         Raw(r.out) = y, ~Opened(r.out), ~Keyed(r.out)
  PROVE  Standing(r, y) /\ Unescapable(r) /\ StripMode(r.state) = "plain"
<1>1. r.state \notin Comments \cup Strings
  BY DEF Comments, Strings
<1>2. Resumed(r) = "OK"
  BY <1>1 DEF Resumed
<1>3. StripMode(r.state) = "plain"
  BY ModeOf DEF Between
<1>4. Standing(r, y)
  BY <1>2 DEF Standing
<1> QED BY <1>1, <1>3, <1>4 DEF Unescapable

(* but for the comma before the next item, *)
LEMMA StandOpen ==
  ASSUME NEW r, NEW y, y \in Seq(Char), r.state \in Between \ {"OK", "CO"}, r.type = "NONE",
         r.buffer = <<>>, r.state \in {"GO", "_O", "_A"} => Opened(r.out), Lead(r.out) = y
  PROVE  Standing(r, y) /\ Unescapable(r) /\ StripMode(r.state) = "plain"
<1>1. r.state \notin Comments \cup Strings \cup Literals \cup {"OK", "CO"}
  BY DEF Comments, Strings, Between, Literals
<1>2. Resumed(r) = r.state
  BY <1>1 DEF Resumed
<1>3. StripMode(r.state) = "plain"
  BY ModeOf
<1>4. Unreported(r) = <<>>
  BY <1>1, UnreportedIs
<1>5. Lead(r.out) \o Unreported(r) = y
  BY <1>4, NothingAfter
<1>6. Standing(r, y)
  BY <1>1, <1>2, <1>5 DEF Standing
<1> QED BY <1>1, <1>3, <1>6 DEF Unescapable

(* but for the item that is under way, *)
LEMMA StandUnder ==
  ASSUME NEW r, NEW y, r.state \in Numbers \cup Literals \cup {"OK", "_S"},
         r.state = "OK" => r.type # "NONE", y = Lead(r.out) \o Unreported(r),
         r.state = "_S" => \A i \in DOMAIN r.buffer : r.buffer[i] \notin DOMAIN character_escape
  PROVE  /\ Standing(r, y) /\ Unescapable(r)
         /\ StripMode(r.state) = IF r.state = "_S" THEN "string" ELSE "plain"
<1>1. /\ r.state \notin Comments \cup {"GO", "_O", "_A", "CO"}
      /\ r.state \in Strings => r.state = "_S"
  BY DEF Comments, Strings, Literals, Numbers, Ints, Floats
<1>2. Resumed(r) = r.state
  BY <1>1 DEF Resumed
<1>3. Standing(r, y)
  BY <1>1, <1>2 DEF Standing
<1>4. Unescapable(r)
  BY <1>1 DEF Unescapable
<1>5. StripMode(r.state) = IF r.state = "_S" THEN "string" ELSE "plain"
  <2>1. CASE r.state = "_S"
    BY <2>1, ModeOf DEF Strings
  <2>2. CASE r.state # "_S"
    BY <2>2, ModeOf DEF Between
  <2> QED BY <2>1, <2>2
<1> QED BY <1>3, <1>4, <1>5

(* and what stands there may be taken as it is. *)
LEMMA StoodBefore ==
  ASSUME NEW c, NEW p, Live(c, p), NEW x, x \in Seq(Char), Standing(p, x)
  PROVE  /\ p.state \in Between \ {"OK", "CO"} => Lead(p.out) = x
         /\ p.state \in {"GO", "_O", "_A"} => Opened(p.out)
         /\ p.state = "CO" => Keyed(p.out) /\ Raw(p.out) = Append(x, ":")
         /\ p.state = "OK" /\ p.type = "NONE" =>
              ~Opened(p.out) /\ ~Keyed(p.out) /\ Raw(p.out) = x
         /\ p.state \in Numbers \cup Literals \cup Strings => x = Lead(p.out) \o Unreported(p)
         /\ p.state = "OK" /\ p.type # "NONE" => x = Lead(p.out) \o Unreported(p)
<1>1. /\ p.state \in Between \cup Numbers \cup Literals \cup Strings => p.state \notin Comments
      /\ p.state \in Numbers \cup Literals \cup Strings => p.state \notin {"CO", "OK"}
      /\ p.state \in Between => p.state \notin Strings \cup Literals
  BY DEF Comments, Strings, Literals, Numbers, Ints, Floats, Between
<1>2. p.state \notin Comments => Resumed(p) = p.state
  BY LiveIs
<1>3. ASSUME p.state \in Between \ {"OK", "CO"} PROVE Lead(p.out) = x
  <2>1. p.type = "NONE" /\ p.buffer = <<>> /\ p.out \in Seq(Items)
    BY <1>3, LiveIs
  <2>2. Unreported(p) = <<>>
    BY <1>1, <1>3, <2>1, UnreportedIs
  <2>3. Lead(p.out) \in Seq(Char)
    BY <2>1, LeadType
  <2>4. x = Lead(p.out) \o Unreported(p)
    BY <1>1, <1>2, <1>3 DEF Standing
  <2> QED BY <2>2, <2>3, <2>4, NothingAfter
<1>4. {"GO", "_O", "_A", "CO", "OK"} \subseteq Between
  BY DEF Between
<1>5. p.state \in {"GO", "_O", "_A"} => Opened(p.out)
  BY <1>1, <1>2, <1>4 DEF Standing
<1>6. p.state = "CO" => Keyed(p.out) /\ Raw(p.out) = Append(x, ":")
  BY <1>1, <1>2, <1>4 DEF Standing
<1>7. p.state = "OK" /\ p.type = "NONE" =>
        ~Opened(p.out) /\ ~Keyed(p.out) /\ Raw(p.out) = x
  BY <1>1, <1>2, <1>4 DEF Standing
<1>8. p.state \in Numbers \cup Literals \cup Strings => x = Lead(p.out) \o Unreported(p)
  BY <1>1, <1>2, <1>4 DEF Standing
<1>9. p.state = "OK" /\ p.type # "NONE" => x = Lead(p.out) \o Unreported(p)
  BY <1>1, <1>2, <1>4 DEF Standing
<1> QED BY <1>3, <1>5, <1>6, <1>7, <1>8, <1>9

(* The item that is pending completes the text. *)
LEMMA FlushedSpells ==
  ASSUME NEW c, NEW p, Live(c, p), NEW x, x \in Seq(Char), Standing(p, x),
         p.state \in {"OK"} \cup Ending, NEW o, o = Flushed(p)
  PROVE  o \in Seq(Items) /\ Raw(o) = x /\ ~Opened(o) /\ ~Keyed(o)
<1>0. Fits(c, p) /\ p.ret = "0" /\ Nesting(p) /\ Buffered(p)
  BY DEF Live, Held, Legible
<1>1. o \in Seq(Items)
  BY <1>0, FlushedNests
<1>2. CASE p.type = "NONE"
  <2>1. Ending \cap Ints = {"Z0", "I0"} /\ Ending \subseteq Ints \cup Floats
    BY DEF Ending, Ints, Floats
  <2>2. p.state = "OK"
    BY <1>2, <2>1, LiveIs
  <2>3. o = p.out
    BY <1>2 DEF Flushed
  <2> QED BY <1>1, <1>2, <2>2, <2>3, StoodBefore
<1>3. CASE p.type # "NONE"
  <2> DEFINE e == [type |-> p.type, data |-> p.buffer]
  <2>1. p.out \in Seq(Items) /\ p.buffer \in Seq(Char) /\ p.type \in Pending
    BY LiveIs
  <2>2. e \in Items /\ o = Append(p.out, e)
    BY <1>3, <2>1 DEF Flushed, Items, ItemTypes, Pending
  <2>3. e.type = p.type /\ e.data = p.buffer
    OBVIOUS
  <2>4. e.type \notin Opening \cup Closing \cup {"KEY"}
    BY <1>3, <2>1, <2>3 DEF Opening, Closing, Pending
  <2>5. Body(e, FALSE) = Unreported(p)
    <3>1. p.state \notin Strings \cup Literals
      BY DEF Strings, Literals, Ending
    <3>2. CASE p.type \in {"INT", "FLOAT"}
      <4>1. Body(e, FALSE) = p.buffer
        BY <2>3, <3>2 DEF Body
      <4> QED BY <3>1, <3>2, <4>1, UnreportedIs
    <3>3. CASE p.type \in {"TRUE", "FALSE", "NULL"}
      <4>1. Body(e, FALSE) = Words[p.type]
        <5> DEFINE t == p.type
        <5>1. e.type = t /\ t \in {"TRUE", "FALSE", "NULL"}
          BY <2>3, <3>3
        <5> HIDE DEF e, t
        <5>2. CASE t = "TRUE"
          BY <5>1, <5>2 DEF Body, Words, t
        <5>3. CASE t = "FALSE"
          BY <5>1, <5>3 DEF Body, Words, t
        <5>4. CASE t = "NULL"
          BY <5>1, <5>4 DEF Body, Words, t
        <5> QED BY <5>1, <5>2, <5>3, <5>4
      <4> QED BY <3>1, <3>3, <4>1, UnreportedIs
    <3> QED BY <1>3, <2>1, <3>2, <3>3 DEF Pending
  <2> HIDE DEF e
  <2>6. Raw(o) = Lead(p.out) \o Body(e, FALSE)
    BY <2>1, <2>2, <2>4, RawAppend
  <2>7. ~Opened(o) /\ ~Keyed(o)
    BY <2>1, <2>2, <2>4, RawAppend
  <2>8. x = Lead(p.out) \o Unreported(p)
    <3>1. Ending \subseteq Numbers
      BY DEF Ending, Numbers, Ints, Floats
    <3> QED BY <1>3, <3>1, StoodBefore
  <2> QED BY <1>1, <2>5, <2>6, <2>7, <2>8
<1> QED BY <1>2, <1>3

(* So do the structures before their end. *)
LEMMA ClosableSpells ==
  ASSUME NEW c, NEW p, Live(c, p), NEW x, x \in Seq(Char), Standing(p, x),
         p.state \in {"_O", "_A", "OK"} \cup Ending, NEW o, o = Flushed(p)
  PROVE  o \in Seq(Items) /\ Raw(o) = x
<1>1. CASE p.state \in {"OK"} \cup Ending
  BY <1>1, FlushedSpells
<1>2. CASE p.state \in {"_O", "_A"}
  <2>1. p.state \in Between \ {"OK", "CO"}
    BY <1>2 DEF Between
  <2>2. p.type = "NONE" /\ p.out \in Seq(Items)
    BY <2>1, LiveIs
  <2>3. o = p.out /\ Opened(p.out) /\ Lead(p.out) = x
    BY <1>2, <2>1, <2>2, StoodBefore DEF Flushed
  <2> QED BY <2>2, <2>3, LeadType
<1> QED BY <1>1, <1>2

(* A step of a parser that is not within an escape. *)
Feeds(c, p, x, ch, n, r) ==
  /\ IsConfig(c) /\ Live(c, p) /\ x \in Seq(Char) /\ Standing(p, x) /\ Unescapable(p)
  /\ ch \in Char \ (Escaped \cup {"\\"}) /\ InUtf8(p, ch)
  /\ n = NextState(p.state, Class(ch)) /\ n # "__" /\ Enters(p.state, Class(ch), n)
  /\ Turn(p, ch, n, r) /\ r.out \in Seq(Items) /\ r.type \in Pending

(* The text up to it is told or under way. *)
Stood(p, x, ch, r) ==
  \A b : b.mode = StripMode(p.state) /\ b.text = x =>
    LET m == BareNext(b, ch)
    IN  m.mode = StripMode(r.state) /\ Standing(r, m.text) /\ Unescapable(r)

(* It is enough to know what the character does to the text. *)
LEMMA StoodFrom ==
  ASSUME NEW p, NEW x, NEW ch, NEW r, NEW y, NEW mode, NEW next,
         StripMode(p.state) = mode, StripMode(r.state) = next,
         \A b : b.mode = mode /\ b.text = x => Bared(BareNext(b, ch), next, y),
         Standing(r, y), Unescapable(r)
  PROVE  Stood(p, x, ch, r)
BY DEF Stood, Bared

(* A character of which the text gets longer. *)
LEMMA CharAppended ==
  ASSUME NEW p, NEW x, NEW ch, NEW r, StripMode(p.state) = "plain",
         ch \notin White \cup {C_QUOTE, "#", "/"},
         StripMode(r.state) = "plain", Standing(r, Append(x, ch)), Unescapable(r)
  PROVE  Stood(p, x, ch, r)
<1>1. \A b : b.mode = "plain" /\ b.text = x => Bared(BareNext(b, ch), "plain", Append(x, ch))
  BY BareOutside
<1> QED BY <1>1, StoodFrom

(* The character is the one that the table names. *)
LEMMA ClassIs ==
  ASSUME NEW ch
  PROVE  /\ Class(ch) \in Named => ch = Class(ch)
         /\ ch \in Named => ch = Class(ch)
<1>1. Other \notin Named
  BY NamedArePlain DEF Unplain
<1> QED BY <1>1 DEF Class

-----------------------------------------------------------------------------
(* What a character adds to the text *)

(* What the step of a parser starts from. *)
LEMMA FeedsIs ==
  ASSUME NEW c, NEW p, NEW x, NEW ch, NEW n, NEW r, Feeds(c, p, x, ch, n, r)
  PROVE  /\ p.out \in Seq(Items) /\ p.buffer \in Seq(Char) /\ x \in Seq(Char) /\ ch \in Char
         /\ Append(x, ch) \in Seq(Char)
         /\ Class(ch) \in Named => ch = Class(ch)
         /\ Lead(p.out) \in Seq(Char)
<1>1. p.out \in Seq(Items) /\ p.buffer \in Seq(Char) /\ x \in Seq(Char) /\ ch \in Char
  BY LiveIs DEF Feeds
<1>2. Append(x, ch) \in Seq(Char)
  BY <1>1
<1> QED BY <1>1, <1>2, ClassIs, LeadType

(* Layout is not told. *)
LEMMA LayoutStands ==
  ASSUME NEW c, NEW p, NEW x, NEW ch, NEW n, NEW r, Feeds(c, p, x, ch, n, r),
         n \in Between, ch \in White,
         n = p.state \/ (n = "OK" /\ p.state \in Ending)
  PROVE  Stood(p, x, ch, r)
<1>1. /\ r.state = n /\ r.type = p.type /\ r.out = p.out /\ r.buffer = Kept(p, ch, n)
  BY DEF Feeds, Turn, Between, Leaves
<1>2. r.buffer = p.buffer
  <2>1. n \notin Number /\ n # "_S" /\ p.state \notin {"U1", "U2", "U3", "U4"}
    BY DEF Between, Number, Ending
  <2> QED BY <1>1, <2>1, KeptNothing
<1>3. p.state \in Between \cup Ending /\ Ending \subseteq Numbers
  BY DEF Ending, Numbers, Ints, Floats
<1>4. StripMode(p.state) = "plain"
  BY <1>3, ModeOf
<1>5. Live(c, p) /\ Standing(p, x) /\ Unescapable(p) /\ x \in Seq(Char)
  BY DEF Feeds
<1>6. Standing(r, x) /\ Unescapable(r) /\ StripMode(r.state) = "plain"
  <2>1. CASE n = p.state
    <3>1. Resumed(r) = Resumed(p) /\ Unreported(r) = Unreported(p)
      <4>1. p.state \notin Comments /\ r.state = p.state
        BY <1>1, <2>1 DEF Between, Comments
      <4>2. Resumed(r) = Resumed(p)
        BY <4>1 DEF Resumed
      <4>3. Unreported(r) = Unreported(p)
        BY <1>1, <1>2, <4>1 DEF Unreported
      <4> QED BY <4>2, <4>3
    <3>2. Standing(r, x)
      BY <1>1, <1>5, <3>1 DEF Standing
    <3>3. p.state \notin Strings
      BY <2>1 DEF Between, Strings
    <3> QED BY <1>1, <1>4, <2>1, <3>2, <3>3 DEF Unescapable
  <2>2. CASE n = "OK" /\ p.state \in Ending
    <3>1. p.type \in {"INT", "FLOAT"} /\ p.state \in Numbers /\ p.state \notin Strings \cup Literals
      <4>1. p.state \in Ints \cup Floats /\ p.state \notin Strings \cup Literals
        BY <2>2 DEF Ending, Ints, Floats, Strings, Literals
      <4> QED BY <1>5, <4>1, LiveIs DEF Numbers
    <3>2. x = Lead(p.out) \o Unreported(p)
      BY <1>5, <3>1, StoodBefore
    <3>3. Unreported(p) = p.buffer
      BY <3>1, UnreportedIs
    <3>4. r.state \notin Strings \cup Literals
      BY <1>1, <2>2 DEF Strings, Literals
    <3>5. Unreported(r) = r.buffer
      BY <1>1, <3>1, <3>4, UnreportedIs
    <3>6. x = Lead(r.out) \o Unreported(r)
      BY <1>1, <1>2, <3>2, <3>3, <3>5
    <3>7. r.state \in Numbers \cup Literals \cup {"OK", "_S"} /\ r.state # "_S" /\ r.type # "NONE"
      BY <1>1, <2>2, <3>1
    <3> QED BY <3>6, <3>7, StandUnder
  <2> QED BY <2>1, <2>2
<1>7. \A b : b.mode = "plain" /\ b.text = x => Bared(BareNext(b, ch), "plain", x)
  BY BareOutside
<1> QED BY <1>4, <1>6, <1>7, StoodFrom

(* A structure begins. *)
LEMMA OpeningStands ==
  ASSUME NEW c, NEW p, NEW x, NEW ch, NEW n, NEW r, Feeds(c, p, x, ch, n, r),
         n \in {"OB", "AB"}, p.state \in {"GO", "_V", "_A"},
         ch = IF n = "OB" THEN C_LCURB ELSE "["
  PROVE  Stood(p, x, ch, r)
<1> DEFINE t == IF n = "OB" THEN "OBJECT_BEGIN" ELSE "ARRAY_BEGIN"
           e == Item(t)
<1>1. /\ r.state = (IF n = "OB" THEN "_O" ELSE "_A") /\ r.type = "NONE"
      /\ r.buffer = Kept(p, ch, n) /\ r.out = Append(p.out, e)
  BY DEF Feeds, Turn, Leaves, States, state_transition_table
<1>2. p.state \in Between \ {"OK", "CO"}
  BY DEF Between
<1>3. Live(c, p) /\ Standing(p, x) /\ x \in Seq(Char) /\ r.out \in Seq(Items)
  BY DEF Feeds
<1>4. p.buffer = <<>> /\ p.type = "NONE" /\ p.out \in Seq(Items) /\ ch \in Char /\ Append(x, ch) \in Seq(Char)
  BY <1>2, <1>3, LiveIs, FeedsIs
<1>5. r.buffer = <<>>
  <2>1. n \notin Number /\ n # "_S" /\ p.state \notin {"U1", "U2", "U3", "U4"}
    BY DEF Number
  <2> QED BY <1>1, <1>4, <2>1, KeptNothing
<1>6. e \in Items /\ e.type = t /\ t \in Opening /\ t \notin Closing
  <2>1. t \in Opening /\ t \notin Closing
    BY DEF Opening, Closing
  <2>2. e \in Items
    BY <2>1, ItemSpells
  <2> QED BY <2>1, <2>2 DEF Item
<1>7. Body(e, FALSE) = <<ch>>
  <2>1. e.type = t
    BY <1>6
  <2> HIDE DEF e
  <2>2. CASE n = "OB"
    BY <2>1, <2>2 DEF Body
  <2>3. CASE n = "AB"
    BY <2>1, <2>3 DEF Body
  <2> QED BY <2>2, <2>3
<1> HIDE DEF e, t
<1>8. Raw(r.out) = Lead(p.out) \o <<ch>> /\ Opened(r.out)
  BY <1>1, <1>4, <1>6, <1>7, RawAppend
<1>9. Lead(p.out) = x
  BY <1>2, <1>3, StoodBefore
<1>10. Raw(r.out) = Append(x, ch)
  BY <1>3, <1>4, <1>8, <1>9, AppendConcat
<1>11. Lead(r.out) = Append(x, ch)
  BY <1>3, <1>8, <1>10, LeadType
<1>12. r.state \in Between \ {"OK", "CO"}
  BY <1>1 DEF Between
<1>13. Standing(r, Append(x, ch)) /\ Unescapable(r) /\ StripMode(r.state) = "plain"
  BY <1>1, <1>4, <1>5, <1>8, <1>11, <1>12, StandOpen
<1>14. StripMode(p.state) = "plain"
  BY <1>2, ModeOf
<1>15. ch \notin White \cup {C_QUOTE, "#", "/"}
  BY QuotesApart, Apart DEF White
<1> QED BY <1>13, <1>14, <1>15, CharAppended

(* A structure ends, *)
LEMMA ClosingStands ==
  ASSUME NEW c, NEW p, NEW x, NEW ch, NEW n, NEW r, Feeds(c, p, x, ch, n, r),
         n \in {"OE", "AE"}, p.state \in {"_O", "_A", "OK"} \cup Ending,
         ch = IF n = "OE" THEN C_RCURB ELSE "]"
  PROVE  Stood(p, x, ch, r)
<1> DEFINE t == IF n = "OE" THEN "OBJECT_END" ELSE "ARRAY_END"
           e == Item(t)
           o == Flushed(p)
<1>1. r.state = "OK" /\ r.type = "NONE" /\ r.buffer = <<>> /\ r.out = Append(o, e)
  BY DEF Feeds, Turn, Leaves, States, state_transition_table
<1>2. Live(c, p) /\ Standing(p, x) /\ x \in Seq(Char)
  BY DEF Feeds
<1>3. o \in Seq(Items) /\ Raw(o) = x
  BY <1>2, ClosableSpells
<1>4. ch \in Char
  BY FeedsIs
<1>5. e \in Items /\ e.type = t /\ t \in Closing /\ t \notin Opening \cup {"KEY"}
  <2>1. t \in Closing /\ t \notin Opening \cup {"KEY"}
    BY DEF Opening, Closing
  <2>2. e \in Items
    BY <2>1, ItemSpells
  <2> QED BY <2>1, <2>2 DEF Item
<1>6. Body(e, FALSE) = <<ch>>
  <2>1. e.type = t
    BY <1>5
  <2> HIDE DEF e
  <2>2. CASE n = "OE"
    BY <2>1, <2>2 DEF Body
  <2>3. CASE n = "AE"
    BY <2>1, <2>3 DEF Body
  <2> QED BY <2>2, <2>3
<1> HIDE DEF e, t, o
<1>7. Raw(r.out) = Raw(o) \o <<ch>> /\ ~Opened(r.out) /\ ~Keyed(r.out)
  BY <1>1, <1>3, <1>5, <1>6, RawAppend
<1>8. Raw(r.out) = Append(x, ch)
  BY <1>2, <1>3, <1>4, <1>7, AppendConcat
<1>9. Standing(r, Append(x, ch)) /\ Unescapable(r) /\ StripMode(r.state) = "plain"
  BY <1>1, <1>7, <1>8, StandIdle
<1>10. StripMode(p.state) = "plain"
  <2>1. p.state \in Between \cup Numbers
    BY DEF Between, Ending, Numbers, Ints, Floats
  <2> QED BY <2>1, ModeOf
<1>11. ch \notin White \cup {C_QUOTE, "#", "/"}
  BY QuotesApart, Apart DEF White
<1> QED BY <1>9, <1>10, <1>11, CharAppended

(* another item is announced, *)
LEMMA CommaStands ==
  ASSUME NEW c, NEW p, NEW x, NEW ch, NEW n, NEW r, Feeds(c, p, x, ch, n, r),
         n = "SP", p.state \in {"OK"} \cup Ending, ch = C_COMMA
  PROVE  Stood(p, x, ch, r)
<1> DEFINE o == Flushed(p)
<1>1. r.state \in {"_K", "_V"} /\ r.type = "NONE" /\ r.buffer = <<>> /\ r.out = o
  BY DEF Feeds, Turn, Leaves, States, state_transition_table
<1>2. Live(c, p) /\ Standing(p, x) /\ x \in Seq(Char)
  BY DEF Feeds
<1>3. o \in Seq(Items) /\ Raw(o) = x /\ ~Opened(o) /\ ~Keyed(o)
  BY <1>2, FlushedSpells
<1> HIDE DEF o
<1>4. Lead(r.out) = Append(x, ch)
  BY <1>1, <1>3, LeadType
<1>5. Append(x, ch) \in Seq(Char)
  BY FeedsIs
<1>6. r.state \in Between \ {"OK", "CO"} /\ r.state \notin {"GO", "_O", "_A"}
  BY <1>1 DEF Between
<1>7. Standing(r, Append(x, ch)) /\ Unescapable(r) /\ StripMode(r.state) = "plain"
  BY <1>1, <1>4, <1>5, <1>6, StandOpen
<1>8. StripMode(p.state) = "plain"
  <2>1. p.state \in Between \cup Numbers
    BY DEF Between, Ending, Numbers, Ints, Floats
  <2> QED BY <2>1, ModeOf
<1>9. ch \notin White \cup {C_QUOTE, "#", "/"}
  BY QuotesApart, Apart DEF White
<1> QED BY <1>7, <1>8, <1>9, CharAppended

(* the value of a key is, *)
LEMMA ColonStands ==
  ASSUME NEW c, NEW p, NEW x, NEW ch, NEW n, NEW r, Feeds(c, p, x, ch, n, r),
         n = "KS", p.state = "CO", ch = ":"
  PROVE  Stood(p, x, ch, r)
<1>0. p.state \in Between \ {"OK"}
  BY DEF Between
<1>1. r.state = "_V" /\ r.type = "NONE" /\ r.buffer = Kept(p, ch, n) /\ r.out = p.out
  <2>1. Target["KS"] = "_V" /\ LeafType("KS") = "NONE" /\ "KS" \notin States
    BY DEF Target, LeafType, States, state_transition_table
  <2> QED BY <2>1 DEF Feeds, Turn
<1>2. Live(c, p) /\ Standing(p, x) /\ x \in Seq(Char)
  BY DEF Feeds
<1>3. p.buffer = <<>> /\ p.out \in Seq(Items)
  BY <1>0, <1>2, LiveIs
<1>4. r.buffer = <<>>
  <2>1. n \notin Number /\ n # "_S" /\ p.state \notin {"U1", "U2", "U3", "U4"}
    BY DEF Number
  <2> QED BY <1>1, <1>3, <2>1, KeptNothing
<1>5. Keyed(p.out) /\ Raw(p.out) = Append(x, ch)
  BY <1>2, StoodBefore
<1>6. Lead(r.out) = Append(x, ch)
  BY <1>1, <1>3, <1>5, LeadType
<1>7. Append(x, ch) \in Seq(Char)
  BY FeedsIs
<1>8. r.state \in Between \ {"OK", "CO"} /\ r.state \notin {"GO", "_O", "_A"}
  BY <1>1 DEF Between
<1>9. Standing(r, Append(x, ch)) /\ Unescapable(r) /\ StripMode(r.state) = "plain"
  BY <1>1, <1>4, <1>6, <1>7, <1>8, StandOpen
<1>10. StripMode(p.state) = "plain"
  BY <1>0, ModeOf
<1>11. ch \notin White \cup {C_QUOTE, "#", "/"}
  BY QuotesApart, Apart DEF White
<1> QED BY <1>9, <1>10, <1>11, CharAppended

(* a string begins, *)
LEMMA QuoteStands ==
  ASSUME NEW c, NEW p, NEW x, NEW ch, NEW n, NEW r, Feeds(c, p, x, ch, n, r),
         n = "_S", p.state \in {"_O", "_K", "_V", "_A"}, ch = C_QUOTE
  PROVE  Stood(p, x, ch, r)
<1>0. p.state \in Between \ {"OK", "CO"}
  BY DEF Between
<1>1. r.state = "_S" /\ r.type = p.type /\ r.buffer = Kept(p, ch, n) /\ r.out = p.out
  BY DEF Feeds, Turn, Leaves
<1>2. Live(c, p) /\ Standing(p, x) /\ x \in Seq(Char)
  BY DEF Feeds
<1>3. p.buffer = <<>> /\ p.type = "NONE" /\ p.out \in Seq(Items) /\ ch \in Char
  BY <1>0, <1>2, LiveIs, FeedsIs
<1>4. r.buffer = <<>>
  <2>1. buffer_policy_table(p.state, n) = "ignore"
    BY DEF buffer_policy_table, Number
  <2> QED BY <1>1, <1>3, <2>1 DEF Kept
<1>5. Lead(p.out) = x
  BY <1>0, <1>2, StoodBefore
<1> DEFINE y == <<ch>>
<1>6. y \in Seq(Char) /\ Append(x, ch) = x \o y
  BY <1>2, <1>3, AppendConcat
<1>7. Unreported(r) = y \o <<>>
  <2>1. r.state \in Strings
    BY <1>1 DEF Strings
  <2> QED BY <1>1, <1>3, <1>4, <2>1, UnreportedIs
<1> HIDE DEF y
<1>8. y \o <<>> = y
  BY <1>6, NothingAfter
<1>9. Append(x, ch) = Lead(r.out) \o Unreported(r)
  BY <1>1, <1>5, <1>6, <1>7, <1>8
<1>10. Standing(r, Append(x, ch)) /\ Unescapable(r) /\ StripMode(r.state) = "string"
  <2>1. \A i \in DOMAIN r.buffer : r.buffer[i] \notin DOMAIN character_escape
    BY <1>4
  <2>2. r.state \in Numbers \cup Literals \cup {"OK", "_S"} /\ r.state # "OK"
    BY <1>1
  <2> QED BY <1>1, <1>9, <2>1, <2>2, StandUnder
<1>11. StripMode(p.state) = "plain"
  BY <1>0, ModeOf
<1>12. \A b : b.mode = "plain" /\ b.text = x => Bared(BareNext(b, ch), "string", Append(x, ch))
  BY BareOutside
<1> QED BY <1>10, <1>11, <1>12, StoodFrom

(* or goes on. *)
LEMMA CopyStands ==
  ASSUME NEW c, NEW p, NEW x, NEW ch, NEW n, NEW r, Feeds(c, p, x, ch, n, r),
         n = "_S", p.state = "_S", Class(ch) \in All \ {C_QUOTE, "\\", "\n", "\t"}
  PROVE  Stood(p, x, ch, r)
<1>0. p.state \in Strings /\ "_S" \in Strings
  BY DEF Strings
<1>1. r.state = "_S" /\ r.type = p.type /\ r.buffer = Kept(p, ch, n) /\ r.out = p.out
  BY DEF Feeds, Turn, Leaves
<1>2. Live(c, p) /\ Standing(p, x) /\ x \in Seq(Char) /\ Unescapable(p) /\ InUtf8(p, ch)
      /\ ch \in Char \ (Escaped \cup {"\\"})
  BY DEF Feeds
<1>3. p.buffer \in Seq(Char) /\ p.type = "NONE" /\ p.out \in Seq(Items) /\ ch \in Char
      /\ Lead(p.out) \in Seq(Char)
  BY <1>0, <1>2, LiveIs, FeedsIs
<1>4. r.buffer = Append(p.buffer, ch)
  <2>1. buffer_policy_table(p.state, n) = "append"
    BY DEF buffer_policy_table
  <2> QED BY <1>1, <2>1 DEF Kept
<1>5. ch \notin DOMAIN character_escape /\ ch # C_QUOTE
  <2>1. ch \notin {C_QUOTE, "\\", "\n", "\t"}
    <3>1. {C_QUOTE, "\\", "\n", "\t"} \subseteq Named
      BY DEF Named, White
    <3> QED BY <3>1, ClassIs
  <2>2. ch \notin {"CR", "BS", "FF", "^"}
    BY <1>2 DEF Escaped, InUtf8, ErrorChar
  <2>3. DOMAIN character_escape = {"\n", "\t", "CR", "BS", "FF", "^", C_QUOTE, "\\"}
    BY DEF character_escape
  <2> QED BY <2>1, <2>2, <2>3
<1>6. \A i \in DOMAIN r.buffer : r.buffer[i] \notin DOMAIN character_escape
  <2>1. \A i \in DOMAIN p.buffer : p.buffer[i] \notin DOMAIN character_escape
    BY <1>0, <1>2 DEF Unescapable
  <2> HIDE DEF character_escape
  <2> QED BY <1>3, <1>4, <1>5, <2>1
<1>7. x = Lead(p.out) \o (<<C_QUOTE>> \o p.buffer)
  <2>1. x = Lead(p.out) \o Unreported(p)
    BY <1>0, <1>2, StoodBefore
  <2> QED BY <1>0, <1>3, <2>1, UnreportedIs
<1> DEFINE q == <<C_QUOTE>>
           l == Lead(p.out)
           d == p.buffer
<1>8. q \in Seq(Char) /\ l \in Seq(Char) /\ d \in Seq(Char) /\ x = l \o (q \o d)
  <2>1. C_QUOTE \in Char
    BY DEF Char, Named
  <2> QED BY <1>3, <1>7, <2>1
<1>9. Unreported(r) = q \o Append(d, ch) /\ Lead(r.out) = l
  BY <1>0, <1>1, <1>3, <1>4, UnreportedIs
<1> HIDE DEF q, l, d
<1>10. q \o Append(d, ch) = Append(q \o d, ch)
  BY <1>3, <1>8, AppendAfter
<1>11. q \o d \in Seq(Char)
  BY <1>8, ConcatProperties
<1>12. l \o Append(q \o d, ch) = Append(l \o (q \o d), ch)
  BY <1>3, <1>8, <1>11, AppendAfter
<1>13. Append(x, ch) = Lead(r.out) \o Unreported(r)
  BY <1>8, <1>9, <1>10, <1>12
<1>14. Standing(r, Append(x, ch)) /\ Unescapable(r) /\ StripMode(r.state) = "string"
  <2>1. r.state \in Numbers \cup Literals \cup {"OK", "_S"} /\ r.state # "OK"
    BY <1>1
  <2> QED BY <1>1, <1>6, <1>13, <2>1, StandUnder
<1>15. StripMode(p.state) = "string"
  BY <1>0, ModeOf
<1>16. \A b : b.mode = "string" /\ b.text = x => Bared(BareNext(b, ch), "string", Append(x, ch))
  BY <1>5, BareString
<1> QED BY <1>14, <1>15, <1>16, StoodFrom

(* A string ends, *)
LEMMA StringStands ==
  ASSUME NEW c, NEW p, NEW x, NEW ch, NEW n, NEW r, Feeds(c, p, x, ch, n, r),
         n = "SE", p.state = "_S", ch = C_QUOTE
  PROVE  Stood(p, x, ch, r)
<1> DEFINE t == IF p.expecting_key THEN "KEY" ELSE "STRING"
           e == [type |-> t, data |-> p.buffer]
           d == p.buffer
           q == <<C_QUOTE>>
           l == Lead(p.out)
<1>0. p.state \in Strings
  BY DEF Strings
<1>1. /\ r.state = (IF p.expecting_key THEN "CO" ELSE "OK") /\ r.type = "NONE" /\ r.buffer = <<>>
      /\ r.out = Append(p.out, [type |-> t, data |-> Kept(p, ch, n)])
  BY DEF Feeds, Turn, Leaves, States, state_transition_table
<1>2. Kept(p, ch, n) = p.buffer
  <2>1. n \notin Number /\ n # "_S" /\ p.state \notin {"U1", "U2", "U3", "U4"}
    BY DEF Number
  <2> QED BY <2>1, KeptNothing
<1>3. Live(c, p) /\ Standing(p, x) /\ x \in Seq(Char) /\ Unescapable(p)
  BY DEF Feeds
<1>4. d \in Seq(Char) /\ p.type = "NONE" /\ p.out \in Seq(Items) /\ ch \in Char
      /\ l \in Seq(Char) /\ Append(x, ch) \in Seq(Char)
  BY <1>0, <1>3, LiveIs, FeedsIs
<1>5. x = l \o (q \o d) /\ q \in Seq(Char)
  <2>1. x = l \o Unreported(p)
    BY <1>0, <1>3, StoodBefore
  <2>2. Unreported(p) = q \o d
    BY <1>0, <1>4, UnreportedIs
  <2>3. q \in Seq(Char)
    <3>1. C_QUOTE \in Char
      BY DEF Char, Named
    <3> QED BY <3>1
  <2> QED BY <2>1, <2>2, <2>3
<1>6. print_string(d) = Append(q \o d, ch)
  <2>1. \A i \in DOMAIN d : d[i] \notin DOMAIN character_escape
    BY <1>0, <1>3 DEF Unescapable
  <2>2. print_quoted(d) = q \o d
    BY <1>4, <2>1, PlainPrinted
  <2> QED BY <2>2 DEF print_string
<1>7. e \in Items /\ e.type = t /\ t \notin Opening \cup Closing
  <2>1. t \in ItemTypes /\ t \notin Opening \cup Closing
    BY DEF ItemTypes, Opening, Closing
  <2> QED BY <1>4, <2>1 DEF Items
<1>8. Body(e, FALSE) = IF t = "KEY" THEN print_string(d) \o <<":">> ELSE print_string(d)
  <2>1. e.type = t /\ e.data = d /\ t \in {"KEY", "STRING"}
    OBVIOUS
  <2> HIDE DEF e, d, t
  <2>2. CASE t = "KEY"
    BY <2>1, <2>2 DEF Body
  <2>3. CASE t = "STRING"
    BY <2>1, <2>3 DEF Body
  <2> QED BY <2>1, <2>2, <2>3
<1>9. r.out = Append(p.out, e) /\ (t = "KEY" <=> p.expecting_key)
  BY <1>1, <1>2
<1> HIDE DEF e, t, d, q, l
<1>10. Raw(r.out) = l \o Body(e, FALSE) /\ ~Opened(r.out) /\ (Keyed(r.out) <=> t = "KEY")
  BY <1>4, <1>7, <1>9, RawAppend DEF l
<1>11. q \o d \in Seq(Char)
  BY <1>4, <1>5, ConcatProperties
<1>12. l \o print_string(d) = Append(x, ch)
  <2>1. l \o Append(q \o d, ch) = Append(l \o (q \o d), ch)
    BY <1>4, <1>11, AppendAfter
  <2> QED BY <1>5, <1>6, <2>1
<1>13. StripMode(p.state) = "string"
  BY <1>0, ModeOf
<1>14. \A b : b.mode = "string" /\ b.text = x => Bared(BareNext(b, ch), "plain", Append(x, ch))
  BY BareString
<1>15. CASE ~p.expecting_key
  <2>1. Standing(r, Append(x, ch)) /\ Unescapable(r) /\ StripMode(r.state) = "plain"
    BY <1>1, <1>8, <1>9, <1>10, <1>12, <1>15, StandIdle
  <2> QED BY <1>13, <1>14, <2>1, StoodFrom
<1>16. CASE p.expecting_key
  <2> DEFINE z == <<":">>
             s == print_string(d)
  <2>1. ":" \in Char
    BY DEF Char, Named
  <2>2. z \in Seq(Char)
    BY <2>1
  <2>3. s \in Seq(Char)
    BY <1>4, QuotedType
  <2>4. Raw(r.out) = l \o (s \o z)
    BY <1>8, <1>9, <1>10, <1>16
  <2>5. l \o s = Append(x, ch)
    BY <1>12
  <2>6. Append(Append(x, ch), ":") = Append(x, ch) \o z
    BY <1>4, <2>1, AppendConcat
  <2> HIDE DEF z, s
  <2>7. (l \o s) \o z = l \o (s \o z)
    BY <1>4, <2>2, <2>3, Regroup
  <2>8. Raw(r.out) = Append(Append(x, ch), ":") /\ Keyed(r.out)
    BY <1>9, <1>10, <1>16, <2>4, <2>5, <2>6, <2>7
  <2>9. r.state = "CO" /\ Resumed(r) = "CO" /\ r.state \notin Strings
    BY <1>1, <1>16 DEF Resumed, Comments, Strings
  <2>10. Standing(r, Append(x, ch))
    BY <2>8, <2>9 DEF Standing
  <2>11. StripMode(r.state) = "plain"
    BY <2>9, ModeOf DEF Between
  <2> QED BY <1>13, <1>14, <2>9, <2>10, <2>11, StoodFrom DEF Unescapable
<1> QED BY <1>15, <1>16

(* What is under way before a value is nothing, in a number the buffer. *)
LEMMA UnderWay ==
  ASSUME NEW c, NEW p, Live(c, p), NEW x, x \in Seq(Char), Standing(p, x),
         p.state \in Numbers \cup {"_V", "_A"}
  PROVE  x = Lead(p.out) \o p.buffer
<1>1. CASE p.state \in {"_V", "_A"}
  <2>1. p.state \in Between \ {"OK", "CO"}
    BY <1>1 DEF Between
  <2>2. p.buffer = <<>> /\ p.out \in Seq(Items) /\ Lead(p.out) = x
    BY <2>1, LiveIs, StoodBefore
  <2> QED BY <2>2, NothingAfter
<1>2. CASE p.state \in Numbers
  <2>1. p.state \notin Strings \cup Literals
    BY <1>2 DEF Numbers, Ints, Floats, Strings, Literals
  <2>2. p.type \in {"INT", "FLOAT"}
    BY <1>2, LiveIs DEF Numbers
  <2>3. Unreported(p) = p.buffer
    BY <2>1, <2>2, UnreportedIs
  <2> QED BY <1>2, <2>3, StoodBefore
<1> QED BY <1>1, <1>2

(* a number goes on, *)
LEMMA NumberStands ==
  ASSUME NEW c, NEW p, NEW x, NEW ch, NEW n, NEW r, Feeds(c, p, x, ch, n, r),
         n \in Number, p.state \in Numbers \cup {"_V", "_A"},
         ch \in Digit \cup Sign \cup {".", "e", "E"}
  PROVE  Stood(p, x, ch, r)
<1>1. Live(c, p) /\ Standing(p, x) /\ x \in Seq(Char) /\ n = NextState(p.state, Class(ch))
  BY DEF Feeds
<1>2. Fits(c, p) /\ Buffered(p)
  BY <1>1 DEF Live, Held, Legible
<1>3. p.buffer \in Seq(Char) /\ ch \in Char /\ Lead(p.out) \in Seq(Char)
  BY <1>1, LiveIs, FeedsIs
<1>4. p.state \in Numbers \/ (p.state \in {"_V", "_A"} /\ p.type = "NONE")
  <2>1. {"_V", "_A"} \subseteq Between \ {"OK"}
    BY DEF Between
  <2> QED BY <1>1, <2>1, LiveIs
<1>5. Kept(p, ch, n) = Append(p.buffer, ch)
  BY <1>1, <1>2, <1>3, <1>4, NumberKept
<1>6. /\ r.buffer = Append(p.buffer, ch) /\ r.out = p.out
      /\ r.state \in Numbers /\ r.type \in {"INT", "FLOAT"}
  <2>1. CASE n \in States
    <3>1. r.state = n /\ r.type = p.type /\ r.buffer = Kept(p, ch, n) /\ r.out = p.out
      <4>1. n \notin Leaves \cup {"OB", "AB", "OE", "AE", "SP", "CB", "YB", "CE", "SE", "UC"}
        BY <2>1 DEF States, state_transition_table, Leaves
      <4> QED BY <4>1 DEF Feeds, Turn
    <3>2. n \in Numbers
      BY <2>1 DEF Number, Numbers, Ints, Floats, States, state_transition_table
    <3>3. p.state \in Numbers
      <4>1. Enters(p.state, Class(ch), n)
        BY DEF Feeds
      <4>2. p.state \in {"_V", "_A"} => n \notin {"Z0", "I0", "R2", "X1", "X2", "X3"}
        BY <4>1 DEF Enters, Spelt, Between
      <4>3. n \in {"Z0", "I0", "R2", "X1", "X2", "X3"}
        BY <2>1 DEF Number, States, state_transition_table
      <4> QED BY <4>2, <4>3
    <3>4. p.type \in {"INT", "FLOAT"}
      BY <1>1, <3>3, LiveIs DEF Numbers
    <3> QED BY <1>5, <3>1, <3>2, <3>4
  <2>2. CASE n \notin States
    <3>1. n \in {"MX", "ZX", "IX", "DF", "DE"}
      BY <2>2 DEF Number, States, state_transition_table
    <3>2. r.state = Target[n] /\ r.buffer = Kept(p, ch, n) /\ r.out = p.out /\ r.type = LeafType(n)
      BY <2>2, <3>1 DEF Feeds, Turn, Leaves
    <3>3. Target[n] \in Numbers /\ LeafType(n) \in {"INT", "FLOAT"}
      BY <3>1 DEF Target, LeafType, PendingType, Numbers, Ints, Floats
    <3> QED BY <1>5, <3>2, <3>3
  <2> QED BY <2>1, <2>2
<1> DEFINE l == Lead(p.out)
           d == p.buffer
<1>7. x = l \o d /\ l \in Seq(Char) /\ d \in Seq(Char)
  BY <1>1, <1>3, UnderWay
<1>8. Unreported(r) = Append(d, ch) /\ Lead(r.out) = l
  <2>1. r.state \notin Strings \cup Literals
    BY <1>6 DEF Numbers, Ints, Floats, Strings, Literals
  <2> QED BY <1>6, <2>1, UnreportedIs
<1> HIDE DEF l, d
<1>9. l \o Append(d, ch) = Append(l \o d, ch)
  BY <1>3, <1>7, AppendAfter
<1>10. Append(x, ch) = Lead(r.out) \o Unreported(r)
  BY <1>7, <1>8, <1>9
<1>11. Standing(r, Append(x, ch)) /\ Unescapable(r) /\ StripMode(r.state) = "plain"
  <2>1. r.state # "OK" /\ r.state # "_S"
    BY <1>6 DEF Numbers, Ints, Floats
  <2> QED BY <1>6, <1>10, <2>1, StandUnder
<1>12. StripMode(p.state) = "plain"
  BY ModeOf DEF Between
<1>13. ch \notin White \cup {C_QUOTE, "#", "/"}
  <2>1. ch \notin {C_SPACE, C_QUOTE}
    BY Apart DEF Sign, Digit, C_SPACE, C_QUOTE
  <2>2. ch \notin {"\n", "\t", "#", "/"}
    BY DEF Sign, Digit
  <2> QED BY <2>1, <2>2 DEF White
<1> QED BY <1>11, <1>12, <1>13, CharAppended

(* The word of which n is the state after st and k. *)
Word(n) == IF n \in Literals THEN Letters[n] ELSE Words[PendingType[n]]

(* The words, letter by letter. *)
LEMMA LettersAre ==
  ASSUME NEW st, NEW k, NEW n, Spelt(st, k, n)
  PROVE  /\ st \in Literals /\ n \in Literals \cup {"TR", "FA", "NU"}
         /\ k \in {"r", "u", "e", "a", "l", "s"}
         /\ Word(n) = Append(Letters[st], k)
<1>1. st \in Literals /\ n \in Literals \cup {"TR", "FA", "NU"} /\ k \in {"r", "u", "e", "a", "l", "s"}
  BY DEF Spelt, Literals
<1>2. CASE st = "T1" /\ k = "r" /\ n = "T2"
  <2>1. Letters["T1"] = <<"t">>
    BY DEF Letters
  <2>2. Word("T2") = <<"t", "r">>
    BY DEF Word, Letters, Literals
  <2> QED BY <1>1, <1>2, <2>1, <2>2
<1>3. CASE st = "T2" /\ k = "u" /\ n = "T3"
  <2>1. Letters["T2"] = <<"t", "r">>
    BY DEF Letters
  <2>2. Word("T3") = <<"t", "r", "u">>
    BY DEF Word, Letters, Literals
  <2> QED BY <1>1, <1>3, <2>1, <2>2
<1>4. CASE st = "T3" /\ k = "e" /\ n = "TR"
  <2>1. Letters["T3"] = <<"t", "r", "u">>
    BY DEF Letters
  <2>2. Word("TR") = <<"t", "r", "u", "e">>
    BY DEF Word, Words, Literals, PendingType
  <2> QED BY <1>1, <1>4, <2>1, <2>2
<1>5. CASE st = "F1" /\ k = "a" /\ n = "F2"
  <2>1. Letters["F1"] = <<"f">>
    BY DEF Letters
  <2>2. Word("F2") = <<"f", "a">>
    BY DEF Word, Letters, Literals
  <2> QED BY <1>1, <1>5, <2>1, <2>2
<1>6. CASE st = "F2" /\ k = "l" /\ n = "F3"
  <2>1. Letters["F2"] = <<"f", "a">>
    BY DEF Letters
  <2>2. Word("F3") = <<"f", "a", "l">>
    BY DEF Word, Letters, Literals
  <2> QED BY <1>1, <1>6, <2>1, <2>2
<1>7. CASE st = "F3" /\ k = "s" /\ n = "F4"
  <2>1. Letters["F3"] = <<"f", "a", "l">>
    BY DEF Letters
  <2>2. Word("F4") = <<"f", "a", "l", "s">>
    BY DEF Word, Letters, Literals
  <2> QED BY <1>1, <1>7, <2>1, <2>2
<1>8. CASE st = "F4" /\ k = "e" /\ n = "FA"
  <2>1. Letters["F4"] = <<"f", "a", "l", "s">>
    BY DEF Letters
  <2>2. Word("FA") = <<"f", "a", "l", "s", "e">>
    BY DEF Word, Words, Literals, PendingType
  <2> QED BY <1>1, <1>8, <2>1, <2>2
<1>9. CASE st = "N1" /\ k = "u" /\ n = "N2"
  <2>1. Letters["N1"] = <<"n">>
    BY DEF Letters
  <2>2. Word("N2") = <<"n", "u">>
    BY DEF Word, Letters, Literals
  <2> QED BY <1>1, <1>9, <2>1, <2>2
<1>10. CASE st = "N2" /\ k = "l" /\ n = "N3"
  <2>1. Letters["N2"] = <<"n", "u">>
    BY DEF Letters
  <2>2. Word("N3") = <<"n", "u", "l">>
    BY DEF Word, Letters, Literals
  <2> QED BY <1>1, <1>10, <2>1, <2>2
<1>11. CASE st = "N3" /\ k = "l" /\ n = "NU"
  <2>1. Letters["N3"] = <<"n", "u", "l">>
    BY DEF Letters
  <2>2. Word("NU") = <<"n", "u", "l", "l">>
    BY DEF Word, Words, Literals, PendingType
  <2> QED BY <1>1, <1>11, <2>1, <2>2
<1> QED BY <1>2, <1>3, <1>4, <1>5, <1>6, <1>7, <1>8, <1>9, <1>10, <1>11 DEF Spelt

(* The letters are characters. *)
LEMMA LettersType ==
  ASSUME NEW st \in Literals
  PROVE  Letters[st] \in Seq(Char)
<1>1. {"t", "r", "u", "f", "a", "l", "s", "n"} \subseteq Char
  BY DEF Char, Named, Hex
<1>2. CASE st = "T1"
  <2>1. Letters["T1"] = <<"t">>
    BY DEF Letters
  <2>2. <<"t">> \in Seq(Char)
    BY <1>1
  <2> QED BY <1>2, <2>1, <2>2
<1>3. CASE st = "T2"
  <2>1. Letters["T2"] = <<"t", "r">>
    BY DEF Letters
  <2>2. <<"t", "r">> \in Seq(Char)
    BY <1>1
  <2> QED BY <1>3, <2>1, <2>2
<1>4. CASE st = "T3"
  <2>1. Letters["T3"] = <<"t", "r", "u">>
    BY DEF Letters
  <2>2. <<"t", "r", "u">> \in Seq(Char)
    BY <1>1
  <2> QED BY <1>4, <2>1, <2>2
<1>5. CASE st = "F1"
  <2>1. Letters["F1"] = <<"f">>
    BY DEF Letters
  <2>2. <<"f">> \in Seq(Char)
    BY <1>1
  <2> QED BY <1>5, <2>1, <2>2
<1>6. CASE st = "F2"
  <2>1. Letters["F2"] = <<"f", "a">>
    BY DEF Letters
  <2>2. <<"f", "a">> \in Seq(Char)
    BY <1>1
  <2> QED BY <1>6, <2>1, <2>2
<1>7. CASE st = "F3"
  <2>1. Letters["F3"] = <<"f", "a", "l">>
    BY DEF Letters
  <2>2. <<"f", "a", "l">> \in Seq(Char)
    BY <1>1
  <2> QED BY <1>7, <2>1, <2>2
<1>8. CASE st = "F4"
  <2>1. Letters["F4"] = <<"f", "a", "l", "s">>
    BY DEF Letters
  <2>2. <<"f", "a", "l", "s">> \in Seq(Char)
    BY <1>1
  <2> QED BY <1>8, <2>1, <2>2
<1>9. CASE st = "N1"
  <2>1. Letters["N1"] = <<"n">>
    BY DEF Letters
  <2>2. <<"n">> \in Seq(Char)
    BY <1>1
  <2> QED BY <1>9, <2>1, <2>2
<1>10. CASE st = "N2"
  <2>1. Letters["N2"] = <<"n", "u">>
    BY DEF Letters
  <2>2. <<"n", "u">> \in Seq(Char)
    BY <1>1
  <2> QED BY <1>10, <2>1, <2>2
<1>11. CASE st = "N3"
  <2>1. Letters["N3"] = <<"n", "u", "l">>
    BY DEF Letters
  <2>2. <<"n", "u", "l">> \in Seq(Char)
    BY <1>1
  <2> QED BY <1>11, <2>1, <2>2
<1> QED BY <1>2, <1>3, <1>4, <1>5, <1>6, <1>7, <1>8, <1>9, <1>10, <1>11 DEF Literals

(* A word gets longer. *)
LEMMA WordUnder ==
  ASSUME NEW c, NEW p, NEW x, NEW ch, NEW n, NEW r, Feeds(c, p, x, ch, n, r),
         n \in Literals \cup {"TR", "FA", "NU"}, p.state \in Literals \cup {"_V", "_A"},
         ch \in {"t", "f", "n", "r", "u", "e", "a", "l", "s"},
         NEW w, w \in Seq(Char), x = Lead(p.out) \o w, Word(n) = Append(w, ch)
  PROVE  Stood(p, x, ch, r)
<1>1. Live(c, p) /\ Standing(p, x) /\ x \in Seq(Char)
  BY DEF Feeds
<1>2. p.type = "NONE" /\ p.buffer \in Seq(Char) /\ ch \in Char /\ Lead(p.out) \in Seq(Char)
  <2>1. {"_V", "_A"} \subseteq Between \ {"OK"}
    BY DEF Between
  <2> QED BY <1>1, <2>1, LiveIs, FeedsIs
<1>3. r.out = p.out /\ Unreported(r) = Word(n) /\ r.state \in Literals \cup {"OK"}
      /\ (r.state = "OK" => r.type # "NONE")
  <2>1. CASE n \in Literals
    <3>1. r.state = n /\ r.type = p.type /\ r.out = p.out
      <4>1. n \notin Leaves \cup {"OB", "AB", "OE", "AE", "SP", "CB", "YB", "CE", "SE", "UC"}
        BY <2>1 DEF Literals, Leaves
      <4> QED BY <4>1 DEF Feeds, Turn
    <3>2. Unreported(r) = Letters[n]
      BY <1>2, <2>1, <3>1, UnreportedIs
    <3>3. r.state # "OK"
      BY <2>1, <3>1 DEF Literals
    <3> QED BY <2>1, <3>1, <3>2, <3>3 DEF Word
  <2>2. CASE n \in {"TR", "FA", "NU"}
    <3>1. r.state = Target[n] /\ r.type = LeafType(n) /\ r.out = p.out
      <4>1. n \notin States
        BY <2>2 DEF States, state_transition_table
      <4> QED BY <2>2, <4>1 DEF Feeds, Turn, Leaves
    <3>2. /\ Target[n] = "OK" /\ LeafType(n) = PendingType[n]
          /\ PendingType[n] \in {"TRUE", "FALSE", "NULL"} /\ n \notin Literals
      BY <2>2 DEF Target, LeafType, PendingType, Literals
    <3>3. r.state = "OK" /\ "OK" \notin Strings \cup Literals
      BY <3>1, <3>2 DEF Strings, Literals
    <3>4. Unreported(r) = Words[PendingType[n]]
      BY <3>1, <3>2, <3>3, UnreportedIs
    <3> QED BY <3>1, <3>2, <3>3, <3>4 DEF Word
  <2> QED BY <2>1, <2>2
<1> DEFINE l == Lead(p.out)
<1>4. l \in Seq(Char) /\ x = l \o w /\ Lead(r.out) = l
  BY <1>2, <1>3
<1> HIDE DEF l
<1>5. l \o Append(w, ch) = Append(l \o w, ch)
  BY <1>2, <1>4, AppendAfter
<1>6. Append(x, ch) = Lead(r.out) \o Unreported(r)
  BY <1>3, <1>4, <1>5
<1>7. Standing(r, Append(x, ch)) /\ Unescapable(r) /\ StripMode(r.state) = "plain"
  <2>1. r.state # "_S"
    BY <1>3 DEF Literals
  <2> QED BY <1>3, <1>6, <2>1, StandUnder
<1>8. StripMode(p.state) = "plain"
  BY ModeOf DEF Between
<1>9. ch \notin White \cup {C_QUOTE, "#", "/"}
  BY DEF White, C_SPACE, C_QUOTE
<1> QED BY <1>7, <1>8, <1>9, CharAppended

(* a word begins *)
LEMMA FirstLetterStands ==
  ASSUME NEW c, NEW p, NEW x, NEW ch, NEW n, NEW r, Feeds(c, p, x, ch, n, r),
         p.state \in {"_V", "_A"},
         \/ n = "T1" /\ ch = "t"
         \/ n = "F1" /\ ch = "f"
         \/ n = "N1" /\ ch = "n"
  PROVE  Stood(p, x, ch, r)
<1>1. Live(c, p) /\ Standing(p, x) /\ x \in Seq(Char)
  BY DEF Feeds
<1>2. Lead(p.out) = x
  BY <1>1, StoodBefore DEF Between
<1>3. x = Lead(p.out) \o <<>>
  BY <1>1, <1>2, NothingAfter
<1>4. Word(n) = Append(<<>>, ch) /\ n \in Literals
  <2>1. CASE n = "T1" /\ ch = "t"
    BY <2>1 DEF Word, Letters, Literals
  <2>2. CASE n = "F1" /\ ch = "f"
    BY <2>2 DEF Word, Letters, Literals
  <2>3. CASE n = "N1" /\ ch = "n"
    BY <2>3 DEF Word, Letters, Literals
  <2> QED BY <2>1, <2>2, <2>3
<1>5. <<>> \in Seq(Char)
  OBVIOUS
<1> QED BY <1>3, <1>4, <1>5, WordUnder

(* and goes on. *)
LEMMA NextLetterStands ==
  ASSUME NEW c, NEW p, NEW x, NEW ch, NEW n, NEW r, Feeds(c, p, x, ch, n, r),
         Spelt(p.state, ch, n)
  PROVE  Stood(p, x, ch, r)
<1>1. Live(c, p) /\ Standing(p, x) /\ x \in Seq(Char)
  BY DEF Feeds
<1>2. /\ p.state \in Literals /\ n \in Literals \cup {"TR", "FA", "NU"}
      /\ ch \in {"r", "u", "e", "a", "l", "s"} /\ Word(n) = Append(Letters[p.state], ch)
  BY LettersAre
<1> DEFINE w == Letters[p.state]
<1>3. w \in Seq(Char)
  BY <1>2, LettersType
<1>4. x = Lead(p.out) \o w
  BY <1>1, <1>2, StoodBefore, LiveIs, UnreportedIs
<1>5. Word(n) = Append(w, ch)
  BY <1>2
<1> HIDE DEF w
<1> QED BY <1>2, <1>3, <1>4, <1>5, WordUnder

(* A comment begins, *)
LEMMA CommentStands ==
  ASSUME NEW c, NEW p, NEW x, NEW ch, NEW n, NEW r, Feeds(c, p, x, ch, n, r),
         n \in {"CB", "YB"}, p.state \in Between \cup {"Z0", "I0", "R2"},
         ch = IF n = "CB" THEN "/" ELSE "#"
  PROVE  Stood(p, x, ch, r)
<1>1. /\ r.state = (IF n = "CB" THEN "C1" ELSE "Y1") /\ r.type = "NONE" /\ r.buffer = <<>>
      /\ r.out = Flushed(p) /\ r.save_state = p.state
  <2>1. n \notin States \cup Leaves \cup {"OB", "AB", "OE", "AE", "SP", "CE", "SE", "UC"}
    BY DEF States, state_transition_table, Leaves
  <2> QED BY <2>1 DEF Feeds, Turn
<1>2. Live(c, p) /\ Standing(p, x) /\ x \in Seq(Char)
  BY DEF Feeds
<1>3. r.state \in Comments /\ r.state \notin Strings \cup Literals
  BY <1>1 DEF Comments, Strings, Literals
<1>4. Unreported(r) = <<>>
  BY <1>1, <1>3, UnreportedIs
<1>5. Resumed(r) = IF p.state \in Between THEN p.state ELSE "OK"
  BY <1>1, <1>3 DEF Resumed
<1>6. Standing(r, x)
  <2>1. CASE p.state \in {"OK"} \cup Ending
    <3>1. ~Opened(r.out) /\ ~Keyed(r.out) /\ Raw(r.out) = x
      BY <1>1, <1>2, <2>1, FlushedSpells
    <3>2. Resumed(r) = "OK"
      BY <1>5, <2>1 DEF Between, Ending
    <3> QED BY <1>1, <3>1, <3>2 DEF Standing
  <2>2. CASE p.state \in Between \ {"OK"}
    <3>1. Resumed(r) = p.state /\ p.state # "OK"
      BY <1>5, <2>2
    <3>2. p.type = "NONE"
      BY <1>2, <2>2, LiveIs
    <3>3. r.out = p.out
      BY <1>1, <3>2 DEF Flushed
    <3>4. p.state # "CO" => Lead(p.out) = x
      BY <1>2, <2>2, StoodBefore
    <3>5. Lead(p.out) = x => x = Lead(p.out) \o <<>>
      BY <1>2, NothingAfter
    <3>6. p.state \in {"GO", "_O", "_A"} => Opened(p.out)
      BY <1>2, StoodBefore
    <3>7. p.state = "CO" => Keyed(p.out) /\ Raw(p.out) = Append(x, ":")
      BY <1>2, StoodBefore
    <3> QED BY <1>4, <3>1, <3>3, <3>4, <3>5, <3>6, <3>7 DEF Standing
  <2> QED BY <2>1, <2>2 DEF Ending
<1>7. Unescapable(r)
  BY <1>3 DEF Unescapable
<1>8. StripMode(p.state) = "plain"
  <2>1. {"Z0", "I0", "R2"} \subseteq Numbers
    BY DEF Numbers, Ints, Floats
  <2> QED BY <2>1, ModeOf
<1>9. CASE n = "CB"
  <2>1. StripMode(r.state) = "slash" /\ ch = "/"
    BY <1>1, <1>9, ModeOf
  <2>2. \A b : b.mode = "plain" /\ b.text = x => Bared(BareNext(b, ch), "slash", x)
    BY <2>1, BareOutside
  <2> QED BY <1>6, <1>7, <1>8, <2>1, <2>2, StoodFrom
<1>10. CASE n = "YB"
  <2>1. StripMode(r.state) = "yaml" /\ ch = "#"
    BY <1>1, <1>10, ModeOf
  <2>2. \A b : b.mode = "plain" /\ b.text = x => Bared(BareNext(b, ch), "yaml", x)
    BY <2>1, BareOutside
  <2> QED BY <1>6, <1>7, <1>8, <2>1, <2>2, StoodFrom
<1> QED BY <1>9, <1>10

(* The rows of the comments. *)
LEMMA CommentRows ==
  ASSUME NEW k
  PROVE  /\ NextState("C1", k) \in {"C2", "__"}
         /\ NextState("C2", k) \in {IF k = "*" THEN "C3" ELSE "C2", "__"}
         /\ NextState("C3", k) \in {IF k = "*" THEN "C3" ELSE IF k = "/" THEN "CE" ELSE "C2", "__"}
         /\ NextState("Y1", k) \in {IF k = "\n" THEN "CE" ELSE "Y1", "__"}
<1>1. /\ state_transition_table["C1"] = On({"*"}, "C2")
      /\ state_transition_table["C2"] = On({"*"}, "C3") ++ On(All, "C2")
      /\ state_transition_table["C3"] = (On({"/"}, "CE") ++ On({"*"}, "C3")) ++ On(All, "C2")
      /\ state_transition_table["Y1"] = On({"\n"}, "CE") ++ On(All, "Y1")
  BY DEF state_transition_table
<1>2. \A st : NextState(st, k) = Row(state_transition_table[st], k)
  BY DEF NextState, Row
<1> HIDE DEF state_transition_table
<1>3. NextState("C1", k) \in {"C2", "__"}
  BY <1>1, <1>2, RowOn
<1>4. NextState("C2", k) \in {IF k = "*" THEN "C3" ELSE "C2", "__"}
  BY <1>1, <1>2, RowOn, RowOver, DomOn
<1>5. NextState("C3", k) \in {IF k = "*" THEN "C3" ELSE IF k = "/" THEN "CE" ELSE "C2", "__"}
  BY <1>1, <1>2, RowOn, RowOver, DomOn, DomOver
<1>6. NextState("Y1", k) \in {IF k = "\n" THEN "CE" ELSE "Y1", "__"}
  BY <1>1, <1>2, RowOn, RowOver, DomOn
<1> QED BY <1>3, <1>4, <1>5, <1>6

(* it goes on, *)
LEMMA WithinComment ==
  ASSUME NEW c, NEW p, NEW x, NEW ch, NEW n, NEW r, Feeds(c, p, x, ch, n, r),
         n \in {"C2", "C3", "Y1"}, p.state \in Comments
  PROVE  Stood(p, x, ch, r)
<1>1. /\ r.state = n /\ r.type = p.type /\ r.buffer = Kept(p, ch, n) /\ r.out = p.out
      /\ r.save_state = p.save_state
  <2>1. n \notin Leaves \cup {"OB", "AB", "OE", "AE", "SP", "CB", "YB", "CE", "SE", "UC"}
    BY DEF Leaves
  <2> QED BY <2>1 DEF Feeds, Turn
<1>2. Live(c, p) /\ Standing(p, x) /\ x \in Seq(Char) /\ n = NextState(p.state, Class(ch)) /\ n # "__"
  BY DEF Feeds
<1>3. r.buffer = p.buffer
  <2>1. n \notin Number /\ n # "_S" /\ p.state \notin {"U1", "U2", "U3", "U4"}
    BY DEF Number, Comments
  <2> QED BY <1>1, <2>1, KeptNothing
<1>4. /\ r.state \in Comments /\ r.state \notin Strings \cup Literals
      /\ p.state \notin Strings \cup Literals
  BY <1>1 DEF Comments, Strings, Literals
<1>5. Resumed(r) = Resumed(p)
  BY <1>1, <1>4 DEF Resumed
<1>6. Unreported(r) = Unreported(p)
  BY <1>1, <1>3, <1>4 DEF Unreported
<1>7. Standing(r, x)
  BY <1>1, <1>2, <1>5, <1>6 DEF Standing
<1>8. Unescapable(r)
  BY <1>4 DEF Unescapable
<1>9. (ch = "*" <=> Class(ch) = "*") /\ (ch = "/" <=> Class(ch) = "/") /\ (ch = "\n" <=> Class(ch) = "\n")
  <2>1. {"*", "/", "\n"} \subseteq Named
    BY DEF Named, White
  <2> QED BY <2>1, ClassIs
<1>10. CASE p.state = "C1"
  <2>1. StripMode(p.state) = "slash" /\ n = "C2" /\ StripMode(r.state) = "c"
    BY <1>1, <1>2, <1>10, CommentRows, ModeOf
  <2>2. \A b : b.mode = "slash" /\ b.text = x => Bared(BareNext(b, ch), "c", x)
    BY BareComment
  <2> QED BY <1>7, <1>8, <2>1, <2>2, StoodFrom
<1>11. CASE p.state = "C2"
  <2> DEFINE m == IF ch = "*" THEN "star" ELSE "c"
  <2>1. n = IF ch = "*" THEN "C3" ELSE "C2"
    BY <1>2, <1>9, <1>11, CommentRows
  <2>2. StripMode(p.state) = "c" /\ StripMode(r.state) = m
    BY <1>1, <1>11, <2>1, ModeOf
  <2>3. \A b : b.mode = "c" /\ b.text = x => Bared(BareNext(b, ch), m, x)
    BY BareComment
  <2> HIDE DEF m
  <2> QED BY <1>7, <1>8, <2>2, <2>3, StoodFrom
<1>12. CASE p.state = "C3"
  <2> DEFINE m == IF ch = "*" THEN "star" ELSE "c"
  <2>1. n = (IF ch = "*" THEN "C3" ELSE "C2") /\ ch # "/"
    BY <1>2, <1>9, <1>12, CommentRows
  <2>2. StripMode(p.state) = "star" /\ StripMode(r.state) = m
    BY <1>1, <1>12, <2>1, ModeOf
  <2>3. \A b : b.mode = "star" /\ b.text = x => Bared(BareNext(b, ch), m, x)
    BY <2>1, BareComment
  <2> HIDE DEF m
  <2> QED BY <1>7, <1>8, <2>2, <2>3, StoodFrom
<1>13. CASE p.state = "Y1"
  <2>1. n = "Y1" /\ ch # "\n"
    BY <1>2, <1>9, <1>13, CommentRows
  <2>2. StripMode(p.state) = "yaml" /\ StripMode(r.state) = "yaml"
    BY <1>1, <1>13, <2>1, ModeOf
  <2>3. \A b : b.mode = "yaml" /\ b.text = x => Bared(BareNext(b, ch), "yaml", x)
    BY <2>1, BareComment
  <2> QED BY <1>7, <1>8, <2>2, <2>3, StoodFrom
<1> QED BY <1>10, <1>11, <1>12, <1>13 DEF Comments

(* and ends. *)
LEMMA CommentEnds ==
  ASSUME NEW c, NEW p, NEW x, NEW ch, NEW n, NEW r, Feeds(c, p, x, ch, n, r),
         n = "CE",
         \/ p.state = "C3" /\ ch = "/"
         \/ p.state = "Y1" /\ ch = "\n"
  PROVE  Stood(p, x, ch, r)
<1>1. r.state = Resumed(p) /\ r.type = "NONE" /\ r.buffer = Kept(p, ch, n) /\ r.out = p.out
  BY DEF Feeds, Turn, Leaves, States, state_transition_table
<1>2. Live(c, p) /\ Standing(p, x) /\ x \in Seq(Char)
  BY DEF Feeds
<1>3. p.state \in Comments /\ p.state \notin Strings \cup Literals
  BY DEF Comments, Strings, Literals
<1>4. p.type = "NONE" /\ p.buffer = <<>> /\ Resumed(p) \in Between
  BY <1>2, <1>3, LiveIs
<1>5. r.buffer = p.buffer
  <2>1. n \notin Number /\ n # "_S" /\ p.state \notin {"U1", "U2", "U3", "U4"}
    BY DEF Number
  <2> QED BY <1>1, <2>1, KeptNothing
<1>6. r.state \notin Comments \cup Strings \cup Literals
  BY <1>1, <1>4 DEF Between, Comments, Strings, Literals
<1>7. Resumed(r) = Resumed(p)
  BY <1>1, <1>6 DEF Resumed
<1>8. Unreported(r) = Unreported(p)
  BY <1>1, <1>3, <1>4, <1>5, <1>6, UnreportedIs
<1>9. Standing(r, x)
  BY <1>1, <1>2, <1>4, <1>7, <1>8 DEF Standing
<1>10. Unescapable(r)
  BY <1>6 DEF Unescapable
<1>11. StripMode(r.state) = "plain"
  BY <1>1, <1>4, ModeOf
<1> DEFINE m == IF p.state = "C3" THEN "star" ELSE "yaml"
<1>12. StripMode(p.state) = m
  BY ModeOf
<1>13. \A b : b.mode = m /\ b.text = x => Bared(BareNext(b, ch), "plain", x)
  BY BareComment
<1> HIDE DEF m
<1> QED BY <1>9, <1>10, <1>11, <1>12, <1>13, StoodFrom

-----------------------------------------------------------------------------
(* Every character is told or under way *)

(* Every character leaves the text told or under way. *)
LEMMA CharStands ==
  ASSUME NEW c, NEW p, NEW x, NEW ch, NEW n, NEW r, Feeds(c, p, x, ch, n, r)
  PROVE  Stood(p, x, ch, r)
<1> DEFINE k == Class(ch)
           st == p.state
<1>1. Enters(st, k, n) /\ Live(c, p) /\ Unescapable(p)
  BY DEF Feeds
<1>2. k \in Named => ch = k
  BY FeedsIs
<1>3. st \in Strings => st = "_S"
  BY <1>1 DEF Unescapable
<1>4. /\ ch # "\\" /\ k # "\\"
  <2>1. ch # "\\"
    BY DEF Feeds
  <2>2. "\\" \in Named
    BY DEF Named
  <2> QED BY <1>2, <2>1, <2>2
<1>5. /\ White \cup Sign \cup Digit \subseteq Named
      /\ {C_LCURB, C_RCURB, "[", "]", ":", C_COMMA, C_QUOTE, "/", "#", ".", "e", "E", "t", "f", "n",
          "r", "u", "a", "l", "s"} \subseteq Named
      /\ "\n" \in Named
  BY DEF Named, Hex, White
<1> HIDE DEF k, st
<1>6. ASSUME \/ n \in Between /\ k \in White /\ st = n
             \/ n = "OK" /\ k \in White /\ st \in Ending
      PROVE  Stood(p, x, ch, r)
  <2>1. n \in Between /\ ch \in White /\ (n = st \/ (n = "OK" /\ st \in Ending))
    BY <1>2, <1>5, <1>6 DEF Between
  <2> QED BY <2>1, LayoutStands DEF st
<1>7. ASSUME \/ n = "CB" /\ k = "/" /\ st \in Between \cup {"Z0", "I0", "R2"}
             \/ n = "YB" /\ k = "#" /\ st \in Between \cup {"Z0", "I0", "R2"}
      PROVE  Stood(p, x, ch, r)
  <2>1. n \in {"CB", "YB"} /\ st \in Between \cup {"Z0", "I0", "R2"} /\ ch = IF n = "CB" THEN "/" ELSE "#"
    BY <1>2, <1>5, <1>7
  <2> QED BY <2>1, CommentStands DEF st
<1>8. ASSUME \/ n = "OB" /\ k = C_LCURB /\ st \in {"GO", "_V", "_A"}
             \/ n = "AB" /\ k = "[" /\ st \in {"GO", "_V", "_A"}
      PROVE  Stood(p, x, ch, r)
  <2>1. n \in {"OB", "AB"} /\ st \in {"GO", "_V", "_A"} /\ ch = IF n = "OB" THEN C_LCURB ELSE "["
    BY <1>2, <1>5, <1>8
  <2> QED BY <2>1, OpeningStands DEF st
<1>9. ASSUME \/ n = "OE" /\ k = C_RCURB /\ st \in {"_O", "OK"} \cup Ending
             \/ n = "AE" /\ k = "]" /\ st \in {"_A", "OK"} \cup Ending
      PROVE  Stood(p, x, ch, r)
  <2>1. n \in {"OE", "AE"} /\ st \in {"_O", "_A", "OK"} \cup Ending /\ ch = IF n = "OE" THEN C_RCURB ELSE "]"
    BY <1>2, <1>5, <1>9
  <2> QED BY <2>1, ClosingStands DEF st
<1>10. ASSUME n = "SP" /\ k = C_COMMA /\ st \in {"OK"} \cup Ending PROVE Stood(p, x, ch, r)
  BY <1>2, <1>5, <1>10, CommaStands DEF st
<1>11. ASSUME n = "KS" /\ k = ":" /\ st = "CO" PROVE Stood(p, x, ch, r)
  BY <1>2, <1>5, <1>11, ColonStands DEF st
<1>12. ASSUME n = "_S" /\ k = C_QUOTE /\ st \in {"_O", "_K", "_V", "_A"} PROVE Stood(p, x, ch, r)
  BY <1>2, <1>5, <1>12, QuoteStands DEF st
<1>13. ASSUME n = "_S" /\ k \in All \ {C_QUOTE, "\\", "\n", "\t"} /\ st = "_S"
       PROVE  Stood(p, x, ch, r)
  BY <1>13, CopyStands DEF st, k
<1>14. ASSUME n = "SE" /\ k = C_QUOTE /\ st = "_S" PROVE Stood(p, x, ch, r)
  BY <1>2, <1>5, <1>14, StringStands DEF st
<1>15. ASSUME n \in Number /\ st \in Numbers \cup {"_V", "_A"} /\ k \in Digit \cup Sign \cup {".", "e", "E"}
       PROVE  Stood(p, x, ch, r)
  <2>1. ch = k
    BY <1>2, <1>5, <1>15
  <2> QED BY <1>15, <2>1, NumberStands DEF st
<1>16. ASSUME st \in {"_V", "_A"},
              (n = "T1" /\ k = "t") \/ (n = "F1" /\ k = "f") \/ (n = "N1" /\ k = "n")
       PROVE  Stood(p, x, ch, r)
  <2>1. ch = k
    BY <1>2, <1>5, <1>16
  <2> QED BY <1>16, <2>1, FirstLetterStands DEF st
<1>17. ASSUME Spelt(st, k, n) PROVE Stood(p, x, ch, r)
  <2>1. ch = k
    BY <1>2, <1>5, <1>17, LettersAre
  <2> QED BY <1>17, <2>1, NextLetterStands DEF st
<1>18. ASSUME n \in {"C2", "C3", "Y1"} /\ st \in Comments PROVE Stood(p, x, ch, r)
  BY <1>18, WithinComment DEF st
<1>19. ASSUME n = "CE", (st = "C3" /\ k = "/") \/ (st = "Y1" /\ k = "\n") PROVE Stood(p, x, ch, r)
  <2>1. ch = k
    BY <1>2, <1>5, <1>19
  <2> QED BY <1>19, <2>1, CommentEnds DEF st
<1>20. \/ n \in Between /\ k \in White /\ st = n
       \/ n = "OK" /\ k \in White /\ st \in Ending
       \/ n = "CB" /\ k = "/" /\ st \in Between \cup {"Z0", "I0", "R2"}
       \/ n = "YB" /\ k = "#" /\ st \in Between \cup {"Z0", "I0", "R2"}
       \/ n = "OB" /\ k = C_LCURB /\ st \in {"GO", "_V", "_A"}
       \/ n = "AB" /\ k = "[" /\ st \in {"GO", "_V", "_A"}
       \/ n = "OE" /\ k = C_RCURB /\ st \in {"_O", "OK"} \cup Ending
       \/ n = "AE" /\ k = "]" /\ st \in {"_A", "OK"} \cup Ending
       \/ n = "SP" /\ k = C_COMMA /\ st \in {"OK"} \cup Ending
       \/ n = "KS" /\ k = ":" /\ st = "CO"
       \/ n = "_S" /\ k = C_QUOTE /\ st \in {"_O", "_K", "_V", "_A"}
       \/ n = "_S" /\ k \in All \ {C_QUOTE, "\\", "\n", "\t"} /\ st = "_S"
       \/ n = "SE" /\ k = C_QUOTE /\ st = "_S"
       \/ n \in Number /\ st \in Numbers \cup {"_V", "_A"} /\ k \in Digit \cup Sign \cup {".", "e", "E"}
       \/ st \in {"_V", "_A"} /\ ((n = "T1" /\ k = "t") \/ (n = "F1" /\ k = "f") \/ (n = "N1" /\ k = "n"))
       \/ Spelt(st, k, n)
       \/ n \in {"C2", "C3", "Y1"} /\ st \in Comments
       \/ n = "CE" /\ ((st = "C3" /\ k = "/") \/ (st = "Y1" /\ k = "\n"))
  <2>1. st \notin {"E0", "U1", "U2", "U3", "U4", "D1", "D2"}
    BY <1>3 DEF Strings
  <2>2. ASSUME \/ n = "MX" /\ k = "-" /\ st \in {"_V", "_A"}
               \/ n = "ZX" /\ k = "0" /\ st \in {"_V", "_A"}
               \/ n = "IX" /\ k \in Digit \ {"0"} /\ st \in {"_V", "_A"}
               \/ n = "Z0" /\ k = "0" /\ st = "M0"
               \/ n = "I0" /\ k \in Digit /\ st \in {"M0", "I0"}
               \/ n = "DF" /\ k = "." /\ st \in {"Z0", "I0"}
               \/ n = "DE" /\ k \in {"e", "E"} /\ st = "I0"
               \/ n = "R2" /\ k \in Digit /\ st \in {"R1", "R2"}
               \/ n = "X1" /\ k \in {"e", "E"} /\ st = "R2"
               \/ n = "X2" /\ k \in Sign /\ st = "X1"
               \/ n = "X3" /\ k \in Digit /\ st \in {"X1", "X2", "X3"}
        PROVE  n \in Number /\ st \in Numbers \cup {"_V", "_A"}
               /\ k \in Digit \cup Sign \cup {".", "e", "E"}
    <3>1. "-" \in Sign /\ "0" \in Digit
      BY DEF Sign, Digit
    <3> QED BY <2>2, <3>1 DEF Number, Numbers, Ints, Floats
  <2>3. ASSUME \/ n = "C2" /\ k = "*" /\ st = "C1"
               \/ n = "C2" /\ st \in {"C2", "C3"}
               \/ n = "C3" /\ k = "*" /\ st \in {"C2", "C3"}
               \/ n = "Y1" /\ k # "\n" /\ st = "Y1"
        PROVE  n \in {"C2", "C3", "Y1"} /\ st \in Comments
    BY <2>3 DEF Comments
  <2> QED BY <1>1, <1>4, <2>1, <2>2, <2>3 DEF Enters
<1> QED BY <1>6, <1>7, <1>8, <1>9, <1>10, <1>11, <1>12, <1>13, <1>14, <1>15, <1>16, <1>17,
           <1>18, <1>19, <1>20

(* Every character of a text without escapes leaves the text spelled. *)
LEMMA CharSpells ==
  ASSUME NEW c, IsConfig(c), NEW p, Live(c, p), NEW t, t \in Seq(Char), Spelled(t, p),
         NEW ch \in Char \ (Escaped \cup {"\\"}),
         NEW r, r = json_parser_char(p, ch), r.ret = "0"
  PROVE  Spelled(Append(t, ch), r)
<1>1. Fits(c, p) /\ p.ret = "0" /\ HasDigits(p) /\ Held(c, p)
  BY DEF Live, Held
<1>2. PICK n : /\ InUtf8(p, ch) /\ n # "__" /\ n = NextState(p.state, Class(ch))
               /\ Enters(p.state, Class(ch), n) /\ Turn(p, ch, n, r)
  BY <1>1, CharTurns
<1>3. Fits(c, r)
  BY <1>1, CharHeld DEF Held
<1>4. r.out \in Seq(Items) /\ r.type \in Pending
  BY <1>3, Fields DEF Fits, Items
<1> DEFINE b == Stripped(t)
           x == b.text
<1>5. b.mode = StripMode(p.state) /\ Standing(p, x) /\ Unescapable(p)
  BY SpelledIs
<1>6. x \in Seq(Char)
  BY BareType
<1>7. Feeds(c, p, x, ch, n, r)
  BY <1>2, <1>4, <1>5, <1>6 DEF Feeds
<1>8. Stood(p, x, ch, r)
  BY <1>7, CharStands
<1> DEFINE m == BareNext(b, ch)
<1>9. m.mode = StripMode(r.state) /\ Standing(r, m.text) /\ Unescapable(r)
  BY <1>5, <1>8 DEF Stood
<1>10. Stripped(Append(t, ch)) = m
  BY StrippedAppend
<1> HIDE DEF m, b
<1> QED BY <1>9, <1>10, SpelledIs

(* Nothing is spelled at first. *)
LEMMA InitSpells ==
  ASSUME NEW c
  PROVE  Spelled(<<>>, json_parser_init(c))
<1> DEFINE p == json_parser_init(c)
<1>1. p.state = "GO" /\ p.out = <<>> /\ p.type = "NONE" /\ p.buffer = <<>>
  BY DEF json_parser_init
<1>2. Stripped(<<>>).mode = "plain" /\ Stripped(<<>>).text = <<>>
  BY StrippedEmpty
<1> HIDE DEF p
<1>3. <<>> \in Seq(Char) /\ <<>> \in Seq(Items)
  OBVIOUS
<1>4. Lead(p.out) = <<>> /\ Opened(p.out)
  BY <1>1, <1>3, RawEmpty, LeadType
<1>5. Standing(p, <<>>) /\ Unescapable(p) /\ StripMode(p.state) = "plain"
  <2>1. p.state \in Between \ {"OK", "CO"}
    BY <1>1 DEF Between
  <2> QED BY <1>1, <1>3, <1>4, <2>1, StandOpen
<1> QED BY <1>2, <1>5, SpelledIs DEF p

-----------------------------------------------------------------------------
(* The theorems *)

(* What holds of a parser that has read the text t: unless there was an    *)
(* error its items can be printed and read again, and without escapes they *)
(* spell the text.                                                         *)
HasRead(c, t, p) ==
  /\ Held(c, p)
  /\ p.ret = "0" => Legible(p)
  /\ p.ret = "0" /\ Unescaping(t) => Spelled(t, p)

(* It holds before the first character, *)
LEMMA InitRead ==
  ASSUME NEW c, IsConfig(c)
  PROVE  HasRead(c, <<>>, json_parser_init(c))
<1>1. Legible(json_parser_init(c))
  BY InitStands DEF Stands, Live
<1> QED BY <1>1, InitHeld, InitSpells DEF HasRead

(* after each, *)
LEMMA CharRead ==
  ASSUME NEW c, IsConfig(c), NEW t, t \in Seq(Char \ Escaped), NEW p, HasRead(c, t, p),
         p.ret = "0", NEW ch \in Char \ Escaped
  PROVE  HasRead(c, Append(t, ch), json_parser_char(p, ch))
<1> DEFINE r == json_parser_char(p, ch)
<1>1. Held(c, p) /\ Legible(p)
  BY DEF HasRead
<1>2. Held(c, r)
  BY <1>1, CharHeld
<1>3. r.ret = "0" => Legible(r)
  BY <1>1, CharLegible
<1>4. ASSUME r.ret = "0", Unescaping(Append(t, ch)) PROVE Spelled(Append(t, ch), r)
  <2>1. Unescaping(t) /\ ch # "\\"
    <3>1. /\ Len(Append(t, ch)) = Len(t) + 1 /\ Append(t, ch)[Len(t) + 1] = ch
          /\ \A i \in 1 .. Len(t) : Append(t, ch)[i] = t[i]
          /\ DOMAIN t = 1 .. Len(t) /\ DOMAIN Append(t, ch) = 1 .. Len(t) + 1 /\ Len(t) \in Nat
      OBVIOUS
    <3> QED BY <1>4, <3>1 DEF Unescaping
  <2>2. t \in Seq(Char)
    OBVIOUS
  <2>3. Live(c, p) /\ Spelled(t, p)
    BY <1>1, <2>1 DEF HasRead, Live
  <2> QED BY <1>4, <2>1, <2>2, <2>3, CharSpells
<1> HIDE DEF r
<1> QED BY <1>2, <1>3, <1>4 DEF HasRead, r

(* and after any text that is read at once. *)
LEMMA ParseRead ==
  ASSUME NEW c, IsConfig(c), NEW s, s \in Seq(Char \ Escaped)
  PROVE  HasRead(c, s, Parse(c, s))
<1>0. Len(s) \in Nat /\ s \in Seq(Char) /\ SubSeq(s, 1, 0) = <<>> /\ SubSeq(s, 1, Len(s)) = s
  OBVIOUS
<1>1. PICK P : IsRun(P, json_parser_init(c), s)
  BY <1>0, RunExists
<1> DEFINE T == {i \in 0 .. Len(s) : HasRead(c, SubSeq(s, 1, i), P[i])}
<1>2. 0 \in T
  <2>1. P[0] = json_parser_init(c)
    BY <1>0, <1>1, RunSteps
  <2>2. HasRead(c, <<>>, json_parser_init(c))
    BY InitRead
  <2>3. HasRead(c, SubSeq(s, 1, 0), P[0])
    BY <1>0, <2>1, <2>2
  <2>4. 0 \in 0 .. Len(s)
    BY <1>0
  <2> QED BY <2>3, <2>4
<1>3. ASSUME NEW i \in 1 .. Len(s), i - 1 \in T PROVE i \in T
  <2> DEFINE t == SubSeq(s, 1, i - 1)
             e == s[i]
  <2>1. /\ SubSeq(s, 1, i) = Append(t, e) /\ t \in Seq(Char \ Escaped)
        /\ e \in Char \ Escaped /\ i \in 0 .. Len(s)
    BY <1>0, PrefixStep
  <2>2. HasRead(c, t, P[i - 1])
    BY <1>3
  <2>3. P[i] = IF P[i - 1].ret = "0" THEN json_parser_char(P[i - 1], e) ELSE P[i - 1]
    BY <1>0, <1>1, RunSteps
  <2> HIDE DEF t, e
  <2>4. HasRead(c, Append(t, e), P[i])
    <3>1. CASE P[i - 1].ret = "0"
      BY <2>1, <2>2, <2>3, <3>1, CharRead
    <3>2. CASE P[i - 1].ret # "0"
      BY <2>2, <2>3, <3>2 DEF HasRead
    <3> QED BY <3>1, <3>2
  <2> QED BY <2>1, <2>4
<1> HIDE DEF T
<1>4. \A i \in 0 .. Len(s) : i \in T
  BY <1>0, <1>2, <1>3, IntervalInduction
<1>5. HasRead(c, s, P[Len(s)])
  <2>1. Len(s) \in T
    BY <1>0, <1>4
  <2>2. HasRead(c, SubSeq(s, 1, Len(s)), P[Len(s)])
    BY <2>1 DEF T
  <2> QED BY <1>0, <2>2
<1> QED BY <1>0, <1>1, <1>5, ParseIsRun

(* ParserInv, with what the texts are made of. *)
FedInv ==
  /\ source \in Sources /\ text \in Seq(Char \ Escaped) /\ Len(text) <= source.length
  /\ HasRead(source.config, text, parser)

(* It holds at every moment. *)
LEMMA FedInvHolds == Spec => []FedInv
<1>1. Init => FedInv
  <2> SUFFICES ASSUME Init PROVE FedInv
    OBVIOUS
  <2>1. IsConfig(source.config) /\ text \in Seq(Char \ Escaped) /\ Len(text) <= source.length
    BY SourcesAssumption DEF Init
  <2> QED BY <2>1, ParseRead DEF Init, FedInv
<1>2. FedInv /\ [Next]_vars => FedInv'
  <2> SUFFICES ASSUME FedInv, [Next]_vars PROVE FedInv'
    OBVIOUS
  <2>1. CASE UNCHANGED vars
    BY <2>1 DEF FedInv, vars
  <2>2. ASSUME NEW ch \in source.alphabet, Feed(ch)
        PROVE  FedInv'
    <3>1. /\ IsConfig(source.config) /\ ch \in Char \ Escaped /\ source \in Sources
          /\ source.length \in Nat
      BY SourcesAssumption, CharsAreNamed DEF FedInv
    <3>2. HasRead(source.config, text', parser')
      BY <2>2, <3>1, CharRead DEF FedInv, Feed
    <3>3. text' \in Seq(Char \ Escaped) /\ Len(text') <= source.length
      BY <2>2, <3>1 DEF FedInv, Feed
    <3> QED BY <2>2, <3>1, <3>2, <3>3 DEF FedInv, Feed
  <2> QED BY <2>1, <2>2 DEF Next
<1> QED BY <1>1, <1>2, PTL DEF Spec

(* The invariant that TLC checks on its sources holds of all of them. *)
THEOREM ParserInvHolds == Spec => []ParserInv
<1>1. FedInv => ParserInv
  BY DEF FedInv, HasRead, Held, Fits, ParserInv, Good
<1> QED BY <1>1, FedInvHolds, PTL

(* Whatever is fed to json_parser_string(), buffer and stack stay within   *)
(* the limits of the configuration and every field in its type.            *)
THEOREM Limits == Spec => []WithinLimits
<1>1. FedInv => WithinLimits
  <2> SUFFICES ASSUME FedInv PROVE WithinLimits
    OBVIOUS
  <2>1. Fits(source.config, parser) /\ IsConfig(source.config)
    BY SourcesAssumption DEF FedInv, HasRead, Held
  <2>2. parser \in Parsers(source.config) /\ Room(parser)
    BY <2>1 DEF Fits
  <2>3. TypeOK
    BY <2>2, Fields DEF TypeOK, FedInv, Pending
  <2> QED BY <2>1, <2>2, <2>3, Fields DEF WithinLimits, Room, IsConfig
<1> QED BY <1>1, FedInvHolds, PTL

(* At every moment what the callback was told is nested as JSON is, its    *)
(* open structures are those of the stack and its strings are UTF-8.       *)
THEOREM CallbackIsJson == Spec => []CallbackSeesJson
<1>1. FedInv => CallbackSeesJson
  <2> SUFFICES ASSUME FedInv PROVE CallbackSeesJson
    OBVIOUS
  <2>1. Nesting(parser) /\ Utf8(parser)
    BY DEF FedInv, HasRead, Held
  <2>2. CallbackSeesNesting
    BY <2>1 DEF CallbackSeesNesting, Nesting, Modes, Mode, Good
  <2>3. StringsAreUtf8
    BY <2>1 DEF StringsAreUtf8, Utf8
  <2> QED BY <2>2, <2>3 DEF CallbackSeesJson
<1> QED BY <1>1, FedInvHolds, PTL

(* An accepted text is one document; without escapes it is, but for layout *)
(* and comments, what json_print_raw() makes of the items reported.        *)
LEMMA AcceptedIsSpelled == FedInv => AcceptedSpellsItems
<1> SUFFICES ASSUME FedInv, Accepted, Unescaping(text)
             PROVE  /\ Nested(parser.out) = <<"ROOT">>
                    /\ Bare(text) = Printed(parser.out, FALSE)
  BY DEF AcceptedSpellsItems
<1>1. parser.ret = "0" /\ parser.state = "OK" /\ parser.stack = <<>>
  BY DEF Accepted, Good, json_parser_is_done
<1>2. Live(source.config, parser) /\ Spelled(text, parser)
  BY <1>1 DEF FedInv, HasRead, Live
<1>3. parser.type = "NONE" /\ Nested(parser.out) = <<"ROOT">>
  BY <1>1, <1>2, DocumentIs
<1>4. Standing(parser, Stripped(text).text)
  BY <1>2, SpelledIs
<1>5. Resumed(parser) = "OK"
  BY <1>1 DEF Resumed, Comments
<1>6. Raw(parser.out) = Stripped(text).text
  BY <1>3, <1>4, <1>5 DEF Standing
<1>7. Printed(parser.out, FALSE) = Raw(parser.out)
  BY DEF Printed, Raw, Prints
<1> QED BY <1>3, <1>6, <1>7 DEF Bare

(* The items of an accepted text, printed with layout or without, are read *)
(* again as the same items.                                                *)
LEMMA AcceptedReadsBack == FedInv => PrintedReadsBack
<1> SUFFICES ASSUME FedInv, Accepted, NEW pretty \in BOOLEAN,
                    NEW d, d = [parser.config EXCEPT !.max_data = 0],
                    NEW again, again = Parse(d, Printed(parser.out, pretty))
             PROVE  again.ret = "0" /\ json_parser_is_done(again) /\ again.out = parser.out
  BY DEF PrintedReadsBack
<1>1. parser.ret = "0" /\ parser.state = "OK" /\ parser.stack = <<>>
  BY DEF Accepted, Good, json_parser_is_done
<1>2. Live(source.config, parser) /\ IsConfig(source.config)
  BY <1>1, SourcesAssumption DEF FedInv, HasRead, Live
<1>3. parser.config = source.config
  BY <1>2, Fields DEF Live, Held, Fits
<1> QED BY <1>1, <1>2, <1>3, ReadsBack

(* Whatever the text and however long: what is accepted is spelled by its  *)
(* items, and survives being printed and read again.                       *)
THEOREM AcceptedTextSurvives == Spec => []AcceptedSurvives
<1>1. FedInv => AcceptedSurvives
  BY AcceptedIsSpelled, AcceptedReadsBack DEF AcceptedSurvives
<1> QED BY <1>1, FedInvHolds, PTL
=============================================================================
