---------------------------- MODULE HashTabProofs ----------------------------
(***************************************************************************)
(* Theorems about the hash table: what each call of hashtab.c does to a    *)
(* table that satisfies TableInv, for every key and hash function, and     *)
(* what follows for any sequence of calls (HashTabUse).  The proofs about  *)
(* the tables of Events and Attr use the lemmas on the calls.              *)
(*                                                                         *)
(* The first lemmas are arithmetic and induction: a set of numbers has a   *)
(* least member (LeastNat), hence induction over an interval for the set   *)
(* of numbers of which something holds (IntervalInduction), and a function *)
(* defined by recursion over an interval exists (RecursionExists).  They   *)
(* take a set or a function as their parameter, never an operator.  Then   *)
(* one lemma for each call: that it keeps TableInv, where it leaves the    *)
(* position and what happens to the items.  The next ones count the items  *)
(* in the order of the loop of hashtab.h (UpTo), and the theorems about    *)
(* all sequences of calls come last.                                       *)
(***************************************************************************)
EXTENDS HashTabUse, FiniteSetTheorems, WellFoundedInduction, TLAPS

(* A set of natural numbers that is not empty has a least member: the form *)
(* of induction the proofs below use.                                      *)
LEMMA LeastNat ==
  ASSUME NEW T, T \subseteq Nat, T # {}
  PROVE  \E x \in T : \A y \in T : x <= y
<1> DEFINE R == {ss \in Nat \X Nat : ss[1] < ss[2]}
<1>1. IsWellFoundedOn(R, Nat)
  BY NatLessThanWellFounded DEF OpToRel
<1>2. PICK x \in T : \A y \in T : <<y, x>> \notin R
  BY <1>1, WFMin
<1>3. ASSUME NEW y \in T PROVE x <= y
  <2>1. x \in Nat /\ y \in Nat
    OBVIOUS
  <2>2. <<y, x>> \in Nat \X Nat /\ <<y, x>>[1] = y /\ <<y, x>>[2] = x
    BY <2>1
  <2>3. ~(y < x)
    BY <1>2, <2>2
  <2> QED BY <2>1, <2>3
<1> QED BY <1>3

(* Induction over an interval, with the set of numbers of which something  *)
(* holds.                                                                  *)
LEMMA IntervalInduction ==
  ASSUME NEW N \in Nat, NEW T, 0 \in T,
         \A n \in 1 .. N : n - 1 \in T => n \in T
  PROVE  \A n \in 0 .. N : n \in T
<1> DEFINE U == {n \in 0 .. N : n \notin T}
<1>1. SUFFICES ASSUME U # {} PROVE FALSE
  OBVIOUS
<1>2. U \subseteq Nat
  OBVIOUS
<1>3. PICK m \in U : \A y \in U : m <= y
  BY <1>1, <1>2, LeastNat
<1>4. m \in 1 .. N /\ m - 1 \in 0 .. N /\ ~(m <= m - 1)
  OBVIOUS
<1>5. m - 1 \in T
  BY <1>3, <1>4
<1> QED BY <1>4, <1>5

(* f starts at a, and each of its N further values comes from the one      *)
(* before it by g.                                                         *)
Iterates(f, N, a, g) == f[0] = a /\ \A n \in 1 .. N : f[n] = g[<<n, f[n - 1]>>]

(* A function defined by recursion over an initial interval exists.        *)
LEMMA RecursionExists ==
  ASSUME NEW N \in Nat, NEW S, NEW a \in S, NEW g \in [(1 .. N) \X S -> S]
  PROVE  \E f \in [0 .. N -> S] : Iterates(f, N, a, g)
<1> USE DEF Iterates
<1> DEFINE P(m) == \E f \in [0 .. m -> S] :
             f[0] = a /\ \A n \in 1 .. m : f[n] = g[<<n, f[n - 1]>>]
           T == {m \in 0 .. N : ~P(m)}
<1>1. SUFFICES ASSUME ~P(N) PROVE FALSE
  OBVIOUS
<1>2. T \subseteq Nat /\ N \in T
  BY <1>1
<1>3. PICK m \in T : \A y \in T : m <= y
  BY <1>2, LeastNat
<1>4. P(0)
  <2> DEFINE f == [n \in 0 .. 0 |-> a]
  <2>1. f \in [0 .. 0 -> S] /\ f[0] = a /\ \A n \in 1 .. 0 : f[n] = g[<<n, f[n - 1]>>]
    OBVIOUS
  <2> QED BY <2>1
<1>5. m \in 1 .. N /\ m - 1 \in 0 .. N /\ P(m - 1)
  <2>1. m \in 0 .. N /\ ~P(m)
    OBVIOUS
  <2> HIDE DEF P
  <2>2. m # 0
    BY <1>4, <2>1
  <2>3. m - 1 \in 0 .. N /\ ~(m <= m - 1)
    BY <2>1, <2>2
  <2>4. m - 1 \notin T
    BY <1>3, <2>3
  <2> QED BY <2>1, <2>2, <2>3, <2>4
<1>6. PICK h \in [0 .. m - 1 -> S] :
         h[0] = a /\ \A n \in 1 .. m - 1 : h[n] = g[<<n, h[n - 1]>>]
  BY <1>5
<1> DEFINE f == [n \in 0 .. m |-> IF n = m THEN g[<<m, h[m - 1]>>] ELSE h[n]]
<1>7. g[<<m, h[m - 1]>>] \in S
  BY <1>5, <1>6
<1>8. f \in [0 .. m -> S] /\ f[0] = a
  BY <1>5, <1>6, <1>7
<1>9. ASSUME NEW n \in 1 .. m PROVE f[n] = g[<<n, f[n - 1]>>]
  <2>1. n - 1 \in 0 .. m /\ n - 1 # m /\ n \in 0 .. m
    BY <1>5
  <2>2. f[n - 1] = h[n - 1]
    BY <2>1
  <2>3. CASE n = m
    BY <2>1, <2>2, <2>3
  <2>4. CASE n # m
    <3>1. n \in 1 .. m - 1
      BY <1>5, <2>4
    <3> QED BY <1>6, <2>1, <2>2, <2>4, <3>1
  <2> QED BY <2>3, <2>4
<1>10. P(m)
  BY <1>8, <1>9
<1> QED BY <1>3, <1>10

-----------------------------------------------------------------------------
(* Bucket numbers.                                                         *)

(* A remainder is in its range.                                            *)
LEMMA ModRange ==
  ASSUME NEW h \in Nat, NEW s \in Nat \ {0}
  PROVE  h % s \in 0 .. s - 1
OBVIOUS

(* There is one remainder.                                                 *)
LEMMA ModUnique ==
  ASSUME NEW h \in Nat, NEW s \in Nat \ {0}, NEW q \in Int, NEW r \in 0 .. s - 1,
         h = s * q + r
  PROVE  h % s = r
OBVIOUS

(* A hash value that leads to bucket j of the doubled array led to bucket  *)
(* j % s of the old one, as the mask of hgrow() has one more bit.          *)
LEMMA ModDouble ==
  ASSUME NEW h \in Nat, NEW s \in Nat \ {0}
  PROVE  (h % (2 * s)) % s = h % s
<1> DEFINE d == 2 * s
           q == h \div d
           r == h % d
<1>1. d \in Nat \ {0}
  OBVIOUS
<1>2. h = d * q + r /\ q \in Int /\ r \in 0 .. d - 1
  <2> HIDE DEF d
  <2>1. r \in 0 .. d - 1
    BY <1>1, ModRange
  <2>2. h = d * q + r /\ q \in Int
    BY <1>1
  <2> QED BY <2>1, <2>2
<1> HIDE DEF q, r
<1>3. CASE r < s
  <2>1. r \in 0 .. s - 1 /\ r = s * 0 + r /\ r \in Nat
    BY <1>2, <1>3
  <2>2. h = s * (2 * q) + r /\ 2 * q \in Int
    BY <1>2
  <2> HIDE DEF r, q
  <2>3. r % s = r
    BY <2>1
  <2>4. h % s = r
    BY <2>1, <2>2, ModUnique
  <2> QED BY <2>3, <2>4 DEF r
<1>4. CASE r >= s
  <2>1. r - s \in 0 .. s - 1 /\ r = s * 1 + (r - s) /\ r \in Nat
    BY <1>2, <1>4
  <2>2. h = s * (2 * q + 1) + (r - s) /\ 2 * q + 1 \in Int
    <3>1. s * (2 * q + 1) = (2 * s) * q + s
      BY <1>2
    <3> QED BY <1>2, <3>1
  <2> DEFINE e == r - s
             p == 2 * q + 1
  <2>3. e \in 0 .. s - 1 /\ p \in Int /\ r = s * 1 + e /\ h = s * p + e
    BY <2>1, <2>2
  <2> HIDE DEF e, p
  <2>4. r % s = e
    BY <2>1, <2>3, ModUnique
  <2>5. h % s = e
    BY <2>3, ModUnique
  <2> QED BY <2>4, <2>5 DEF r
<1> QED BY <1>2, <1>3, <1>4

-----------------------------------------------------------------------------
(* Growing.                                                                *)

(* f[n] is what the first n items of chain c add to chain i.               *)
Pushes(f, c, size, i) ==
  /\ f[0] = <<>>
  /\ \A n \in 1 .. Len(c) :
       f[n] = IF Hash[c[n]] % size = i THEN <<c[n]>> \o f[n - 1] ELSE f[n - 1]

(* The recursion of hgrow's walk over a chain.                             *)
LEMMA MovedRecursion ==
  ASSUME NEW c \in Seq(Keys), NEW size, NEW i
  PROVE  \E f \in [0 .. Len(c) -> Seq(Keys)] :
           Pushes(f, c, size, i) /\ Moved(c, size, i) = f[Len(c)]
<1> DEFINE Fits(k) == Hash[k] % size = i
           N == Len(c)
           S == Seq(Keys)
           g == [p \in (1 .. N) \X S |->
                   IF Fits(c[p[1]]) THEN <<c[p[1]]>> \o p[2] ELSE p[2]]
           Rec(f) == f = [n \in 0 .. N |->
                            IF n = 0 THEN <<>>
                            ELSE IF Fits(c[n]) THEN <<c[n]>> \o f[n - 1]
                            ELSE f[n - 1]]
           F == CHOOSE f : Rec(f)
<1>1. N \in Nat /\ <<>> \in S /\ g \in [(1 .. N) \X S -> S]
  <2>1. ASSUME NEW p \in (1 .. N) \X S
        PROVE  p[2] \in S /\ <<c[p[1]]>> \o p[2] \in S
    OBVIOUS
  <2> QED BY <2>1
<1>2. PICK f \in [0 .. N -> S] :
         f[0] = <<>> /\ \A n \in 1 .. N : f[n] = g[<<n, f[n - 1]>>]
  <2>1. \E f \in [0 .. N -> S] : Iterates(f, N, <<>>, g)
    <3> HIDE DEF N, S, g
    <3> QED BY <1>1, RecursionExists
  <2> QED BY <2>1 DEF Iterates
<1>3. ASSUME NEW n \in 1 .. N
      PROVE  f[n] = IF Fits(c[n]) THEN <<c[n]>> \o f[n - 1] ELSE f[n - 1]
  <2>1. f[n - 1] \in S
    <3>1. n - 1 \in 0 .. N
      BY <1>1
    <3> HIDE DEF N, S
    <3> QED BY <3>1
  <2>2. <<n, f[n - 1]>> \in (1 .. N) \X S
    BY <2>1
  <2> QED BY <1>2, <2>2
<1>4. Rec(f)
  <2> DEFINE h == [n \in 0 .. N |->
                     IF n = 0 THEN <<>>
                     ELSE IF Fits(c[n]) THEN <<c[n]>> \o f[n - 1]
                     ELSE f[n - 1]]
  <2>1. ASSUME NEW n \in 0 .. N PROVE f[n] = h[n]
    <3>1. CASE n = 0
      BY <1>2, <3>1
    <3>2. CASE n # 0
      <4>1. n \in 1 .. N
        BY <3>2
      <4> QED BY <1>3, <3>2, <4>1
    <3> QED BY <3>1, <3>2
  <2>2. f = h
    BY <2>1
  <2> QED BY <2>2
<1>5. Rec(F)
  BY <1>4
<1>6. Moved(c, size, i) = F[N]
  BY DEF Moved
<1> HIDE DEF F, Fits
<1>7. ASSUME NEW n \in 1 .. N
      PROVE  F[n] = IF Fits(c[n]) THEN <<c[n]>> \o F[n - 1] ELSE F[n - 1]
  <2> DEFINE G == F
  <2> HIDE DEF G
  <2>1. F = [k \in 0 .. N |->
               IF k = 0 THEN <<>>
               ELSE IF Fits(c[k]) THEN <<c[k]>> \o G[k - 1]
               ELSE G[k - 1]]
    BY <1>5 DEF G
  <2>2. n \in 0 .. N /\ n # 0
    BY <1>1
  <2>3. F[n] = IF Fits(c[n]) THEN <<c[n]>> \o G[n - 1] ELSE G[n - 1]
    BY <2>1, <2>2
  <2> QED BY <2>3 DEF G
<1>8. F = f
  <2> DEFINE T == {n \in 0 .. N : F[n] # f[n]}
  <2>1. SUFFICES T = {}
    <3>1. DOMAIN F = 0 .. N /\ F = [n \in 0 .. N |-> F[n]]
      BY <1>5
    <3> QED BY <3>1
  <2>2. SUFFICES ASSUME T # {} PROVE FALSE
    OBVIOUS
  <2>3. PICK m \in T : \A y \in T : m <= y
    <3>1. T \subseteq Nat
      BY <1>1
    <3> QED BY <2>2, <3>1, LeastNat
  <2>4. F[0] = <<>>
    BY <1>1, <1>5
  <2>5. m \in 1 .. N /\ m - 1 \in 0 .. N /\ ~(m <= m - 1)
    BY <1>1, <1>2, <2>4
  <2>6. F[m - 1] = f[m - 1]
    BY <2>3, <2>5
  <2>7. F[m] = f[m]
    <3>1. CASE Fits(c[m])
      <4>1. F[m] = <<c[m]>> \o F[m - 1]
        BY <1>7, <2>5, <3>1
      <4>2. f[m] = <<c[m]>> \o f[m - 1]
        BY <1>3, <2>5, <3>1
      <4> QED BY <2>6, <4>1, <4>2
    <3>2. CASE ~Fits(c[m])
      <4>1. F[m] = F[m - 1]
        BY <1>7, <2>5, <3>2
      <4>2. f[m] = f[m - 1]
        BY <1>3, <2>5, <3>2
      <4> QED BY <2>6, <4>1, <4>2
    <3> QED BY <3>1, <3>2
  <2> QED BY <2>7
<1>9. Moved(c, size, i) = f[N]
  BY <1>6, <1>8
<1>10. Pushes(f, c, size, i)
  BY <1>2, <1>3 DEF Fits, Pushes
<1> QED BY <1>9, <1>10

(* hgrow moves to a chain the items of the old one whose hash value leads  *)
(* there, each once.                                                       *)
LEMMA MovedItems ==
  ASSUME NEW c \in Seq(Keys), NEW size, NEW i
  PROVE  /\ Moved(c, size, i) \in Seq(Keys)
         /\ \A k : Contains(Moved(c, size, i), k)
                    <=> Contains(c, k) /\ Hash[k] % size = i
         /\ Once(c) => Once(Moved(c, size, i))
<1> DEFINE Fits(k) == Hash[k] % size = i
           N == Len(c)
<1>p. PICK f \in [0 .. N -> Seq(Keys)] :
         Pushes(f, c, size, i) /\ Moved(c, size, i) = f[N]
  BY MovedRecursion
<1>1. /\ f[0] = <<>>
      /\ \A n \in 1 .. N :
           f[n] = IF Fits(c[n]) THEN <<c[n]>> \o f[n - 1] ELSE f[n - 1]
      /\ Moved(c, size, i) = f[N]
  BY <1>p DEF Pushes
<1> HIDE DEF Fits
<1> DEFINE Has(n) == \A k : (\E j \in 1 .. Len(f[n]) : f[n][j] = k)
                             <=> (\E j \in 1 .. n : c[j] = k /\ Fits(k))
           T == {n \in 0 .. N : Has(n) /\ (Once(c) => Once(f[n]))}
<1>2. N \in Nat
  OBVIOUS
<1>3. 0 \in T
  BY <1>1, <1>2 DEF Once
<1>4. ASSUME NEW n \in 1 .. N, n - 1 \in T PROVE n \in T
  <2>1. f[n - 1] \in Seq(Keys) /\ f[n] \in Seq(Keys) /\ c[n] \in Keys
    OBVIOUS
  <2>2. CASE Fits(c[n])
    <3> DEFINE e == f[n - 1]
    <3>1. f[n] = <<c[n]>> \o e
      BY <1>1, <2>2
    <3>2. /\ Len(f[n]) = Len(e) + 1
          /\ f[n][1] = c[n]
          /\ \A j \in 2 .. Len(f[n]) : f[n][j] = e[j - 1]
          /\ \A j \in 1 .. Len(e) : f[n][j + 1] = e[j]
      BY <2>1, <3>1
    <3>3. Has(n)
      <4> HIDE DEF e
      <4>1. ASSUME NEW k
            PROVE  (\E j \in 1 .. Len(f[n]) : f[n][j] = k)
                     <=> k = c[n] \/ (\E j \in 1 .. Len(e) : e[j] = k)
        <5>1. Len(e) \in Nat
          BY <2>1 DEF e
        <5>2. ASSUME NEW j \in 1 .. Len(f[n])
              PROVE  f[n][j] = c[n] \/ (\E l \in 1 .. Len(e) : f[n][j] = e[l])
          <6>1. CASE j = 1
            BY <3>2, <6>1
          <6>2. CASE j # 1
            <7>1. j \in 2 .. Len(f[n]) /\ j - 1 \in 1 .. Len(e)
              BY <3>2, <5>1, <6>2
            <7> QED BY <3>2, <7>1
          <6> QED BY <6>1, <6>2
        <5>3. ASSUME NEW j \in 1 .. Len(e) PROVE \E l \in 1 .. Len(f[n]) : f[n][l] = e[j]
          <6>1. j + 1 \in 1 .. Len(f[n])
            BY <3>2, <5>1
          <6> QED BY <3>2, <6>1
        <5>4. 1 \in 1 .. Len(f[n]) /\ f[n][1] = c[n]
          BY <3>2, <5>1
        <5>5. ASSUME NEW j \in 1 .. Len(f[n]), f[n][j] = k
              PROVE  k = c[n] \/ (\E l \in 1 .. Len(e) : e[l] = k)
          BY <5>2, <5>5
        <5>6. ASSUME NEW j \in 1 .. Len(e), e[j] = k
              PROVE  \E l \in 1 .. Len(f[n]) : f[n][l] = k
          BY <5>3, <5>6
        <5>7. k = c[n] => \E l \in 1 .. Len(f[n]) : f[n][l] = k
          BY <5>4
        <5> QED BY <5>5, <5>6, <5>7
      <4>2. ASSUME NEW k
            PROVE  (\E j \in 1 .. n : c[j] = k /\ Fits(k))
                     <=> k = c[n] \/ (\E j \in 1 .. n - 1 : c[j] = k /\ Fits(k))
        BY <1>2, <2>2
      <4>3. \A k : (\E j \in 1 .. Len(e) : e[j] = k)
                      <=> (\E j \in 1 .. n - 1 : c[j] = k /\ Fits(k))
        BY <1>4 DEF e
      <4> QED BY <4>1, <4>2, <4>3
    <3>4. ASSUME Once(c) PROVE Once(f[n])
      <4>1. Once(e) /\ Has(n - 1) /\ Len(e) \in Nat
        BY <1>4, <2>1, <3>4
      <4>2. ASSUME NEW j \in 1 .. Len(e) PROVE e[j] # c[n]
        <5>1. PICK l \in 1 .. n - 1 : c[l] = e[j]
          BY <4>1
        <5>2. l \in 1 .. N /\ l # n
          BY <1>2
        <5> QED BY <3>4, <5>1, <5>2 DEF Once
      <4> HIDE DEF e
      <4>3. ASSUME NEW j \in 1 .. Len(f[n]), NEW l \in 1 .. Len(f[n]), f[n][j] = f[n][l]
            PROVE  j = l
        <5>1. CASE j = 1 /\ l = 1
          BY <5>1
        <5>2. CASE j # 1 /\ l = 1
          <6>1. j \in 2 .. Len(f[n]) /\ j - 1 \in 1 .. Len(e)
            BY <3>2, <4>1, <5>2
          <6> QED BY <3>2, <4>2, <4>3, <5>2, <6>1
        <5>3. CASE j = 1 /\ l # 1
          <6>1. l \in 2 .. Len(f[n]) /\ l - 1 \in 1 .. Len(e)
            BY <3>2, <4>1, <5>3
          <6> QED BY <3>2, <4>2, <4>3, <5>3, <6>1
        <5>4. CASE j # 1 /\ l # 1
          <6>1. /\ j \in 2 .. Len(f[n]) /\ j - 1 \in 1 .. Len(e)
                /\ l \in 2 .. Len(f[n]) /\ l - 1 \in 1 .. Len(e)
            BY <3>2, <4>1, <5>4
          <6>2. e[j - 1] = e[l - 1]
            BY <3>2, <4>3, <6>1
          <6>3. j - 1 = l - 1
            BY <4>1, <6>1, <6>2 DEF Once
          <6> QED BY <6>3
        <5> QED BY <5>1, <5>2, <5>3, <5>4
      <4> QED BY <4>3 DEF Once
    <3> QED BY <3>3, <3>4
  <2>3. CASE ~Fits(c[n])
    <3>1. f[n] = f[n - 1]
      BY <1>1, <2>3
    <3>2. Has(n)
      <4>1. \A k : (\E j \in 1 .. n : c[j] = k /\ Fits(k))
                     <=> (\E j \in 1 .. n - 1 : c[j] = k /\ Fits(k))
        <5>1. 1 .. n = (1 .. n - 1) \cup {n}
          OBVIOUS
        <5>2. ASSUME NEW k, NEW j \in 1 .. n, c[j] = k, Fits(k)
              PROVE  \E l \in 1 .. n - 1 : c[l] = k /\ Fits(k)
          <6>1. j # n
            BY <2>3, <5>2
          <6> QED BY <5>1, <5>2, <6>1
        <5>3. ASSUME NEW k, NEW j \in 1 .. n - 1, c[j] = k, Fits(k)
              PROVE  \E l \in 1 .. n : c[l] = k /\ Fits(k)
          BY <5>1, <5>3
        <5> QED BY <5>2, <5>3
      <4>2. \A k : (\E j \in 1 .. Len(f[n]) : f[n][j] = k)
                     <=> (\E j \in 1 .. n - 1 : c[j] = k /\ Fits(k))
        BY <1>4, <3>1
      <4> QED BY <4>1, <4>2
    <3> QED BY <3>1, <3>2
  <2> QED BY <2>2, <2>3
<1>5. N \in T
  <2> HIDE DEF T, N
  <2>1. \A n \in 1 .. N : n - 1 \in T => n \in T
    BY <1>4
  <2>2. \A n \in 0 .. N : n \in T
    BY <1>2, <1>3, <2>1, IntervalInduction
  <2> QED BY <1>2, <2>2
<1>6. Has(N) /\ (Once(c) => Once(f[N])) /\ f[N] \in Seq(Keys)
  BY <1>2, <1>5
<1>7. ASSUME NEW k
      PROVE  Contains(f[N], k) <=> Contains(c, k) /\ Fits(k)
  BY <1>6 DEF Contains
<1> QED BY <1>1, <1>6, <1>7 DEF Fits

-----------------------------------------------------------------------------
(* Moving the position.                                                    *)

(* The least member of a set of natural numbers.                           *)
LEMMA MinIs ==
  ASSUME NEW S, S \subseteq Nat, S # {}
  PROVE  Min(S) \in S /\ \A y \in S : Min(S) <= y
BY LeastNat DEF Min

(* Two tables that differ in their position only.                          *)
SameItems(t, u) ==
  u.size = t.size /\ u.chain = t.chain /\ u.stuff = t.stuff /\ u.count = t.count

(* They have the same items.                                               *)
LEMMA SameItemsFound ==
  ASSUME NEW t, NEW u, SameItems(t, u)
  PROVE  Items(u) = Items(t)
BY DEF SameItems, Items, HFindRet, Bucket

(* They are both sound when the position is.                               *)
LEMMA SameItemsSound ==
  ASSUME NEW t, NEW u, ChainInv(t), CountInv(t), SameItems(t, u),
         TableType(u), PosInv(u)
  PROVE  TableInv(u) /\ Items(u) = Items(t)
<1>1. Items(u) = Items(t)
  BY SameItemsFound
<1>2. CountInv(u)
  BY <1>1 DEF CountInv, SameItems
<1>3. ChainInv(u)
  BY DEF ChainInv, SameItems, Bucket
<1> QED BY <1>1, <1>2, <1>3 DEF TableInv

(* The position is on the head of bucket i.                                *)
LEMMA HeadSound ==
  ASSUME NEW t, TableType(t), NEW i \in 0 .. t.size - 1, t.chain[i] # <<>>
  PROVE  LET u == AtHead(t, i)
         IN  /\ SameItems(t, u) /\ TableType(u) /\ PosInv(u)
             /\ u.apos = i /\ u.ipos = t.chain[i][1]
<1> DEFINE u == AtHead(t, i)
<1>1. t.chain[i] \in Seq(Keys) /\ t.chain[i][1] \in Keys /\ 1 \in 1 .. Len(t.chain[i])
  <2>1. t.chain[i] \in Seq(Keys)
    BY DEF TableType
  <2> QED BY <2>1
<1>2. SameItems(t, u) /\ u.apos = i /\ u.ipos = t.chain[i][1]
  BY DEF SameItems, AtHead, TableType
<1>3. TableType(u)
  BY <1>1 DEF AtHead, TableType
<1>4. PosInv(u)
  BY <1>1, <1>2, KeyAssumption DEF SameItems, PosInv, Contains
<1> QED BY <1>2, <1>3, <1>4

(* Some bucket has an item.                                                *)
NotEmpty(t) == \E i \in 0 .. t.size - 1 : t.chain[i] # <<>>

(* hnbucket() goes to the head of a bucket that is not empty.              *)
LEMMA NBucketHead ==
  ASSUME NEW t, TableType(t), NotEmpty(t)
  PROVE  \E i \in 0 .. t.size - 1 : t.chain[i] # <<>> /\ HNBucket(t) = AtHead(t, i)
<1>1. CASE Later(t) # {}
  <2>1. Later(t) \subseteq Nat
    BY DEF Later, TableType
  <2>2. Min(Later(t)) \in Later(t)
    BY <1>1, <2>1, MinIs
  <2>3. Min(Later(t)) \in 0 .. t.size - 1 /\ t.chain[Min(Later(t))] # <<>>
    BY <2>2 DEF Later, TableType
  <2> QED BY <1>1, <2>3 DEF HNBucket
<1>2. CASE Later(t) = {}
  <2>1. PICK i \in 0 .. t.size - 1 : t.chain[i] # <<>>
    BY DEF NotEmpty
  <2>2. i \in Wrapped(t) /\ Wrapped(t) \subseteq Nat
    BY <1>2, <2>1 DEF Later, Wrapped, TableType
  <2>3. Min(Wrapped(t)) \in Wrapped(t)
    BY <2>2, MinIs
  <2>4. Min(Wrapped(t)) \in 0 .. t.size - 1 /\ t.chain[Min(Wrapped(t))] # <<>>
    BY <2>3 DEF Wrapped, TableType
  <2> QED BY <1>2, <2>2, <2>4 DEF HNBucket
<1> QED BY <1>1, <1>2

(* On an empty table it changes nothing.                                   *)
LEMMA NBucketEmpty ==
  ASSUME NEW t, TableType(t), ~NotEmpty(t)
  PROVE  HNBucket(t) = t
<1>1. Later(t) = {} /\ Wrapped(t) = {}
  BY DEF NotEmpty, Later, Wrapped, TableType
<1> QED BY <1>1 DEF HNBucket

(* hnbucket() moves the position to an item, if there is one.              *)
LEMMA NBucketSound ==
  ASSUME NEW t, TableType(t)
  PROVE  LET u == HNBucket(t)
         IN  /\ SameItems(t, u) /\ TableType(u)
             /\ NotEmpty(t) => PosInv(u)
             /\ ~NotEmpty(t) => u = t
<1> DEFINE u == HNBucket(t)
<1>1. CASE NotEmpty(t)
  <2>1. PICK i \in 0 .. t.size - 1 : t.chain[i] # <<>> /\ u = AtHead(t, i)
    BY <1>1, NBucketHead
  <2> QED BY <1>1, <2>1, HeadSound
<1>2. CASE ~NotEmpty(t)
  BY <1>2, NBucketEmpty DEF SameItems
<1> QED BY <1>1, <1>2

(* The items of a table are in its chains.                                 *)
LEMMA ItemsInChains ==
  ASSUME NEW t, TableType(t), ChainInv(t)
  PROVE  /\ \A k \in Keys : Bucket(t, k) \in 0 .. t.size - 1
         /\ \A i \in 0 .. t.size - 1 : \A k :
              Contains(t.chain[i], k) => k \in Items(t) /\ Bucket(t, k) = i
         /\ Items(t) # {} <=> NotEmpty(t)
<1>1. ASSUME NEW k \in Keys PROVE Bucket(t, k) \in 0 .. t.size - 1
  BY ModRange, HashAssumption DEF Bucket, TableType
<1>2. ASSUME NEW i \in 0 .. t.size - 1, NEW k, Contains(t.chain[i], k)
      PROVE  k \in Items(t) /\ Bucket(t, k) = i
  <2>1. PICK n \in 1 .. Len(t.chain[i]) : t.chain[i][n] = k
    BY <1>2 DEF Contains
  <2>2. k \in Keys
    <3>1. t.chain[i] \in Seq(Keys)
      BY DEF TableType
    <3> QED BY <2>1, <3>1
  <2>3. Bucket(t, k) = i
    BY <2>1 DEF ChainInv
  <2> QED BY <1>2, <2>2, <2>3 DEF Items, HFindRet
<1>3. ASSUME NEW k \in Items(t) PROVE NotEmpty(t)
  <2>1. Bucket(t, k) \in 0 .. t.size - 1 /\ Contains(t.chain[Bucket(t, k)], k)
    BY <1>1 DEF Items, HFindRet
  <2>2. t.chain[Bucket(t, k)] # <<>>
    BY <2>1 DEF Contains
  <2> QED BY <2>1, <2>2 DEF NotEmpty
<1>4. ASSUME NotEmpty(t) PROVE Items(t) # {}
  <2>1. PICK i \in 0 .. t.size - 1 : t.chain[i] # <<>>
    BY <1>4 DEF NotEmpty
  <2>2. Contains(t.chain[i], t.chain[i][1])
    BY <2>1 DEF Contains, TableType
  <2> QED BY <1>2, <2>2
<1> QED BY <1>1, <1>2, <1>3, <1>4

(* The position is on an item unless there is none.                        *)
LEMMA PositionOnItem ==
  ASSUME NEW t, TableType(t), ChainInv(t), PosInv(t)
  PROVE  IF t.ipos = NoKey THEN Items(t) = {} ELSE t.ipos \in Items(t)
<1>1. CASE t.ipos = NoKey
  <2>1. ~NotEmpty(t)
    BY <1>1 DEF PosInv, NotEmpty
  <2> QED BY <1>1, <2>1, ItemsInChains
<1>2. CASE t.ipos # NoKey
  <2>1. t.apos \in 0 .. t.size - 1 /\ Contains(t.chain[t.apos], t.ipos)
    BY <1>2 DEF PosInv, TableType
  <2> QED BY <1>2, <2>1, ItemsInChains
<1> QED BY <1>1, <1>2

(* hfirst() keeps a table sound, and its items.                            *)
LEMMA FirstSound ==
  ASSUME NEW t, TableInv(t)
  PROVE  LET u == HFirst(t)
         IN  SameItems(t, u) /\ TableInv(u) /\ Items(u) = Items(t)
<1> DEFINE v == [t EXCEPT !.apos = t.size - 1]
           u == HNBucket(v)
<1>0. t.size - 1 \in 0 .. t.size - 1
  BY DEF TableInv, TableType
<1>1. TableType(v) /\ SameItems(t, v) /\ v.ipos = t.ipos
  BY <1>0 DEF TableInv, TableType, SameItems
<1>2. SameItems(t, u) /\ TableType(u)
  BY <1>1, NBucketSound DEF SameItems
<1>3. PosInv(u)
  <2>1. CASE NotEmpty(v)
    BY <1>1, <2>1, NBucketSound
  <2>2. CASE ~NotEmpty(v)
    <3>0. ~NotEmpty(t) /\ u = v
      BY <1>1, <2>2, NBucketSound DEF NotEmpty, SameItems
    <3>1. Items(t) = {} /\ \A i \in 0 .. t.size - 1 : t.chain[i] = <<>>
      BY <3>0, ItemsInChains DEF TableInv, NotEmpty
    <3>2. t.ipos = NoKey
      BY <3>1, PositionOnItem DEF TableInv
    <3> QED BY <1>1, <3>0, <3>1, <3>2 DEF PosInv, SameItems
  <2> QED BY <2>1, <2>2
<1>4. HFirst(t) = u
  BY DEF HFirst
<1> QED BY <1>2, <1>3, <1>4, SameItemsSound DEF TableInv

(* hfind() keeps a table sound, and its items, and is on the key it finds. *)
LEMMA FindSound ==
  ASSUME NEW t, TableInv(t), NEW k \in Keys
  PROVE  LET u == HFind(t, k)
         IN  /\ SameItems(t, u) /\ TableInv(u) /\ Items(u) = Items(t)
             /\ k \in Items(t) => u.ipos = k
             /\ k \notin Items(t) => u = t
<1> DEFINE u == HFind(t, k)
<1>0. HFindRet(t, k) <=> k \in Items(t)
  BY DEF Items
<1>1. CASE HFindRet(t, k)
  <2>1. Bucket(t, k) \in 0 .. t.size - 1
    BY ItemsInChains DEF TableInv
  <2>2. TableType(u) /\ SameItems(t, u) /\ u.apos = Bucket(t, k) /\ u.ipos = k
    BY <1>1, <2>1 DEF TableInv, TableType, SameItems, HFind
  <2>3. PosInv(u)
    BY <1>1, <2>2, KeyAssumption DEF PosInv, SameItems, HFindRet
  <2> QED BY <1>0, <1>1, <2>2, <2>3, SameItemsSound DEF TableInv
<1>2. CASE ~HFindRet(t, k)
  BY <1>0, <1>2 DEF HFind, SameItems
<1> QED BY <1>1, <1>2

(* The place of the current item.                                          *)
LEMMA PlaceIs ==
  ASSUME NEW t, TableType(t), PosInv(t), t.ipos # NoKey
  PROVE  /\ Place(t) \in 1 .. Len(t.chain[t.apos])
         /\ t.chain[t.apos][Place(t)] = t.ipos
<1> DEFINE c == t.chain[t.apos]
           I == {i \in 1 .. Len(c) : c[i] = t.ipos}
<1>1. c \in Seq(Keys)
  BY DEF TableType
<1>2. I # {} /\ I \subseteq Nat
  BY <1>1 DEF PosInv, Contains
<1>3. Place(t) = Min(I)
  BY <1>2 DEF Place, SelectInSeq
<1>4. Min(I) \in I
  BY <1>2, MinIs
<1> QED BY <1>3, <1>4

(* The item after it.                                                      *)
LEMMA FollowingIs ==
  ASSUME NEW t, TableType(t), PosInv(t), t.ipos # NoKey
  PROVE  LET c == t.chain[t.apos]
         IN  IF Place(t) < Len(c)
             THEN Following(t) = c[Place(t) + 1] /\ Following(t) \in Keys
                  /\ Contains(c, Following(t))
             ELSE Following(t) = NoKey
<1> DEFINE c == t.chain[t.apos]
<1>1. c \in Seq(Keys) /\ Place(t) \in 1 .. Len(c)
  BY PlaceIs DEF TableType
<1>2. CASE Place(t) < Len(c)
  <2>1. Place(t) + 1 \in 1 .. Len(c)
    BY <1>1, <1>2
  <2>2. Following(t) = c[Place(t) + 1]
    BY <1>2 DEF Following
  <2> QED BY <1>1, <1>2, <2>1, <2>2 DEF Contains
<1>3. CASE ~(Place(t) < Len(c))
  BY <1>3 DEF Following
<1> QED BY <1>2, <1>3

(* hnext() keeps a table sound, and its items.                             *)
LEMMA NextSound ==
  ASSUME NEW t, TableInv(t)
  PROVE  LET u == HNext(t)
         IN  SameItems(t, u) /\ TableInv(u) /\ Items(u) = Items(t)
<1> DEFINE u == HNext(t)
<1> USE DEF TableInv
<1>1. CASE t.ipos = NoKey
  BY <1>1 DEF HNext, SameItems
<1>2. CASE t.ipos # NoKey /\ Following(t) # NoKey
  <2>1. Following(t) \in Keys /\ Contains(t.chain[t.apos], Following(t))
    BY <1>2, FollowingIs
  <2>2. u = [t EXCEPT !.ipos = Following(t)]
    BY <1>2 DEF HNext
  <2>3. TableType(u) /\ SameItems(t, u) /\ u.apos = t.apos /\ u.ipos = Following(t)
    BY <2>1, <2>2 DEF TableType, SameItems
  <2>4. PosInv(u)
    BY <1>2, <2>1, <2>3 DEF PosInv, SameItems
  <2> QED BY <2>3, <2>4, SameItemsSound
<1>3. CASE t.ipos # NoKey /\ Following(t) = NoKey
  <2>1. NotEmpty(t)
    <3>1. t.ipos \in Items(t)
      BY <1>3, PositionOnItem
    <3> QED BY <3>1, ItemsInChains
  <2>2. u = HNBucket(t)
    BY <1>3 DEF HNext
  <2> QED BY <2>1, <2>2, NBucketSound, SameItemsSound
<1> QED BY <1>1, <1>2, <1>3

-----------------------------------------------------------------------------
(* Removing.                                                               *)

(* A chain without the item at place p.                                    *)
LEMMA RemoveAtIs ==
  ASSUME NEW c \in Seq(Keys), NEW p \in 1 .. Len(c)
  PROVE  /\ RemoveAt(c, p) \in Seq(Keys)
         /\ Len(RemoveAt(c, p)) = Len(c) - 1
         /\ \A j \in 1 .. Len(c) - 1 :
              RemoveAt(c, p)[j] = IF j < p THEN c[j] ELSE c[j + 1]
<1> DEFINE a == SubSeq(c, 1, p - 1)
           b == SubSeq(c, p + 1, Len(c))
<1>1. /\ a \in Seq(Keys) /\ Len(a) = p - 1
      /\ \A j \in 1 .. p - 1 : a[j] = c[j]
  OBVIOUS
<1>2. /\ b \in Seq(Keys) /\ Len(b) = Len(c) - p
      /\ \A j \in 1 .. Len(c) - p : b[j] = c[p + j]
  OBVIOUS
<1> HIDE DEF a, b
<1>l. Len(c) \in Nat
  OBVIOUS
<1>3. /\ a \o b \in Seq(Keys) /\ Len(a \o b) = Len(c) - 1
  <2>0. a \in Seq(Keys) /\ b \in Seq(Keys)
    BY <1>1, <1>2
  <2>1. a \o b \in Seq(Keys) /\ Len(a \o b) = Len(a) + Len(b)
    BY ONLY <2>0
  <2>2. Len(a) + Len(b) = Len(c) - 1
    BY <1>1, <1>2, <1>l
  <2> QED BY <2>1, <2>2
<1>4. ASSUME NEW j \in 1 .. Len(c) - 1
      PROVE  (a \o b)[j] = IF j < p THEN c[j] ELSE c[j + 1]
  <2>1. CASE j < p
    <3>1. j \in 1 .. p - 1
      BY <2>1
    <3>2. (a \o b)[j] = a[j]
      BY <1>1, <1>2, <3>1
    <3> QED BY <1>1, <2>1, <3>1, <3>2
  <2>2. CASE j >= p
    <3>1. j - (p - 1) \in 1 .. Len(c) - p /\ p + (j - (p - 1)) = j + 1
      BY <2>2
    <3>2. (a \o b)[j] = b[j - (p - 1)]
      BY <1>1, <1>2, <2>2, <3>1
    <3> QED BY <1>2, <2>2, <3>1, <3>2
  <2>3. j \in Int /\ p \in Int
    BY <1>l
  <2>4. j < p \/ j >= p
    BY <2>3
  <2> QED BY <2>1, <2>2, <2>4
<1>5. RemoveAt(c, p) = a \o b
  BY DEF RemoveAt, a, b
<1> QED BY <1>3, <1>4, <1>5

(* It has the other items, each once.                                      *)
LEMMA RemoveAtItems ==
  ASSUME NEW c \in Seq(Keys), NEW p \in 1 .. Len(c), Once(c)
  PROVE  /\ \A k : Contains(RemoveAt(c, p), k) <=> Contains(c, k) /\ k # c[p]
         /\ Once(RemoveAt(c, p))
<1> DEFINE d == RemoveAt(c, p)
<1>1. /\ d \in Seq(Keys) /\ Len(d) = Len(c) - 1 /\ Len(c) \in Nat
      /\ \A j \in 1 .. Len(d) : d[j] = IF j < p THEN c[j] ELSE c[j + 1]
  <2>1. /\ d \in Seq(Keys) /\ Len(d) = Len(c) - 1
        /\ \A j \in 1 .. Len(c) - 1 : d[j] = IF j < p THEN c[j] ELSE c[j + 1]
    BY RemoveAtIs
  <2> HIDE DEF d
  <2> QED BY <2>1
<1> HIDE DEF d
<1>2. ASSUME NEW j \in 1 .. Len(d)
      PROVE  \E l \in 1 .. Len(c) : d[j] = c[l] /\ l # p /\ l = IF j < p THEN j ELSE j + 1
  BY <1>1
<1>3. ASSUME NEW l \in 1 .. Len(c), l # p PROVE \E j \in 1 .. Len(d) : d[j] = c[l]
  <2>1. CASE l < p
    <3>1. l \in 1 .. Len(d) /\ d[l] = c[l]
      BY <1>1, <2>1
    <3> QED BY <3>1
  <2>2. CASE l > p
    <3>1. l - 1 \in 1 .. Len(d) /\ ~(l - 1 < p) /\ (l - 1) + 1 = l
      BY <1>1, <2>2
    <3>2. d[l - 1] = c[l]
      BY <1>1, <3>1
    <3> QED BY <3>1, <3>2
  <2> QED BY <1>3, <2>1, <2>2
<1>4. ASSUME NEW k PROVE Contains(d, k) <=> Contains(c, k) /\ k # c[p]
  <2>1. ASSUME Contains(d, k) PROVE Contains(c, k) /\ k # c[p]
    <3>1. PICK j \in 1 .. Len(d) : d[j] = k
      BY <2>1 DEF Contains
    <3>2. PICK l \in 1 .. Len(c) : d[j] = c[l] /\ l # p
      BY <1>2
    <3> QED BY <3>1, <3>2 DEF Contains, Once
  <2>2. ASSUME Contains(c, k), k # c[p] PROVE Contains(d, k)
    <3>1. PICK l \in 1 .. Len(c) : c[l] = k
      BY <2>2 DEF Contains
    <3> QED BY <1>3, <2>2, <3>1 DEF Contains
  <2> QED BY <2>1, <2>2
<1>5. ASSUME NEW m \in 1 .. Len(d), NEW n \in 1 .. Len(d), d[m] = d[n] PROVE m = n
  <2>1. PICK i \in 1 .. Len(c) : d[m] = c[i] /\ i = IF m < p THEN m ELSE m + 1
    BY <1>2
  <2>2. PICK j \in 1 .. Len(c) : d[n] = c[j] /\ j = IF n < p THEN n ELSE n + 1
    BY <1>2
  <2>3. i = j
    BY <1>5, <2>1, <2>2 DEF Once
  <2> QED BY <1>1, <2>1, <2>2, <2>3
<1>6. Once(d)
  BY <1>5 DEF Once
<1> QED BY <1>4, <1>6 DEF d

(* hdel() removes the current item and keeps the table sound.              *)
LEMMA DelSound ==
  ASSUME NEW t, TableInv(t), t.ipos # NoKey
  PROVE  LET u == HDel(t)
         IN  /\ TableInv(u) /\ Items(u) = Items(t) \ {t.ipos}
             /\ \A k \in Items(u) : u.stuff[k] = t.stuff[k]
<1> DEFINE c == t.chain[t.apos]
           p == Place(t)
           d == RemoveAt(c, p)
           v == [t EXCEPT !.chain[t.apos] = RemoveAt(@, Place(t)),
                          !.stuff[t.ipos] = NoStuff,
                          !.count = @ - 1, !.ipos = Following(t)]
           u == HDel(t)
<1> USE DEF TableInv
<1>1. /\ c \in Seq(Keys) /\ Once(c) /\ p \in 1 .. Len(c) /\ c[p] = t.ipos
      /\ t.apos \in 0 .. t.size - 1 /\ t.size \in Nat \ {0}
  BY PlaceIs DEF TableType, ChainInv
<1>2. /\ d \in Seq(Keys) /\ Once(d) /\ Len(d) = Len(c) - 1
      /\ \A k : Contains(d, k) <=> Contains(c, k) /\ k # t.ipos
  <2> HIDE DEF c, p
  <2>1. d \in Seq(Keys) /\ Len(d) = Len(c) - 1
    BY <1>1, RemoveAtIs
  <2>2. Once(d) /\ \A k : Contains(d, k) <=> Contains(c, k) /\ k # c[p]
    BY <1>1, RemoveAtItems
  <2> QED BY <1>1, <2>1, <2>2
<1>3. t.ipos \in Items(t) /\ Bucket(t, t.ipos) = t.apos /\ t.ipos \in Keys
  BY ItemsInChains, PositionOnItem DEF PosInv, TableType
<1>4. /\ IsFiniteSet(Items(t) \ {t.ipos})
      /\ Cardinality(Items(t) \ {t.ipos}) = t.count - 1
      /\ t.count - 1 \in Nat
  <2>1. IsFiniteSet(Items(t)) /\ t.count = Cardinality(Items(t)) /\ t.count \in Nat
    BY DEF CountInv, TableType
  <2>2. t.count # 0
    BY <1>3, <2>1, FS_EmptySet
  <2>3. IsFiniteSet(Items(t) \ {t.ipos}) /\ Cardinality(Items(t) \ {t.ipos}) = t.count - 1
    BY <1>3, <2>1, FS_RemoveElement
  <2> QED BY <2>1, <2>2, <2>3
<1>5. Following(t) \in Keys \cup {NoKey}
  BY FollowingIs
<1>6. /\ v.size = t.size /\ v.apos = t.apos /\ v.ipos = Following(t)
      /\ v.count = t.count - 1
      /\ v.stuff = [t.stuff EXCEPT ![t.ipos] = NoStuff]
      /\ v.chain = [t.chain EXCEPT ![t.apos] = d]
  BY DEF TableType
<1>7. TableType(v)
  BY <1>1, <1>2, <1>4, <1>5 DEF TableType
<1>8. ASSUME NEW k \in Keys PROVE HFindRet(v, k) <=> HFindRet(t, k) /\ k # t.ipos
  <2>1. Bucket(v, k) = Bucket(t, k) /\ Bucket(t, k) \in 0 .. t.size - 1
    BY <1>6, ItemsInChains DEF Bucket
  <2>2. CASE Bucket(t, k) = t.apos
    <3>1. v.chain[Bucket(v, k)] = d /\ t.chain[Bucket(t, k)] = c
      BY <1>1, <1>6, <2>1, <2>2 DEF TableType
    <3> QED BY <1>2, <3>1 DEF HFindRet
  <2>3. CASE Bucket(t, k) # t.apos
    <3>1. v.chain[Bucket(v, k)] = t.chain[Bucket(t, k)] /\ k # t.ipos
      BY <1>3, <1>6, <2>1, <2>3 DEF TableType
    <3> QED BY <3>1 DEF HFindRet
  <2> QED BY <2>2, <2>3
<1>9. Items(v) = Items(t) \ {t.ipos}
  BY <1>8 DEF Items
<1>10. CountInv(v)
  BY <1>4, <1>6, <1>9 DEF CountInv
<1>11. ChainInv(v)
  <2> SUFFICES ASSUME NEW i \in 0 .. t.size - 1
               PROVE  /\ Once(v.chain[i])
                      /\ \A n \in 1 .. Len(v.chain[i]) : Bucket(v, v.chain[i][n]) = i
    BY <1>6 DEF ChainInv
  <2>1. \A k : Bucket(v, k) = Bucket(t, k)
    BY <1>6 DEF Bucket
  <2>2. CASE i = t.apos
    <3>1. v.chain[i] = d
      BY <1>1, <1>6, <2>2 DEF TableType
    <3>2. ASSUME NEW n \in 1 .. Len(d) PROVE Bucket(t, d[n]) = i
      <4>1. Contains(c, d[n])
        BY <1>2 DEF Contains
      <4> QED BY <1>1, <2>2, <4>1, ItemsInChains
    <3> HIDE DEF d
    <3> QED BY <1>2, <2>1, <3>1, <3>2
  <2>3. CASE i # t.apos
    <3>1. v.chain[i] = t.chain[i]
      BY <1>1, <1>6, <2>3 DEF TableType
    <3> QED BY <2>1, <3>1 DEF ChainInv
  <2> QED BY <2>2, <2>3
<1>12. \A k \in Items(v) : v.stuff[k] = t.stuff[k]
  BY <1>6, <1>9 DEF Items, TableType
<1>13. CASE Following(t) # NoKey
  <2>1. u = v
    BY <1>6, <1>13 DEF HDel
  <2>2. Contains(d, Following(t))
    <3>1. p < Len(c) /\ Following(t) = c[p + 1]
      BY <1>13, FollowingIs
    <3>2. p \in 1 .. Len(c) - 1 /\ ~(p < p)
      BY <1>1, <3>1
    <3>3. d[p] = c[p + 1]
      <4> HIDE DEF c, p
      <4> QED BY <1>1, <3>2, RemoveAtIs
    <3> HIDE DEF d, p, c
    <3> QED BY <1>1, <1>2, <3>1, <3>2, <3>3 DEF Contains
  <2>3. PosInv(v)
    <3>1. v.chain[v.apos] = d
      BY <1>1, <1>6 DEF TableType
    <3> QED BY <1>6, <1>13, <2>2, <3>1 DEF PosInv
  <2> QED BY <1>7, <1>9, <1>10, <1>11, <1>12, <2>1, <2>3
<1>14. CASE Following(t) = NoKey
  <2>1. u = HNBucket(v)
    BY <1>6, <1>14 DEF HDel
  <2> HIDE DEF v, u
  <2>2. SameItems(v, u) /\ TableType(u)
    BY <1>7, <2>1, NBucketSound
  <2>3. PosInv(u)
    <3>1. CASE NotEmpty(v)
      BY <1>7, <2>1, <3>1, NBucketSound
    <3>2. CASE ~NotEmpty(v)
      <4>1. u = v
        BY <1>7, <2>1, <3>2, NBucketSound
      <4> QED BY <1>6, <1>14, <3>2, <4>1 DEF NotEmpty, PosInv
    <3> QED BY <3>1, <3>2
  <2>4. TableInv(u) /\ Items(u) = Items(v)
    BY <1>10, <1>11, <2>2, <2>3, SameItemsSound
  <2>5. \A k \in Items(u) : u.stuff[k] = t.stuff[k]
    BY <1>12, <2>2, <2>4 DEF SameItems
  <2> QED BY <1>9, <2>4, <2>5 DEF u
<1> QED BY <1>13, <1>14

-----------------------------------------------------------------------------
(* Adding.                                                                 *)

(* hgrow() loses no item, and leaves the position on one.                  *)
LEMMA GrowSound ==
  ASSUME NEW t, TableInv(t), Items(t) # {}
  PROVE  LET u == HGrow(t)
         IN  /\ TableInv(u) /\ Items(u) = Items(t)
             /\ u.stuff = t.stuff /\ u.count = t.count
<1> DEFINE size == 2 * t.size
           chain == [i \in 0 .. size - 1 |-> Moved(t.chain[i % t.size], size, i)]
           v == [t EXCEPT !.size = size, !.chain = chain]
           w == [v EXCEPT !.apos = v.size - 1]
           u == HGrow(t)
<1> USE DEF TableInv
<1>1. size \in Nat \ {0} /\ t.size \in Nat \ {0}
  BY DEF TableType
<1>2. ASSUME NEW i \in 0 .. size - 1
      PROVE  i % t.size \in 0 .. t.size - 1 /\ t.chain[i % t.size] \in Seq(Keys)
  <2>1. i \in Nat
    BY <1>1
  <2>2. i % t.size \in 0 .. t.size - 1
    BY <1>1, <2>1, ModRange
  <2>3. t.chain \in [0 .. t.size - 1 -> Seq(Keys)]
    BY DEF TableType
  <2> QED BY <2>2, <2>3
<1> HIDE DEF size
<1>3. ASSUME NEW i \in 0 .. size - 1
      PROVE  /\ chain[i] \in Seq(Keys) /\ Once(chain[i])
             /\ \A k : Contains(chain[i], k)
                        <=> Contains(t.chain[i % t.size], k) /\ Hash[k] % size = i
  BY <1>2, MovedItems DEF ChainInv
<1>4. chain \in [0 .. size - 1 -> Seq(Keys)]
  BY <1>3
<1> HIDE DEF chain
<1>5. /\ w.size = size /\ w.chain = chain /\ w.stuff = t.stuff /\ w.count = t.count
      /\ w.ipos = t.ipos
  BY <1>1, <1>4 DEF TableType
<1>6. TableType(w)
  <2>1. t.apos \in 0 .. size - 1 /\ size - 1 \in 0 .. size - 1
    BY <1>1 DEF TableType, size
  <2>2. v \in [size : Nat \ {0}, chain : [0 .. size - 1 -> Seq(Keys)],
               stuff : [Keys -> Stuff \cup {NoStuff}], count : Nat,
               apos : 0 .. size - 1, ipos : Keys \cup {NoKey}]
    BY <1>1, <1>4, <2>1 DEF TableType
  <2>3. v.size = size
    BY DEF TableType
  <2> HIDE DEF v
  <2>4. w \in [size : Nat \ {0}, chain : [0 .. size - 1 -> Seq(Keys)],
               stuff : [Keys -> Stuff \cup {NoStuff}], count : Nat,
               apos : 0 .. size - 1, ipos : Keys \cup {NoKey}]
    BY <2>1, <2>2, <2>3
  <2> QED BY <1>5, <2>4 DEF TableType
<1>7. ASSUME NEW k \in Keys PROVE HFindRet(w, k) <=> HFindRet(t, k)
  <2>1. Bucket(w, k) = Hash[k] % size /\ Hash[k] % size \in 0 .. size - 1
    BY <1>1, <1>5, HashAssumption, ModRange DEF Bucket
  <2>2. (Hash[k] % size) % t.size = Bucket(t, k)
    BY <1>1, HashAssumption, ModDouble DEF Bucket, size
  <2> QED BY <1>3, <1>5, <2>1, <2>2 DEF HFindRet
<1>8. Items(w) = Items(t)
  BY <1>7 DEF Items
<1>9. CountInv(w)
  BY <1>5, <1>8 DEF CountInv
<1>10. ChainInv(w)
  <2> SUFFICES ASSUME NEW i \in 0 .. size - 1
               PROVE  /\ Once(chain[i])
                      /\ \A n \in 1 .. Len(chain[i]) : Bucket(w, chain[i][n]) = i
    BY <1>5 DEF ChainInv
  <2>1. ASSUME NEW n \in 1 .. Len(chain[i]) PROVE Bucket(w, chain[i][n]) = i
    <3>1. Contains(chain[i], chain[i][n])
      BY DEF Contains
    <3> QED BY <1>3, <1>5, <3>1 DEF Bucket
  <2> QED BY <1>3, <2>1
<1>11. u = HNBucket(w)
  BY DEF HGrow, HFirst, size, chain
<1> HIDE DEF w, u
<1>12. NotEmpty(w)
  BY <1>6, <1>8, <1>10, ItemsInChains
<1>13. SameItems(w, u) /\ TableType(u) /\ PosInv(u)
  BY <1>6, <1>11, <1>12, NBucketSound
<1>14. TableInv(u) /\ Items(u) = Items(w)
  BY <1>9, <1>10, <1>13, SameItemsSound
<1> QED BY <1>5, <1>8, <1>13, <1>14 DEF SameItems, u

(* hadd() of a key that is not there adds it and keeps the table sound.    *)
LEMMA AddNewSound ==
  ASSUME NEW t, TableInv(t), NEW k \in Keys, k \notin Items(t), NEW s \in Stuff
  PROVE  LET u == HAdd(t, k, s)
         IN  /\ TableInv(u) /\ Items(u) = Items(t) \cup {k} /\ u.ipos = k
             /\ u.stuff = [t.stuff EXCEPT ![k] = s]
<1> DEFINE g == IF t.count + 1 > t.size THEN HGrow(t) ELSE t
           y == Bucket(g, k)
           u == [g EXCEPT !.chain[y] = <<k>> \o @, !.stuff[k] = s,
                          !.count = @ + 1, !.apos = y, !.ipos = k]
<1> USE DEF TableInv
<1>1. HAdd(t, k, s) = u
  BY DEF HAdd, HAddRet, Items
<1>2. TableInv(g) /\ Items(g) = Items(t) /\ g.stuff = t.stuff /\ g.count = t.count
  <2>1. CASE t.count + 1 > t.size
    <3>1. t.count # 0
      BY <2>1 DEF TableType
    <3>2. Items(t) # {}
      BY <3>1, FS_EmptySet DEF CountInv
    <3> QED BY <2>1, <3>2, GrowSound
  <2>2. CASE ~(t.count + 1 > t.size)
    BY <2>2
  <2> QED BY <2>1, <2>2
<1> HIDE DEF g
<1>3. y \in 0 .. g.size - 1
  BY <1>2, ItemsInChains
<1>4. g.chain[y] \in Seq(Keys) /\ ~Contains(g.chain[y], k)
  BY <1>2, <1>3 DEF TableType, Items, HFindRet
<1> DEFINE c == g.chain[y]
           d == <<k>> \o c
<1>5. /\ d \in Seq(Keys) /\ Len(d) = Len(c) + 1 /\ Len(c) \in Nat
      /\ d[1] = k /\ \A j \in 1 .. Len(c) : d[j + 1] = c[j]
  BY <1>4
<1> HIDE DEF y
<1>6. /\ u.size = g.size /\ u.apos = y /\ u.ipos = k /\ u.count = g.count + 1
      /\ u.stuff = [g.stuff EXCEPT ![k] = s] /\ u.chain = [g.chain EXCEPT ![y] = d]
  BY <1>2 DEF TableType
<1>7. TableType(u)
  <2>1. /\ u.chain \in [0 .. g.size - 1 -> Seq(Keys)]
        /\ u.stuff \in [Keys -> Stuff \cup {NoStuff}]
        /\ u.count \in Nat
    BY <1>2, <1>3, <1>5, <1>6 DEF TableType
  <2>2. u = [g EXCEPT !.chain = u.chain, !.stuff = u.stuff,
                      !.count = u.count, !.apos = y, !.ipos = k]
    BY <1>2 DEF TableType
  <2> DEFINE uc == u.chain
             us == u.stuff
             un == u.count
  <2> HIDE DEF u, uc, us, un
  <2>3. u = [g EXCEPT !.chain = uc, !.stuff = us, !.count = un, !.apos = y, !.ipos = k]
    BY <2>2 DEF uc, us, un
  <2>4. /\ uc \in [0 .. g.size - 1 -> Seq(Keys)]
        /\ us \in [Keys -> Stuff \cup {NoStuff}] /\ un \in Nat
    BY <2>1 DEF uc, us, un
  <2>5. u \in [size : Nat \ {0}, chain : [0 .. g.size - 1 -> Seq(Keys)],
               stuff : [Keys -> Stuff \cup {NoStuff}], count : Nat,
               apos : 0 .. g.size - 1, ipos : Keys \cup {NoKey}]
    BY <1>2, <1>3, <2>3, <2>4 DEF TableType
  <2> QED BY <1>6, <2>5 DEF TableType
<1> HIDE DEF d
<1>8. ASSUME NEW j \in 2 .. Len(d) PROVE j - 1 \in 1 .. Len(c) /\ d[j] = c[j - 1]
  <2>1. j - 1 \in 1 .. Len(c) /\ (j - 1) + 1 = j
    BY <1>5
  <2> QED BY <1>5, <2>1
<1>9. ASSUME NEW l PROVE Contains(d, l) <=> Contains(c, l) \/ l = k
  <2>1. 1 \in 1 .. Len(d) /\ \A j \in 1 .. Len(c) : j + 1 \in 1 .. Len(d)
    BY <1>5
  <2>2. ASSUME Contains(d, l), l # k PROVE Contains(c, l)
    <3>1. PICK j \in 1 .. Len(d) : d[j] = l
      BY <2>2 DEF Contains
    <3>2. j \in 2 .. Len(d)
      BY <1>5, <2>2, <3>1
    <3> QED BY <1>8, <3>1, <3>2 DEF Contains
  <2>3. ASSUME Contains(c, l) PROVE Contains(d, l)
    <3>1. PICK j \in 1 .. Len(c) : c[j] = l
      BY <2>3 DEF Contains
    <3>2. d[j + 1] = l /\ j + 1 \in 1 .. Len(d)
      BY <1>5, <2>1, <3>1
    <3> QED BY <3>2 DEF Contains
  <2>4. Contains(d, k)
    BY <1>5, <2>1 DEF Contains
  <2> QED BY <2>2, <2>3, <2>4
<1>10. Once(d)
  <2>1. Once(c)
    BY <1>2, <1>3 DEF ChainInv
  <2>2. \A j \in 1 .. Len(c) : c[j] # k
    BY <1>4 DEF Contains
  <2>3. \A j \in 1 .. Len(d) : j = 1 \/ j \in 2 .. Len(d)
    BY <1>5
  <2>4. ASSUME NEW m \in 1 .. Len(d), NEW n \in 1 .. Len(d), d[m] = d[n] PROVE m = n
    <3>1. CASE m = 1 /\ n = 1
      BY <3>1
    <3>2. CASE m = 1 /\ n \in 2 .. Len(d)
      BY <1>5, <1>8, <2>2, <2>4, <3>2
    <3>3. CASE m \in 2 .. Len(d) /\ n = 1
      BY <1>5, <1>8, <2>2, <2>4, <3>3
    <3>4. CASE m \in 2 .. Len(d) /\ n \in 2 .. Len(d)
      <4>1. m - 1 = n - 1
        BY <1>8, <2>1, <2>4, <3>4 DEF Once
      <4> QED BY <4>1
    <3> QED BY <2>3, <3>1, <3>2, <3>3, <3>4
  <2> QED BY <2>4 DEF Once
<1> HIDE DEF u, c
<1>11. \A l : Bucket(u, l) = Bucket(g, l)
  BY <1>6 DEF Bucket
<1>12. ASSUME NEW i \in 0 .. g.size - 1
       PROVE  u.chain[i] = IF i = y THEN d ELSE g.chain[i]
  BY <1>2, <1>3, <1>6 DEF TableType
<1>13. ASSUME NEW l \in Keys PROVE HFindRet(u, l) <=> HFindRet(g, l) \/ l = k
  <2>1. Bucket(g, l) \in 0 .. g.size - 1
    BY <1>2, ItemsInChains
  <2>2. CASE Bucket(g, l) = y
    BY <1>9, <1>11, <1>12, <2>1, <2>2 DEF HFindRet, c
  <2>3. CASE Bucket(g, l) # y
    <3>1. l # k
      BY <2>3 DEF y
    <3> QED BY <1>11, <1>12, <2>1, <2>3, <3>1 DEF HFindRet
  <2> QED BY <2>2, <2>3
<1>14. Items(u) = Items(t) \cup {k}
  BY <1>2, <1>13 DEF Items
<1>15. CountInv(u)
  <2>1. /\ IsFiniteSet(Items(t) \cup {k})
        /\ Cardinality(Items(t) \cup {k}) = Cardinality(Items(t)) + 1
    BY <1>6, FS_AddElement DEF CountInv
  <2> QED BY <1>2, <1>6, <1>14, <2>1 DEF CountInv
<1>16. ChainInv(u)
  <2> SUFFICES ASSUME NEW i \in 0 .. g.size - 1
               PROVE  /\ Once(u.chain[i])
                      /\ \A n \in 1 .. Len(u.chain[i]) : Bucket(u, u.chain[i][n]) = i
    BY <1>6 DEF ChainInv
  <2>1. CASE i = y
    <3>1. ASSUME NEW n \in 1 .. Len(d) PROVE Bucket(g, d[n]) = y
      <4>1. Contains(c, d[n]) \/ d[n] = k
        BY <1>9 DEF Contains
      <4> QED BY <1>2, <1>3, <4>1, ItemsInChains DEF c, y
    <3> QED BY <1>10, <1>11, <1>12, <2>1, <3>1
  <2>2. CASE i # y
    BY <1>2, <1>11, <1>12, <2>2 DEF ChainInv
  <2> QED BY <2>1, <2>2
<1>17. PosInv(u)
  BY <1>3, <1>6, <1>9, <1>12, KeyAssumption DEF PosInv
<1> QED BY <1>1, <1>2, <1>6, <1>7, <1>14, <1>15, <1>16, <1>17

(* hadd() of a key that is there only moves the position to it.            *)
LEMMA AddOldSound ==
  ASSUME NEW t, TableInv(t), NEW k \in Items(t), NEW s
  PROVE  LET u == HAdd(t, k, s)
         IN  SameItems(t, u) /\ TableInv(u) /\ Items(u) = Items(t) /\ u.ipos = k
<1>1. k \in Keys /\ HAdd(t, k, s) = HFind(t, k)
  BY DEF HAdd, HAddRet, Items
<1> QED BY <1>1, FindSound

(* hcreate() makes a sound table without items.                            *)
LEMMA CreateSound ==
  ASSUME NEW size \in Nat \ {0}
  PROVE  LET u == HCreate(size)
         IN  TableInv(u) /\ Items(u) = {} /\ u.ipos = NoKey
<1> DEFINE u == HCreate(size)
<1>1. TableType(u) /\ u.size = size /\ u.ipos = NoKey /\ u.count = 0
  BY DEF HCreate, TableType
<1>2. \A i \in 0 .. size - 1 : u.chain[i] = <<>>
  BY DEF HCreate
<1>3. ChainInv(u) /\ PosInv(u)
  BY <1>1, <1>2 DEF ChainInv, PosInv, Once
<1>4. Items(u) = {}
  BY <1>1, <1>2, <1>3, ItemsInChains DEF NotEmpty
<1> QED BY <1>1, <1>3, <1>4, FS_EmptySet DEF TableInv, CountInv

-----------------------------------------------------------------------------
(* The order in which the loop of hashtab.h visits the places.             *)

(* A place is a bucket and a place in its chain.                           *)
LEMMA PlacesAre ==
  ASSUME NEW t, TableType(t)
  PROVE  /\ \A i \in 0 .. t.size - 1 : \A j \in 1 .. Len(t.chain[i]) :
              <<i, j>> \in Places(t) /\ KeyAt(t, <<i, j>>) = t.chain[i][j]
         /\ \A p \in Places(t) :
              /\ p = <<p[1], p[2]>> /\ p[1] \in 0 .. t.size - 1
              /\ p[2] \in 1 .. Len(t.chain[p[1]])
<1>1. DOMAIN t.chain = 0 .. t.size - 1
  BY DEF TableType
<1>2. \A i \in 0 .. t.size - 1 : DOMAIN t.chain[i] = 1 .. Len(t.chain[i])
  BY DEF TableType
<1>3. ASSUME NEW i \in 0 .. t.size - 1, NEW j \in 1 .. Len(t.chain[i])
      PROVE  <<i, j>> \in Places(t) /\ KeyAt(t, <<i, j>>) = t.chain[i][j]
  <2>1. <<i, j>> \in {i} \X DOMAIN t.chain[i]
    BY <1>2
  <2> QED BY <1>1, <2>1 DEF Places, KeyAt
<1>4. ASSUME NEW p \in Places(t)
      PROVE  /\ p = <<p[1], p[2]>> /\ p[1] \in 0 .. t.size - 1
             /\ p[2] \in 1 .. Len(t.chain[p[1]])
  <2>1. PICK i \in 0 .. t.size - 1 : p \in {i} \X DOMAIN t.chain[i]
    BY <1>1 DEF Places
  <2> QED BY <1>2, <2>1
<1> QED BY <1>3, <1>4

(* Different places hold different items, each in its bucket.              *)
LEMMA KeysDistinct ==
  ASSUME NEW t, TableInv(t)
  PROVE  /\ \A p \in Places(t) : KeyAt(t, p) \in Items(t) /\ Bucket(t, KeyAt(t, p)) = p[1]
         /\ \A p, q \in Places(t) : KeyAt(t, p) = KeyAt(t, q) => p = q
<1> USE DEF TableInv
<1>1. ASSUME NEW p \in Places(t)
      PROVE  KeyAt(t, p) \in Items(t) /\ Bucket(t, KeyAt(t, p)) = p[1]
  <2>1. /\ p[1] \in 0 .. t.size - 1 /\ p[2] \in 1 .. Len(t.chain[p[1]])
    BY PlacesAre
  <2>2. Contains(t.chain[p[1]], KeyAt(t, p))
    BY <2>1 DEF Contains, KeyAt
  <2> QED BY <2>1, <2>2, ItemsInChains
<1>2. ASSUME NEW p \in Places(t), NEW q \in Places(t), KeyAt(t, p) = KeyAt(t, q)
      PROVE  p = q
  <2>1. p[1] = q[1]
    BY <1>1, <1>2
  <2>2. p[2] = q[2]
    BY <1>2, <2>1, PlacesAre DEF ChainInv, Once, KeyAt
  <2> QED BY <2>1, <2>2, PlacesAre
<1> QED BY <1>1, <1>2

(* There are as many places as items.                                      *)
LEMMA PlacesCount ==
  ASSUME NEW t, TableInv(t)
  PROVE  /\ IsFiniteSet(Places(t)) /\ Cardinality(Places(t)) = t.count
         /\ {KeyAt(t, p) : p \in Places(t)} = Items(t)
<1> USE DEF TableInv
<1> DEFINE f == [p \in Places(t) |-> KeyAt(t, p)]
<1>1. \A p \in Places(t) : KeyAt(t, p) \in Items(t)
  BY KeysDistinct
<1>2. \A p, q \in Places(t) : KeyAt(t, p) = KeyAt(t, q) => p = q
  BY KeysDistinct
<1>3. ASSUME NEW k \in Items(t) PROVE \E p \in Places(t) : KeyAt(t, p) = k
  <2>1. Bucket(t, k) \in 0 .. t.size - 1 /\ Contains(t.chain[Bucket(t, k)], k)
    BY ItemsInChains DEF Items, HFindRet
  <2>2. PICK j \in 1 .. Len(t.chain[Bucket(t, k)]) : t.chain[Bucket(t, k)][j] = k
    BY <2>1 DEF Contains
  <2>3. <<Bucket(t, k), j>> \in Places(t) /\ KeyAt(t, <<Bucket(t, k), j>>) = k
    BY <2>1, <2>2, PlacesAre
  <2> QED BY <2>3
<1>4. f \in Injection(Places(t), Items(t)) /\ f \in Surjection(Places(t), Items(t))
  <2>1. f \in [Places(t) -> Items(t)] /\ \A p \in Places(t) : f[p] = KeyAt(t, p)
    BY <1>1
  <2> HIDE DEF f
  <2>2. IsInjective(f)
    BY <1>2, <2>1 DEF IsInjective
  <2>3. \A k \in Items(t) : \E p \in Places(t) : f[p] = k
    BY <1>3, <2>1
  <2> QED BY <2>1, <2>2, <2>3 DEF Injection, Surjection
<1>5. IsFiniteSet(Places(t)) /\ Cardinality(Places(t)) = Cardinality(Items(t))
  BY <1>4, FS_Injection DEF CountInv
<1> QED BY <1>1, <1>3, <1>5 DEF CountInv

(* The place of the head of a bucket, and the order there.                 *)
LEMMA HeadPlace ==
  ASSUME NEW t, TableInv(t), NEW i \in 0 .. t.size - 1, t.chain[i] # <<>>
  PROVE  LET u == AtHead(t, i)
         IN  /\ TableInv(u) /\ SameItems(t, u) /\ Places(u) = Places(t)
             /\ u.ipos # NoKey /\ u.apos = i /\ Place(u) = 1
             /\ <<i, 1>> \in Places(t) /\ u.ipos = KeyAt(t, <<i, 1>>)
<1> USE DEF TableInv
<1> DEFINE u == AtHead(t, i)
<1>1. /\ SameItems(t, u) /\ TableType(u) /\ PosInv(u)
      /\ u.apos = i /\ u.ipos = t.chain[i][1]
  BY HeadSound
<1>2. t.chain[i] \in Seq(Keys) /\ 1 \in 1 .. Len(t.chain[i]) /\ t.chain[i][1] \in Keys
  BY DEF TableType
<1> HIDE DEF u
<1>3. TableInv(u)
  BY <1>1, SameItemsSound
<1>4. u.ipos # NoKey
  BY <1>1, <1>2, KeyAssumption
<1>5. Place(u) = 1
  <2>1. Place(u) \in 1 .. Len(t.chain[i]) /\ t.chain[i][Place(u)] = t.chain[i][1]
    BY <1>1, <1>4, PlaceIs DEF SameItems
  <2> QED BY <1>2, <2>1 DEF ChainInv, Once
<1>6. Places(u) = Places(t)
  BY <1>1 DEF SameItems, Places
<1>7. <<i, 1>> \in Places(t) /\ u.ipos = KeyAt(t, <<i, 1>>)
  BY <1>1, <1>2, PlacesAre
<1> QED BY <1>1, <1>3, <1>4, <1>5, <1>6, <1>7 DEF u

(* hfirst() goes to the first place.                                       *)
LEMMA FirstPlace ==
  ASSUME NEW t, TableInv(t), Items(t) # {}
  PROVE  LET u == HFirst(t)
         IN  u.ipos # NoKey /\ \E p \in Places(t) :
               UpTo(u) = {p} /\ u.ipos = KeyAt(t, p)
<1> USE DEF TableInv
<1> DEFINE v == [t EXCEPT !.apos = t.size - 1]
           u == HFirst(t)
<1>0. t.size - 1 \in 0 .. t.size - 1 /\ t.size \in Nat \ {0}
  BY DEF TableType
<1>1. TableType(v) /\ SameItems(t, v) /\ v.ipos = t.ipos /\ v.apos = t.size - 1
  BY <1>0 DEF TableType, SameItems
<1>2. u = HNBucket(v)
  BY DEF HFirst
<1> HIDE DEF v, u
<1>3. Later(v) = {}
  BY <1>0, <1>1 DEF Later, SameItems
<1>4. NotEmpty(t)
  BY ItemsInChains
<1>5. Wrapped(v) = {i \in 0 .. t.size - 1 : t.chain[i] # <<>>} /\ Wrapped(v) # {}
  BY <1>1, <1>4 DEF Wrapped, SameItems, NotEmpty
<1> DEFINE i == Min(Wrapped(v))
<1>6. i \in Wrapped(v) /\ \A y \in Wrapped(v) : i <= y
  <2>1. Wrapped(v) \subseteq Nat
    BY <1>0, <1>5
  <2> QED BY <1>5, <2>1, MinIs
<1>7. u = AtHead(v, i)
  BY <1>2, <1>3, <1>5 DEF HNBucket
<1> HIDE DEF i
<1>8. u = AtHead(t, i)
  BY <1>1, <1>7 DEF AtHead, v, TableType
<1>9. i \in 0 .. t.size - 1 /\ t.chain[i] # <<>>
  BY <1>5, <1>6
<1>10. /\ Places(u) = Places(t) /\ u.ipos # NoKey /\ u.apos = i /\ Place(u) = 1
       /\ <<i, 1>> \in Places(t) /\ u.ipos = KeyAt(t, <<i, 1>>)
  BY <1>8, <1>9, HeadPlace
<1>11. ASSUME NEW p \in Places(t), p[1] < i \/ (p[1] = i /\ p[2] <= 1)
       PROVE  p = <<i, 1>>
  <2>1. p = <<p[1], p[2]>> /\ p[1] \in 0 .. t.size - 1 /\ p[2] \in 1 .. Len(t.chain[p[1]])
    BY PlacesAre
  <2>2. p[1] \in Wrapped(v)
    BY <1>5, <2>1
  <2>3. p[1] = i /\ p[2] = 1
    BY <1>6, <1>9, <1>11, <2>1, <2>2
  <2> QED BY <2>1, <2>3
<1>12. UpTo(u) = {<<i, 1>>}
  BY <1>10, <1>11 DEF UpTo
<1> QED BY <1>10, <1>12 DEF u

(* hnext() goes to the place after the current one, and returns FALSE when *)
(* there is none.                                                          *)
LEMMA NextPlace ==
  ASSUME NEW t, TableInv(t), t.ipos # NoKey
  PROVE  LET u == HNext(t)
         IN  IF HNextRet(t)
             THEN u.ipos # NoKey /\ \E p \in Places(t) \ UpTo(t) :
                    UpTo(u) = UpTo(t) \cup {p} /\ u.ipos = KeyAt(t, p)
             ELSE UpTo(t) = Places(t)
<1> USE DEF TableInv
<1> DEFINE u == HNext(t)
           c == t.chain[t.apos]
<1>1. /\ c \in Seq(Keys) /\ Place(t) \in 1 .. Len(c) /\ c[Place(t)] = t.ipos
      /\ t.apos \in 0 .. t.size - 1 /\ t.size \in Nat \ {0} /\ Len(c) \in Nat
  BY PlaceIs DEF TableType
<1>2. \A p \in Places(t) :
         /\ p = <<p[1], p[2]>> /\ p[1] \in 0 .. t.size - 1
         /\ p[2] \in 1 .. Len(t.chain[p[1]])
         /\ Len(t.chain[p[1]]) \in Nat /\ t.chain[p[1]] # <<>>
  BY PlacesAre DEF TableType
<1>3. CASE Following(t) # NoKey
  <2> DEFINE q == <<t.apos, Place(t) + 1>>
  <2>1. Place(t) < Len(c) /\ Following(t) = c[Place(t) + 1] /\ Following(t) \in Keys
    BY <1>3, FollowingIs
  <2>2. Place(t) + 1 \in 1 .. Len(c)
    BY <1>1, <2>1
  <2>3. u = [t EXCEPT !.ipos = Following(t)] /\ HNextRet(t)
    BY <1>3 DEF HNext, HNextRet
  <2>4. SameItems(t, u) /\ TableInv(u)
    BY NextSound
  <2>5. u.apos = t.apos /\ u.ipos = Following(t) /\ u.ipos # NoKey
    BY <1>3, <2>3 DEF TableType
  <2> HIDE DEF u
  <2>6. Place(u) = Place(t) + 1
    <3>1. Place(u) \in 1 .. Len(c) /\ c[Place(u)] = c[Place(t) + 1]
      BY <2>1, <2>4, <2>5, PlaceIs DEF SameItems
    <3> QED BY <1>1, <2>2, <3>1 DEF ChainInv, Once
  <2>7. Places(u) = Places(t)
    BY <2>4 DEF SameItems, Places
  <2>8. q \in Places(t) /\ u.ipos = KeyAt(t, q)
    BY <1>1, <2>1, <2>2, <2>5, PlacesAre
  <2>9. q[1] = t.apos /\ q[2] = Place(t) + 1
    OBVIOUS
  <2>10. q \notin UpTo(t)
    BY <1>1, <2>9 DEF UpTo
  <2>11. ASSUME NEW p \in Places(t) PROVE p \in UpTo(u) <=> p \in UpTo(t) \/ p = q
    <3>1. p[1] = t.apos /\ p[2] = Place(t) + 1 <=> p = q
      BY <1>2
    <3> HIDE DEF q
    <3> QED BY <1>1, <1>2, <2>5, <2>6, <2>7, <3>1 DEF UpTo
  <2>12. UpTo(u) = UpTo(t) \cup {q}
    BY <2>7, <2>8, <2>11 DEF UpTo
  <2> HIDE DEF q
  <2> QED BY <2>3, <2>5, <2>8, <2>10, <2>12 DEF u
<1>4. CASE Following(t) = NoKey
  <2>1. Place(t) = Len(c)
    <3>1. ~(Place(t) < Len(c))
      BY <1>4, FollowingIs, KeyAssumption
    <3> QED BY <1>1, <3>1
  <2>2. u = HNBucket(t)
    BY <1>4 DEF HNext
  <2>3. CASE Later(t) # {}
    <3> DEFINE i == Min(Later(t))
               q == <<i, 1>>
    <3>1. Later(t) \subseteq Nat
      BY <1>1 DEF Later
    <3>2. i \in Later(t) /\ \A y \in Later(t) : i <= y
      BY <2>3, <3>1, MinIs
    <3> HIDE DEF i
    <3>3. i \in 0 .. t.size - 1 /\ t.chain[i] # <<>> /\ i > t.apos
      BY <1>1, <3>2 DEF Later
    <3>4. u = AtHead(t, i) /\ HNextRet(t)
      BY <2>2, <2>3 DEF HNBucket, HNextRet, i
    <3>5. /\ Places(u) = Places(t) /\ u.ipos # NoKey /\ u.apos = i /\ Place(u) = 1
          /\ q \in Places(t) /\ u.ipos = KeyAt(t, q)
      BY <3>3, <3>4, HeadPlace
    <3>6. q[1] = i /\ q[2] = 1
      OBVIOUS
    <3>7. q \notin UpTo(t)
      BY <1>1, <3>3, <3>6 DEF UpTo
    <3>8. ASSUME NEW p \in Places(t) PROVE p \in UpTo(u) <=> p \in UpTo(t) \/ p = q
      <4>1. p[1] = i /\ p[2] = 1 <=> p = q
        BY <1>2
      <4>2. p[1] > t.apos => p[1] \in Later(t)
        BY <1>1, <1>2 DEF Later
      <4>3. p \in UpTo(u) <=> p[1] < i \/ (p[1] = i /\ p[2] <= 1)
        BY <3>5 DEF UpTo
      <4>4. p \in UpTo(t) <=> p[1] <= t.apos
        BY <1>1, <1>2, <2>1 DEF UpTo
      <4> HIDE DEF q
      <4> QED BY <1>1, <1>2, <3>2, <3>3, <4>1, <4>2, <4>3, <4>4
    <3>9. UpTo(u) = UpTo(t) \cup {q}
      BY <3>5, <3>8 DEF UpTo
    <3> HIDE DEF q
    <3> QED BY <3>4, <3>5, <3>7, <3>9
  <2>4. CASE Later(t) = {}
    <3>1. ~HNextRet(t)
      BY <1>4, <2>4 DEF HNextRet
    <3>2. ASSUME NEW p \in Places(t) PROVE p \in UpTo(t)
      <4>1. p[1] <= t.apos
        BY <1>1, <1>2, <2>4 DEF Later
      <4> QED BY <1>1, <1>2, <2>1, <4>1 DEF UpTo
    <3>3. UpTo(t) = Places(t)
      BY <3>2 DEF UpTo
    <3> QED BY <3>1, <3>3
  <2> QED BY <2>3, <2>4
<1> QED BY <1>3, <1>4

(* hsanity() finds nothing wrong with a sound table, and hfirst() says     *)
(* whether there is an item.                                               *)
LEMMA SoundIsSane ==
  ASSUME NEW t, TableInv(t)
  PROVE  Sane(t) /\ (HFirstRet(t) <=> Items(t) # {})
<1>1. Sane(t)
  BY PlacesCount, KeyAssumption DEF Sane, TableInv, TableType, PosInv
<1>2. TableInv(HFirst(t)) /\ Items(HFirst(t)) = Items(t)
  BY FirstSound
<1>3. IF HFirst(t).ipos = NoKey THEN Items(t) = {} ELSE HFirst(t).ipos \in Items(t)
  BY <1>2, PositionOnItem DEF TableInv
<1> QED BY <1>1, <1>3 DEF HFirstRet

(* The loop is at the current item.                                        *)
LEMMA WalkedHere ==
  ASSUME NEW t, TableInv(t), t.ipos # NoKey
  PROVE  t.ipos \in Walked(t) /\ Walked(t) \subseteq Items(t)
<1> DEFINE p == <<t.apos, Place(t)>>
<1>1. /\ Place(t) \in 1 .. Len(t.chain[t.apos]) /\ t.chain[t.apos][Place(t)] = t.ipos
      /\ t.apos \in 0 .. t.size - 1
  BY PlaceIs DEF TableInv, TableType
<1>2. p \in Places(t) /\ KeyAt(t, p) = t.ipos
  BY <1>1, PlacesAre DEF TableInv
<1>3. p \in UpTo(t)
  BY <1>1, <1>2 DEF UpTo
<1>4. \A q \in UpTo(t) : KeyAt(t, q) \in Items(t)
  BY KeysDistinct DEF UpTo
<1> QED BY <1>2, <1>3, <1>4 DEF Walked

(* hfirst() starts the loop.                                               *)
LEMMA WalkedFirst ==
  ASSUME NEW t, TableInv(t), Items(t) # {}
  PROVE  LET u == HFirst(t)
         IN  u.ipos # NoKey /\ Walked(u) = {u.ipos}
<1> DEFINE u == HFirst(t)
<1>1. u.ipos # NoKey /\ \E p \in Places(t) : UpTo(u) = {p} /\ u.ipos = KeyAt(t, p)
  BY FirstPlace
<1>2. SameItems(t, u)
  BY FirstSound
<1> HIDE DEF u
<1>3. \A p : KeyAt(u, p) = KeyAt(t, p)
  BY <1>2 DEF SameItems, KeyAt
<1>4. Walked(u) = {u.ipos}
  BY <1>1, <1>3 DEF Walked
<1> QED BY <1>1, <1>4 DEF u

(* hnext() goes to an item the loop was not at before, or says that it was *)
(* at all of them.                                                         *)
LEMMA WalkedNext ==
  ASSUME NEW t, TableInv(t), t.ipos # NoKey
  PROVE  LET u == HNext(t)
         IN  IF HNextRet(t)
             THEN /\ u.ipos # NoKey /\ u.ipos \notin Walked(t)
                  /\ Walked(u) = Walked(t) \cup {u.ipos}
             ELSE Walked(t) = Items(t)
<1> DEFINE u == HNext(t)
<1>1. SameItems(t, u)
  BY NextSound
<1>2. IF HNextRet(t)
      THEN u.ipos # NoKey /\ \E p \in Places(t) \ UpTo(t) :
             UpTo(u) = UpTo(t) \cup {p} /\ u.ipos = KeyAt(t, p)
      ELSE UpTo(t) = Places(t)
  BY NextPlace
<1> HIDE DEF u
<1>3. \A p : KeyAt(u, p) = KeyAt(t, p)
  BY <1>1 DEF SameItems, KeyAt
<1>4. CASE HNextRet(t)
  <2>1. PICK p \in Places(t) \ UpTo(t) : UpTo(u) = UpTo(t) \cup {p} /\ u.ipos = KeyAt(t, p)
    BY <1>2, <1>4
  <2>2. \A q \in UpTo(t) : KeyAt(t, q) # KeyAt(t, p)
    BY <2>1, KeysDistinct DEF UpTo
  <2>3. Walked(u) = Walked(t) \cup {u.ipos}
    BY <1>3, <2>1 DEF Walked
  <2> QED BY <1>2, <1>4, <2>1, <2>2, <2>3 DEF Walked, u
<1>5. CASE ~HNextRet(t)
  BY <1>2, <1>5, PlacesCount DEF Walked, u
<1> QED BY <1>4, <1>5

-----------------------------------------------------------------------------
(* Any sequence of calls: the invariant.                                   *)

(* Every call on a sound table leaves a sound table: hadd, hadd with       *)
(* growth, hdel, hfind, hfirst and hnext.                                  *)
LEMMA UseStep == UseInv /\ [UseNext]_htab => UseInv'
<1> SUFFICES ASSUME TableInv(htab), [UseNext]_htab PROVE TableInv(htab')
  BY DEF UseInv
<1>1. ASSUME NEW k \in Keys, NEW s \in Stuff, Add(k, s) PROVE TableInv(htab')
  <2>1. CASE k \in Items(htab)
    BY <1>1, <2>1, AddOldSound DEF Add
  <2>2. CASE k \notin Items(htab)
    BY <1>1, <2>2, AddNewSound DEF Add
  <2> QED BY <2>1, <2>2
<1>2. ASSUME NEW k \in Keys, Find(k) PROVE TableInv(htab')
  BY <1>2, FindSound DEF Find
<1>3. CASE Del
  <2>1. CASE htab.ipos = NoKey
    BY <1>3, <2>1 DEF Del, HDel
  <2>2. CASE htab.ipos # NoKey
    BY <1>3, <2>2, DelSound DEF Del
  <2> QED BY <2>1, <2>2
<1>4. CASE First
  BY <1>4, FirstSound DEF First
<1>5. CASE NextItem
  BY <1>5, NextSound DEF NextItem
<1>6. CASE UNCHANGED htab
  BY <1>6
<1> QED BY <1>1, <1>2, <1>3, <1>4, <1>5, <1>6 DEF UseNext

(* After any calls, the items are in their chains, each once, the position *)
(* is on one of them and count is their number: the inductive invariant.   *)
THEOREM TableStaysSound == UseSpec => []UseInv
<1>1. UseInit => UseInv
  BY CreateSound, SizeAssumption DEF UseInit, UseInv
<1> QED BY <1>1, UseStep, PTL DEF UseSpec

-----------------------------------------------------------------------------
(* The refinement.                                                         *)

(* Every call on the table is a call on the dictionary, or no change.      *)
LEMMA DictStep == UseInv /\ [UseNext]_htab => [Dict!Next]_Dict!vars
<1> SUFFICES ASSUME TableInv(htab), [UseNext]_htab PROVE [Dict!Next]_Dict!vars
  BY DEF UseInv
<1> DEFINE map == [k \in Items(htab) |-> htab.stuff[k]]
           mapP == [k \in Items(htab') |-> htab'.stuff[k]]
<1>0. TableInv(htab')
  BY UseStep DEF UseInv
<1>s. ASSUME SameItems(htab, htab') PROVE mapP = map
  BY <1>s, SameItemsFound DEF SameItems
<1>p. IF htab'.ipos = NoKey THEN Items(htab') = {} ELSE htab'.ipos \in Items(htab')
  BY <1>0, PositionOnItem DEF TableInv
<1>m. ASSUME SameItems(htab, htab') PROVE Dict!Move
  <2>1. Items(htab') = Items(htab)
    BY <1>m, SameItemsFound
  <2> QED BY <1>m, <1>s, <1>p, <2>1 DEF Dict!Move, Dict!OnSomeItem, TableInv
<1>1. ASSUME NEW k \in Keys, NEW s \in Stuff, Add(k, s) PROVE Dict!Add(k, s)
  <2>1. CASE k \in Items(htab)
    <3>1. SameItems(htab, htab') /\ htab'.ipos = k
      BY <1>1, <2>1, AddOldSound DEF Add
    <3>2. [j \in Items(htab) \cup {k} |-> IF j \in Items(htab) THEN htab.stuff[j] ELSE s] = map
      BY <2>1
    <3> QED BY <1>s, <3>1, <3>2 DEF Dict!Add
  <2>2. CASE k \notin Items(htab)
    <3>1. /\ Items(htab') = Items(htab) \cup {k} /\ htab'.ipos = k
          /\ htab'.stuff = [htab.stuff EXCEPT ![k] = s]
      BY <1>1, <2>2, AddNewSound DEF Add
    <3>2. Items(htab) \subseteq Keys /\ htab.stuff \in [Keys -> Stuff \cup {NoStuff}]
      BY DEF Items, TableInv, TableType
    <3>3. ASSUME NEW j \in Items(htab) \cup {k}
          PROVE  htab'.stuff[j] = IF j \in Items(htab) THEN htab.stuff[j] ELSE s
      BY <2>2, <3>1, <3>2
    <3>4. mapP = [j \in Items(htab) \cup {k} |-> IF j \in Items(htab) THEN htab.stuff[j] ELSE s]
      BY <3>1, <3>3
    <3> QED BY <3>1, <3>4 DEF Dict!Add
  <2> QED BY <2>1, <2>2
<1>2. ASSUME NEW k \in Keys, Find(k) PROVE Dict!Find(k) \/ UNCHANGED htab
  <2>1. CASE k \in Items(htab)
    <3>1. SameItems(htab, htab') /\ htab'.ipos = k
      BY <1>2, <2>1, FindSound DEF Find
    <3> QED BY <1>s, <2>1, <3>1 DEF Dict!Find
  <2>2. CASE k \notin Items(htab)
    BY <1>2, <2>2, FindSound DEF Find
  <2> QED BY <2>1, <2>2
<1>3. ASSUME Del PROVE Dict!Del \/ UNCHANGED htab
  <2>1. CASE htab.ipos = NoKey
    BY <1>3, <2>1 DEF Del, HDel
  <2>2. CASE htab.ipos # NoKey
    <3>1. /\ Items(htab') = Items(htab) \ {htab.ipos}
          /\ \A k \in Items(htab') : htab'.stuff[k] = htab.stuff[k]
      BY <1>3, <2>2, DelSound DEF Del
    <3>2. mapP = [j \in Items(htab) \ {htab.ipos} |-> map[j]]
      BY <3>1
    <3> QED BY <1>p, <2>2, <3>1, <3>2 DEF Dict!Del, Dict!OnSomeItem
  <2> QED BY <2>1, <2>2
<1>4. ASSUME First PROVE Dict!Move
  BY <1>4, <1>m, FirstSound DEF First
<1>5. ASSUME NextItem PROVE Dict!Move
  BY <1>5, <1>m, NextSound DEF NextItem
<1>6. ASSUME UNCHANGED htab PROVE UNCHANGED Dict!vars
  BY <1>6 DEF Dict!vars
<1> QED BY <1>1, <1>2, <1>3, <1>4, <1>5, <1>6 DEF UseNext, Dict!Next

(* The hash table of hashtab.c is a dictionary with a current position:    *)
(* whatever is called in whatever order, growing and removing included, no *)
(* key is lost, none appears, each keeps its stuff, and hdel() removes the *)
(* item that hkey() showed.                                                *)
THEOREM TableIsDictionary == UseSpec => ImplementsDictionary
<1>1. UseInit => Dict!Init
  <2> SUFFICES ASSUME UseInit PROVE Dict!Init
    OBVIOUS
  <2>1. Items(htab) = {} /\ htab.ipos = NoKey
    BY CreateSound, SizeAssumption DEF UseInit
  <2> QED BY <2>1 DEF Dict!Init
<1> QED BY <1>1, DictStep, TableStaysSound, PTL DEF UseSpec, ImplementsDictionary, Dict!Spec

-----------------------------------------------------------------------------
(* The loop of hashtab.h.                                                  *)

(* The tables of the loop follow each other by hnext().                    *)
LEMMA WalkIs ==
  ASSUME NEW h, TableInv(h)
  PROVE  LET w == Walk(h)
         IN  /\ DOMAIN w = 1 .. h.count
             /\ \A n \in 1 .. h.count :
                  /\ w[n] = IF n = 1 THEN HFirst(h) ELSE HNext(w[n - 1])
                  /\ TableInv(w[n]) /\ SameItems(h, w[n])
<1> DEFINE N == h.count
           A == [size : Nat \ {0}, chain : [0 .. h.size - 1 -> Seq(Keys)],
                 stuff : [Keys -> Stuff \cup {NoStuff}], count : Nat,
                 apos : 0 .. h.size - 1, ipos : Keys \cup {NoKey}]
           S == {u \in A : TableInv(u) /\ SameItems(h, u)}
           g == [p \in (1 .. N - 1) \X S |-> HNext(p[2])]
           Rec(w) == w = [n \in 1 .. N |-> IF n = 1 THEN HFirst(h) ELSE HNext(w[n - 1])]
           F == CHOOSE w : Rec(w)
<1>1. N \in Nat
  BY DEF TableInv, TableType
<1>2. ASSUME NEW u, TableInv(u), SameItems(h, u) PROVE u \in S
  BY <1>2 DEF TableInv, TableType, SameItems
<1>3. HFirst(h) \in S
  BY <1>2, FirstSound
<1>4. ASSUME NEW u \in S PROVE HNext(u) \in S
  BY <1>2, NextSound DEF SameItems
<1> HIDE DEF A, S
<1>5. g \in [(1 .. N - 1) \X S -> S]
  BY <1>4
<1>6. \E w : Rec(w)
  <2>1. CASE N = 0
    <3> DEFINE w == [n \in {} |-> 0]
    <3>1. 1 .. N = {}
      BY <2>1
    <3>2. Rec(w)
      BY <3>1
    <3> QED BY <3>2
  <2>2. CASE N # 0
    <3>1. N - 1 \in Nat
      BY <1>1, <2>2
    <3>2. PICK f \in [0 .. N - 1 -> S] : Iterates(f, N - 1, HFirst(h), g)
      <4> HIDE DEF g, N
      <4> QED BY <1>3, <1>5, <3>1, RecursionExists
    <3>3. ASSUME NEW n \in 1 .. N - 1 PROVE f[n] = HNext(f[n - 1])
      <4>1. f[n - 1] \in S /\ <<n, f[n - 1]>> \in (1 .. N - 1) \X S
        BY <3>1
      <4> QED BY <3>2, <4>1 DEF Iterates
    <3> DEFINE w == [n \in 1 .. N |-> f[n - 1]]
    <3>4. ASSUME NEW n \in 1 .. N
          PROVE  w[n] = IF n = 1 THEN HFirst(h) ELSE HNext(w[n - 1])
      <4>1. CASE n = 1
        BY <3>2, <4>1 DEF Iterates
      <4>2. CASE n # 1
        <5>1. n - 1 \in 1 .. N - 1 /\ n - 1 \in 1 .. N
          BY <1>1, <4>2
        <5> QED BY <3>3, <4>2, <5>1
      <4> QED BY <4>1, <4>2
    <3>5. Rec(w)
      BY <3>4
    <3> QED BY <3>5
  <2> QED BY <2>1, <2>2
<1>7. Rec(F)
  BY <1>6
<1>8. Walk(h) = F
  BY DEF Walk
<1> HIDE DEF F
<1>9. DOMAIN F = 1 .. N
  BY <1>7
<1>10. ASSUME NEW n \in 1 .. N
       PROVE  F[n] = IF n = 1 THEN HFirst(h) ELSE HNext(F[n - 1])
  <2> DEFINE G == F
  <2> HIDE DEF G
  <2>1. F = [m \in 1 .. N |-> IF m = 1 THEN HFirst(h) ELSE HNext(G[m - 1])]
    BY <1>7 DEF G
  <2>2. F[n] = IF n = 1 THEN HFirst(h) ELSE HNext(G[n - 1])
    BY <2>1
  <2> QED BY <2>2 DEF G
<1> DEFINE T == {n \in 0 .. N : n # 0 => F[n] \in S}
<1>11. 0 \in T
  BY <1>1
<1>12. ASSUME NEW n \in 1 .. N, n - 1 \in T PROVE n \in T
  BY <1>1, <1>3, <1>4, <1>10, <1>12
<1>13. \A n \in 0 .. N : n \in T
  <2> HIDE DEF T, N
  <2> QED BY <1>1, <1>11, <1>12, IntervalInduction
<1>14. ASSUME NEW n \in 1 .. N PROVE TableInv(F[n]) /\ SameItems(h, F[n])
  <2>1. F[n] \in S
    BY <1>1, <1>13
  <2> QED BY <2>1 DEF S
<1> QED BY <1>8, <1>9, <1>10, <1>14

(* After n turns the loop has visited the first n places, no more.         *)
LEMMA WalkVisits ==
  ASSUME NEW h, TableInv(h)
  PROVE  LET w == Walk(h)
         IN  \A n \in 1 .. h.count :
               /\ w[n].ipos # NoKey
               /\ IsFiniteSet(UpTo(w[n])) /\ Cardinality(UpTo(w[n])) = n
               /\ {w[m].ipos : m \in 1 .. n} = {KeyAt(h, p) : p \in UpTo(w[n])}
<1> DEFINE N == h.count
           w == Walk(h)
           Visited(n) ==
             /\ w[n].ipos # NoKey
             /\ IsFiniteSet(UpTo(w[n])) /\ Cardinality(UpTo(w[n])) = n
             /\ {w[m].ipos : m \in 1 .. n} = {KeyAt(h, p) : p \in UpTo(w[n])}
           T == {n \in 0 .. N : n # 0 => Visited(n)}
<1>1. N \in Nat /\ N = Cardinality(Items(h)) /\ IsFiniteSet(Items(h))
  BY DEF TableInv, TableType, CountInv
<1>2. \A n \in 1 .. N :
        /\ w[n] = IF n = 1 THEN HFirst(h) ELSE HNext(w[n - 1])
        /\ TableInv(w[n]) /\ SameItems(h, w[n])
  BY WalkIs
<1> HIDE DEF w
<1>3. \A n \in 1 .. N : Places(w[n]) = Places(h) /\ \A p : KeyAt(w[n], p) = KeyAt(h, p)
  BY <1>2 DEF SameItems, Places, KeyAt
<1>4. 0 \in T
  BY <1>1
<1>5. ASSUME NEW n \in 1 .. N, n - 1 \in T PROVE Visited(n)
  <2>1. CASE n = 1
    <3>1. Items(h) # {}
      BY <1>1, <2>1, FS_EmptySet
    <3>2. w[n] = HFirst(h)
      BY <1>2, <2>1
    <3>3. w[n].ipos # NoKey /\ \E p \in Places(h) : UpTo(w[n]) = {p} /\ w[n].ipos = KeyAt(h, p)
      BY <3>1, <3>2, FirstPlace
    <3>4. {w[m].ipos : m \in 1 .. n} = {w[n].ipos}
      BY <2>1
    <3> QED BY <2>1, <3>3, <3>4, FS_Singleton
  <2>2. CASE n # 1
    <3> DEFINE m == n - 1
    <3>1. m \in 1 .. N /\ m + 1 = n /\ m # N /\ m \in Nat
      BY <1>1, <2>2
    <3>2. Visited(m)
      <4> HIDE DEF Visited
      <4> QED BY <1>5, <3>1
    <3>3. w[n] = HNext(w[m])
      BY <1>2, <2>2
    <3> HIDE DEF m
    <3>4. HNextRet(w[m])
      <4>1. SUFFICES ASSUME ~HNextRet(w[m]) PROVE FALSE
        OBVIOUS
      <4>2. UpTo(w[m]) = Places(h)
        BY <1>2, <1>3, <3>1, <3>2, <4>1, NextPlace
      <4>3. Cardinality(Places(h)) = N
        BY PlacesCount
      <4> QED BY <3>1, <3>2, <4>2, <4>3
    <3>5. w[n].ipos # NoKey /\ \E p \in Places(h) \ UpTo(w[m]) :
             UpTo(w[n]) = UpTo(w[m]) \cup {p} /\ w[n].ipos = KeyAt(h, p)
      BY <1>2, <1>3, <3>1, <3>2, <3>3, <3>4, NextPlace
    <3>6. PICK p \in Places(h) \ UpTo(w[m]) :
             UpTo(w[n]) = UpTo(w[m]) \cup {p} /\ w[n].ipos = KeyAt(h, p)
      BY <3>5
    <3>7. IsFiniteSet(UpTo(w[n])) /\ Cardinality(UpTo(w[n])) = n
      BY <3>1, <3>2, <3>6, FS_AddElement
    <3>8. {w[l].ipos : l \in 1 .. n} = {w[l].ipos : l \in 1 .. m} \cup {w[n].ipos}
      <4>1. 1 .. n = (1 .. m) \cup {n}
        BY <3>1
      <4> QED BY <4>1
    <3>9. {w[l].ipos : l \in 1 .. n} = {KeyAt(h, q) : q \in UpTo(w[n])}
      <4>1. {KeyAt(h, q) : q \in UpTo(w[n])}
              = {KeyAt(h, q) : q \in UpTo(w[m])} \cup {KeyAt(h, p)}
        BY <3>6
      <4> QED BY <3>2, <3>6, <3>8, <4>1
    <3> QED BY <3>5, <3>7, <3>9
  <2> QED BY <2>1, <2>2
<1> HIDE DEF Visited
<1>6. \A n \in 1 .. N : n - 1 \in T => n \in T
  BY <1>1, <1>5
<1>7. \A n \in 0 .. N : n \in T
  <2> HIDE DEF T, N
  <2> QED BY <1>1, <1>4, <1>6, IntervalInduction
<1>8. \A n \in 1 .. N : Visited(n)
  BY <1>1, <1>7
<1> QED BY <1>8 DEF w, Visited

(* What the loop of a sound table does.                                    *)
LEMMA LoopOfSound == UseInv => LoopVisitsAll
<1> SUFFICES ASSUME TableInv(htab) PROVE LoopVisitsAll
  BY DEF UseInv
<1> DEFINE w == Walk(htab)
           N == htab.count
<1>1. N \in Nat /\ N = Cardinality(Items(htab)) /\ IsFiniteSet(Items(htab))
  BY DEF TableInv, TableType, CountInv
<1>2. IsFiniteSet(Places(htab)) /\ Cardinality(Places(htab)) = N
      /\ {KeyAt(htab, p) : p \in Places(htab)} = Items(htab)
  BY PlacesCount
<1>3. HSanity
  BY SoundIsSane DEF HSanity, UseTypeOK, TableInv, TableType
<1>4. HFirstRet(htab) <=> Items(htab) # {}
  BY SoundIsSane
<1>5. DOMAIN w = 1 .. N /\ \A n \in 1 .. N : TableInv(w[n]) /\ SameItems(htab, w[n])
  BY WalkIs
<1>6. \A n \in 1 .. N :
        /\ w[n].ipos # NoKey
        /\ IsFiniteSet(UpTo(w[n])) /\ Cardinality(UpTo(w[n])) = n
        /\ {w[m].ipos : m \in 1 .. n} = {KeyAt(htab, p) : p \in UpTo(w[n])}
  BY WalkVisits
<1> HIDE DEF w
<1>7. \A n \in 1 .. N : Places(w[n]) = Places(htab) /\ UpTo(w[n]) \subseteq Places(htab)
  BY <1>5 DEF SameItems, Places, UpTo
<1>8. ASSUME NEW n \in 1 .. N PROVE UpTo(w[n]) = Places(htab) <=> n = N
  <2>1. UpTo(w[n]) \in SUBSET Places(htab)
    BY <1>7
  <2> QED BY <1>2, <1>6, <2>1, FS_Subset
<1>9. {w[n].ipos : n \in 1 .. N} = Items(htab)
  <2>1. CASE N = 0
    <3>1. Items(htab) = {}
      BY <1>1, <2>1, FS_EmptySet
    <3>2. {w[n].ipos : n \in 1 .. N} = {}
      BY <2>1
    <3> QED BY <3>1, <3>2
  <2>2. CASE N # 0
    <3>1. N \in 1 .. N
      BY <1>1, <2>2
    <3> QED BY <1>2, <1>6, <1>8, <3>1
  <2> QED BY <2>1, <2>2
<1>10. ASSUME NEW n \in 1 .. N PROVE HNextRet(w[n]) <=> n < N
  <2>1. CASE HNextRet(w[n])
    <3>1. \E p \in Places(w[n]) : p \notin UpTo(w[n])
      BY <1>5, <1>6, <2>1, NextPlace
    <3>2. n # N
      BY <1>7, <1>8, <3>1
    <3> QED BY <1>1, <2>1, <3>2
  <2>2. CASE ~HNextRet(w[n])
    <3>1. UpTo(w[n]) = Places(htab)
      BY <1>5, <1>6, <1>7, <2>2, NextPlace
    <3> QED BY <1>1, <1>8, <2>2, <3>1
  <2> QED BY <2>1, <2>2
<1> QED BY <1>1, <1>3, <1>4, <1>5, <1>9, <1>10 DEF LoopVisitsAll, w

(* After any calls the table passes its own sanity check, and the loop of  *)
(* hashtab.h shows every item once and ends after the last.                *)
THEOREM LoopIsComplete == UseSpec => []LoopVisitsAll
BY TableStaysSound, LoopOfSound, PTL
==============================================================================
