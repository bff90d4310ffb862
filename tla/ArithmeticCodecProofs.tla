------------------------ MODULE ArithmeticCodecProofs ------------------------
(***************************************************************************)
(* The arithmetic coder, for every model, code width and sequence of       *)
(* messages, lost ones included: the interval keeps room for every symbol, *)
(* and the decoder returns what was encoded from exactly the bits that     *)
(* the encoder made.                                                       *)
(*                                                                         *)
(* The encoder's run over a message is a history of its states.  With the  *)
(* bits given out so far set aside (base) and the doublings counted        *)
(* (doubled), the interval of a state is a part of the numbers from 0 to 1 *)
(* which every later state lies within, and the bits of the message are    *)
(* the first ones that tell the last of these parts.  The invariant of the *)
(* decoder is that it is in one of the states of that history, with a      *)
(* number that the bits taken so far make: so a symbol that is certain is  *)
(* the one that was encoded, one that is not means that bits are left, and *)
(* where the last state is reached none is.                                *)
(*                                                                         *)
(* The powers of two and the number that some bits make are recursive      *)
(* functions, about which the first lemmas are, by induction.              *)
(***************************************************************************)
EXTENDS ArithmeticCodec, WellFoundedInduction, TLAPS

-----------------------------------------------------------------------------
(* Powers of two and numbers of bits *)

\* Induction over the natural numbers, for sets.
LEMMA NatSetInduction ==
  ASSUME NEW T, 0 \in T, \A n \in Nat : n \in T => n + 1 \in T
  PROVE  Nat \subseteq T
<1> SUFFICES ASSUME NEW b \in Nat, b \notin T PROVE FALSE
  OBVIOUS
<1> DEFINE R == OpToRel(<, Nat)
           B == Nat \ T
<1>1. IsWellFoundedOn(R, Nat)
  BY NatLessThanWellFounded
<1>2. B \subseteq Nat /\ B # {}
  OBVIOUS
<1>3. \A x, y \in Nat : x < y => <<x, y>> \in R
  BY DEF OpToRel
<1> HIDE DEF R, B
<1>4. PICK x \in B : \A y \in B : ~ (<<y, x>> \in R)
  BY <1>1, <1>2, WFMin
<1>5. x \in Nat /\ x # 0 /\ x - 1 \in Nat /\ x - 1 < x
  BY <1>4 DEF B
<1>6. x - 1 \notin B
  BY <1>3, <1>4, <1>5
<1> QED
  BY <1>4, <1>5, <1>6 DEF B

\* There is a function that doubles as far as n.
LEMMA PowersExist ==
  ASSUME NEW N \in Nat
  PROVE  \E g : g = [i \in 0..N |-> IF i = 0 THEN 1 ELSE 2 * g[i - 1]]
<1> DEFINE T == {n \in Nat : \E g : g = [i \in 0..n |-> IF i = 0 THEN 1 ELSE 2 * g[i - 1]]}
<1>1. 0 \in T
  <2> DEFINE g == [i \in 0..0 |-> 1]
  <2>1. g = [i \in 0..0 |-> IF i = 0 THEN 1 ELSE 2 * g[i - 1]]
    OBVIOUS
  <2> QED
    BY <2>1
<1>2. \A n \in Nat : n \in T => n + 1 \in T
  <2> SUFFICES ASSUME NEW n \in Nat, n \in T PROVE n + 1 \in T
    OBVIOUS
  <2>1. PICK g : g = [i \in 0..n |-> IF i = 0 THEN 1 ELSE 2 * g[i - 1]]
    OBVIOUS
  <2>2. \A i \in 0..n : g[i] = IF i = 0 THEN 1 ELSE 2 * g[i - 1]
    BY <2>1
  <2> DEFINE f == [i \in 0..n + 1 |-> IF i = n + 1 THEN 2 * g[n] ELSE g[i]]
  <2>3. \A i \in 0..n + 1 : f[i] = IF i = n + 1 THEN 2 * g[n] ELSE g[i]
    OBVIOUS
  <2>4. f = [i \in 0..n + 1 |-> f[i]]
    OBVIOUS
  <2> HIDE DEF f
  <2>5. \A i \in 0..n + 1 : f[i] = IF i = 0 THEN 1 ELSE 2 * f[i - 1]
    <3> SUFFICES ASSUME NEW i \in 0..n + 1 PROVE f[i] = IF i = 0 THEN 1 ELSE 2 * f[i - 1]
      OBVIOUS
    <3>1. CASE i = n + 1
      <4>1. i # 0 /\ i - 1 = n /\ n \in 0..n + 1 /\ n # n + 1
        BY <3>1
      <4>2. f[i] = 2 * g[n] /\ f[i - 1] = g[n]
        BY <2>3, <3>1, <4>1
      <4> QED
        BY <4>1, <4>2
    <3>2. CASE i # n + 1
      <4>1. i \in 0..n /\ f[i] = g[i]
        BY <2>3, <3>2
      <4>2. i # 0 => i - 1 \in 0..n + 1 /\ i - 1 # n + 1
        BY <4>1
      <4>3. i # 0 => f[i - 1] = g[i - 1]
        BY <2>3, <4>2
      <4> QED
        BY <2>2, <4>1, <4>3
    <3> QED
      BY <3>1, <3>2
  <2>6. f = [i \in 0..n + 1 |-> IF i = 0 THEN 1 ELSE 2 * f[i - 1]]
    BY <2>4, <2>5
  <2> QED
    BY <2>6
<1> HIDE DEF T
<1>3. N \in T
  BY <1>1, <1>2, NatSetInduction
<1> QED
  BY <1>3 DEF T

\* There is a function that reads the bits of b as far as n.
LEMMA NumbersExist ==
  ASSUME NEW N \in Nat, NEW b
  PROVE  \E g : g = [i \in 0..N |-> IF i = 0 THEN 0 ELSE 2 * g[i - 1] + b[i]]
<1> DEFINE T == {n \in Nat : \E g : g = [i \in 0..n |-> IF i = 0 THEN 0 ELSE 2 * g[i - 1] + b[i]]}
<1>1. 0 \in T
  <2> DEFINE g == [i \in 0..0 |-> 0]
  <2>1. g = [i \in 0..0 |-> IF i = 0 THEN 0 ELSE 2 * g[i - 1] + b[i]]
    OBVIOUS
  <2> QED
    BY <2>1
<1>2. \A n \in Nat : n \in T => n + 1 \in T
  <2> SUFFICES ASSUME NEW n \in Nat, n \in T PROVE n + 1 \in T
    OBVIOUS
  <2>1. PICK g : g = [i \in 0..n |-> IF i = 0 THEN 0 ELSE 2 * g[i - 1] + b[i]]
    OBVIOUS
  <2>2. \A i \in 0..n : g[i] = IF i = 0 THEN 0 ELSE 2 * g[i - 1] + b[i]
    BY <2>1
  <2> DEFINE f == [i \in 0..n + 1 |-> IF i = n + 1 THEN 2 * g[n] + b[n + 1] ELSE g[i]]
  <2>3. \A i \in 0..n + 1 : f[i] = IF i = n + 1 THEN 2 * g[n] + b[n + 1] ELSE g[i]
    OBVIOUS
  <2>4. f = [i \in 0..n + 1 |-> f[i]]
    OBVIOUS
  <2> HIDE DEF f
  <2>5. \A i \in 0..n + 1 : f[i] = IF i = 0 THEN 0 ELSE 2 * f[i - 1] + b[i]
    <3> SUFFICES ASSUME NEW i \in 0..n + 1
                 PROVE  f[i] = IF i = 0 THEN 0 ELSE 2 * f[i - 1] + b[i]
      OBVIOUS
    <3>1. CASE i = n + 1
      <4>1. i # 0 /\ i - 1 = n /\ n \in 0..n + 1 /\ n # n + 1
        BY <3>1
      <4>2. f[i] = 2 * g[n] + b[i] /\ f[i - 1] = g[n]
        BY <2>3, <3>1, <4>1
      <4> QED
        BY <4>1, <4>2
    <3>2. CASE i # n + 1
      <4>1. i \in 0..n /\ f[i] = g[i]
        BY <2>3, <3>2
      <4>2. i # 0 => i - 1 \in 0..n + 1 /\ i - 1 # n + 1
        BY <4>1
      <4>3. i # 0 => f[i - 1] = g[i - 1]
        BY <2>3, <4>2
      <4> QED
        BY <2>2, <4>1, <4>3
    <3> QED
      BY <3>1, <3>2
  <2>6. f = [i \in 0..n + 1 |-> IF i = 0 THEN 0 ELSE 2 * f[i - 1] + b[i]]
    BY <2>4, <2>5
  <2> QED
    BY <2>6
<1> HIDE DEF T
<1>3. N \in T
  BY <1>1, <1>2, NatSetInduction
<1> QED
  BY <1>3 DEF T

\* The functions that double up to some n and to a greater one agree.
LEMMA PowersAgree ==
  ASSUME NEW N \in Nat, NEW g, NEW h,
         \A i \in 0..N : g[i] = IF i = 0 THEN 1 ELSE 2 * g[i - 1],
         \A i \in 0..N : h[i] = IF i = 0 THEN 1 ELSE 2 * h[i - 1]
  PROVE  \A n \in 0..N : g[n] = h[n] /\ g[n] \in Nat \ {0}
<1> DEFINE T == {n \in Nat : n <= N => g[n] = h[n] /\ g[n] \in Nat \ {0}}
<1>1. 0 \in T
  OBVIOUS
<1>2. \A n \in Nat : n \in T => n + 1 \in T
  <2> SUFFICES ASSUME NEW n \in Nat, n \in T, n + 1 <= N
               PROVE  g[n + 1] = h[n + 1] /\ g[n + 1] \in Nat \ {0}
    OBVIOUS
  <2>1. g[n] = h[n] /\ g[n] \in Nat \ {0}
    OBVIOUS
  <2>2. n + 1 \in 0..N /\ n + 1 # 0 /\ (n + 1) - 1 = n
    OBVIOUS
  <2>3. g[n + 1] = 2 * g[n] /\ h[n + 1] = 2 * h[n]
    BY <2>2
  <2> QED
    BY <2>1, <2>3
<1> HIDE DEF T
<1>3. Nat \subseteq T
  BY <1>1, <1>2, NatSetInduction
<1> QED
  BY <1>3 DEF T

\* What pow2() is built from.
LEMMA Pow2Is ==
  /\ pow2(0) = 1
  /\ \A n \in Nat : pow2(n) \in Nat \ {0} /\ pow2(n + 1) = 2 * pow2(n)
<1> DEFINE P(n, g) == g = [i \in 0..n |-> IF i = 0 THEN 1 ELSE 2 * g[i - 1]]
<1>1. ASSUME NEW n \in Nat
      PROVE  \E g : P(n, g) /\ pow2(n) = g[n]
  <2> DEFINE c == CHOOSE g : P(n, g)
  <2>1. P(n, c)
    BY PowersExist
  <2>2. pow2(n) = c[n]
    BY DEF pow2
  <2> QED
    BY <2>1, <2>2
<1>2. ASSUME NEW n \in Nat, NEW g, P(n, g)
      PROVE  \A i \in 0..n : g[i] = IF i = 0 THEN 1 ELSE 2 * g[i - 1]
  BY <1>2
<1> HIDE DEF P
<1>3. pow2(0) = 1
  <2>1. PICK g : P(0, g) /\ pow2(0) = g[0]
    BY <1>1
  <2> QED
    BY <1>2, <2>1
<1>4. ASSUME NEW n \in Nat
      PROVE  pow2(n) \in Nat \ {0} /\ pow2(n + 1) = 2 * pow2(n)
  <2>1. PICK g : P(n, g) /\ pow2(n) = g[n]
    BY <1>1
  <2>2. PICK h : P(n + 1, h) /\ pow2(n + 1) = h[n + 1]
    BY <1>1
  <2>3. \A i \in 0..n : g[i] = IF i = 0 THEN 1 ELSE 2 * g[i - 1]
    BY <1>2, <2>1
  <2>4. \A i \in 0..n + 1 : h[i] = IF i = 0 THEN 1 ELSE 2 * h[i - 1]
    BY <1>2, <2>2
  <2>5. \A i \in 0..n : h[i] = IF i = 0 THEN 1 ELSE 2 * h[i - 1]
    BY <2>4
  <2>6. g[n] = h[n] /\ g[n] \in Nat \ {0}
    <3>1. \A i \in 0..n : g[i] = h[i] /\ g[i] \in Nat \ {0}
      BY <2>3, <2>5, PowersAgree
    <3> QED
      BY <3>1
  <2>7. n + 1 \in 0..n + 1 /\ n + 1 # 0 /\ (n + 1) - 1 = n
    OBVIOUS
  <2>8. h[n + 1] = 2 * h[n]
    BY <2>4, <2>7
  <2> QED
    BY <2>1, <2>2, <2>6, <2>8
<1> QED
  BY <1>3, <1>4

\* Powers add up.
LEMMA Pow2Plus ==
  ASSUME NEW a \in Nat, NEW b \in Nat
  PROVE  pow2(a + b) = pow2(a) * pow2(b)
<1> DEFINE T == {n \in Nat : pow2(a + n) = pow2(a) * pow2(n)}
<1>1. pow2(a) \in Nat \ {0} /\ pow2(0) = 1 /\ a + 0 = a
  BY Pow2Is
<1>2. 0 \in T
  BY <1>1
<1>3. \A n \in Nat : n \in T => n + 1 \in T
  <2> SUFFICES ASSUME NEW n \in Nat, n \in T
               PROVE  pow2(a + (n + 1)) = pow2(a) * pow2(n + 1)
    OBVIOUS
  <2>1. a + n \in Nat /\ a + (n + 1) = (a + n) + 1
    OBVIOUS
  <2>2. pow2((a + n) + 1) = 2 * pow2(a + n) /\ pow2(n + 1) = 2 * pow2(n) /\ pow2(n) \in Nat
    BY <2>1, Pow2Is
  <2>3. pow2(a + n) = pow2(a) * pow2(n)
    OBVIOUS
  <2>4. 2 * (pow2(a) * pow2(n)) = pow2(a) * (2 * pow2(n))
    BY <1>1, <2>2
  <2> QED
    BY <2>1, <2>2, <2>3, <2>4
<1> HIDE DEF T
<1>4. b \in T
  BY <1>2, <1>3, NatSetInduction
<1> QED
  BY <1>4 DEF T

\* A number of bits and what they are worth.
LEMMA NumberIs ==
  ASSUME NEW b \in Seq({0, 1})
  PROVE  /\ number(b)[0] = 0
         /\ \A j \in 0..Len(b) : number(b)[j] \in Nat
         /\ \A j \in 1..Len(b) : number(b)[j] = 2 * number(b)[j - 1] + b[j]
<1> DEFINE s == number(b)
           N == Len(b)
<1>1. N \in Nat /\ \A j \in 1..N : b[j] \in {0, 1}
  OBVIOUS
<1>2. s = [i \in 0..N |-> IF i = 0 THEN 0 ELSE 2 * s[i - 1] + b[i]]
  BY <1>1, NumbersExist DEF number
<1> HIDE DEF s, N
<1>3. \A i \in 0..N : s[i] = IF i = 0 THEN 0 ELSE 2 * s[i - 1] + b[i]
  BY <1>2
<1>4. \A j \in 1..N : s[j] = 2 * s[j - 1] + b[j]
  BY <1>1, <1>3
<1>5. s[0] = 0
  BY <1>1, <1>3
<1> DEFINE T == {n \in Nat : n <= N => s[n] \in Nat}
<1>6. 0 \in T
  BY <1>5
<1>7. \A n \in Nat : n \in T => n + 1 \in T
  <2> SUFFICES ASSUME NEW n \in Nat, n \in T, n + 1 <= N PROVE s[n + 1] \in Nat
    OBVIOUS
  <2>1. PICK k \in 1..N : k = n + 1 /\ k - 1 = n
    BY <1>1
  <2>2. s[k] = 2 * s[n] + b[k] /\ s[n] \in Nat /\ b[k] \in {0, 1}
    BY <1>1, <1>4, <2>1
  <2> QED
    BY <2>1, <2>2
<1> HIDE DEF T
<1>8. Nat \subseteq T
  BY <1>6, <1>7, NatSetInduction
<1>9. \A j \in 0..N : s[j] \in Nat
  BY <1>1, <1>8 DEF T
<1> QED
  BY <1>4, <1>5, <1>9 DEF s, N

\* The number of the first bits does not depend on those behind them.
LEMMA NumberOfPrefix ==
  ASSUME NEW b \in Seq({0, 1}), NEW d \in Seq({0, 1}), NEW k \in Nat,
         k <= Len(b), k <= Len(d), \A j \in 1..k : b[j] = d[j]
  PROVE  \A j \in 0..k : number(b)[j] = number(d)[j]
<1> DEFINE s == number(b)
           r == number(d)
<1>1. /\ s[0] = 0 /\ \A j \in 1..k : s[j] = 2 * s[j - 1] + b[j]
  BY NumberIs
<1>2. /\ r[0] = 0 /\ \A j \in 1..k : r[j] = 2 * r[j - 1] + d[j]
  BY NumberIs
<1> HIDE DEF s, r
<1> DEFINE T == {n \in Nat : n <= k => s[n] = r[n]}
<1>3. 0 \in T
  BY <1>1, <1>2
<1>4. \A n \in Nat : n \in T => n + 1 \in T
  <2> SUFFICES ASSUME NEW n \in Nat, n \in T, n + 1 <= k PROVE s[n + 1] = r[n + 1]
    OBVIOUS
  <2>1. PICK j \in 1..k : j = n + 1 /\ j - 1 = n
    OBVIOUS
  <2>2. s[n] = r[n] /\ s[j] = 2 * s[n] + b[j] /\ r[j] = 2 * r[n] + d[j] /\ b[j] = d[j]
    BY <1>1, <1>2, <2>1
  <2> QED
    BY <2>1, <2>2
<1> HIDE DEF T
<1>5. Nat \subseteq T
  BY <1>3, <1>4, NatSetInduction
<1>6. \A j \in 0..k : s[j] = r[j]
  BY <1>5 DEF T
<1> QED
  BY <1>6 DEF s, r

\* A greater power is not smaller.
LEMMA Pow2Order ==
  ASSUME NEW a \in Nat, NEW b \in Nat, a <= b
  PROVE  pow2(a) <= pow2(b) /\ pow2(b) = pow2(a) * pow2(b - a)
<1>1. PICK d \in Nat : d = b - a /\ b = a + d
  OBVIOUS
<1>2. pow2(b) = pow2(a) * pow2(d)
  BY <1>1, Pow2Plus
<1> DEFINE x == pow2(a)
           y == pow2(d)
<1>3. x \in Nat \ {0} /\ y \in Nat \ {0}
  BY <1>1, Pow2Is
<1> HIDE DEF x, y
<1>4. x <= x * y
  BY <1>3
<1> QED
  BY <1>1, <1>2, <1>4 DEF x, y

\* What comes behind the first u bits decides about the rest of their place only.
LEMMA NumberOfMoreBits ==
  ASSUME NEW b \in Seq({0, 1}), NEW u \in Nat, NEW k \in Nat, u + k <= Len(b)
  PROVE  /\ number(b)[u] * pow2(k) <= number(b)[u + k]
         /\ number(b)[u + k] + 1 <= (number(b)[u] + 1) * pow2(k)
<1> DEFINE s == number(b)
           N == Len(b)
<1>1. /\ N \in Nat
      /\ \A j \in 0..N : s[j] \in Nat
      /\ \A j \in 1..N : s[j] = 2 * s[j - 1] + b[j] /\ b[j] \in {0, 1}
  BY NumberIs
<1>0. u + k <= N
  OBVIOUS
<1> HIDE DEF s, N
<1> DEFINE A(n) == s[u] * pow2(n) <= s[u + n] /\ s[u + n] + 1 <= (s[u] + 1) * pow2(n)
           T == {n \in Nat : u + n <= N => A(n)}
<1>2. A(0)
  <2>1. u \in 0..N /\ pow2(0) = 1 /\ u + 0 = u
    BY <1>0, <1>1, Pow2Is
  <2>2. s[u] \in Nat
    BY <1>1, <2>1
  <2> QED
    BY <2>1, <2>2
<1>3. ASSUME NEW n \in Nat, A(n), u + (n + 1) <= N
      PROVE  A(n + 1)
  <2>1. PICK j \in 1..N : j = u + (n + 1) /\ j - 1 = u + n
    BY <1>1, <1>3
  <2>2. u \in 0..N /\ u + n \in 0..N
    BY <1>0, <1>1, <1>3, <2>1
  <2> DEFINE x == s[u]
             y == s[u + n]
             z == s[j]
             p == pow2(n)
             c == b[j]
  <2>3. x \in Nat /\ y \in Nat /\ c \in {0, 1} /\ z = 2 * y + c
    BY <1>1, <2>1, <2>2
  <2>4. p \in Nat /\ pow2(n + 1) = 2 * p
    BY Pow2Is
  <2>5. x * p <= y /\ y + 1 <= (x + 1) * p
    BY <1>3
  <2>8. SUFFICES x * (2 * p) <= z /\ z + 1 <= (x + 1) * (2 * p)
    BY <2>1, <2>4
  <2> HIDE DEF x, y, z, p, c
  <2>6. x * (2 * p) = 2 * (x * p) /\ (x + 1) * (2 * p) = 2 * ((x + 1) * p)
        /\ x * p \in Nat /\ (x + 1) * p \in Nat
    BY <2>3, <2>4
  <2> QED
    BY <2>3, <2>5, <2>6
<1> HIDE DEF A
<1>4. 0 \in T
  BY <1>2
<1>5. \A n \in Nat : n \in T => n + 1 \in T
  <2> SUFFICES ASSUME NEW n \in Nat, n \in T PROVE n + 1 \in T
    OBVIOUS
  <2>1. ASSUME u + (n + 1) <= N PROVE A(n + 1)
    <3>1. u + n <= N
      BY <1>1, <2>1
    <3> QED
      BY <1>3, <2>1, <3>1
  <2>2. n + 1 \in Nat
    OBVIOUS
  <2> QED
    BY <2>1, <2>2
<1> HIDE DEF T
<1>6. k \in T
  BY <1>4, <1>5, NatSetInduction
<1>7. A(k)
  BY <1>0, <1>6 DEF T
<1> QED
  BY <1>7 DEF A, s

-----------------------------------------------------------------------------
(* Division *)

\* A quarter of the code values.
LEMMA Quarter == FIRST_QTR \in Nat \ {0} /\ pow2(CODE_VALUE_BITS) = 4 * FIRST_QTR
<1>1. PICK n \in Nat : n = CODE_VALUE_BITS - 2 /\ CODE_VALUE_BITS = (n + 1) + 1
  BY ArithmeticAssumption
<1>2. pow2(n) \in Nat \ {0} /\ n + 1 \in Nat
  BY Pow2Is
<1>3. pow2(n + 1) = 2 * pow2(n) /\ pow2((n + 1) + 1) = 2 * pow2(n + 1)
  BY <1>2, Pow2Is
<1> QED
  BY <1>1, <1>2, <1>3 DEF FIRST_QTR

\* A quotient is the greatest number that its divisor fits so often.
LEMMA Quotient ==
  ASSUME NEW n \in Nat, NEW T \in Nat \ {0}
  PROVE  /\ n \div T \in Nat
         /\ T * (n \div T) <= n
         /\ \A q \in Nat : T * q <= n => q <= n \div T
<1>1. /\ n \div T \in Nat
      /\ T * (n \div T) <= n
      /\ n < T * (n \div T) + T
  BY SMT
<1>2. ASSUME NEW q \in Nat, T * q <= n, q > n \div T
      PROVE  FALSE
  <2> DEFINE k == n \div T
  <2>1. k \in Nat /\ n < T * k + T /\ q >= k + 1
    BY <1>1, <1>2
  <2>2. T * q >= T * (k + 1)
    <3> HIDE DEF k
    <3> QED BY <2>1, SMT
  <2>3. T * (k + 1) = T * k + T
    <3> HIDE DEF k
    <3> QED BY <2>1, SMT
  <2>4. T * q \in Int /\ T * k \in Int
    <3> HIDE DEF k
    <3> QED BY <2>1, SMT
  <2> HIDE DEF k
  <2> QED BY <2>1, <2>2, <2>3, <2>4, <1>2
<1> QED BY <1>1, <1>2

\* The part of an interval of R numbers that belongs to a symbol, with
\* frequencies from a to b of T, is in the interval and not empty, if there are
\* as many numbers as frequencies.
LEMMA PartOfInterval ==
  ASSUME NEW R \in Nat, NEW T \in Nat \ {0}, NEW a \in Nat, NEW b \in Nat,
         T <= R, a < b, b <= T
  PROVE  /\ (R * a) \div T \in Nat /\ (R * b) \div T \in Nat
         /\ (R * a) \div T + 1 <= (R * b) \div T
         /\ (R * b) \div T <= R
<1> DEFINE x == (R * a) \div T
           y == (R * b) \div T
<1>1. R * a \in Nat /\ R * b \in Nat
  BY SMT
<1>2. x \in Nat /\ T * x <= R * a
  BY <1>1, Quotient
<1>3. y \in Nat /\ T * y <= R * b
  BY <1>1, Quotient
<1>4. R * a + R <= R * b
  <2>1. R * (a + 1) <= R * b
    BY SMT
  <2>2. R * (a + 1) = R * a + R
    BY SMT
  <2> QED BY <2>1, <2>2
<1>5. x + 1 <= y
  <2>1. T * (x + 1) = T * x + T
    <3> HIDE DEF x
    <3> QED BY <1>2, SMT
  <2>2. T * (x + 1) <= R * b
    <3> HIDE DEF x
    <3> QED BY <1>1, <1>2, <1>4, <2>1
  <2>3. x + 1 \in Nat
    BY <1>2
  <2> QED BY <1>1, <2>2, <2>3, Quotient
<1>6. y <= R
  <2>1. R * b <= T * R
    BY SMT
  <2>2. SUFFICES ASSUME y > R PROVE FALSE
    BY <1>3
  <2>3. T * y >= T * (R + 1)
    <3> HIDE DEF y
    <3> QED BY <1>3, <2>2, SMT
  <2>4. T * (R + 1) = T * R + T
    BY SMT
  <2>5. T * R \in Nat /\ T * y \in Nat
    <3> HIDE DEF y
    <3> QED BY <1>3, SMT
  <2> HIDE DEF y
  <2> QED BY <1>1, <1>3, <2>1, <2>3, <2>4, <2>5
<1> QED BY <1>2, <1>3, <1>5, <1>6

-----------------------------------------------------------------------------
(* The inductive invariant *)

IntervalOK == low \in Nat /\ high \in Nat /\ low <= high /\ high <= TOP_VALUE

CountsOK == model \in Models /\ c_freqs \in [{"encoder", "decoder"} -> Counts(model)]

\* Where a symbol is next, the loop has doubled the interval as often as it can.
Doubled == pc \in {"idle", "encode", "decode"} => ~Doubles

\* The loops over the values of a message.
LoopOK ==
  /\ value_index \in Nat
  /\ pc = "idle" => value_index = 0
  /\ pc \in {"encode", "emit", "decode", "shift"} => value_index < model.max_repeat

\* An end that is to code up to n more symbols of the message has room for them.
RoomFor(end, n) == total_freq(end) + n <= MAX_FREQUENCY

\* The room a message began with is enough to its end: every symbol takes one.
RoomOK ==
  model.is_adaptive =>
    /\ pc = "encode" => RoomFor("encoder", model.max_repeat - value_index)
    /\ pc = "emit" => RoomFor("encoder", model.max_repeat - value_index - 1)
    /\ pc \in {"encode", "emit", "finish", "sent"} => RoomFor("decoder", model.max_repeat)
    /\ pc = "decode" => RoomFor("decoder", model.max_repeat - value_index)
    /\ pc = "shift" => RoomFor("decoder", model.max_repeat - value_index - 1)

IInv == IntervalOK /\ CountsOK /\ Doubled /\ LoopOK /\ RoomOK

\* What is left when an interval cannot be doubled is more than a quarter.
LEMMA WideInterval ==
  ASSUME IntervalOK, ~Doubles
  PROVE  high - low + 1 > FIRST_QTR
<1>1. FIRST_QTR \in Nat \ {0}
  BY Quarter
<1> HIDE DEF FIRST_QTR
<1> QED
  BY <1>1 DEF IntervalOK, Doubles, InLower, InUpper, InMiddle, HALF, THIRD_QTR, TOP_VALUE

\* The symbols of a model are numbered, and every value has a frequency.
LEMMA ModelSymbols ==
  ASSUME NEW m \in Models
  PROVE  /\ max_symbol(m) \in Nat /\ max_symbol(m) \in Symbols(m) /\ 0 \in Symbols(m)
         /\ Symbols(m) \subseteq Int
         /\ \A s \in Symbols(m) : s <= max_symbol(m) /\ (s # EOF_SYMBOL => s - 1 \in Symbols(m))
         /\ \A s \in Symbols(m) : freq(m, s) \in Nat /\ (s >= 0 => freq(m, s) > 0)
<1>1. m.frequency \in Seq(Nat \ {0}) /\ m.frequency # << >>
      /\ m.eof_frequency \in Nat /\ m.out_of_range_frequency \in Nat
  BY ArithmeticAssumption DEF ModelType
<1>2. Len(m.frequency) \in Nat \ {0}
  BY <1>1
<1>3. ASSUME NEW s \in Symbols(m)
      PROVE  /\ s \in Int /\ s <= max_symbol(m) /\ (s # EOF_SYMBOL => s - 1 \in Symbols(m))
             /\ freq(m, s) \in Nat /\ (s >= 0 => freq(m, s) > 0)
  <2>1. s \in Int /\ s >= -2 /\ s <= max_symbol(m)
    BY <1>2, <1>3 DEF Symbols, max_symbol, EOF_SYMBOL
  <2>2. s >= 0 => s + 1 \in 1..Len(m.frequency)
    BY <1>2, <2>1 DEF max_symbol
  <2>3. s >= 0 => m.frequency[s + 1] \in Nat \ {0}
    BY <1>1, <2>2
  <2>4. s < 0 => s = -2 \/ s = -1
    BY <2>1
  <2>5. s # EOF_SYMBOL => s - 1 \in Symbols(m)
    BY <1>2, <2>1 DEF Symbols, max_symbol, EOF_SYMBOL
  <2> QED
    BY <1>1, <2>1, <2>3, <2>4, <2>5 DEF freq, EOF_SYMBOL, OUT_OF_RANGE_SYMBOL
<1>4. max_symbol(m) \in Nat /\ max_symbol(m) \in Symbols(m) /\ 0 \in Symbols(m)
  BY <1>2 DEF max_symbol, Symbols, EOF_SYMBOL
<1> QED
  BY <1>3, <1>4

\* The frequencies of a symbol are in the total, which leaves room in a quarter.
LEMMA CountsFit ==
  ASSUME NEW m \in Models, NEW c \in Counts(m), NEW s \in Symbols(m)
  PROVE  /\ c[max_symbol(m)] \in Nat \ {0} /\ c[max_symbol(m)] < FIRST_QTR
         /\ below(c, s) \in Nat /\ c[s] \in Nat
         /\ c[s] <= c[max_symbol(m)]
         /\ below(c, s) <= c[s]
         /\ freq(m, s) > 0 => below(c, s) < c[s]
         /\ freq(m, s) = 0 \/ freq(m, s) \in Nat \ {0}
<1>1. FIRST_QTR \in Nat \ {0}
  BY Quarter
<1>2. /\ \A t \in Symbols(m) : c[t] \in 0..MAX_FREQUENCY
      /\ \A t \in Symbols(m) : below(c, t) + freq(m, t) <= c[t]
      /\ \A t, u \in Symbols(m) : t <= u => c[t] <= c[u]
  BY DEF Counts
<1>3. /\ max_symbol(m) \in Symbols(m) /\ s <= max_symbol(m)
      /\ freq(m, s) \in Nat /\ freq(m, max_symbol(m)) \in Nat
      /\ freq(m, max_symbol(m)) > 0
  BY ModelSymbols
<1>4. \A t \in Symbols(m) : below(c, t) \in Nat
  BY <1>2, ModelSymbols DEF below
<1> HIDE DEF FIRST_QTR
<1>5. \A t \in Symbols(m) : c[t] \in Nat /\ c[t] < FIRST_QTR
  BY <1>1, <1>2 DEF MAX_FREQUENCY
<1>6. c[max_symbol(m)] > 0
  BY <1>2, <1>3, <1>4, <1>5
<1> QED
  BY <1>2, <1>3, <1>4, <1>5, <1>6

-----------------------------------------------------------------------------
(* The operations *)

\* Narrowing to a symbol that has a part leaves an interval.
LEMMA NarrowKeepsInterval ==
  ASSUME IInv, ~Doubles, NEW end \in {"encoder", "decoder"}, NEW s \in Symbols(model),
         Narrow(end, s), below(c_freqs[end], s) < c_freqs[end][s]
  PROVE  IntervalOK'
<1> DEFINE R == high - low + 1
           T == total_freq(end)
           a == below(c_freqs[end], s)
           b == c_freqs[end][s]
<1>1. c_freqs[end] \in Counts(model) /\ model \in Models
  BY DEF IInv, CountsOK
<1>2. T \in Nat \ {0} /\ T < FIRST_QTR /\ a \in Nat /\ b \in Nat /\ b <= T
  BY <1>1, CountsFit DEF total_freq
<1>3. R > FIRST_QTR
  BY WideInterval DEF IInv
<1>4. FIRST_QTR \in Nat \ {0}
  BY Quarter
<1>5. R \in Nat /\ T <= R
  <2> HIDE DEF T, FIRST_QTR
  <2> QED BY <1>2, <1>3, <1>4 DEF IInv, IntervalOK
<1>6. a < b
  OBVIOUS
<1>7. high' = low + (R * b) \div T - 1 /\ low' = low + (R * a) \div T
  BY DEF Narrow
<1>8. /\ (R * a) \div T \in Nat /\ (R * b) \div T \in Nat
      /\ (R * a) \div T + 1 <= (R * b) \div T
      /\ (R * b) \div T <= R
  <2> HIDE DEF R, T, a, b
  <2> QED BY <1>2, <1>5, <1>6, PartOfInterval
<1> DEFINE x == (R * a) \div T
           y == (R * b) \div T
<1>9. /\ low' = low + x /\ high' = low + y - 1
      /\ x \in Nat /\ y \in Nat /\ x + 1 <= y /\ y <= R
  BY <1>7, <1>8
<1>10. low \in Nat /\ high \in Nat /\ high <= TOP_VALUE /\ TOP_VALUE' = TOP_VALUE
  BY DEF IInv, IntervalOK, TOP_VALUE, FIRST_QTR
<1>11. TOP_VALUE \in Int
  <2> HIDE DEF FIRST_QTR
  <2> QED BY <1>4 DEF TOP_VALUE
<1> HIDE DEF x, y, TOP_VALUE
<1> QED
  BY <1>9, <1>10, <1>11 DEF IntervalOK

\* Doubling leaves an interval.
LEMMA DoubleKeepsInterval ==
  ASSUME IInv, Double
  PROVE  IntervalOK'
<1>1. FIRST_QTR \in Nat \ {0} /\ FIRST_QTR' = FIRST_QTR
  BY Quarter DEF FIRST_QTR
<1> HIDE DEF FIRST_QTR
<1> USE DEF IInv, IntervalOK, HALF, TOP_VALUE, THIRD_QTR
<1>2. CASE InLower
  BY <1>1, <1>2 DEF Double, doubling_origin, InLower
<1>3. CASE ~InLower /\ InUpper
  BY <1>1, <1>3 DEF Double, doubling_origin, InUpper
<1>4. CASE InMiddle
  BY <1>1, <1>4 DEF Double, doubling_origin, InMiddle
<1> QED
  BY <1>2, <1>3, <1>4 DEF Double, Doubles

\* A model that has counted a symbol has counts.
LEMMA UpdateKeepsCounts ==
  ASSUME IInv, NEW end \in {"encoder", "decoder"}, NEW s \in Symbols(model),
         update_model(end, s), model' = model,
         model.is_adaptive => total_freq(end) < MAX_FREQUENCY
  PROVE  CountsOK'
<1> DEFINE m == model
           c == c_freqs[end]
           d == [i \in Symbols(m) |-> IF i >= s THEN c[i] + 1 ELSE c[i]]
<1>1. m \in Models /\ c \in Counts(m) /\ c_freqs \in [{"encoder", "decoder"} -> Counts(m)]
  BY DEF IInv, CountsOK
<1>2. CASE ~m.is_adaptive
  BY <1>1, <1>2 DEF update_model, CountsOK, Counts
<1>3. CASE m.is_adaptive
  <2>1. DOMAIN c = Symbols(m) /\ c \in [Symbols(m) -> 0..MAX_FREQUENCY]
    BY <1>1 DEF Counts
  <2>2. c_freqs' = [c_freqs EXCEPT ![end] = d]
    BY <1>1, <1>3, <2>1 DEF update_model
  <2>3. MAX_FREQUENCY \in Nat
    <3>1. FIRST_QTR \in Nat \ {0}
      BY Quarter
    <3> HIDE DEF FIRST_QTR
    <3> QED BY <3>1 DEF MAX_FREQUENCY
  <2>4. \A i \in Symbols(m) : i \in Int /\ c[i] \in Nat /\ c[i] < MAX_FREQUENCY
    <3>1. c[max_symbol(m)] < MAX_FREQUENCY /\ c[max_symbol(m)] \in Nat
      BY <1>1, <1>3, CountsFit DEF total_freq
    <3>2. \A i \in Symbols(m) : i \in Int /\ c[i] \in Nat /\ c[i] <= c[max_symbol(m)]
      BY <1>1, CountsFit, ModelSymbols
    <3> HIDE DEF c, m, MAX_FREQUENCY
    <3> QED BY <2>3, <3>1, <3>2
  <2>5. d \in [Symbols(m) -> 0..MAX_FREQUENCY]
    <3> HIDE DEF c, m, MAX_FREQUENCY
    <3> QED BY <2>3, <2>4
  <2>6. s \in Int
    BY <2>4
  <2>7. ASSUME NEW i \in Symbols(m), NEW j \in Symbols(m), i <= j
        PROVE  d[i] <= d[j]
    <3>1. c[i] <= c[j]
      BY <1>1, <2>7 DEF Counts
    <3> HIDE DEF c, m
    <3> QED BY <2>4, <2>6, <2>7, <3>1
  <2>8. ASSUME NEW i \in Symbols(m)
        PROVE  below(d, i) + freq(m, i) <= d[i]
    <3>1. below(c, i) + freq(m, i) <= c[i] /\ freq(m, i) \in Nat /\ below(c, i) \in Nat
      BY <1>1, CountsFit, ModelSymbols DEF Counts
    <3>2. CASE i = EOF_SYMBOL
      <4>1. below(d, i) = 0 /\ below(c, i) = 0
        BY <3>2 DEF below
      <4> HIDE DEF c, m
      <4> QED BY <2>4, <2>6, <3>1, <4>1
    <3>3. CASE i # EOF_SYMBOL
      <4>1. i - 1 \in Symbols(m)
        BY <1>1, <3>3, ModelSymbols
      <4>2. below(d, i) = d[i - 1] /\ below(c, i) = c[i - 1]
        BY <3>3 DEF below
      <4> HIDE DEF c, m
      <4> QED BY <2>4, <2>6, <3>1, <4>1, <4>2
    <3> QED
      BY <3>2, <3>3
  <2>9. d \in Counts(m)
    <3> HIDE DEF d, m
    <3> QED BY <2>5, <2>7, <2>8 DEF Counts
  <2>10. c_freqs' \in [{"encoder", "decoder"} -> Counts(m)]
    <3> HIDE DEF d
    <3> QED BY <1>1, <2>2, <2>9
  <2> QED
    BY <1>1, <2>10 DEF CountsOK, Counts
<1> QED
  BY <1>2, <1>3

\* A symbol takes one of the room of the end that counts it.
LEMMA UpdateTakesRoom ==
  ASSUME CountsOK, NEW end \in {"encoder", "decoder"}, NEW s \in Symbols(model),
         update_model(end, s), model' = model, model.is_adaptive
  PROVE  /\ total_freq(end) \in Nat /\ total_freq(end)' = total_freq(end) + 1
         /\ \A other \in {"encoder", "decoder"} \ {end} :
              total_freq(other)' = total_freq(other)
<1>1. model \in Models /\ c_freqs \in [{"encoder", "decoder"} -> Counts(model)]
  BY DEF CountsOK
<1>2. DOMAIN c_freqs[end] = Symbols(model)
  BY <1>1 DEF Counts
<1>3. /\ max_symbol(model) \in Symbols(model) /\ s <= max_symbol(model)
      /\ c_freqs[end][max_symbol(model)] \in Nat
  BY <1>1, ModelSymbols, CountsFit
<1>4. /\ c_freqs'[end] = [i \in Symbols(model) |->
                           IF i >= s THEN c_freqs[end][i] + 1 ELSE c_freqs[end][i]]
      /\ \A other \in {"encoder", "decoder"} \ {end} : c_freqs'[other] = c_freqs[other]
  BY <1>1, <1>2 DEF update_model
<1>5. c_freqs'[end][max_symbol(model)] = c_freqs[end][max_symbol(model)] + 1
  <2> DEFINE k == max_symbol(model)
  <2> HIDE DEF k
  <2>1. k \in Symbols(model) /\ k >= s
    <3>1. k \in Int /\ s \in Int
      BY <1>1, ModelSymbols DEF k
    <3> QED BY <1>3, <3>1 DEF k
  <2> QED BY <1>4, <2>1 DEF k
<1> QED
  BY <1>3, <1>4, <1>5 DEF total_freq

\* The symbol that is encoded has a frequency, as one without has no part of the
\* interval.
LEMMA EncodedHasFrequency ==
  ASSUME CountsOK, NEW s \in Symbols(model), NEW symbol, stands_for(s, symbol)
  PROVE  freq(model, s) > 0
<1>1. /\ model \in Models /\ freq(model, s) \in Nat /\ s \in Int
      /\ s >= 0 => freq(model, s) > 0
  BY ModelSymbols DEF CountsOK
<1>2. model.frequency \in Seq(Nat \ {0})
  BY <1>1, ArithmeticAssumption DEF ModelType
<1>3. ToSet(model.frequency) \subseteq Nat
  BY <1>2 DEF ToSet
<1>4. s < 0 => s = EOF_SYMBOL \/ s = OUT_OF_RANGE_SYMBOL
  BY <1>1, ModelSymbols DEF Symbols, EOF_SYMBOL, OUT_OF_RANGE_SYMBOL
<1>5. CASE s >= 0
  BY <1>1, <1>5
<1>6. CASE s = EOF_SYMBOL
  <2>1. model.eof_frequency # 0
    BY <1>3, <1>6 DEF stands_for, EOF_SYMBOL
  <2> QED
    BY <1>1, <1>6, <2>1 DEF freq
<1>7. CASE s = OUT_OF_RANGE_SYMBOL
  <2>1. model.out_of_range_frequency # 0
    BY <1>3, <1>7 DEF stands_for, EOF_SYMBOL, OUT_OF_RANGE_SYMBOL
  <2> QED
    BY <1>1, <1>7, <2>1 DEF freq, EOF_SYMBOL, OUT_OF_RANGE_SYMBOL
<1> QED
  BY <1>1, <1>4, <1>5, <1>6, <1>7

\* The symbol that is decoded has the frequency it was found by.
LEMMA DecodedHasFrequency ==
  ASSUME IInv, NEW s \in Symbols(model), first_symbol(s)
  PROVE  below(c_freqs["decoder"], s) < c_freqs["decoder"][s]
<1> DEFINE c == c_freqs["decoder"]
           v == cumulative_freq(value)
<1> SUFFICES below(c, s) < c[s]
  OBVIOUS
<1>1. model \in Models /\ c \in Counts(model)
  BY DEF IInv, CountsOK
<1>2. c[s] \in Nat /\ below(c, s) \in Nat /\ s \in Int
  BY <1>1, CountsFit, ModelSymbols
<1>3. CASE s = 0
  <2>1. freq(model, s) > 0
    BY <1>1, <1>3, ModelSymbols
  <2> QED
    BY <1>1, <2>1, CountsFit
<1>4. CASE v < c[s] /\ \A t \in Symbols(model) : t < s => c[t] <= v
  <2>1. v \in Nat
    <3>1. v \in 0..TOP_VALUE
      BY DEF first_symbol, freq_type
    <3> HIDE DEF v, TOP_VALUE
    <3> QED BY <3>1
  <2>2. CASE s = EOF_SYMBOL
    <3> HIDE DEF v, c
    <3> QED BY <1>2, <1>4, <2>1, <2>2 DEF below
  <2>3. CASE s # EOF_SYMBOL
    <3>1. s - 1 \in Symbols(model) /\ s - 1 < s
      BY <1>1, <1>2, <2>3, ModelSymbols
    <3>2. c[s - 1] <= v /\ below(c, s) = c[s - 1]
      BY <1>4, <2>3, <3>1 DEF below
    <3> HIDE DEF v, c
    <3> QED BY <1>2, <1>4, <2>1, <3>2
  <2> QED
    BY <2>2, <2>3
<1> QED
  BY <1>3, <1>4 DEF first_symbol

-----------------------------------------------------------------------------
(* The invariant *)

\* The whole interval cannot be doubled.
LEMMA WholeInterval ==
  ASSUME low = 0, high = TOP_VALUE
  PROVE  IntervalOK /\ ~Doubles
<1>1. FIRST_QTR \in Nat \ {0}
  BY Quarter
<1> HIDE DEF FIRST_QTR
<1> QED
  BY <1>1 DEF IntervalOK, Doubles, InLower, InUpper, InMiddle, HALF, TOP_VALUE

\* The whole interval, and the frequencies of a new model.
LEMMA InitIInv == Init => IInv
<1> SUFFICES ASSUME Init PROVE IInv
  OBVIOUS
<1>1. model \in Models /\ cumulative_freqs(model) \in Counts(model)
  BY ArithmeticAssumption DEF Init
<1>2. CountsOK
  BY <1>1 DEF Init, CountsOK
<1>3. IntervalOK /\ ~Doubles
  BY WholeInterval DEF Init
<1>4. LoopOK /\ RoomOK
  BY DEF Init, LoopOK, RoomOK
<1> QED
  BY <1>2, <1>3, <1>4 DEF IInv, Doubled

\* A step that leaves the models alone.
LEMMA SameCounts ==
  ASSUME CountsOK, UNCHANGED <<model, c_freqs>>
  PROVE  CountsOK'
BY DEF CountsOK, Counts

\* And one that leaves the interval alone.
LEMMA SameInterval ==
  ASSUME IntervalOK, UNCHANGED interval
  PROVE  IntervalOK' /\ Doubles' = Doubles
BY DEF interval, IntervalOK, Doubles, InLower, InUpper, InMiddle, HALF, THIRD_QTR,
       TOP_VALUE, FIRST_QTR

\* The numbers that RoomFor adds.
LEMMA ModelRoom ==
  ASSUME CountsOK
  PROVE  /\ model.max_repeat \in Nat \ {0} /\ MAX_FREQUENCY \in Nat
         /\ total_freq("encoder") \in Nat /\ total_freq("decoder") \in Nat
<1>1. model \in Models /\ c_freqs \in [{"encoder", "decoder"} -> Counts(model)]
      /\ 0 \in Symbols(model)
  BY ModelSymbols DEF CountsOK
<1>2. model.max_repeat \in Nat \ {0}
  BY <1>1, ArithmeticAssumption DEF ModelType
<1>3. MAX_FREQUENCY \in Nat
  <2>1. FIRST_QTR \in Nat \ {0}
    BY Quarter
  <2> HIDE DEF FIRST_QTR
  <2> QED BY <2>1 DEF MAX_FREQUENCY
<1>4. total_freq("encoder") \in Nat /\ total_freq("decoder") \in Nat
  BY <1>1, CountsFit DEF total_freq
<1> QED
  BY <1>2, <1>3, <1>4

\* Every step keeps the interval and the counts.
LEMMA NextCounts ==
  ASSUME IInv, [Next]_vars
  PROVE  IntervalOK' /\ CountsOK' /\ Doubled'
<1> DEFINE Kept == IntervalOK /\ CountsOK /\ Doubled
<1> SUFFICES Kept'
  OBVIOUS
<1> USE DEF IInv
<1>1. ASSUME NEW f \in FieldsOf(model), StartEncode(f) PROVE Kept'
  BY <1>1, SameCounts, SameInterval DEF StartEncode, Doubled
<1>2. CASE EncodeSymbol
  <2>1. PICK s \in Symbols(model) :
          stands_for(s, next_symbol) /\ Narrow("encoder", s) /\ update_model("encoder", s)
    BY <1>2 DEF EncodeSymbol
  <2>2. ~Doubles /\ model' = model /\ pc' = "emit"
    BY <1>2 DEF EncodeSymbol, Doubled
  <2>3. freq(model, s) > 0 /\ c_freqs["encoder"] \in Counts(model) /\ model \in Models
    BY <2>1, EncodedHasFrequency DEF CountsOK
  <2>4. below(c_freqs["encoder"], s) < c_freqs["encoder"][s]
    BY <2>3, CountsFit
  <2>5. IntervalOK'
    BY <2>1, <2>2, <2>4, NarrowKeepsInterval
  <2>6. CountsOK'
    <3>1. model.is_adaptive => total_freq("encoder") < MAX_FREQUENCY
      <4>1. CASE model.is_adaptive
        <5>1. /\ value_index \in Nat /\ value_index < model.max_repeat
              /\ RoomFor("encoder", model.max_repeat - value_index)
          BY <1>2, <4>1 DEF EncodeSymbol, LoopOK, RoomOK
        <5> QED
          BY <5>1, ModelRoom DEF RoomFor
      <4> QED BY <4>1
    <3> QED BY <2>1, <2>2, <3>1, UpdateKeepsCounts
  <2> QED
    BY <2>2, <2>5, <2>6 DEF Doubled
<1>3. CASE EmitBit \/ ShiftBit
  <2>1. Double /\ UNCHANGED <<model, c_freqs, pc>> /\ pc \in {"emit", "shift"}
    BY <1>3 DEF EmitBit, ShiftBit
  <2> QED
    BY <2>1, DoubleKeepsInterval, SameCounts DEF Doubled
<1>4. CASE SymbolEncoded \/ SymbolDecoded
  <2>1. ~Doubles /\ UNCHANGED <<model, c_freqs, interval>>
    BY <1>4 DEF SymbolEncoded, SymbolDecoded
  <2> QED
    BY <2>1, SameCounts, SameInterval DEF Doubled
<1>5. CASE FinishEncode \/ GetBit
  <2>1. /\ UNCHANGED <<model, c_freqs, interval>>
        /\ pc' \in {"sent", "thrown", pc}
    BY <1>5 DEF FinishEncode, GetBit
  <2> QED
    BY <2>1, SameCounts, SameInterval DEF Doubled
<1>6. ASSUME UNCHANGED <<model, c_freqs>>, low' = 0, high' = TOP_VALUE PROVE Kept'
  <2>1. IntervalOK' /\ ~Doubles'
    <3>1. FIRST_QTR \in Nat \ {0}
      BY Quarter
    <3> HIDE DEF FIRST_QTR
    <3> QED
      BY <1>6, <3>1 DEF IntervalOK, Doubles, InLower, InUpper, InMiddle, HALF, TOP_VALUE
  <2> QED
    BY <1>6, <2>1, SameCounts DEF Doubled
<1>7. CASE Lose \/ EndDecode
  BY <1>6, <1>7 DEF Lose, EndDecode, EndMessage
<1>8. ASSUME NEW tail \in Tails, StartDecode(tail) PROVE Kept'
  <2>1. UNCHANGED <<model, c_freqs>>
    BY <1>8 DEF StartDecode
  <2>2. CASE pc' = "thrown" /\ UNCHANGED interval
    BY <2>1, <2>2, SameCounts, SameInterval DEF Doubled
  <2>3. CASE low' = 0 /\ high' = TOP_VALUE
    BY <1>6, <2>1, <2>3
  <2> QED
    BY <1>8, <2>2, <2>3 DEF StartDecode
<1>9. CASE DecodeSymbol
  <2>1. PICK s \in Symbols(model) :
          first_symbol(s) /\ Narrow("decoder", s) /\ update_model("decoder", s)
          /\ pc' \in {"decoded", "shift"}
    BY <1>9 DEF DecodeSymbol
  <2>2. ~Doubles /\ model' = model
    BY <1>9 DEF DecodeSymbol, Doubled
  <2>3. IntervalOK'
    BY <2>1, <2>2, DecodedHasFrequency, NarrowKeepsInterval
  <2>4. CountsOK'
    <3>1. model.is_adaptive => total_freq("decoder") < MAX_FREQUENCY
      <4>1. CASE model.is_adaptive
        <5>1. /\ value_index \in Nat /\ value_index < model.max_repeat
              /\ RoomFor("decoder", model.max_repeat - value_index)
          BY <1>9, <4>1 DEF DecodeSymbol, LoopOK, RoomOK
        <5> QED
          BY <5>1, ModelRoom DEF RoomFor
      <4> QED BY <4>1
    <3> QED BY <2>1, <2>2, <3>1, UpdateKeepsCounts
  <2> QED
    BY <2>1, <2>3, <2>4 DEF Doubled
<1>10. CASE UNCHANGED vars
  BY <1>10, SameCounts, SameInterval DEF vars, Doubled
<1> QED
  BY <1>1, <1>2, <1>3, <1>4, <1>5, <1>7, <1>8, <1>9, <1>10 DEF Next, Work

\* And the room for the symbols that are left.
LEMMA NextRoom ==
  ASSUME IInv, [Next]_vars
  PROVE  LoopOK' /\ RoomOK'
<1> USE DEF IInv
<1>0. /\ model.max_repeat \in Nat \ {0} /\ MAX_FREQUENCY \in Nat
      /\ total_freq("encoder") \in Nat /\ total_freq("decoder") \in Nat
      /\ MAX_FREQUENCY' = MAX_FREQUENCY
  BY ModelRoom DEF MAX_FREQUENCY, FIRST_QTR
<1> HIDE DEF MAX_FREQUENCY
<1>1. ASSUME NEW f \in FieldsOf(model), HasRoom, StartEncode(f) PROVE LoopOK' /\ RoomOK'
  <2>1. /\ value_index = 0 /\ UNCHANGED <<model, c_freqs, value_index>>
        /\ pc' = "encode" /\ DOMAIN c_freqs = {"encoder", "decoder"}
    BY <1>1 DEF StartEncode, LoopOK, CountsOK
  <2>2. total_freq("encoder")' = total_freq("encoder")
        /\ total_freq("decoder")' = total_freq("decoder")
    BY <2>1 DEF total_freq
  <2> QED
    BY <1>0, <1>1, <2>1, <2>2 DEF HasRoom, LoopOK, RoomOK, RoomFor
<1>2. CASE EncodeSymbol
  <2>1. PICK s \in Symbols(model) : update_model("encoder", s)
    BY <1>2 DEF EncodeSymbol
  <2>2. pc = "encode" /\ pc' = "emit" /\ UNCHANGED <<model, value_index>>
    BY <1>2 DEF EncodeSymbol
  <2>3. LoopOK'
    BY <2>2 DEF LoopOK
  <2>4. ASSUME model.is_adaptive PROVE RoomOK'
    <3>1. total_freq("encoder")' = total_freq("encoder") + 1
          /\ total_freq("decoder")' = total_freq("decoder")
      BY <2>1, <2>2, <2>4, UpdateTakesRoom
    <3> QED
      BY <1>0, <2>2, <2>4, <3>1 DEF LoopOK, RoomOK, RoomFor
  <2> QED
    BY <2>2, <2>3, <2>4 DEF RoomOK
<1>3. CASE DecodeSymbol
  <2>1. PICK s \in Symbols(model) : update_model("decoder", s)
    BY <1>3 DEF DecodeSymbol
  <2>2. pc = "decode" /\ pc' \in {"decoded", "shift"} /\ UNCHANGED <<model, value_index>>
    BY <1>3 DEF DecodeSymbol
  <2>3. LoopOK'
    BY <2>2 DEF LoopOK
  <2>4. ASSUME model.is_adaptive PROVE RoomOK'
    <3>1. total_freq("decoder")' = total_freq("decoder") + 1
      BY <2>1, <2>2, <2>4, UpdateTakesRoom
    <3> QED
      BY <1>0, <2>2, <2>4, <3>1 DEF LoopOK, RoomOK, RoomFor
  <2> QED
    BY <2>2, <2>3, <2>4 DEF RoomOK
<1>4. ASSUME UNCHANGED <<model, c_freqs>>
      PROVE  /\ total_freq("encoder")' = total_freq("encoder")
             /\ total_freq("decoder")' = total_freq("decoder")
  BY <1>4 DEF total_freq
<1>5. CASE EmitBit \/ ShiftBit \/ GetBit \/ FinishEncode
  <2>1. /\ UNCHANGED <<model, c_freqs, value_index>>
        /\ \/ pc' \in {pc, "thrown"}
           \/ pc = "finish" /\ pc' = "sent"
    BY <1>5 DEF EmitBit, ShiftBit, GetBit, FinishEncode
  <2> QED
    BY <1>0, <1>4, <2>1 DEF LoopOK, RoomOK, RoomFor
<1>6. CASE SymbolEncoded
  <2>1. UNCHANGED <<model, c_freqs>> /\ pc = "emit"
    BY <1>6 DEF SymbolEncoded
  <2>2. CASE pc' = "finish" /\ UNCHANGED value_index
    BY <1>0, <1>4, <2>1, <2>2 DEF LoopOK, RoomOK, RoomFor
  <2>3. CASE /\ pc' = "encode" /\ value_index' = value_index + 1
             /\ value_index + 1 # model.max_repeat
    BY <1>0, <1>4, <2>1, <2>3 DEF LoopOK, RoomOK, RoomFor
  <2> QED
    BY <1>6, <2>2, <2>3 DEF SymbolEncoded
<1>7. CASE SymbolDecoded
  <2>1. /\ UNCHANGED <<model, c_freqs>> /\ pc = "shift" /\ value_index' = value_index + 1
        /\ pc' = IF value_index + 1 = model.max_repeat THEN "decoded" ELSE "decode"
    BY <1>7 DEF SymbolDecoded
  <2> QED
    BY <1>0, <1>4, <2>1 DEF LoopOK, RoomOK, RoomFor
<1>8. CASE Lose \/ EndDecode
  <2>1. UNCHANGED <<model, c_freqs>> /\ pc' = "idle" /\ value_index' = 0
    BY <1>8 DEF Lose, EndDecode, EndMessage
  <2> QED
    BY <2>1 DEF LoopOK, RoomOK
<1>9. ASSUME NEW tail \in Tails, StartDecode(tail) PROVE LoopOK' /\ RoomOK'
  <2>1. /\ UNCHANGED <<model, c_freqs>> /\ pc = "sent"
        /\ \/ pc' = "thrown" /\ UNCHANGED value_index
           \/ pc' = "decode" /\ value_index' = 0
    BY <1>9 DEF StartDecode
  <2> QED
    BY <1>0, <1>4, <2>1 DEF LoopOK, RoomOK, RoomFor
<1>10. CASE UNCHANGED vars
  BY <1>0, <1>4, <1>10 DEF vars, LoopOK, RoomOK, RoomFor
<1> QED
  BY <1>1, <1>2, <1>3, <1>5, <1>6, <1>7, <1>8, <1>9, <1>10 DEF Next, Work

\* Both together are inductive.
LEMMA NextIInv == IInv /\ [Next]_vars => IInv'
BY NextCounts, NextRoom DEF IInv

\* An interval that cannot be doubled is wider than any total.
LEMMA IInvHolds == IInv => IntervalHoldsEverySymbol
<1> SUFFICES ASSUME IInv PROVE IntervalHoldsEverySymbol
  OBVIOUS
<1>1. \A end \in {"encoder", "decoder"} :
        total_freq(end) \in Nat /\ total_freq(end) < FIRST_QTR
  <2> SUFFICES ASSUME NEW end \in {"encoder", "decoder"}
               PROVE  total_freq(end) \in Nat /\ total_freq(end) < FIRST_QTR
    OBVIOUS
  <2>1. model \in Models /\ c_freqs[end] \in Counts(model) /\ 0 \in Symbols(model)
    BY ModelSymbols DEF IInv, CountsOK
  <2> QED
    BY <2>1, CountsFit DEF total_freq
<1>2. pc \in {"encode", "decode"} => high - low + 1 > FIRST_QTR
  BY WideInterval DEF IInv, Doubled
<1>3. FIRST_QTR \in Nat
  BY Quarter
<1> HIDE DEF FIRST_QTR
<1> QED
  BY <1>1, <1>2, <1>3 DEF IInv, IntervalOK, IntervalHoldsEverySymbol

\* Whatever is encoded, decoded or lost under whatever accepted models, the
\* interval never turns over, and when a symbol is next it holds a number for
\* every symbol of the model.
THEOREM IntervalAlwaysHoldsEverySymbol == Spec => []IntervalHoldsEverySymbol
<1>1. Spec => []IInv
  BY InitIInv, NextIInv, PTL DEF Spec
<1> QED
  BY <1>1, IInvHolds, PTL

-----------------------------------------------------------------------------
(* What the encoder goes through *)

\* How many code values there are.
CodeValues == TOP_VALUE + 1

\* Where an interval from l to h can be doubled, and about what.
CanDouble(l, h) == h < HALF \/ l >= HALF \/ (l >= FIRST_QTR /\ h < THIRD_QTR)
Origin(l, h) == IF h < HALF THEN 0 ELSE IF l >= HALF THEN HALF ELSE FIRST_QTR

\* The values of a message, as Next has them sent.
Sendable(m, f) ==
  /\ f \in Seq(Symbols(m) \ {EOF_SYMBOL})
  /\ m.eof_frequency = 0 => Len(f) >= m.max_repeat
  /\ m.out_of_range_frequency = 0 =>
       \A i \in 1..Len(f) :
         i <= m.max_repeat /\ f[i] = OUT_OF_RANGE_SYMBOL
           => i = m.max_repeat /\ m.eof_frequency # 0

\* The symbol that is encoded when i values are.
SymbolAt(m, f, i) ==
  IF i < Len(f) /\ ~(f[i + 1] = OUT_OF_RANGE_SYMBOL /\ m.out_of_range_frequency = 0)
    THEN f[i + 1] ELSE EOF_SYMBOL

\* The counts when a symbol was counted.
Counted(m, c, s) ==
  IF m.is_adaptive THEN [i \in Symbols(m) |-> IF i >= s THEN c[i] + 1 ELSE c[i]] ELSE c

\* An interval of R numbers is narrowed to its numbers from the first of these
\* to before the second.
PartFrom(m, c, s, R) == (R * below(c, s)) \div c[max_symbol(m)]
PartTo(m, c, s, R) == (R * c[s]) \div c[max_symbol(m)]

(* The states of an encoder: where it is in encode_repeated(), its interval, *)
(* counts and index, how often it has doubled the interval and what that has *)
(* moved it by: a number x of the interval stands for x + base of the whole  *)
(* one, in units as many times smaller.                                      *)

Encodes(m, f, e, d) ==
  LET s == SymbolAt(m, f, e.index)
      R == e.high - e.low + 1
  IN /\ e.at = "encode" /\ d.at = "emit"
     /\ d.low = e.low + PartFrom(m, e.c, s, R)
     /\ d.high = e.low + PartTo(m, e.c, s, R) - 1
     /\ d.c = Counted(m, e.c, s)
     /\ d.index = e.index /\ d.base = e.base /\ d.doubled = e.doubled

DoublesTo(e, d) ==
  LET o == Origin(e.low, e.high)
  IN /\ e.at = "emit" /\ d.at = "emit"
     /\ CanDouble(e.low, e.high)
     /\ d.low = 2 * (e.low - o) /\ d.high = 2 * (e.high - o) + 1
     /\ d.base = 2 * (e.base + o) /\ d.doubled = e.doubled + 1
     /\ d.c = e.c /\ d.index = e.index

Ends(m, f, e, d) ==
  /\ e.at = "emit"
  /\ ~CanDouble(e.low, e.high)
  /\ IF e.index = Len(f) \/ e.index + 1 = m.max_repeat
       THEN d.at = "finish" /\ d.index = e.index
       ELSE d.at = "encode" /\ d.index = e.index + 1
  /\ d.low = e.low /\ d.high = e.high /\ d.base = e.base /\ d.doubled = e.doubled
  /\ d.c = e.c

Follows(m, f, e, d) == Encodes(m, f, e, d) \/ DoublesTo(e, d) \/ Ends(m, f, e, d)

States(m) ==
  [at: {"encode", "emit", "finish"}, low: Nat, high: Nat, c: Counts(m), index: Nat,
   base: Nat, doubled: Nat]

Proper(m, f, e) ==
  /\ e \in States(m)
  /\ e.low <= e.high /\ e.high <= TOP_VALUE
  /\ e.at \in {"encode", "finish"} => ~CanDouble(e.low, e.high)
  /\ e.index < m.max_repeat /\ e.index <= Len(f)

First(e) ==
  /\ e.at = "encode" /\ e.low = 0 /\ e.high = TOP_VALUE
  /\ e.index = 0 /\ e.base = 0 /\ e.doubled = 0

\* A history of states, each following from the one before.
History(m, f, h) ==
  /\ h \in Seq(States(m)) /\ h # << >> /\ First(h[1])
  /\ \A k \in 1..Len(h) : Proper(m, f, h[k])
  /\ \A k \in 1..Len(h) - 1 : Follows(m, f, h[k], h[k + 1])

\* The interval of a state as a part of the whole.
From(e) == e.low + e.base
To(e) == e.high + 1 + e.base
Scale(e) == pow2(e.doubled)

Within(d, e) ==
  /\ From(e) * Scale(d) <= From(d) * Scale(e)
  /\ To(d) * Scale(e) <= To(e) * Scale(d)

\* The interval was narrowed only, and behind an EOF not even that.
NarrowedOnly(m, f, h) ==
  \A k \in 1..Len(h) :
    LET e == h[k]
        d == h[Len(h)]
    IN /\ Within(d, e)
       /\ e.at = "emit" /\ SymbolAt(m, f, e.index) = EOF_SYMBOL
            => d.at # "encode" /\ d.c = e.c /\ d.index = e.index /\ Within(e, d)

\* Whatever follows u bits that are worth n, it is a number of the interval.
Inside(n, u, e) ==
  /\ From(e) * pow2(u) <= (n * CodeValues) * Scale(e)
  /\ ((n + 1) * CodeValues) * Scale(e) <= To(e) * pow2(u)

\* The bits so far and the bits to follow say how the interval was doubled.
Tells(b, follow, e) ==
  /\ e.doubled = Len(b) + follow
  /\ e.base = (number(b)[Len(b)] * CodeValues) * pow2(follow) + HALF * (pow2(follow) - 1)

\* The bits are enough to tell the interval, and none can be spared.
TellAll(b, e) ==
  /\ Inside(number(b)[Len(b)], Len(b), e)
  /\ \A u \in 0..Len(b) - 1 : ~Inside(number(b)[u], u, e)

\* With u bits taken that are worth n, and off more to come until value is as exact
\* as the interval of d, value is what the bits say.
Placed(n, u, off, v, d) ==
  /\ off \in Nat /\ v \in Nat
  /\ u + off = CODE_VALUE_BITS + d.doubled
  /\ v + d.base = n * pow2(off)

-----------------------------------------------------------------------------
(* The two ends *)

Encoding(h) ==
  LET e == h[Len(h)]
  IN /\ History(model, field, h) /\ NarrowedOnly(model, field, h)
     /\ h[1].c = c_freqs["decoder"]
     /\ e.at = pc /\ e.low = low /\ e.high = high /\ e.index = value_index
     /\ e.c = c_freqs["encoder"]
     /\ Tells(bits, bits_to_follow, e)

Encoded(h) ==
  LET e == h[Len(h)]
  IN /\ History(model, field, h) /\ NarrowedOnly(model, field, h)
     /\ e.at = "finish" /\ e.c = c_freqs["encoder"]
     /\ TellAll(bits, e)

\* The decoder is where the encoder was, with the bits it has until now.
Decoding(h, k) ==
  LET e == h[k]
  IN /\ k < Len(h)
     /\ e.at = (IF pc = "decode" THEN "encode" ELSE "emit")
     /\ e.low = low /\ e.high = high /\ e.index = value_index
     /\ e.c = c_freqs["decoder"]
     /\ pc = "shift" => SymbolAt(model, field, value_index) # EOF_SYMBOL
     /\ used \in 0..Len(bits)
     /\ Placed(number(bits)[used], used, bit_stream_offset, value, e)
     /\ Len(bits) - used <= Len(stream)
     /\ \A i \in 1..Len(bits) - used : stream[i] = bits[used + i]
     /\ values = SubSeq(field, 1, IF pc = "decode" THEN value_index ELSE value_index + 1)

Decoded ==
  /\ c_freqs["decoder"] = c_freqs["encoder"]
  /\ values = arriving_values
  /\ used = Len(bits)

-----------------------------------------------------------------------------
(* Intervals as parts of the whole *)

\* Fractions in their order.
LEMMA FractionOrder ==
  ASSUME NEW a \in Nat, NEW b \in Nat, NEW c \in Nat,
         NEW p \in Nat \ {0}, NEW q \in Nat \ {0}, NEW r \in Nat \ {0},
         a * q <= b * p, b * r <= c * q
  PROVE  a * r <= c * p
<1> DEFINE x == a * r
           y == c * p
<1>1. x \in Nat /\ y \in Nat
  OBVIOUS
<1>2. (a * q) * r <= (b * p) * r
  <2> DEFINE i == a * q
             j == b * p
  <2>1. i \in Nat /\ j \in Nat /\ i <= j
    OBVIOUS
  <2> HIDE DEF i, j
  <2> QED
    BY <2>1
<1>3. (b * r) * p <= (c * q) * p
  <2> DEFINE i == b * r
             j == c * q
  <2>1. i \in Nat /\ j \in Nat /\ i <= j
    OBVIOUS
  <2> HIDE DEF i, j
  <2> QED
    BY <2>1
<1>4. (a * q) * r = x * q /\ (b * p) * r = (b * r) * p /\ (c * q) * p = y * q
  OBVIOUS
<1>5. x * q \in Nat /\ y * q \in Nat /\ (b * r) * p \in Nat
  OBVIOUS
<1>6. x * q <= y * q
  BY <1>2, <1>3, <1>4, <1>5
<1> HIDE DEF x, y
<1>7. x <= y
  <2> SUFFICES ASSUME x >= y + 1 PROVE FALSE
    BY <1>1
  <2>1. x * q >= (y + 1) * q /\ (y + 1) * q = y * q + q
    BY <1>1
  <2> QED
    BY <1>1, <1>6, <2>1
<1> QED
  BY <1>7 DEF x, y

\* A factor that both sides have in common.
LEMMA Cancel ==
  ASSUME NEW a \in Int, NEW b \in Int, NEW p \in Nat \ {0}
  PROVE  (a * p <= b * p) <=> a <= b
<1>1. ASSUME a <= b PROVE a * p <= b * p
  BY <1>1
<1>2. ASSUME a >= b + 1 PROVE a * p > b * p
  <2>1. a * p >= (b + 1) * p /\ (b + 1) * p = b * p + p
    BY <1>2
  <2> QED
    BY <2>1
<1> QED
  BY <1>1, <1>2

\* The bounds of a state and their scale are numbers.
LEMMA ScaleIs ==
  ASSUME NEW m, NEW f, NEW e, Proper(m, f, e)
  PROVE  From(e) \in Nat /\ To(e) \in Nat /\ Scale(e) \in Nat \ {0} /\ From(e) < To(e)
<1>1. e.low \in Nat /\ e.high \in Nat /\ e.base \in Nat /\ e.doubled \in Nat /\ e.low <= e.high
  BY DEF Proper, States
<1> QED
  BY <1>1, Pow2Is DEF From, To, Scale

\* States with the same bounds lie within each other.
LEMMA WithinItself ==
  ASSUME NEW e, NEW d, From(e) = From(d), To(e) = To(d), Scale(e) = Scale(d),
         From(e) \in Nat, To(e) \in Nat, Scale(e) \in Nat
  PROVE  Within(d, e) /\ Within(e, d)
<1> DEFINE x == From(e)
           y == To(e)
           z == Scale(e)
<1>1. x \in Nat /\ y \in Nat /\ z \in Nat
  OBVIOUS
<1> HIDE DEF x, y, z
<1>2. x * z <= x * z /\ y * z <= y * z
  BY <1>1
<1> QED
  BY <1>2 DEF x, y, z, Within

\* A state within one that is within a third is within that.
LEMMA WithinOrder ==
  ASSUME NEW m, NEW f, NEW d, NEW e, NEW g, Proper(m, f, d), Proper(m, f, e), Proper(m, f, g),
         Within(d, e), Within(e, g)
  PROVE  Within(d, g)
<1>1. /\ From(e) \in Nat /\ To(e) \in Nat /\ Scale(e) \in Nat \ {0}
      /\ From(d) \in Nat /\ To(d) \in Nat /\ Scale(d) \in Nat \ {0}
      /\ From(g) \in Nat /\ To(g) \in Nat /\ Scale(g) \in Nat \ {0}
  BY ScaleIs
<1>2. /\ From(e) * Scale(d) <= From(d) * Scale(e)
      /\ To(d) * Scale(e) <= To(e) * Scale(d)
      /\ From(g) * Scale(e) <= From(e) * Scale(g)
      /\ To(e) * Scale(g) <= To(g) * Scale(e)
  BY DEF Within
<1>3. From(g) * Scale(d) <= From(d) * Scale(g)
  BY <1>1, <1>2, FractionOrder
<1>4. To(d) * Scale(g) <= To(g) * Scale(d)
  BY <1>1, <1>2, FractionOrder
<1> QED
  BY <1>3, <1>4 DEF Within

\* There are four quarters of code values, or two halves.
LEMMA CodeValuesIs ==
  /\ CodeValues \in Nat \ {0} /\ CodeValues = 4 * FIRST_QTR /\ CodeValues = 2 * HALF
  /\ HALF = 2 * FIRST_QTR /\ HALF \in Nat \ {0} /\ THIRD_QTR = 3 * FIRST_QTR
  /\ TOP_VALUE = CodeValues - 1 /\ CodeValues = pow2(CODE_VALUE_BITS)
<1>1. FIRST_QTR \in Nat \ {0} /\ pow2(CODE_VALUE_BITS) = 4 * FIRST_QTR
  BY Quarter
<1> HIDE DEF FIRST_QTR
<1> QED
  BY <1>1 DEF CodeValues, TOP_VALUE, HALF, THIRD_QTR

\* Bits that tell a part of an interval tell a number of it.
LEMMA InsideOrder ==
  ASSUME NEW m, NEW f, NEW d, NEW e, Proper(m, f, d), Proper(m, f, e),
         Within(d, e), NEW n \in Nat, NEW u \in Nat, Inside(n, u, d)
  PROVE  Inside(n, u, e)
<1> DEFINE p == pow2(u)
           a == n * CodeValues
           b == (n + 1) * CodeValues
<1>1. p \in Nat \ {0} /\ a \in Nat /\ b \in Nat
  BY Pow2Is, CodeValuesIs
<1>2. /\ From(e) \in Nat /\ To(e) \in Nat /\ Scale(e) \in Nat \ {0}
      /\ From(d) \in Nat /\ To(d) \in Nat /\ Scale(d) \in Nat \ {0}
  BY ScaleIs
<1>3. From(d) * p <= a * Scale(d) /\ b * Scale(d) <= To(d) * p
  BY DEF Inside
<1>4. From(e) * Scale(d) <= From(d) * Scale(e) /\ To(d) * Scale(e) <= To(e) * Scale(d)
  BY DEF Within
<1> HIDE DEF p, a, b
<1>5. From(e) * p <= a * Scale(e)
  BY <1>1, <1>2, <1>3, <1>4, FractionOrder
<1>6. b * Scale(e) <= To(e) * p
  BY <1>1, <1>2, <1>3, <1>4, FractionOrder
<1> QED
  BY <1>5, <1>6 DEF Inside, p, a, b

\* A narrowed interval is within the one it comes from.
LEMMA EncodesWithin ==
  ASSUME NEW m \in Models, NEW f, NEW e, NEW d, Proper(m, f, e), Proper(m, f, d),
         d.base = e.base, d.doubled = e.doubled, e.low <= d.low, d.high <= e.high
  PROVE  Within(d, e)
<1>1. /\ From(e) \in Nat /\ To(e) \in Nat /\ Scale(e) \in Nat \ {0}
      /\ From(d) \in Nat /\ To(d) \in Nat /\ Scale(d) = Scale(e)
  BY ScaleIs DEF Scale
<1>2. From(e) <= From(d) /\ To(d) <= To(e)
  <2>1. /\ e.low \in Nat /\ d.low \in Nat /\ e.high \in Nat /\ d.high \in Nat
        /\ e.base \in Nat
    BY DEF Proper, States
  <2> QED
    BY <2>1 DEF From, To
<1>3. From(e) * Scale(e) <= From(d) * Scale(e) /\ To(d) * Scale(e) <= To(e) * Scale(e)
  BY <1>1, <1>2, Cancel
<1> QED
  BY <1>1, <1>3 DEF Within

\* A doubled interval is the same part of the whole.
LEMMA DoublesSame ==
  ASSUME NEW m, NEW f, NEW e, NEW d, Proper(m, f, e), Proper(m, f, d), DoublesTo(e, d)
  PROVE  Within(d, e) /\ Within(e, d)
<1> DEFINE o == Origin(e.low, e.high)
           a == From(e)
           b == To(e)
           s == Scale(e)
<1>1. a \in Nat /\ b \in Nat /\ s \in Nat
  BY ScaleIs
<1>2. Scale(d) = 2 * s
  BY Pow2Is DEF Scale, DoublesTo, Proper, States
<1>3. /\ d.low = 2 * (e.low - o) /\ d.high = 2 * (e.high - o) + 1 /\ d.base = 2 * (e.base + o)
      /\ o \in Int
  BY CodeValuesIs, Quarter DEF DoublesTo, Origin
<1>4. e.low \in Nat /\ e.high \in Nat /\ e.base \in Nat
  BY DEF Proper, States
<1> HIDE DEF o
<1>5. From(d) = 2 * a /\ To(d) = 2 * b
  BY <1>3, <1>4 DEF From, To
<1> HIDE DEF a, b, s
<1>6. a * (2 * s) <= (2 * a) * s /\ (2 * b) * s <= b * (2 * s)
      /\ (2 * a) * s <= a * (2 * s) /\ b * (2 * s) <= (2 * b) * s
  BY <1>1
<1> QED
  BY <1>2, <1>5, <1>6 DEF Within, a, b, s

-----------------------------------------------------------------------------
(* Histories *)

\* What appending to a history changes and what it leaves.
LEMMA SequenceGrows ==
  ASSUME NEW S, NEW h \in Seq(S), h # << >>, NEW d \in S
  PROVE  /\ Append(h, d) \in Seq(S) /\ Append(h, d) # << >>
         /\ Len(h) \in Nat \ {0} /\ Len(Append(h, d)) = Len(h) + 1
         /\ Append(h, d)[Len(h) + 1] = d
         /\ \A k \in 1..Len(h) : Append(h, d)[k] = h[k] /\ h[k] \in S
<1>1. Len(h) \in Nat \ {0}
  OBVIOUS
<1>2. Append(h, d) \in Seq(S) /\ Len(Append(h, d)) = Len(h) + 1
  OBVIOUS
<1>3. Append(h, d)[Len(h) + 1] = d
  OBVIOUS
<1>4. \A k \in 1..Len(h) : Append(h, d)[k] = h[k] /\ h[k] \in S
  OBVIOUS
<1>5. Append(h, d) # << >>
  BY <1>1, <1>2
<1> QED
  BY <1>1, <1>2, <1>3, <1>4, <1>5

\* Where the symbol is EOF the field ends, or the value is the last there is
\* room for.
LEMMA EofIsLast ==
  ASSUME NEW m, NEW f, Sendable(m, f), NEW i \in Nat, i < m.max_repeat, i <= Len(f),
         m.max_repeat \in Nat, SymbolAt(m, f, i) = EOF_SYMBOL
  PROVE  i = Len(f) \/ i + 1 = m.max_repeat
<1> SUFFICES ASSUME i # Len(f) PROVE i + 1 = m.max_repeat
  OBVIOUS
<1>1. f \in Seq(Symbols(m) \ {EOF_SYMBOL}) /\ Len(f) \in Nat
  BY DEF Sendable
<1>2. i < Len(f) /\ i + 1 \in 1..Len(f) /\ i + 1 <= m.max_repeat
  BY <1>1
<1>3. f[i + 1] # EOF_SYMBOL
  BY <1>1, <1>2
<1>4. f[i + 1] = OUT_OF_RANGE_SYMBOL /\ m.out_of_range_frequency = 0
  BY <1>2, <1>3 DEF SymbolAt
<1> QED
  BY <1>2, <1>4 DEF Sendable

\* A history goes on.
LEMMA HistoryGrows ==
  ASSUME NEW m \in Models, NEW f, Sendable(m, f),
         NEW h, History(m, f, h), NarrowedOnly(m, f, h),
         NEW e, e = h[Len(h)], NEW d, Proper(m, f, d), Follows(m, f, e, d),
         e.at = "encode" => e.low <= d.low /\ d.high <= e.high
  PROVE  LET g == Append(h, d)
         IN /\ History(m, f, g) /\ NarrowedOnly(m, f, g)
            /\ g[Len(g)] = d /\ g[1] = h[1] /\ Len(g) = Len(h) + 1
<1> DEFINE N == Len(h)
<1>1. h \in Seq(States(m)) /\ h # << >> /\ d \in States(m)
  BY DEF History, Proper
<1>2. PICK g : g = Append(h, d)
  OBVIOUS
<1>3. /\ g \in Seq(States(m)) /\ g # << >> /\ N \in Nat \ {0} /\ Len(g) = N + 1
      /\ g[N + 1] = d /\ \A k \in 1..N : g[k] = h[k]
  BY <1>1, <1>2, SequenceGrows
<1> DEFINE M == Len(g)
<1>4. M = N + 1 /\ M \in Nat
  BY <1>3
<1>5. h[N] = e /\ N \in 1..N
  BY <1>3
<1>6. \A k \in 1..N : Proper(m, f, h[k])
  BY DEF History
<1>7. \A k \in 1..N - 1 : Follows(m, f, h[k], h[k + 1])
  BY DEF History
<1>8. First(h[1])
  BY DEF History
<1>9. \A k \in 1..N :
        /\ Within(e, h[k])
        /\ h[k].at = "emit" /\ SymbolAt(m, f, h[k].index) = EOF_SYMBOL
             => e.at # "encode" /\ e.c = h[k].c /\ e.index = h[k].index /\ Within(h[k], e)
  BY <1>5 DEF NarrowedOnly
<1>r. m.max_repeat \in Nat
  BY ArithmeticAssumption DEF ModelType
<1> HIDE DEF N, M
<1>10. History(m, f, g)
  <2>1. g[1] = h[1]
    BY <1>3
  <2>2. \A k \in 1..M : Proper(m, f, g[k])
    <3> SUFFICES ASSUME NEW k \in 1..M PROVE Proper(m, f, g[k])
      OBVIOUS
    <3>1. CASE k \in 1..N
      BY <1>3, <1>6, <3>1
    <3>2. CASE k = N + 1
      BY <1>3, <3>2
    <3> QED
      BY <1>3, <1>4, <3>1, <3>2
  <2>3. \A k \in 1..M - 1 : Follows(m, f, g[k], g[k + 1])
    <3> SUFFICES ASSUME NEW k \in 1..M - 1 PROVE Follows(m, f, g[k], g[k + 1])
      OBVIOUS
    <3>0. k \in 1..N
      BY <1>3, <1>4
    <3>1. CASE k \in 1..N - 1
      <4>1. k + 1 \in 1..N
        BY <1>3, <3>1
      <4>2. g[k] = h[k] /\ g[k + 1] = h[k + 1]
        BY <1>3, <3>0, <4>1
      <4> QED
        BY <1>7, <3>1, <4>2
    <3>2. CASE k = N
      <4>1. g[k] = e /\ g[k + 1] = d
        BY <1>3, <1>5, <3>2
      <4> QED
        BY <4>1
    <3> QED
      BY <1>3, <3>0, <3>1, <3>2
  <2> QED
    BY <1>3, <1>8, <2>1, <2>2, <2>3 DEF History, M
<1>11. Proper(m, f, e)
  BY <1>5, <1>6
<1>12. Within(d, e)
  <2>1. CASE Encodes(m, f, e, d)
    <3>1. d.base = e.base /\ d.doubled = e.doubled /\ e.at = "encode"
      BY <2>1 DEF Encodes
    <3> QED
      BY <1>11, <3>1, EncodesWithin
  <2>2. CASE DoublesTo(e, d)
    BY <1>11, <2>2, DoublesSame
  <2>3. CASE Ends(m, f, e, d)
    <3>1. From(e) = From(d) /\ To(e) = To(d) /\ Scale(e) = Scale(d)
      BY <2>3 DEF Ends, From, To, Scale
    <3> QED
      BY <1>11, <3>1, ScaleIs, WithinItself
  <2> QED
    BY <2>1, <2>2, <2>3 DEF Follows
<1>13. ASSUME NEW k \in 1..N, h[k].at = "emit", SymbolAt(m, f, h[k].index) = EOF_SYMBOL
       PROVE  /\ d.at # "encode" /\ d.c = h[k].c /\ d.index = h[k].index
              /\ Within(h[k], d)
  <2>1. e.at # "encode" /\ e.c = h[k].c /\ e.index = h[k].index /\ Within(h[k], e)
    BY <1>9, <1>13
  <2>2. Proper(m, f, h[k])
    BY <1>6
  <2>3. CASE DoublesTo(e, d)
    <3>1. Within(e, d) /\ d.at = "emit" /\ d.c = e.c /\ d.index = e.index
      BY <1>11, <2>3, DoublesSame DEF DoublesTo
    <3> QED
      BY <1>11, <2>1, <2>2, <3>1, WithinOrder
  <2>4. CASE Ends(m, f, e, d)
    <3>1. From(e) = From(d) /\ To(e) = To(d) /\ Scale(e) = Scale(d)
      BY <2>4 DEF Ends, From, To, Scale
    <3>2. Within(e, d)
      BY <1>11, <3>1, ScaleIs, WithinItself
    <3>3. e.index \in Nat /\ e.index < m.max_repeat /\ e.index <= Len(f)
      BY <1>11 DEF Proper, States
    <3>4. e.index = Len(f) \/ e.index + 1 = m.max_repeat
      BY <1>13, <1>r, <2>1, <3>3, EofIsLast
    <3>5. d.at = "finish" /\ d.index = e.index /\ d.c = e.c
      BY <2>4, <3>4 DEF Ends
    <3>6. Within(h[k], d)
      BY <1>11, <2>1, <2>2, <3>2, WithinOrder
    <3> QED
      BY <2>1, <3>5, <3>6
  <2> QED
    BY <2>1, <2>3, <2>4 DEF Follows, Encodes
<1>14. NarrowedOnly(m, f, g)
  <2>0. g[M] = d
    BY <1>3, <1>4
  <2> SUFFICES ASSUME NEW k \in 1..M
               PROVE  /\ Within(d, g[k])
                      /\ g[k].at = "emit" /\ SymbolAt(m, f, g[k].index) = EOF_SYMBOL
                           => d.at # "encode" /\ d.c = g[k].c /\ d.index = g[k].index
                              /\ Within(g[k], d)
    BY <2>0 DEF NarrowedOnly, M
  <2>1. CASE k \in 1..N
    <3>1. g[k] = h[k] /\ Within(e, h[k]) /\ Proper(m, f, h[k])
      BY <1>3, <1>6, <1>9, <2>1
    <3>2. Within(d, h[k])
      BY <1>11, <1>12, <3>1, WithinOrder
    <3> QED
      BY <1>13, <2>1, <3>1, <3>2
  <2>2. CASE k = N + 1
    <3>1. g[k] = d
      BY <1>3, <2>2
    <3>2. Within(d, d)
      BY ScaleIs, WithinItself
    <3> QED
      BY <3>1, <3>2
  <2> QED
    BY <1>3, <1>4, <2>1, <2>2
<1>15. g[Len(g)] = d /\ g[1] = h[1] /\ Len(g) = Len(h) + 1
  BY <1>3, <1>4 DEF M, N
<1> QED
  BY <1>2, <1>10, <1>14, <1>15

\* And it begins.
LEMMA HistoryBegins ==
  ASSUME NEW m \in Models, NEW f, NEW d, Proper(m, f, d), First(d)
  PROVE  LET g == << d >>
         IN History(m, f, g) /\ NarrowedOnly(m, f, g) /\ g[Len(g)] = d /\ g[1] = d /\ Len(g) = 1
<1>1. PICK g : g = << d >>
  OBVIOUS
<1>2. d \in States(m)
  BY DEF Proper
<1>3. g \in Seq(States(m)) /\ g # << >> /\ Len(g) = 1 /\ g[1] = d
  BY <1>1, <1>2
<1>4. Within(d, d)
  BY ScaleIs, WithinItself
<1>5. History(m, f, g)
  <2>1. \A k \in 1..1 : k = 1
    OBVIOUS
  <2>2. 1..1 - 1 = {}
    OBVIOUS
  <2> QED
    BY <1>3, <2>1, <2>2 DEF History
<1>6. NarrowedOnly(m, f, g)
  <2>1. \A k \in 1..1 : k = 1
    OBVIOUS
  <2>2. d.at # "emit"
    BY DEF First
  <2>3. g[Len(g)] = d
    BY <1>3
  <2> SUFFICES ASSUME NEW k \in 1..Len(g)
               PROVE  /\ Within(g[Len(g)], g[k])
                      /\ g[k].at = "emit" => FALSE
    BY DEF NarrowedOnly
  <2>4. g[k] = d
    BY <1>3, <2>1
  <2> QED
    BY <1>4, <2>2, <2>3, <2>4
<1> QED
  BY <1>1, <1>3, <1>5, <1>6

-----------------------------------------------------------------------------
(* The last bits *)

\* Bits, a bit and n opposite ones.
Extended(b, x, n) == b \o bit_plus_follow(x, n)

\* A bit that is given out, and those that follow it.
LEMMA ExtendedBits ==
  ASSUME NEW b \in Seq({0, 1}), NEW x \in {0, 1}, NEW n \in Nat
  PROVE  /\ Extended(b, x, n) \in Seq({0, 1}) /\ Len(Extended(b, x, n)) = Len(b) + 1 + n
         /\ \A j \in 1..Len(b) : Extended(b, x, n)[j] = b[j]
         /\ Extended(b, x, n)[Len(b) + 1] = x
         /\ \A j \in 1..n : Extended(b, x, n)[Len(b) + 1 + j] = 1 - x
<1> DEFINE y == [i \in 1..n |-> 1 - x]
           z == << x >> \o y
           d == b \o z
           L == Len(b)
<1>0. Extended(b, x, n) = d
  BY DEF Extended, bit_plus_follow
<1>1. y \in Seq({0, 1}) /\ Len(y) = n /\ \A i \in 1..n : y[i] = 1 - x
  OBVIOUS
<1>2. << x >> \in Seq({0, 1}) /\ Len(<< x >>) = 1 /\ << x >>[1] = x /\ L \in Nat
  OBVIOUS
<1> HIDE DEF y
<1>3. z \in Seq({0, 1}) /\ Len(z) = 1 + n
  BY <1>1, <1>2
<1>4. z[1] = x
  BY <1>1, <1>2
<1>5. \A i \in 1..n : z[1 + i] = 1 - x
  BY <1>1, <1>2
<1> HIDE DEF z
<1>6. d \in Seq({0, 1}) /\ Len(d) = L + 1 + n
  BY <1>2, <1>3
<1>7. \A j \in 1..L : d[j] = b[j]
  BY <1>2, <1>3
<1>8. \A j \in 1..n + 1 : d[L + j] = z[j]
  BY <1>2, <1>3
<1> HIDE DEF d
<1>9. d[L + 1] = x
  <2>1. 1 \in 1..n + 1
    OBVIOUS
  <2> QED
    BY <1>4, <1>8, <2>1
<1>10. \A j \in 1..n : d[L + 1 + j] = 1 - x
  <2> SUFFICES ASSUME NEW j \in 1..n PROVE d[L + 1 + j] = 1 - x
    OBVIOUS
  <2>1. 1 + j \in 1..n + 1 /\ L + 1 + j = L + (1 + j)
    BY <1>2
  <2> QED
    BY <1>5, <1>8, <2>1
<1> QED
  BY <1>0, <1>6, <1>7, <1>9, <1>10 DEF L

\* What a bit and n opposite ones make of a number.
LEMMA NumberOfAppended ==
  ASSUME NEW b \in Seq({0, 1}), NEW x \in {0, 1}, NEW n \in Nat
  PROVE  /\ \A j \in 0..Len(b) : number(Extended(b, x, n))[j] = number(b)[j]
         /\ number(Extended(b, x, n))[Len(b) + 1 + n] =
              (2 * number(b)[Len(b)] + x) * pow2(n) + (1 - x) * (pow2(n) - 1)
<1> DEFINE l == Len(b)
           d == Extended(b, x, n)
<1>2. /\ d \in Seq({0, 1}) /\ Len(d) = l + 1 + n /\ l \in Nat
      /\ \A j \in 1..l : d[j] = b[j]
      /\ d[l + 1] = x /\ \A j \in 1..n : d[l + 1 + j] = 1 - x
  <2>1. l \in Nat
    OBVIOUS
  <2>2. /\ d \in Seq({0, 1}) /\ Len(d) = l + 1 + n
        /\ \A j \in 1..l : d[j] = b[j]
        /\ d[l + 1] = x /\ \A j \in 1..n : d[l + 1 + j] = 1 - x
    BY ExtendedBits, Zenon
  <2> QED
    BY <2>1, <2>2
<1> HIDE DEF d
<1>3. \A j \in 0..l : number(d)[j] = number(b)[j]
  <2>1. l <= Len(b) /\ l <= Len(d) /\ \A j \in 1..l : d[j] = b[j]
    BY <1>2
  <2> QED
    BY <1>2, <2>1, NumberOfPrefix
<1> DEFINE s == number(d)
           N == number(b)[l]
<1>4. \A j \in 0..l + 1 + n : s[j] \in Nat
  BY <1>2, NumberIs
<1>5. \A j \in 1..l + 1 + n : s[j] = 2 * s[j - 1] + d[j]
  BY <1>2, NumberIs
<1>6. N \in Nat /\ s[l] = N
  BY <1>2, <1>3, NumberIs
<1> HIDE DEF s, N, l
<1> DEFINE A(k) == s[l + 1 + k] = (2 * N + x) * pow2(k) + (1 - x) * (pow2(k) - 1)
           T == {k \in Nat : k <= n => A(k)}
<1>7. A(0)
  <2>1. l + 1 \in 1..l + 1 + n /\ (l + 1) - 1 = l /\ l + 1 + 0 = l + 1
    BY <1>2
  <2>2. s[l + 1] = 2 * s[l] + d[l + 1]
    BY <1>5, <2>1
  <2>3. pow2(0) = 1
    BY Pow2Is
  <2> QED
    BY <1>2, <1>6, <2>1, <2>2, <2>3
<1>8. ASSUME NEW k \in Nat, A(k), k + 1 <= n
      PROVE  A(k + 1)
  <2>1. PICK j \in 1..l + 1 + n : j = l + 1 + (k + 1) /\ j - 1 = l + 1 + k
    BY <1>2, <1>8
  <2> DEFINE p == pow2(k)
  <2>2. p \in Nat /\ pow2(k + 1) = 2 * p
    BY Pow2Is
  <2>3. s[j] = 2 * s[j - 1] + d[j]
    BY <1>5, <2>1
  <2>4. d[j] = 1 - x
    <3>1. k + 1 \in 1..n
      BY <1>8
    <3> QED
      BY <1>2, <2>1, <3>1
  <2>5. s[j - 1] = (2 * N + x) * p + (1 - x) * (p - 1)
    BY <1>8, <2>1
  <2> HIDE DEF p
  <2>6. CASE x = 0
    <3>1. s[j - 1] = (2 * N) * p + (p - 1)
      BY <1>6, <2>2, <2>5, <2>6
    <3>2. (2 * N) * (2 * p) = 2 * ((2 * N) * p) /\ (2 * N) * p \in Nat
      BY <1>6, <2>2
    <3>3. s[j] = (2 * N) * (2 * p) + (2 * p - 1)
      BY <2>2, <2>3, <2>4, <2>6, <3>1, <3>2
    <3>4. (2 * N + x) * (2 * p) + (1 - x) * (2 * p - 1) = (2 * N) * (2 * p) + (2 * p - 1)
      BY <1>6, <2>2, <2>6
    <3> QED
      BY <2>1, <2>2, <3>3, <3>4
  <2>7. CASE x = 1
    <3>1. s[j - 1] = (2 * N + 1) * p
      BY <1>6, <2>2, <2>5, <2>7
    <3>2. (2 * N + 1) * (2 * p) = 2 * ((2 * N + 1) * p) /\ (2 * N + 1) * p \in Nat
      BY <1>6, <2>2
    <3>3. s[j] = (2 * N + 1) * (2 * p)
      BY <2>2, <2>3, <2>4, <2>7, <3>1, <3>2
    <3>4. (2 * N + x) * (2 * p) + (1 - x) * (2 * p - 1) = (2 * N + 1) * (2 * p)
      BY <1>6, <2>2, <2>7
    <3> QED
      BY <2>1, <2>2, <3>3, <3>4
  <2> QED
    BY <2>6, <2>7
<1> HIDE DEF A
<1>9. 0 \in T
  BY <1>7
<1>10. \A k \in Nat : k \in T => k + 1 \in T
  <2> SUFFICES ASSUME NEW k \in Nat, k \in T PROVE k + 1 \in T
    OBVIOUS
  <2>1. ASSUME k + 1 <= n PROVE A(k + 1)
    <3>1. k <= n
      BY <2>1
    <3> QED
      BY <1>8, <2>1, <3>1
  <2> QED
    BY <2>1
<1> HIDE DEF T
<1>11. n \in T
  BY <1>9, <1>10, NatSetInduction
<1>12. A(n)
  BY <1>11 DEF T
<1> QED
  BY <1>3, <1>12 DEF A, s, N, l, d

\* The number of bits a decoder needs at least, and what they then stand for.
LEMMA NeededBits ==
  ASSUME NEW m, NEW f, NEW e, Proper(m, f, e), NEW n \in Nat, NEW u \in Nat, Inside(n, u, e)
  PROVE  e.doubled <= u
<1> DEFINE W == CodeValues
           S == Scale(e)
           p == pow2(u)
           a == From(e)
           b == To(e)
<1>1. W \in Nat \ {0} /\ S \in Nat \ {0} /\ p \in Nat \ {0} /\ a \in Nat /\ b \in Nat
  BY CodeValuesIs, ScaleIs, Pow2Is
<1>2. b <= a + W
  <2>1. e.low \in Nat /\ e.high \in Nat /\ e.base \in Nat /\ e.high <= W - 1
    BY CodeValuesIs DEF Proper, States
  <2> HIDE DEF W
  <2> QED
    BY <1>1, <2>1 DEF From, To
<1>3. a * p <= (n * W) * S /\ ((n + 1) * W) * S <= b * p
  BY DEF Inside
<1>4. e.doubled \in Nat
  BY DEF Proper, States
<1> SUFFICES ASSUME u + 1 <= e.doubled PROVE FALSE
  BY <1>4
<1>5. 2 * p <= S
  <2>0. u + 1 \in Nat
    OBVIOUS
  <2>1. pow2(u + 1) = 2 * p
    BY Pow2Is
  <2>2. pow2(u + 1) <= S
    BY <1>4, <2>0, Pow2Order DEF Scale
  <2> QED
    BY <2>1, <2>2
<1> HIDE DEF W, S, p, a, b
<1>6. W * S <= W * p
  <2>1. ((n + 1) * W) * S = (n * W) * S + W * S
    BY <1>1
  <2>2. b * p <= (a + W) * p /\ (a + W) * p = a * p + W * p
    BY <1>1, <1>2
  <2>3. (n * W) * S \in Nat /\ W * S \in Nat /\ a * p \in Nat /\ W * p \in Nat /\ b * p \in Nat
    BY <1>1
  <2> QED
    BY <1>3, <2>1, <2>2, <2>3
<1>7. S <= p
  <2>1. S * W <= p * W
    BY <1>1, <1>6
  <2> QED
    BY <1>1, <2>1, Cancel
<1> QED
  BY <1>1, <1>5, <1>7

\* The same with the common factor taken away.
LEMMA InsideScaled ==
  ASSUME NEW a \in Nat, NEW b \in Nat, NEW n \in Nat, NEW W \in Nat, NEW S \in Nat \ {0},
         NEW k \in Nat
  PROVE  /\ (a * (k * S) <= (n * W) * S) <=> (a * k <= n * W)
         /\ (((n + 1) * W) * S <= b * (k * S)) <=> ((n + 1) * W <= b * k)
<1> DEFINE x == a * k
           y == n * W
           z == (n + 1) * W
           v == b * k
<1>1. x \in Nat /\ y \in Nat /\ z \in Nat /\ v \in Nat
  OBVIOUS
<1>2. a * (k * S) = x * S /\ b * (k * S) = v * S
  OBVIOUS
<1> HIDE DEF x, y, z, v
<1>3. (x * S <= y * S) <=> (x <= y)
  BY <1>1, Cancel
<1>4. (z * S <= v * S) <=> (z <= v)
  BY <1>1, Cancel
<1> QED
  BY <1>2, <1>3, <1>4 DEF x, y, z, v

\* The products that the last bits are about, in terms of a quarter.
LEMMA Products ==
  ASSUME NEW n \in Nat, NEW p \in Nat \ {0}, NEW q \in Nat \ {0}
  PROVE  /\ q * (n * p) \in Nat /\ q * p \in Nat /\ q * p >= q /\ n * p \in Nat
         /\ (n * (4 * q)) * p + (2 * q) * (p - 1) = 4 * (q * (n * p)) + 2 * (q * p) - 2 * q
         /\ (2 * n + 0) * p + (1 - 0) * (p - 1) = 2 * (n * p) + p - 1
         /\ (2 * n + 1) * p + (1 - 1) * (p - 1) = 2 * (n * p) + p
         /\ (2 * (n * p) + p - 1) * (4 * q) = 8 * (q * (n * p)) + 4 * (q * p) - 4 * q
         /\ (2 * (n * p) + p) * (4 * q) = 8 * (q * (n * p)) + 4 * (q * p)
<1>1. n * p \in Nat /\ q * p \in Nat
  OBVIOUS
<1> DEFINE x == n * p
<1>2. (n * (4 * q)) * p = 4 * (q * x) /\ (2 * q) * (p - 1) = 2 * (q * p) - 2 * q
  OBVIOUS
<1>3. (2 * n) * p = 2 * x /\ (2 * n + 1) * p = 2 * x + p
  OBVIOUS
<1>4. q * p >= q
  OBVIOUS
<1> HIDE DEF x
<1>5. x \in Nat
  BY <1>1 DEF x
<1>6. q * x \in Nat
  BY <1>5
<1>7. (2 * x + p - 1) * (4 * q) = 8 * (q * x) + 4 * (q * p) - 4 * q
  BY <1>5
<1>8. (2 * x + p) * (4 * q) = 8 * (q * x) + 4 * (q * p)
  BY <1>5
<1>9. (n * (4 * q)) * p + (2 * q) * (p - 1) = 4 * (q * x) + 2 * (q * p) - 2 * q
  BY <1>1, <1>2, <1>6
<1>10. (2 * n + 0) * p + (1 - 0) * (p - 1) = 2 * x + p - 1
  BY <1>3, <1>5
<1>11. (2 * n + 1) * p + (1 - 1) * (p - 1) = 2 * x + p
  <2>1. (1 - 1) * (p - 1) = 0
    OBVIOUS
  <2> QED
    BY <1>3, <1>5, <2>1
<1> QED
  BY <1>1, <1>4, <1>6, <1>7, <1>8, <1>9, <1>10, <1>11 DEF x

\* What a finished interval is like.
LEMMA FinishedInterval ==
  ASSUME NEW m, NEW f, NEW e, Proper(m, f, e), e.at = "finish"
  PROVE  /\ e.low \in Nat /\ e.high \in Nat /\ e.base \in Nat /\ e.doubled \in Nat
         /\ e.low < 2 * FIRST_QTR /\ e.high >= 2 * FIRST_QTR /\ e.high <= 4 * FIRST_QTR - 1
         /\ e.low >= FIRST_QTR => e.high >= 3 * FIRST_QTR
         /\ From(e) = e.low + e.base /\ To(e) = e.high + 1 + e.base
<1>1. e.low \in Nat /\ e.high \in Nat /\ e.base \in Nat /\ e.doubled \in Nat
  BY DEF Proper, States
<1>2. ~CanDouble(e.low, e.high) /\ e.high <= TOP_VALUE
  BY DEF Proper
<1>3. FIRST_QTR \in Nat
  BY Quarter
<1> HIDE DEF FIRST_QTR
<1> QED
  BY <1>1, <1>2, <1>3 DEF CanDouble, HALF, THIRD_QTR, TOP_VALUE, From, To

\* As many more bits than doublings as j, with k places each, are enough.
LEMMA EnoughBits ==
  ASSUME NEW m, NEW f, NEW e, Proper(m, f, e), NEW n \in Nat, NEW u \in Nat, NEW j \in Nat,
         u = e.doubled + j,
         From(e) * pow2(j) <= n * CodeValues, (n + 1) * CodeValues <= To(e) * pow2(j)
  PROVE  Inside(n, u, e)
<1>1. From(e) \in Nat /\ To(e) \in Nat /\ Scale(e) \in Nat \ {0} /\ e.doubled \in Nat
  BY ScaleIs DEF Proper, States
<1>2. pow2(j) \in Nat /\ CodeValues \in Nat
  BY Pow2Is, CodeValuesIs
<1>3. pow2(u) = pow2(j) * Scale(e)
  <2>1. u = j + e.doubled
    BY <1>1
  <2> QED
    BY <1>1, <2>1, Pow2Plus DEF Scale
<1> QED
  BY <1>1, <1>2, <1>3, InsideScaled DEF Inside

\* And the other way round.
LEMMA InsideOnly ==
  ASSUME NEW m, NEW f, NEW e, Proper(m, f, e), NEW n \in Nat, NEW u \in Nat, NEW j \in Nat,
         u = e.doubled + j, Inside(n, u, e)
  PROVE  From(e) * pow2(j) <= n * CodeValues /\ (n + 1) * CodeValues <= To(e) * pow2(j)
<1>1. From(e) \in Nat /\ To(e) \in Nat /\ Scale(e) \in Nat \ {0} /\ e.doubled \in Nat
  BY ScaleIs DEF Proper, States
<1>2. pow2(j) \in Nat /\ CodeValues \in Nat
  BY Pow2Is, CodeValuesIs
<1>3. pow2(u) = pow2(j) * Scale(e)
  <2>1. u = j + e.doubled
    BY <1>1
  <2> QED
    BY <1>1, <2>1, Pow2Plus DEF Scale
<1> QED
  BY <1>1, <1>2, <1>3, InsideScaled DEF Inside

\* The powers that the last bits need.
LEMMA SmallPowers == pow2(0) = 1 /\ pow2(1) = 2 /\ pow2(2) = 4
<1>1. pow2(0) = 1 /\ pow2(0 + 1) = 2 * pow2(0) /\ pow2(1 + 1) = 2 * pow2(1)
  BY Pow2Is
<1>2. 0 + 1 = 1 /\ 1 + 1 = 2
  OBVIOUS
<1> QED
  BY <1>1, <1>2

\* A bit behind those to follow is enough where the interval reaches an end.
LEMMA OneMoreBit ==
  ASSUME NEW m, NEW f, NEW e, Proper(m, f, e), e.at = "finish",
         NEW b \in Seq({0, 1}), NEW F \in Nat, Tells(b, F, e), NEW x \in {0, 1},
         x = 0 => e.low = 0, x = 1 => e.high = TOP_VALUE
  PROVE  Inside(number(Extended(b, x, F))[Len(b) + 1 + F], Len(b) + 1 + F, e)
<1> DEFINE n == number(b)[Len(b)]
           p == pow2(F)
           q == FIRST_QTR
           r == number(Extended(b, x, F))[Len(b) + 1 + F]
           u == Len(b) + 1 + F
<1>0. Len(b) \in Nat /\ Len(b) \in 0..Len(b)
  OBVIOUS
<1>1. n \in Nat /\ p \in Nat \ {0} /\ q \in Nat \ {0} /\ Len(b) \in Nat
  BY <1>0, NumberIs, Pow2Is, Quarter
<1>2. e.doubled = Len(b) + F /\ e.base = (n * CodeValues) * p + HALF * (p - 1)
  BY DEF Tells
<1>3. r = (2 * n + x) * p + (1 - x) * (p - 1)
  BY NumberOfAppended
<1>4. CodeValues = 4 * q /\ HALF = 2 * q /\ TOP_VALUE = CodeValues - 1
  BY CodeValuesIs
<1>5. /\ e.low \in Nat /\ e.high \in Nat /\ e.base \in Nat /\ e.doubled \in Nat
      /\ e.low < 2 * q /\ e.high >= 2 * q /\ e.high <= 4 * q - 1
      /\ From(e) = e.low + e.base /\ To(e) = e.high + 1 + e.base
  BY FinishedInterval
<1> HIDE DEF n, p, q
<1> DEFINE a == q * (n * p)
           c == q * p
<1>6. /\ a \in Nat /\ c \in Nat /\ c >= q /\ n * p \in Nat
      /\ (n * (4 * q)) * p + (2 * q) * (p - 1) = 4 * a + 2 * c - 2 * q
      /\ (2 * n + 0) * p + (1 - 0) * (p - 1) = 2 * (n * p) + p - 1
      /\ (2 * n + 1) * p + (1 - 1) * (p - 1) = 2 * (n * p) + p
      /\ (2 * (n * p) + p - 1) * (4 * q) = 8 * a + 4 * c - 4 * q
      /\ (2 * (n * p) + p) * (4 * q) = 8 * a + 4 * c
  BY <1>1, Products
<1>7. e.base = 4 * a + 2 * c - 2 * q
  BY <1>2, <1>4, <1>6
<1>8. r \in Nat /\ r * CodeValues = 8 * a + 4 * c - (IF x = 0 THEN 4 * q ELSE 0)
  <2>1. CASE x = 0
    BY <1>1, <1>3, <1>4, <1>6, <2>1
  <2>2. CASE x = 1
    BY <1>1, <1>3, <1>4, <1>6, <2>2
  <2> QED
    BY <2>1, <2>2
<1> HIDE DEF r, a, c
<1>9. (r + 1) * CodeValues = r * CodeValues + 4 * q /\ r * CodeValues \in Nat
  BY <1>1, <1>4, <1>8
<1>10. From(e) * 2 <= r * CodeValues /\ (r + 1) * CodeValues <= To(e) * 2
  <2> DEFINE v == r * CodeValues
             w == (r + 1) * CodeValues
             l == e.low
             h == e.high
             z == e.base
  <2>0. /\ v \in Nat /\ w = v + 4 * q /\ v = 8 * a + 4 * c - (IF x = 0 THEN 4 * q ELSE 0)
        /\ l \in Nat /\ h \in Nat /\ z = 4 * a + 2 * c - 2 * q
        /\ l < 2 * q /\ h >= 2 * q /\ (x = 0 => l = 0) /\ (x = 1 => h = 4 * q - 1)
        /\ From(e) = l + z /\ To(e) = h + 1 + z
    BY <1>4, <1>5, <1>7, <1>8, <1>9
  <2> HIDE DEF v, w, l, h, z
  <2>1. (l + z) * 2 <= v /\ w <= (h + 1 + z) * 2
    BY <1>1, <1>6, <2>0
  <2> QED
    BY <2>0, <2>1 DEF v, w
<1>11. u \in Nat /\ u = e.doubled + 1
  BY <1>1, <1>2
<1> HIDE DEF u
<1>12. Inside(r, u, e)
  BY <1>8, <1>10, <1>11, SmallPowers, EnoughBits
<1> QED
  BY <1>12 DEF r, u

\* Two are elsewhere.
LEMMA TwoMoreBits ==
  ASSUME NEW m, NEW f, NEW e, Proper(m, f, e), e.at = "finish",
         NEW b \in Seq({0, 1}), NEW F \in Nat, Tells(b, F, e), NEW x \in {0, 1},
         x = 0 <=> e.low < FIRST_QTR
  PROVE  Inside(number(Extended(b, x, F + 1))[Len(b) + 1 + (F + 1)], Len(b) + 1 + (F + 1), e)
<1> DEFINE n == number(b)[Len(b)]
           o == pow2(F)
           p == pow2(F + 1)
           q == FIRST_QTR
           r == number(Extended(b, x, F + 1))[Len(b) + 1 + (F + 1)]
           u == Len(b) + 1 + (F + 1)
<1>0. Len(b) \in Nat /\ Len(b) \in 0..Len(b)
  OBVIOUS
<1>1. n \in Nat /\ o \in Nat \ {0} /\ p = 2 * o /\ q \in Nat \ {0} /\ Len(b) \in Nat
  BY <1>0, NumberIs, Pow2Is, Quarter
<1>2. e.doubled = Len(b) + F /\ e.base = (n * CodeValues) * o + HALF * (o - 1)
  BY DEF Tells
<1>3. r = (2 * n + x) * p + (1 - x) * (p - 1)
  <2>1. F + 1 \in Nat
    OBVIOUS
  <2> QED
    BY <2>1, NumberOfAppended
<1>4. CodeValues = 4 * q /\ HALF = 2 * q /\ TOP_VALUE = CodeValues - 1
  BY CodeValuesIs
<1>5. /\ e.low \in Nat /\ e.high \in Nat /\ e.base \in Nat /\ e.doubled \in Nat
      /\ e.low < 2 * q /\ e.high >= 2 * q /\ e.high <= 4 * q - 1
      /\ e.low >= q => e.high >= 3 * q
      /\ From(e) = e.low + e.base /\ To(e) = e.high + 1 + e.base
  BY FinishedInterval
<1>d. x = 0 <=> e.low < q
  OBVIOUS
<1> HIDE DEF n, o, p, q
<1> DEFINE a == q * (n * o)
           c == q * o
           g == q * (n * p)
           h == q * p
<1>6. /\ a \in Nat /\ c \in Nat /\ c >= q /\ n * o \in Nat
      /\ (n * (4 * q)) * o + (2 * q) * (o - 1) = 4 * a + 2 * c - 2 * q
  BY <1>1, Products
<1>p. p \in Nat \ {0}
  BY <1>1
<1>e. /\ g \in Nat /\ h \in Nat /\ h >= q /\ n * p \in Nat
      /\ (2 * n + 0) * p + (1 - 0) * (p - 1) = 2 * (n * p) + p - 1
      /\ (2 * n + 1) * p + (1 - 1) * (p - 1) = 2 * (n * p) + p
      /\ (2 * (n * p) + p - 1) * (4 * q) = 8 * g + 4 * h - 4 * q
      /\ (2 * (n * p) + p) * (4 * q) = 8 * g + 4 * h
  BY <1>1, <1>p, Products
<1>g. g = 2 * a /\ h = 2 * c
  <2>1. q * (n * (2 * o)) = 2 * (q * (n * o)) /\ q * (2 * o) = 2 * (q * o)
    BY <1>1
  <2> QED
    BY <1>1, <2>1
<1>7. e.base = 4 * a + 2 * c - 2 * q
  BY <1>2, <1>4, <1>6
<1>8. r \in Nat /\ r * CodeValues = 8 * g + 4 * h - (IF x = 0 THEN 4 * q ELSE 0)
  <2>1. CASE x = 0
    BY <1>1, <1>3, <1>4, <1>e, <1>p, <2>1
  <2>2. CASE x = 1
    BY <1>1, <1>3, <1>4, <1>e, <1>p, <2>2
  <2> QED
    BY <2>1, <2>2
<1> HIDE DEF r, a, c, g, h
<1>9. (r + 1) * CodeValues = r * CodeValues + 4 * q /\ r * CodeValues \in Nat
  BY <1>1, <1>4, <1>8
<1>10. From(e) * 4 <= r * CodeValues /\ (r + 1) * CodeValues <= To(e) * 4
  <2> DEFINE v == r * CodeValues
             w == (r + 1) * CodeValues
             l == e.low
             t == e.high
             z == e.base
  <2>0. /\ v \in Nat /\ w = v + 4 * q /\ v = 16 * a + 8 * c - (IF x = 0 THEN 4 * q ELSE 0)
        /\ l \in Nat /\ t \in Nat /\ z = 4 * a + 2 * c - 2 * q
        /\ l < 2 * q /\ t >= 2 * q /\ (x = 0 <=> l < q) /\ (l >= q => t >= 3 * q)
        /\ From(e) = l + z /\ To(e) = t + 1 + z
    <3>1. v = 16 * a + 8 * c - (IF x = 0 THEN 4 * q ELSE 0)
      BY <1>1, <1>6, <1>8, <1>g
    <3> QED
      BY <1>5, <1>7, <1>9, <1>d, <3>1
  <2> HIDE DEF v, w, l, t, z
  <2>1. (l + z) * 4 <= v /\ w <= (t + 1 + z) * 4
    BY <1>1, <1>6, <2>0
  <2> QED
    BY <2>0, <2>1 DEF v, w
<1>11. u \in Nat /\ u = e.doubled + 2
  BY <1>1, <1>2
<1> HIDE DEF u
<1>12. Inside(r, u, e)
  BY <1>8, <1>10, <1>11, SmallPowers, EnoughBits
<1> QED
  BY <1>12 DEF r, u

\* As many bits as the interval was doubled tell nothing but the whole of it, and
\* not that while bits are to follow.
LEMMA DoublingsNotEnough ==
  ASSUME NEW m, NEW f, NEW e, Proper(m, f, e), e.at = "finish",
         NEW b \in Seq({0, 1}), NEW F \in Nat, Tells(b, F, e),
         NEW r \in Nat, Inside(r, e.doubled, e)
  PROVE  e.low = 0 /\ e.high = TOP_VALUE /\ F = 0
<1> DEFINE n == number(b)[Len(b)]
           p == pow2(F)
           q == FIRST_QTR
<1>0. Len(b) \in Nat /\ Len(b) \in 0..Len(b)
  OBVIOUS
<1>1. n \in Nat /\ p \in Nat \ {0} /\ q \in Nat \ {0}
  BY <1>0, NumberIs, Pow2Is, Quarter
<1>2. e.base = (n * CodeValues) * p + HALF * (p - 1)
  BY DEF Tells
<1>4. CodeValues = 4 * q /\ HALF = 2 * q /\ TOP_VALUE = CodeValues - 1
  BY CodeValuesIs
<1>5. /\ e.low \in Nat /\ e.high \in Nat /\ e.base \in Nat /\ e.doubled \in Nat
      /\ e.low < 2 * q /\ e.high >= 2 * q /\ e.high <= 4 * q - 1
      /\ From(e) = e.low + e.base /\ To(e) = e.high + 1 + e.base
  BY FinishedInterval
<1>6. From(e) * 1 <= r * CodeValues /\ (r + 1) * CodeValues <= To(e) * 1
  <2>1. e.doubled = e.doubled + 0
    BY <1>5
  <2> QED
    BY <1>5, <2>1, SmallPowers, InsideOnly
<1> HIDE DEF n, p, q
<1>7. (r + 1) * CodeValues = r * CodeValues + 4 * q /\ r * CodeValues \in Nat
  BY <1>1, <1>4
<1> DEFINE v == r * CodeValues
<1>8. v \in Nat /\ e.low + e.base <= v /\ v + 4 * q <= e.high + 1 + e.base
  BY <1>5, <1>6, <1>7
<1> HIDE DEF v
<1>9. e.low = 0 /\ e.high = TOP_VALUE /\ v = e.base
  <2> DEFINE l == e.low
             t == e.high
             z == e.base
  <2>1. /\ l \in Nat /\ t \in Nat /\ z \in Nat /\ t <= 4 * q - 1
        /\ l + z <= v /\ v + 4 * q <= t + 1 + z /\ TOP_VALUE = 4 * q - 1
    BY <1>4, <1>5, <1>8
  <2> HIDE DEF l, t, z
  <2>2. l = 0 /\ t = 4 * q - 1 /\ v = z
    BY <1>1, <1>8, <2>1
  <2> QED
    BY <2>1, <2>2 DEF l, t, z
<1>10. F = 0
  <2> SUFFICES ASSUME F # 0 PROVE FALSE
    OBVIOUS
  <2>1. PICK k \in Nat : F = k + 1
    <3>1. F - 1 \in Nat /\ F = (F - 1) + 1
      OBVIOUS
    <3> QED
      BY <3>1
  <2> DEFINE o == pow2(k)
  <2>2. o \in Nat \ {0} /\ p = 2 * o
    BY <2>1, Pow2Is DEF p
  <2> HIDE DEF o
  <2>3. r * (4 * q) = (n * (4 * q)) * p + (2 * q) * (p - 1)
    BY <1>2, <1>4, <1>9 DEF v
  <2> DEFINE a == q * (n * p)
             c == q * o
             w == q * r
  <2>4. (n * (4 * q)) * p = 4 * a /\ (2 * q) * (p - 1) = 4 * c - 2 * q /\ r * (4 * q) = 4 * w
    <3>1. (n * (4 * q)) * p = 4 * a
      BY <1>1
    <3>2. (2 * q) * (2 * o - 1) = 4 * (q * o) - 2 * q
      BY <1>1, <2>2
    <3>3. r * (4 * q) = 4 * w
      BY <1>1
    <3> QED
      BY <2>2, <3>1, <3>2, <3>3
  <2>5. a \in Nat /\ c \in Nat /\ w \in Nat
    BY <1>1, <2>2
  <2> HIDE DEF a, c, w
  <2>6. 4 * w = 4 * a + 4 * c - 2 * q
    BY <1>1, <2>3, <2>4, <2>5
  <2>7. \E z \in Int : q = 2 * z /\ z = a + c - w
    <3>1. a + c - w \in Int /\ q = 2 * (a + c - w)
      BY <1>1, <2>5, <2>6
    <3> QED
      BY <3>1
  <2> QED
    \* 2 q is a multiple of 4 q only if q is none.
    <3>1. 2 * (r - n * p - o) * q = -q
      <4> DEFINE y == n * p
      <4>1. y \in Nat /\ a = q * y
        BY <1>1 DEF a
      <4> HIDE DEF y
      <4>2. 2 * (r - y - o) * q = 2 * (q * r) - 2 * (q * y) - 2 * (q * o)
        BY <1>1, <2>2, <4>1
      <4>3. 2 * w - 2 * a - 2 * c = -q
        BY <1>1, <2>5, <2>6
      <4> QED
        BY <4>1, <4>2, <4>3 DEF w, c, y
    <3>2. PICK z \in Int : z = r - n * p - o
      BY <1>1, <2>2
    <3>3. 2 * z * q = -q
      BY <3>1, <3>2
    <3>4. z >= 0 => 2 * z * q >= 0
      BY <1>1
    <3>5. z <= -1 => 2 * z * q <= -2 * q
      BY <1>1
    <3> QED
      BY <1>1, <3>3, <3>4, <3>5
<1> QED
  BY <1>9, <1>10

\* One more bit tells nothing but a half of the interval.
LEMMA HalvesNotEnough ==
  ASSUME NEW m, NEW f, NEW e, Proper(m, f, e), e.at = "finish",
         NEW b \in Seq({0, 1}), NEW F \in Nat, Tells(b, F, e),
         NEW r \in Nat, Inside(r, e.doubled + 1, e)
  PROVE  e.low = 0 \/ e.high = TOP_VALUE
<1> DEFINE n == number(b)[Len(b)]
           p == pow2(F)
           q == FIRST_QTR
<1>0. Len(b) \in Nat /\ Len(b) \in 0..Len(b)
  OBVIOUS
<1>1. n \in Nat /\ p \in Nat \ {0} /\ q \in Nat \ {0}
  BY <1>0, NumberIs, Pow2Is, Quarter
<1>2. e.base = (n * CodeValues) * p + HALF * (p - 1)
  BY DEF Tells
<1>4. CodeValues = 4 * q /\ HALF = 2 * q /\ TOP_VALUE = CodeValues - 1
  BY CodeValuesIs
<1>5. /\ e.low \in Nat /\ e.high \in Nat /\ e.base \in Nat /\ e.doubled \in Nat
      /\ e.low < 2 * q /\ e.high >= 2 * q /\ e.high <= 4 * q - 1
      /\ From(e) = e.low + e.base /\ To(e) = e.high + 1 + e.base
  BY FinishedInterval
<1>6. From(e) * 2 <= r * CodeValues /\ (r + 1) * CodeValues <= To(e) * 2
  <2>1. e.doubled + 1 \in Nat
    BY <1>5
  <2> QED
    BY <2>1, SmallPowers, InsideOnly
<1> HIDE DEF n, p, q
<1> DEFINE j == 2 * (n * p) + p - 1
<1>7. j \in Nat /\ e.base = j * (2 * q)
  <2> DEFINE y == n * p
  <2>1. y \in Nat
    BY <1>1
  <2>2. (n * (4 * q)) * p = (2 * y) * (2 * q)
    BY <1>1
  <2> HIDE DEF y
  <2>3. (2 * y) * (2 * q) + (2 * q) * (p - 1) = (2 * y + p - 1) * (2 * q)
    BY <1>1, <2>1
  <2> QED
    BY <1>1, <1>2, <1>4, <2>1, <2>2, <2>3 DEF y
<1> HIDE DEF j
<1> DEFINE z == r - j
<1>8. z \in Int /\ r * (4 * q) = 2 * (r * (2 * q)) /\ r * (2 * q) - j * (2 * q) = z * (2 * q)
      /\ r * (2 * q) \in Nat /\ j * (2 * q) \in Nat /\ (r + 1) * (4 * q) = r * (4 * q) + 4 * q
  BY <1>1, <1>7
<1> DEFINE v == z * (2 * q)
<1>9. v \in Int /\ e.low <= v /\ v + 2 * q <= e.high + 1
  <2> DEFINE x == r * (2 * q)
             y == j * (2 * q)
             l == e.low
             t == e.high
  <2>1. v = x - y /\ x \in Nat /\ y \in Nat /\ l \in Nat /\ t \in Nat
    BY <1>5, <1>8
  <2>2. (l + y) * 2 <= 2 * x /\ 2 * x + 4 * q <= (t + 1 + y) * 2
    <3>1. From(e) * 2 <= r * (4 * q) /\ (r + 1) * (4 * q) <= To(e) * 2
      BY <1>4, <1>6
    <3>2. From(e) = l + y /\ To(e) = t + 1 + y
      BY <1>5, <1>7
    <3> QED
      BY <1>8, <3>1, <3>2
  <2> HIDE DEF x, y, l, t, v
  <2>3. v \in Int /\ l <= v /\ v + 2 * q <= t + 1
    BY <1>1, <2>1, <2>2
  <2> QED
    BY <2>3 DEF l, t
<1>10. z <= 0 => v <= 0
  BY <1>1, <1>8
<1>11. z >= 1 => v >= 2 * q
  BY <1>1, <1>8
<1> HIDE DEF v, z
<1> DEFINE l == e.low
           t == e.high
<1>12. l \in Nat /\ t \in Nat /\ t <= 4 * q - 1 /\ l <= v /\ v + 2 * q <= t + 1
  BY <1>4, <1>5, <1>9
<1> HIDE DEF l, t
<1>13. l = 0 \/ t = 4 * q - 1
  <2>1. CASE z <= 0
    BY <1>1, <1>9, <1>10, <1>12, <2>1
  <2>2. CASE z >= 1
    BY <1>1, <1>9, <1>11, <1>12, <2>2
  <2> QED
    BY <1>8, <2>1, <2>2
<1> QED
  BY <1>4, <1>13 DEF l, t

\* The fewest bits that tell the interval.
LEMMA FewestBits ==
  ASSUME NEW m, NEW f, NEW e, Proper(m, f, e), e.at = "finish",
         NEW b \in Seq({0, 1}), NEW F \in Nat, Tells(b, F, e),
         NEW d \in Seq({0, 1}), Inside(number(d)[Len(d)], Len(d), e),
         \/ Len(d) = e.doubled
         \/ Len(d) = e.doubled + 1 /\ ~(e.low = 0 /\ e.high = TOP_VALUE /\ F = 0)
         \/ Len(d) = e.doubled + 2 /\ e.low # 0 /\ e.high # TOP_VALUE
  PROVE  TellAll(d, e)
<1> SUFFICES ASSUME NEW u \in 0..Len(d) - 1, Inside(number(d)[u], u, e) PROVE FALSE
  BY DEF TellAll
<1> DEFINE r == number(d)[u]
<1>1. Len(d) \in Nat /\ u \in Nat /\ u \in 0..Len(d) /\ u < Len(d)
  OBVIOUS
<1>2. r \in Nat /\ e.doubled \in Nat
  BY <1>1, NumberIs DEF Proper, States
<1> HIDE DEF r
<1>3. Inside(r, u, e)
  BY DEF r
<1>4. e.doubled <= u
  BY <1>1, <1>2, <1>3, NeededBits
<1>5. u # e.doubled \/ (e.low = 0 /\ e.high = TOP_VALUE /\ F = 0)
  <2> SUFFICES ASSUME u = e.doubled PROVE e.low = 0 /\ e.high = TOP_VALUE /\ F = 0
    OBVIOUS
  <2>1. Inside(r, e.doubled, e)
    BY <1>3
  <2> QED
    BY <1>2, <2>1, DoublingsNotEnough
<1>6. u # e.doubled + 1 \/ e.low = 0 \/ e.high = TOP_VALUE
  <2> SUFFICES ASSUME u = e.doubled + 1 PROVE e.low = 0 \/ e.high = TOP_VALUE
    OBVIOUS
  <2>1. Inside(r, e.doubled + 1, e)
    BY <1>3
  <2> QED
    BY <1>2, <2>1, HalvesNotEnough
<1> QED
  BY <1>1, <1>2, <1>4, <1>5, <1>6

\* finish_encode(): the bits so far are all of them, or a bit and the bits to follow,
\* or a bit and one more to follow are appended.
LEMMA LastBits ==
  ASSUME NEW m, NEW f, NEW e, Proper(m, f, e), e.at = "finish",
         NEW b \in Seq({0, 1}), NEW F \in Nat, Tells(b, F, e), NEW d,
         \/ e.low = 0 /\ e.high = TOP_VALUE /\ F = 0 /\ d = b
         \/ e.low = 0 /\ (e.high # TOP_VALUE \/ F > 0) /\ d = Extended(b, 0, F)
         \/ e.low # 0 /\ e.high = TOP_VALUE /\ d = Extended(b, 1, F)
         \/ /\ e.low # 0 /\ e.high # TOP_VALUE
            /\ d = Extended(b, IF e.low < FIRST_QTR THEN 0 ELSE 1, F + 1)
  PROVE  d \in Seq({0, 1}) /\ TellAll(d, e)
<1>0. Len(b) \in Nat /\ Len(b) \in 0..Len(b) /\ F + 1 \in Nat
  OBVIOUS
<1>1. e.doubled = Len(b) + F /\ e.doubled \in Nat
  BY <1>0 DEF Tells
<1>2. CASE e.low = 0 /\ e.high = TOP_VALUE /\ F = 0 /\ d = b
  <2> DEFINE n == number(b)[Len(b)]
  <2>1. n \in Nat /\ pow2(F) = 1
    BY <1>0, <1>2, NumberIs, SmallPowers
  <2>2. /\ e.base = (n * CodeValues) * pow2(F) + HALF * (pow2(F) - 1)
        /\ CodeValues \in Nat /\ HALF \in Nat /\ TOP_VALUE = CodeValues - 1
    BY CodeValuesIs DEF Tells
  <2>3. From(e) = n * CodeValues /\ To(e) = n * CodeValues + CodeValues
    <3> DEFINE x == n * CodeValues
               y == HALF
               z == CodeValues
    <3>1. x \in Nat /\ y \in Nat /\ z \in Nat
      BY <2>1, <2>2
    <3>2. e.base = x * pow2(F) + y * (pow2(F) - 1) /\ e.low = 0 /\ e.high = z - 1
      BY <1>2, <2>2
    <3> HIDE DEF x, y, z, n
    <3>3. e.base = x
      BY <2>1, <3>1, <3>2
    <3> QED
      BY <3>1, <3>2, <3>3 DEF From, To, x, z
  <2>4. (n + 1) * CodeValues = n * CodeValues + CodeValues
    BY <2>1, <2>2
  <2>5. From(e) * pow2(0) <= n * CodeValues /\ (n + 1) * CodeValues <= To(e) * pow2(0)
    <3> DEFINE x == n * CodeValues
               z == CodeValues
    <3>1. x \in Nat /\ z \in Nat
      BY <2>1, <2>2
    <3>2. From(e) = x /\ To(e) = x + z /\ (n + 1) * CodeValues = x + z
      BY <2>3, <2>4
    <3> HIDE DEF x, z, n
    <3>3. From(e) * pow2(0) <= x /\ x + z <= To(e) * pow2(0)
      BY <3>1, <3>2, SmallPowers
    <3> QED
      BY <3>2, <3>3 DEF x
  <2>6. Len(b) = e.doubled + 0 /\ 0 \in Nat
    BY <1>0, <1>1, <1>2
  <2> HIDE DEF n
  <2>7. Inside(n, Len(b), e)
    BY <1>0, <2>1, <2>5, <2>6, EnoughBits
  <2>8. Len(d) = e.doubled /\ Inside(number(d)[Len(d)], Len(d), e) /\ d \in Seq({0, 1})
    BY <1>0, <1>1, <1>2, <2>7 DEF n
  <2> QED
    BY <2>8, FewestBits
<1>3. ASSUME NEW x \in {0, 1}, d = Extended(b, x, F),
             x = 0 => e.low = 0, x = 1 => e.high = TOP_VALUE,
             ~(e.low = 0 /\ e.high = TOP_VALUE /\ F = 0)
      PROVE  d \in Seq({0, 1}) /\ TellAll(d, e)
  <2>1. d \in Seq({0, 1}) /\ Len(d) = Len(b) + 1 + F
    BY <1>3, ExtendedBits
  <2>2. Inside(number(d)[Len(d)], Len(d), e)
    <3>1. Inside(number(Extended(b, x, F))[Len(b) + 1 + F], Len(b) + 1 + F, e)
      BY <1>3, OneMoreBit
    <3> QED
      BY <1>3, <2>1, <3>1
  <2>3. Len(d) = e.doubled + 1
    BY <1>0, <1>1, <2>1
  <2> QED
    BY <1>3, <2>1, <2>2, <2>3, FewestBits
<1>4. ASSUME NEW x \in {0, 1}, d = Extended(b, x, F + 1), x = 0 <=> e.low < FIRST_QTR,
             e.low # 0 /\ e.high # TOP_VALUE
      PROVE  d \in Seq({0, 1}) /\ TellAll(d, e)
  <2>1. d \in Seq({0, 1}) /\ Len(d) = Len(b) + 1 + (F + 1)
    BY <1>0, <1>4, ExtendedBits
  <2>2. Inside(number(d)[Len(d)], Len(d), e)
    <3>1. Inside(number(Extended(b, x, F + 1))[Len(b) + 1 + (F + 1)], Len(b) + 1 + (F + 1), e)
      BY <1>4, TwoMoreBits
    <3> QED
      BY <1>4, <2>1, <3>1
  <2>3. Len(d) = e.doubled + 2
    BY <1>0, <1>1, <2>1
  <2> QED
    BY <1>4, <2>1, <2>2, <2>3, FewestBits
<1>5. CASE e.low = 0 /\ (e.high # TOP_VALUE \/ F > 0) /\ d = Extended(b, 0, F)
  <2>1. 0 \in {0, 1} /\ 0 # 1 /\ ~(e.low = 0 /\ e.high = TOP_VALUE /\ F = 0)
    BY <1>5
  <2> QED
    BY <1>3, <1>5, <2>1
<1>6. CASE e.low # 0 /\ e.high = TOP_VALUE /\ d = Extended(b, 1, F)
  <2>1. 1 \in {0, 1} /\ 0 # 1
    BY <1>6
  <2> QED
    BY <1>3, <1>6, <2>1
<1>7. CASE /\ e.low # 0 /\ e.high # TOP_VALUE
           /\ d = Extended(b, IF e.low < FIRST_QTR THEN 0 ELSE 1, F + 1)
  <2>1. CASE e.low < FIRST_QTR
    <3>1. 0 \in {0, 1} /\ d = Extended(b, 0, F + 1) /\ (0 = 0 <=> e.low < FIRST_QTR)
      BY <1>7, <2>1
    <3> QED
      BY <1>4, <1>7, <3>1
  <2>2. CASE ~(e.low < FIRST_QTR)
    <3>1. 1 \in {0, 1} /\ d = Extended(b, 1, F + 1) /\ (1 = 0 <=> e.low < FIRST_QTR)
      BY <1>7, <2>2
    <3> QED
      BY <1>4, <1>7, <3>1
  <2> QED
    BY <2>1, <2>2
<1> QED
  BY <1>2, <1>5, <1>6, <1>7

-----------------------------------------------------------------------------
(* The search for a symbol *)

\* cumulative_freq() of the number x of an interval of R is a frequency below the
\* total, and not below those that the numbers up to x belong to.
LEMMA SearchIs ==
  ASSUME NEW R \in Nat \ {0}, NEW T \in Nat \ {0}, NEW x \in 0..R - 1
  PROVE  /\ ((x + 1) * T - 1) \div R \in Nat
         /\ ((x + 1) * T - 1) \div R < T
         /\ \A a \in Nat : a <= ((x + 1) * T - 1) \div R <=> (R * a) \div T <= x
<1> DEFINE N == (x + 1) * T - 1
           q == N \div R
<1>1. x \in Nat /\ x + 1 \in Nat /\ x + 1 <= R /\ (x + 1) * T \in Nat \ {0} /\ N \in Nat
  <2>1. x \in Nat /\ x + 1 \in Nat \ {0} /\ x + 1 <= R
    OBVIOUS
  <2>2. (x + 1) * T \in Nat \ {0}
    <3> DEFINE y == x + 1
    <3>1. y \in Nat \ {0}
      BY <2>1
    <3> HIDE DEF y
    <3>2. y * T \in Nat /\ y * T >= T
      BY <3>1
    <3> QED
      BY <3>2 DEF y
  <2> QED
    BY <2>1, <2>2
<1>2. q \in Nat /\ R * q <= N /\ \A k \in Nat : R * k <= N => k <= q
  <2> HIDE DEF N
  <2> QED
    BY <1>1, Quotient
<1> HIDE DEF q
<1>3. ASSUME NEW a \in Nat PROVE a <= q <=> R * a < (x + 1) * T
  <2>1. R * a \in Nat /\ R * q \in Nat
    BY <1>2
  <2>2. a <= q => R * a <= R * q
    BY <1>2
  <2> DEFINE z == (x + 1) * T
             y == R * a
             w == R * q
  <2>3. z \in Nat /\ y \in Nat /\ w \in Nat /\ N = z - 1 /\ w <= N /\ (a <= q => y <= w)
        /\ (y <= N => a <= q)
    BY <1>1, <1>2, <2>1, <2>2
  <2> HIDE DEF z, y, w, N
  <2>4. a <= q <=> y < z
    BY <2>3
  <2> QED
    BY <2>4 DEF z, y
<1>4. ASSUME NEW a \in Nat PROVE R * a < (x + 1) * T <=> (R * a) \div T <= x
  <2> DEFINE y == (R * a) \div T
             w == R * a
  <2>1. w \in Nat
    OBVIOUS
  <2> HIDE DEF w
  <2>2. y \in Nat /\ T * y <= w /\ \A k \in Nat : T * k <= w => k <= y
    BY <2>1, Quotient DEF w
  <2> HIDE DEF y
  <2>3. x + 1 <= y => T * (x + 1) <= T * y
    BY <1>1, <2>2
  <2>4. T * (x + 1) <= w => x + 1 <= y
    BY <1>1, <2>2
  <2>5. T * (x + 1) = (x + 1) * T /\ T * y \in Nat
    BY <1>1, <2>2
  <2> DEFINE z == (x + 1) * T
  <2>6. z \in Nat /\ (x + 1 <= y => z <= T * y) /\ (z <= w => x + 1 <= y)
    BY <1>1, <2>3, <2>4, <2>5
  <2> HIDE DEF z
  <2>7. w < z <=> y <= x
    BY <1>1, <2>1, <2>2, <2>5, <2>6
  <2> QED
    BY <2>7 DEF w, y, z
<1>5. q < T
  <2>1. (x + 1) * T <= R * T
    BY <1>1
  <2>2. ~(T <= q)
    <3>1. ~(R * T < (x + 1) * T)
      BY <1>1, <2>1
    <3> QED
      BY <1>3, <3>1
  <2> QED
    BY <1>2, <2>2
<1> QED
  BY <1>2, <1>3, <1>4, <1>5 DEF q

\* More frequencies, more numbers.
LEMMA PartsOrder ==
  ASSUME NEW R \in Nat, NEW T \in Nat \ {0}, NEW a \in Nat, NEW b \in Nat, a <= b
  PROVE  (R * a) \div T \in Nat /\ (R * b) \div T \in Nat /\ (R * a) \div T <= (R * b) \div T
<1> DEFINE x == R * a
           y == R * b
<1>1. x \in Nat /\ y \in Nat /\ x <= y
  OBVIOUS
<1> HIDE DEF x, y
<1>2. x \div T \in Nat /\ T * (x \div T) <= x
  BY <1>1, Quotient
<1>3. y \div T \in Nat /\ \A k \in Nat : T * k <= y => k <= y \div T
  BY <1>1, Quotient
<1>4. T * (x \div T) \in Nat
  BY <1>2
<1>5. T * (x \div T) <= y
  BY <1>1, <1>2, <1>4
<1> QED
  BY <1>2, <1>3, <1>5 DEF x, y

\* No number belongs to two symbols.
LEMMA PartsDisjoint ==
  ASSUME NEW m \in Models, NEW c \in Counts(m), NEW s \in Symbols(m), NEW t \in Symbols(m),
         NEW R \in Nat, NEW y \in Int,
         PartFrom(m, c, s, R) <= y, y < PartTo(m, c, s, R),
         PartFrom(m, c, t, R) <= y, y < PartTo(m, c, t, R)
  PROVE  s = t
<1>1. ASSUME NEW a \in Symbols(m), NEW b \in Symbols(m), a < b,
             y < PartTo(m, c, a, R), PartFrom(m, c, b, R) <= y
      PROVE  FALSE
  <2>1. a \in Int /\ b \in Int /\ a >= EOF_SYMBOL /\ b # EOF_SYMBOL /\ a <= b - 1
    BY <1>1, ModelSymbols DEF Symbols, EOF_SYMBOL
  <2>2. b - 1 \in Symbols(m) /\ below(c, b) = c[b - 1]
    BY <2>1, ModelSymbols DEF below
  <2>3. c[a] <= c[b - 1]
    BY <2>1, <2>2 DEF Counts
  <2>4. c[a] \in Nat /\ c[b - 1] \in Nat /\ c[max_symbol(m)] \in Nat \ {0}
    BY <2>2, CountsFit
  <2> DEFINE T == c[max_symbol(m)]
             i == c[a]
             j == c[b - 1]
  <2> HIDE DEF T, i, j
  <2>5. T \in Nat \ {0} /\ i \in Nat /\ j \in Nat /\ i <= j
    BY <2>3, <2>4 DEF T, i, j
  <2>6. (R * i) \div T \in Nat /\ (R * j) \div T \in Nat /\ (R * i) \div T <= (R * j) \div T
    BY <2>5, PartsOrder
  <2>7. y < (R * i) \div T /\ (R * j) \div T <= y
    BY <1>1, <2>2 DEF PartTo, PartFrom, T, i, j
  <2> QED
    BY <2>6, <2>7
<1>2. s \in Int /\ t \in Int
  BY ModelSymbols
<1>3. s < t \/ t < s \/ s = t
  BY <1>2
<1> QED
  BY <1>1, <1>3

\* What the decoder narrows.
DecoderCounts == c_freqs["decoder"]
Numbers == high - low + 1

\* cumulative_freq() of a number of the interval, which the remainder leaves as it is.
LEMMA Search ==
  ASSUME IInv, NEW v, v \in low..high
  PROVE  /\ cumulative_freq(v) \in freq_type /\ cumulative_freq(v) \in Nat
         /\ cumulative_freq(v) < total_freq("decoder")
         /\ \A a \in Nat : a <= cumulative_freq(v)
              <=> (Numbers * a) \div DecoderCounts[max_symbol(model)] <= v - low
<1> DEFINE T == total_freq("decoder")
           q == ((v - low + 1) * T - 1) \div Numbers
<1>1. /\ low \in Nat /\ high \in Nat /\ low <= high /\ model \in Models
      /\ DecoderCounts \in Counts(model)
  BY DEF IInv, IntervalOK, CountsOK, DecoderCounts
<1>2. T \in Nat \ {0} /\ T < FIRST_QTR /\ T = DecoderCounts[max_symbol(model)]
  BY <1>1, CountsFit, ModelSymbols DEF total_freq, DecoderCounts
<1> HIDE DEF T
<1>3. Numbers \in Nat \ {0} /\ v - low \in 0..Numbers - 1 /\ v \in Int
  BY <1>1 DEF Numbers
<1>4. q \in Nat /\ q < T /\ \A a \in Nat : a <= q <=> (Numbers * a) \div T <= v - low
  <2> DEFINE x == v - low
             R == Numbers
  <2>1. R \in Nat \ {0} /\ x \in 0..R - 1
    BY <1>3
  <2> HIDE DEF x, R
  <2>2. /\ ((x + 1) * T - 1) \div R \in Nat
        /\ ((x + 1) * T - 1) \div R < T
        /\ \A a \in Nat : a <= ((x + 1) * T - 1) \div R <=> (R * a) \div T <= x
    BY <1>2, <2>1, SearchIs
  <2> QED
    BY <2>2 DEF x, R
<1>5. cumulative_freq(v) = q % (TOP_VALUE + 1)
  BY DEF cumulative_freq, T, Numbers
<1> HIDE DEF q
<1>6. TOP_VALUE + 1 \in Nat \ {0} /\ T < TOP_VALUE + 1 /\ TOP_VALUE \in Nat
  <2>1. FIRST_QTR \in Nat \ {0}
    BY Quarter
  <2> HIDE DEF FIRST_QTR
  <2> QED
    BY <1>2, <2>1 DEF TOP_VALUE
<1> HIDE DEF TOP_VALUE
<1>7. q % (TOP_VALUE + 1) = q
  BY <1>2, <1>4, <1>6
<1>8. cumulative_freq(v) = q
  BY <1>5, <1>7
<1>9. q \in freq_type
  BY <1>2, <1>4, <1>6 DEF freq_type
<1> QED
  BY <1>2, <1>4, <1>8, <1>9 DEF T

\* The symbol that is found first is the one that value belongs to.
LEMMA FirstSymbolIs ==
  ASSUME IInv, value \in low..high, NEW s \in Symbols(model), first_symbol(s)
  PROVE  /\ PartFrom(model, DecoderCounts, s, Numbers) <= value - low
         /\ value - low < PartTo(model, DecoderCounts, s, Numbers)
<1> DEFINE c == DecoderCounts
           v == cumulative_freq(value)
<1>1. model \in Models /\ c \in Counts(model)
  BY DEF IInv, CountsOK, DecoderCounts
<1>2. /\ v \in Nat /\ v < c[max_symbol(model)]
      /\ \A a \in Nat : a <= v <=> (Numbers * a) \div c[max_symbol(model)] <= value - low
  BY Search DEF total_freq, DecoderCounts
<1>3. max_symbol(model) \in Symbols(model) /\ s \in Int /\ c[max_symbol(model)] \in Nat
      /\ c[s] \in Nat /\ below(c, s) \in Nat
  BY <1>1, ModelSymbols, CountsFit
<1> HIDE DEF v
<1>4. v < c[s] /\ \A t \in Symbols(model) : t < s => c[t] <= v
  <2>1. ~(\A t \in Symbols(model) : c[t] <= v)
    <3>1. ~(c[max_symbol(model)] <= v)
      BY <1>2, <1>3
    <3> QED
      BY <1>3, <3>1
  <2> QED
    BY <2>1 DEF first_symbol, v, DecoderCounts
<1>5. below(c, s) <= v
  <2>1. CASE s = EOF_SYMBOL
    BY <1>2, <2>1 DEF below
  <2>2. CASE s # EOF_SYMBOL
    <3>1. s - 1 \in Symbols(model) /\ s - 1 < s
      BY <1>1, <1>3, <2>2, ModelSymbols
    <3> QED
      BY <1>4, <2>2, <3>1 DEF below
  <2> QED
    BY <2>1, <2>2
<1>6. ~(c[s] <= v)
  BY <1>2, <1>3, <1>4
<1>7. (Numbers * below(c, s)) \div c[max_symbol(model)] <= value - low
  BY <1>2, <1>3, <1>5
<1>8. ~((Numbers * c[s]) \div c[max_symbol(model)] <= value - low)
  BY <1>2, <1>3, <1>6
<1>9. (Numbers * c[s]) \div c[max_symbol(model)] \in Nat /\ value - low \in Int
  <2> DEFINE T == c[max_symbol(model)]
             a == c[s]
             R == Numbers
  <2>1. T \in Nat \ {0} /\ a \in Nat /\ R \in Nat
    <3>1. T \in Nat \ {0}
      BY <1>1, <1>3, CountsFit
    <3>2. R \in Nat
      BY DEF IInv, IntervalOK, Numbers
    <3> QED
      BY <1>3, <3>1, <3>2
  <2> HIDE DEF T, a, R
  <2>2. (R * a) \div T \in Nat
    <3>1. a <= a
      BY <2>1
    <3> QED
      BY <2>1, <3>1, PartsOrder
  <2> QED
    BY <2>2 DEF T, a, R, IInv, IntervalOK
<1> DEFINE y == (Numbers * c[s]) \div c[max_symbol(model)]
           z == value - low
<1>10. z < y
  <2> HIDE DEF y, z
  <2>1. y \in Nat /\ z \in Int /\ ~(y <= z)
    BY <1>8, <1>9 DEF y, z
  <2> QED
    BY <2>1
<1> QED
  BY <1>7, <1>10 DEF PartFrom, PartTo

\* It is unambiguous if the highest number possible belongs to it or a symbol before.
LEMMA UnambiguousIs ==
  ASSUME IInv, value_high \in low..high, NEW s \in Symbols(model)
  PROVE  Unambiguous(s) <=> value_high - low < PartTo(model, DecoderCounts, s, Numbers)
<1> DEFINE c == DecoderCounts
           T == c[max_symbol(model)]
           v == cumulative_freq(value_high)
           R == Numbers
           y == (R * c[s]) \div T
           z == value_high - low
<1>1. model \in Models /\ c \in Counts(model)
  BY DEF IInv, CountsOK, DecoderCounts
<1>2. v \in Nat /\ v < T /\ \A a \in Nat : a <= v <=> (R * a) \div T <= z
  BY Search DEF total_freq, DecoderCounts
<1>3. T \in Nat \ {0} /\ c[s] \in Nat /\ R \in Nat /\ z \in Int /\ z < R
  <2>1. T \in Nat \ {0} /\ c[s] \in Nat
    BY <1>1, CountsFit
  <2> QED
    BY <2>1 DEF IInv, IntervalOK, Numbers
<1>4. y \in Nat
  <2> DEFINE a == c[s]
  <2>1. a \in Nat
    BY <1>3
  <2>2. T \in Nat \ {0} /\ R \in Nat /\ a <= a
    BY <1>3, <2>1
  <2> HIDE DEF a, T, R
  <2>3. (R * a) \div T \in Nat
    BY <2>1, <2>2, PartsOrder
  <2> QED
    BY <2>3 DEF a
<1>5. c[s] <= v <=> y <= z
  BY <1>2, <1>3
<1>6. c[s] > v <=> z < y
  <2> DEFINE a == c[s]
  <2>1. a \in Nat /\ (a <= v <=> y <= z)
    BY <1>3, <1>5
  <2> HIDE DEF a, v, y, z
  <2>2. a > v <=> z < y
    BY <1>2, <1>3, <1>4, <2>1
  <2> QED
    BY <2>2 DEF a
<1>7. s = max_symbol(model) => z < y
  <2> SUFFICES ASSUME s = max_symbol(model) PROVE z < y
    OBVIOUS
  <2>1. y = R
    <3>1. y = (R * T) \div T
      OBVIOUS
    <3> HIDE DEF y, R, T
    <3>2. (R * T) \div T = R
      <4> DEFINE x == R * T
      <4>1. x \in Nat /\ T * R = x
        BY <1>3
      <4> HIDE DEF x
      <4>2. x \div T \in Nat /\ T * (x \div T) <= x /\ R <= x \div T
        BY <1>3, <4>1, Quotient
      <4>3. PICK k \in Nat : k = x \div T
        BY <4>2
      <4>4. T * k <= T * R /\ R <= k
        BY <4>1, <4>2, <4>3
      <4>5. k >= R + 1 => T * k >= T * R + T
        BY <1>3, <4>3
      <4>6. T * R \in Nat /\ T * k \in Nat
        BY <1>3, <4>3
      <4>7. k = R
        BY <1>3, <4>3, <4>4, <4>5, <4>6
      <4> QED
        BY <4>3, <4>7 DEF x
    <3> QED
      BY <3>1, <3>2
  <2> QED
    BY <1>3, <2>1
<1>8. Unambiguous(s) <=> s = max_symbol(model) \/ c[s] > v
  BY DEF Unambiguous, DecoderCounts
<1> QED
  BY <1>6, <1>7, <1>8 DEF PartTo

-----------------------------------------------------------------------------
(* What the bits taken so far say *)

\* With off places to come, one taken bit stands for as much as 2^off numbers.
LEMMA PlacesOf ==
  ASSUME NEW m, NEW f, NEW d, Proper(m, f, d), NEW u \in Nat, NEW off \in Nat,
         u + off = CODE_VALUE_BITS + d.doubled
  PROVE  /\ CodeValues * Scale(d) = pow2(off) * pow2(u)
         /\ CodeValues \in Nat /\ Scale(d) \in Nat \ {0}
         /\ pow2(off) \in Nat \ {0} /\ pow2(u) \in Nat \ {0}
<1>1. d.doubled \in Nat /\ CODE_VALUE_BITS \in Nat
  BY ArithmeticAssumption DEF Proper, States
<1>2. CodeValues * Scale(d) = pow2(CODE_VALUE_BITS + d.doubled)
  BY <1>1, CodeValuesIs, Pow2Plus DEF Scale
<1>3. off + u = CODE_VALUE_BITS + d.doubled
  BY <1>1
<1>4. pow2(off) * pow2(u) = pow2(off + u)
  BY Pow2Plus
<1> QED
  BY <1>2, <1>3, <1>4, CodeValuesIs, ScaleIs, Pow2Is

\* The taken bits tell the interval where all the numbers value may become are in it.
LEMMA InsideHere ==
  ASSUME NEW m, NEW f, NEW d, Proper(m, f, d), NEW n \in Nat, NEW u \in Nat,
         NEW off, NEW v, Placed(n, u, off, v, d)
  PROVE  Inside(n, u, d) <=> d.low <= v /\ v + pow2(off) <= d.high + 1
<1> DEFINE p == pow2(off)
           q == pow2(u)
           W == CodeValues
           S == Scale(d)
           a == From(d)
           b == To(d)
<1>1. off \in Nat /\ v \in Nat /\ u + off = CODE_VALUE_BITS + d.doubled /\ v + d.base = n * p
  BY DEF Placed
<1>2. W * S = p * q /\ W \in Nat /\ S \in Nat \ {0} /\ p \in Nat \ {0} /\ q \in Nat \ {0}
  BY <1>1, PlacesOf
<1>3. a \in Nat /\ b \in Nat
  BY ScaleIs
<1>4. /\ d.low \in Nat /\ d.high \in Nat /\ d.base \in Nat
      /\ a = d.low + d.base /\ b = d.high + 1 + d.base
  BY DEF Proper, States, From, To
<1>5. Inside(n, u, d) <=> a * q <= (n * W) * S /\ ((n + 1) * W) * S <= b * q
  BY DEF Inside
<1> HIDE DEF p, q, W, S, a, b
<1>6. ASSUME NEW k \in Nat PROVE (k * W) * S = (k * p) * q /\ k * p \in Nat
  <2>1. (k * W) * S = k * (W * S) /\ (k * p) * q = k * (p * q)
    BY <1>2
  <2> QED
    BY <1>2, <2>1
<1>7. n + 1 \in Nat /\ (n + 1) * p = n * p + p /\ n * p \in Nat /\ (n + 1) * p \in Nat
  BY <1>2
<1>8. a * q <= (n * p) * q <=> a <= n * p
  BY <1>2, <1>3, <1>7, Cancel
<1>9. ((n + 1) * p) * q <= b * q <=> (n + 1) * p <= b
  BY <1>2, <1>3, <1>7, Cancel
<1>10. Inside(n, u, d) <=> a <= n * p /\ (n + 1) * p <= b
  BY <1>5, <1>6, <1>7, <1>8, <1>9
<1>11. a <= n * p <=> d.low <= v
  <2> DEFINE x == n * p
             l == d.low
             z == d.base
  <2>1. x = v + z /\ a = l + z /\ l \in Nat /\ z \in Nat
    BY <1>1, <1>4
  <2> HIDE DEF x, l, z
  <2>2. a <= x <=> l <= v
    BY <1>1, <2>1
  <2> QED
    BY <2>2 DEF x, l
<1>12. (n + 1) * p <= b <=> v + p <= d.high + 1
  <2> DEFINE x == n * p
             y == (n + 1) * p
             t == d.high
             z == d.base
  <2>1. x = v + z /\ y = x + p /\ b = t + 1 + z /\ t \in Nat /\ z \in Nat
    BY <1>1, <1>4, <1>7
  <2> HIDE DEF x, y, t, z
  <2>2. y <= b <=> v + p <= t + 1
    BY <1>1, <1>2, <2>1
  <2> QED
    BY <2>2 DEF y, t
<1> QED
  BY <1>10, <1>11, <1>12 DEF p

\* When all the bits tell the interval, one of the numbers that value may become
\* is in it.
LEMMA Meets ==
  ASSUME NEW m, NEW f, NEW d, Proper(m, f, d), NEW b \in Seq({0, 1}),
         Inside(number(b)[Len(b)], Len(b), d), NEW u \in 0..Len(b),
         NEW off, NEW v, Placed(number(b)[u], u, off, v, d)
  PROVE  d.low < v + pow2(off) /\ v <= d.high
<1> DEFINE p == pow2(off)
           q == pow2(u)
           k == Len(b) - u
           r == pow2(k)
           W == CodeValues
           S == Scale(d)
           lo == From(d)
           hi == To(d)
           n == number(b)[u]
           N == number(b)[Len(b)]
<1>0. Len(b) \in Nat /\ Len(b) \in 0..Len(b) /\ k \in Nat /\ u \in Nat /\ u + k = Len(b)
  OBVIOUS
<1>1. off \in Nat /\ v \in Nat /\ u + off = CODE_VALUE_BITS + d.doubled /\ v + d.base = n * p
  BY DEF Placed
<1>2. W * S = p * q /\ W \in Nat /\ S \in Nat \ {0} /\ p \in Nat \ {0} /\ q \in Nat \ {0}
  BY <1>0, <1>1, PlacesOf
<1>3. lo \in Nat /\ hi \in Nat
  BY ScaleIs
<1>4. /\ d.low \in Nat /\ d.high \in Nat /\ d.base \in Nat
      /\ lo = d.low + d.base /\ hi = d.high + 1 + d.base
  BY DEF Proper, States, From, To
<1>5. r \in Nat \ {0} /\ pow2(Len(b)) = q * r
  <2>1. pow2(u + k) = pow2(u) * pow2(k)
    BY <1>0, Pow2Plus
  <2> QED
    BY <1>0, <2>1, Pow2Is
<1>6. n \in Nat /\ N \in Nat /\ n * r <= N /\ N + 1 <= (n + 1) * r
  <2>1. u + k <= Len(b) /\ number(b)[u + k] = N
    BY <1>0
  <2>2. /\ number(b)[u] * pow2(k) <= number(b)[u + k]
        /\ number(b)[u + k] + 1 <= (number(b)[u] + 1) * pow2(k)
    BY <1>0, <2>1, NumberOfMoreBits
  <2> QED
    BY <1>0, <2>1, <2>2, NumberIs
<1>7. lo * (q * r) <= (N * W) * S /\ ((N + 1) * W) * S <= hi * (q * r)
  BY <1>5 DEF Inside
<1> HIDE DEF p, q, k, r, W, S, lo, hi, n, N
<1>8. PICK M \in Nat \ {0} : M = q * r
  BY <1>2, <1>5
<1>9. PICK P \in Nat \ {0} : P = p * q
  BY <1>2
<1>10. (N * W) * S = N * P /\ ((N + 1) * W) * S = (N + 1) * P
  <2>1. (N * W) * S = N * (W * S) /\ ((N + 1) * W) * S = (N + 1) * (W * S)
    BY <1>2, <1>6
  <2> QED
    BY <1>2, <1>9, <2>1
<1>11. N * P \in Nat /\ (N + 1) * P = N * P + P
  BY <1>6, <1>9
<1>12. (n * r) * P <= N * P /\ (N + 1) * P <= ((n + 1) * r) * P
  <2>1. n * r \in Int /\ (n + 1) * r \in Int /\ N \in Int /\ N + 1 \in Int
    BY <1>5, <1>6
  <2> QED
    BY <1>6, <1>9, <2>1, Cancel
<1>13. (n * r) * P = (n * p) * M /\ ((n + 1) * r) * P = ((n + 1) * p) * M
  <2>1. ASSUME NEW i \in Nat PROVE (i * r) * P = (i * p) * M
    <3>1. (i * r) * (p * q) = (i * p) * (q * r)
      BY <1>2, <1>5
    <3> QED
      BY <1>8, <1>9, <3>1
  <2>2. n + 1 \in Nat
    BY <1>6
  <2> QED
    BY <1>6, <2>1, <2>2
<1>14. (n + 1) * p = n * p + p /\ n * p \in Nat /\ (n + 1) * p \in Nat
  BY <1>2, <1>6
<1>15. lo < (n + 1) * p
  <2> DEFINE x == (n + 1) * p
  <2>1. lo * M <= N * P /\ (N + 1) * P <= x * M
    BY <1>7, <1>8, <1>10, <1>12, <1>13
  <2>2. x \in Nat
    BY <1>14
  <2> HIDE DEF x
  <2>3. lo * M \in Nat /\ x * M \in Nat
    BY <1>3, <1>8, <2>2
  <2>4. ~(x * M <= lo * M)
    BY <1>9, <1>11, <2>1, <2>3
  <2>5. ~(x <= lo)
    BY <1>3, <1>8, <2>2, <2>4, Cancel
  <2>6. lo < x
    BY <1>3, <2>2, <2>5
  <2> QED
    BY <2>6 DEF x
<1>16. n * p < hi
  <2> DEFINE x == n * p
  <2>1. (N + 1) * P <= hi * M /\ x * M <= N * P
    BY <1>7, <1>8, <1>10, <1>12, <1>13
  <2>2. x \in Nat
    BY <1>14
  <2> HIDE DEF x
  <2>3. hi * M \in Nat /\ x * M \in Nat
    BY <1>3, <1>8, <2>2
  <2>4. ~(hi * M <= x * M)
    BY <1>9, <1>11, <2>1, <2>3
  <2>5. ~(hi <= x)
    BY <1>3, <1>8, <2>2, <2>4, Cancel
  <2>6. x < hi
    BY <1>3, <2>2, <2>5
  <2> QED
    BY <2>6 DEF x
<1>17. d.low < v + p /\ v <= d.high
  <2> DEFINE x == n * p
             l == d.low
             t == d.high
             z == d.base
  <2>1. /\ x = v + z /\ lo < x + p /\ x < hi /\ lo = l + z /\ hi = t + 1 + z
        /\ l \in Nat /\ t \in Nat /\ z \in Nat
    BY <1>1, <1>4, <1>14, <1>15, <1>16
  <2> HIDE DEF x, l, t, z
  <2>2. l < v + p /\ v <= t
    BY <1>1, <1>2, <1>3, <2>1
  <2> QED
    BY <2>2 DEF l, t
<1> QED
  BY <1>17 DEF p

\* A bit more.
LEMMA NextBit ==
  ASSUME NEW b \in Seq({0, 1}), NEW d, NEW u \in Nat, u < Len(b),
         NEW off, NEW v, Placed(number(b)[u], u, off, v, d), off # 0, d.base \in Nat,
         d.doubled \in Nat
  PROVE  /\ Placed(number(b)[u + 1], u + 1, off - 1, v + b[u + 1] * pow2(off - 1), d)
         /\ off - 1 \in Nat
         /\ v <= v + b[u + 1] * pow2(off - 1)
         /\ v + b[u + 1] * pow2(off - 1) + pow2(off - 1) <= v + pow2(off)
<1>1. /\ off \in Nat /\ v \in Nat /\ u + off = CODE_VALUE_BITS + d.doubled
      /\ v + d.base = number(b)[u] * pow2(off)
  BY DEF Placed
<1>2. off - 1 \in Nat /\ off = (off - 1) + 1
  BY <1>1
<1>3. pow2(off) = 2 * pow2(off - 1) /\ pow2(off - 1) \in Nat \ {0}
  <2>1. PICK i \in Nat : i = off - 1 /\ off = i + 1
    BY <1>2
  <2> QED
    BY <2>1, Pow2Is
<1>4. /\ u + 1 \in 1..Len(b) /\ u + 1 - 1 = u /\ u \in 0..Len(b) /\ u + 1 \in 0..Len(b)
      /\ b[u + 1] \in {0, 1}
  OBVIOUS
<1>5. /\ number(b)[u + 1] = 2 * number(b)[u] + b[u + 1]
      /\ number(b)[u] \in Nat
  BY <1>4, NumberIs
<1> DEFINE n == number(b)[u]
           x == b[u + 1]
           p == pow2(off - 1)
           z == d.base
<1>6. /\ n \in Nat /\ x \in {0, 1} /\ p \in Nat \ {0} /\ z \in Nat
      /\ v + z = n * (2 * p) /\ number(b)[u + 1] = 2 * n + x
  BY <1>1, <1>3, <1>4, <1>5
<1> HIDE DEF n, x, p, z
<1>7. x * p \in Nat /\ x * p + p <= 2 * p
  BY <1>6
<1>8. v + x * p + z = (2 * n + x) * p
  <2>1. (2 * n + x) * p = n * (2 * p) + x * p
    BY <1>6
  <2>2. n * (2 * p) \in Nat
    BY <1>6
  <2> QED
    BY <1>1, <1>6, <1>7, <2>1, <2>2
<1>9. (u + 1) + (off - 1) = CODE_VALUE_BITS + d.doubled
  <2>1. u + 1 + (off - 1) = u + off
    BY <1>1
  <2> QED
    BY <1>1, <2>1
<1>10. v <= v + x * p /\ v + x * p + p <= v + 2 * p /\ v + x * p \in Nat
  BY <1>1, <1>6, <1>7
<1> QED
  BY <1>2, <1>3, <1>6, <1>8, <1>9, <1>10 DEF Placed, n, x, p, z

-----------------------------------------------------------------------------
(* What is sent *)

\* The lesser of two numbers.
LEMMA MinOfTwo ==
  ASSUME NEW a \in Nat, NEW b \in Nat
  PROVE  Min({a, b}) = IF a <= b THEN a ELSE b
<1> DEFINE P(x) == x \in {a, b} /\ \A y \in {a, b} : x <= y
<1>1. Min({a, b}) = CHOOSE x \in {a, b} : \A y \in {a, b} : x <= y
  BY DEF Min
<1>2. \E x \in {a, b} : \A y \in {a, b} : x <= y
  OBVIOUS
<1>3. Min({a, b}) \in {a, b} /\ \A y \in {a, b} : Min({a, b}) <= y
  BY <1>1, <1>2
<1> QED
  BY <1>3

\* A model accepts values that are symbols of it, and makes room for one at least.
LEMMA ModelTypes ==
  ASSUME NEW m \in Models
  PROVE  /\ m.max_repeat \in Nat \ {0} /\ m.is_adaptive \in BOOLEAN
         /\ FieldsOf(m) \subseteq Seq(Symbols(m) \ {EOF_SYMBOL})
         /\ m.frequency \in Seq(Nat \ {0}) /\ m.frequency # << >>
BY ArithmeticAssumption DEF ModelType

\* What Next has sent.
LEMMA SentIsSendable ==
  ASSUME model \in Models, NEW f \in FieldsOf(model), FilledIfNecessary(f), OutOfRangeIsLast(f)
  PROVE  Sendable(model, f)
<1>1. f \in Seq(Symbols(model) \ {EOF_SYMBOL}) /\ Len(f) \in Nat /\ model.max_repeat \in Nat
  BY ModelTypes
<1>2. Min({Len(f), model.max_repeat}) =
        IF Len(f) <= model.max_repeat THEN Len(f) ELSE model.max_repeat
  BY <1>1, MinOfTwo
<1>3. ASSUME model.out_of_range_frequency = 0, NEW i \in 1..Len(f), i <= model.max_repeat,
             f[i] = OUT_OF_RANGE_SYMBOL
      PROVE  i = model.max_repeat /\ model.eof_frequency # 0
  <2>1. i \in 1..Min({Len(f), model.max_repeat})
    BY <1>1, <1>2, <1>3
  <2> QED
    BY <1>3, <2>1 DEF OutOfRangeIsLast
<1> QED
  BY <1>1, <1>3 DEF Sendable, FilledIfNecessary

\* The symbol that is encoded for the next value.
LEMMA StandsForIt ==
  ASSUME model \in Models, Sendable(model, field), value_index \in Nat,
         value_index <= Len(field), value_index < model.max_repeat,
         NEW s \in Symbols(model), stands_for(s, next_symbol)
  PROVE  s = SymbolAt(model, field, value_index)
<1> DEFINE ending == \/ next_symbol = EOF_SYMBOL
                     \/ next_symbol = OUT_OF_RANGE_SYMBOL /\ model.out_of_range_frequency = 0
           i == value_index
<1>1. /\ field \in Seq(Symbols(model) \ {EOF_SYMBOL}) /\ Len(field) \in Nat
      /\ model.max_repeat \in Nat
  BY ModelTypes DEF Sendable
<1>2. i < Len(field) => i + 1 \in 1..Len(field) /\ field[i + 1] # EOF_SYMBOL
  BY <1>1
<1>3. CASE ~ending
  <2>1. i < Len(field) /\ next_symbol = field[i + 1]
    BY <1>3 DEF next_symbol
  <2>2. SymbolAt(model, field, i) = field[i + 1]
    BY <1>3, <2>1 DEF SymbolAt
  <2> QED
    BY <1>3, <2>1, <2>2 DEF stands_for
<1>4. CASE ending
  <2>1. SymbolAt(model, field, i) = EOF_SYMBOL
    BY <1>2, <1>4 DEF SymbolAt, next_symbol
  <2>2. model.eof_frequency # 0
    <3>1. CASE i = Len(field)
      BY <1>1, <3>1 DEF Sendable
    <3>2. CASE i < Len(field)
      <4>1. /\ i + 1 \in 1..Len(field) /\ field[i + 1] = OUT_OF_RANGE_SYMBOL
            /\ model.out_of_range_frequency = 0 /\ i + 1 <= model.max_repeat
        BY <1>1, <1>2, <1>4, <3>2 DEF next_symbol
      <4> QED
        BY <4>1 DEF Sendable
    <3> QED
      BY <1>1, <3>1, <3>2
  <2> QED
    BY <1>4, <2>1, <2>2 DEF stands_for
<1> QED
  BY <1>3, <1>4

\* The symbol at a place is of the model and, unless it is EOF, that of the value.
LEMMA SymbolIsOne ==
  ASSUME NEW m \in Models, NEW f, Sendable(m, f), NEW i \in Nat
  PROVE  /\ SymbolAt(m, f, i) \in Symbols(m)
         /\ SymbolAt(m, f, i) # EOF_SYMBOL => i < Len(f) /\ SymbolAt(m, f, i) = f[i + 1]
         /\ f \in Seq(Symbols(m) \ {EOF_SYMBOL}) /\ Len(f) \in Nat
<1>1. f \in Seq(Symbols(m) \ {EOF_SYMBOL}) /\ Len(f) \in Nat
  BY DEF Sendable
<1>2. EOF_SYMBOL \in Symbols(m)
  <2>1. max_symbol(m) \in Nat
    BY ModelSymbols
  <2> QED
    BY <2>1 DEF Symbols, EOF_SYMBOL
<1>3. i < Len(f) => i + 1 \in 1..Len(f) /\ f[i + 1] \in Symbols(m)
  BY <1>1
<1> QED
  BY <1>1, <1>2, <1>3 DEF SymbolAt

\* The first values of a sequence.
LEMMA SubSeqTypes ==
  ASSUME NEW S, NEW f \in Seq(S), NEW n \in 0..Len(f)
  PROVE  /\ SubSeq(f, 1, n) \in Seq(S) /\ Len(SubSeq(f, 1, n)) = n
         /\ \A i \in 1..n : SubSeq(f, 1, n)[i] = f[i]
OBVIOUS

\* Sequences are equal when their members are.
LEMMA SameSequence ==
  ASSUME NEW S, NEW f \in Seq(S), NEW g \in Seq(S), Len(f) = Len(g),
         \A i \in 1..Len(f) : f[i] = g[i]
  PROVE  f = g
OBVIOUS

\* One more of the first values.
LEMMA GrowingSubSeq ==
  ASSUME NEW S, NEW f \in Seq(S), NEW n \in Nat, n < Len(f)
  PROVE  Append(SubSeq(f, 1, n), f[n + 1]) = SubSeq(f, 1, n + 1)
<1>1. n \in 0..Len(f) /\ n + 1 \in 0..Len(f) /\ n + 1 \in 1..Len(f) /\ f[n + 1] \in S
  OBVIOUS
<1> DEFINE g == SubSeq(f, 1, n)
           h == SubSeq(f, 1, n + 1)
           a == Append(g, f[n + 1])
<1>2. g \in Seq(S) /\ Len(g) = n /\ \A i \in 1..n : g[i] = f[i]
  BY <1>1, SubSeqTypes
<1>3. h \in Seq(S) /\ Len(h) = n + 1 /\ \A i \in 1..n + 1 : h[i] = f[i]
  BY <1>1, SubSeqTypes
<1> HIDE DEF g, h
<1>4. a \in Seq(S) /\ Len(a) = n + 1 /\ a[n + 1] = f[n + 1] /\ \A i \in 1..n : a[i] = g[i]
  BY <1>1, <1>2
<1> HIDE DEF a
<1>5. ASSUME NEW i \in 1..n + 1 PROVE a[i] = h[i]
  <2>1. i \in 1..n \/ i = n + 1
    OBVIOUS
  <2> QED
    BY <1>2, <1>3, <1>4, <2>1
<1>6. a = h
  BY <1>3, <1>4, <1>5, SameSequence
<1> QED
  BY <1>6 DEF a, g, h

\* What arrives of a field whose value number i + 1 is encoded as EOF: the first i.
LEMMA ArrivesBeforeEof ==
  ASSUME model \in Models, Sendable(model, field), NEW i \in Nat, i < model.max_repeat,
         i <= Len(field), SymbolAt(model, field, i) = EOF_SYMBOL
  PROVE  arriving_values = SubSeq(field, 1, i)
<1> DEFINE S == Symbols(model) \ {EOF_SYMBOL}
           r == model.max_repeat
           n == Min({Len(field), r})
           f == SubSeq(field, 1, n)
           none == model.out_of_range_frequency = 0
<1>1. field \in Seq(S) /\ Len(field) \in Nat /\ r \in Nat
  BY ModelTypes DEF Sendable
<1>2. n = IF Len(field) <= r THEN Len(field) ELSE r
  BY <1>1, MinOfTwo
<1>3. n \in 0..Len(field)
  BY <1>1, <1>2
<1> HIDE DEF n
<1>4. f \in Seq(S) /\ Len(f) = n /\ \A j \in 1..n : f[j] = field[j]
  BY <1>1, <1>3, SubSeqTypes
<1>5. arriving_values = IF f # << >> /\ Last(f) = OUT_OF_RANGE_SYMBOL /\ none
                          THEN Front(f) ELSE f
  BY DEF arriving_values, n
<1>6. Last(f) = f[Len(f)] /\ Front(f) = SubSeq(f, 1, Len(f) - 1)
  BY DEF Last, Front
<1> HIDE DEF f
<1>7. f # << >> => n >= 1
  BY <1>1, <1>3, <1>4
<1>8. CASE i = Len(field)
  <2>1. n = i
    BY <1>1, <1>2, <1>8
  <2>2. ~(f # << >> /\ Last(f) = OUT_OF_RANGE_SYMBOL /\ none)
    <3> SUFFICES ASSUME f # << >>, Last(f) = OUT_OF_RANGE_SYMBOL, none PROVE FALSE
      OBVIOUS
    <3>1. n \in 1..Len(field) /\ n <= r /\ n # r /\ field[n] = OUT_OF_RANGE_SYMBOL
      BY <1>1, <1>2, <1>3, <1>4, <1>6, <1>7, <2>1
    <3> QED
      BY <3>1 DEF Sendable
  <2> QED
    BY <1>5, <2>1, <2>2 DEF f
<1>9. CASE i < Len(field)
  <2>1. i + 1 \in 1..Len(field) /\ field[i + 1] # EOF_SYMBOL
    BY <1>1, <1>9
  <2>2. field[i + 1] = OUT_OF_RANGE_SYMBOL /\ none
    BY <1>9, <2>1 DEF SymbolAt
  <2>3. i + 1 = r
    BY <1>1, <2>1, <2>2 DEF Sendable
  <2>4. n = i + 1
    BY <1>1, <1>2, <2>1, <2>3
  <2>5. f # << >> /\ Last(f) = OUT_OF_RANGE_SYMBOL
    BY <1>4, <1>6, <2>2, <2>4
  <2>6. arriving_values = SubSeq(f, 1, i)
    BY <1>4, <1>5, <1>6, <2>2, <2>4, <2>5
  <2>7. i \in 0..Len(f) /\ i \in 0..Len(field) /\ i <= n
    BY <1>1, <1>4, <2>1, <2>4
  <2>8. /\ SubSeq(f, 1, i) \in Seq(S) /\ Len(SubSeq(f, 1, i)) = i
        /\ \A j \in 1..i : SubSeq(f, 1, i)[j] = f[j]
    BY <1>4, <2>7, SubSeqTypes
  <2>9. /\ SubSeq(field, 1, i) \in Seq(S) /\ Len(SubSeq(field, 1, i)) = i
        /\ \A j \in 1..i : SubSeq(field, 1, i)[j] = field[j]
    BY <1>1, <2>7, SubSeqTypes
  <2>10. \A j \in 1..i : f[j] = field[j]
    BY <1>4, <2>4
  <2>11. SubSeq(f, 1, i) = SubSeq(field, 1, i)
    <3> DEFINE a == SubSeq(f, 1, i)
               b == SubSeq(field, 1, i)
    <3>1. a \in Seq(S) /\ b \in Seq(S) /\ Len(a) = Len(b) /\ \A j \in 1..Len(a) : a[j] = b[j]
      BY <2>8, <2>9, <2>10
    <3> HIDE DEF a, b
    <3>2. a = b
      BY <3>1, SameSequence
    <3> QED
      BY <3>2 DEF a, b
  <2> QED
    BY <2>6, <2>11
<1> QED
  BY <1>1, <1>8, <1>9

\* And of one that there is no EOF in: max_repeat values.
LEMMA ArrivesInFull ==
  ASSUME model \in Models, Sendable(model, field), NEW i \in Nat, i + 1 = model.max_repeat,
         SymbolAt(model, field, i) # EOF_SYMBOL
  PROVE  arriving_values = SubSeq(field, 1, i + 1)
<1> DEFINE S == Symbols(model) \ {EOF_SYMBOL}
           r == model.max_repeat
           n == Min({Len(field), r})
           f == SubSeq(field, 1, n)
<1>1. field \in Seq(S) /\ Len(field) \in Nat /\ r \in Nat /\ i < Len(field)
  BY ModelTypes, SymbolIsOne
<1>2. n = IF Len(field) <= r THEN Len(field) ELSE r
  BY <1>1, MinOfTwo
<1>3. n = i + 1 /\ n \in 0..Len(field)
  BY <1>1, <1>2
<1> HIDE DEF n
<1>4. f \in Seq(S) /\ Len(f) = n /\ \A j \in 1..n : f[j] = field[j]
  BY <1>1, <1>3, SubSeqTypes
<1>5. arriving_values = IF f # << >> /\ Last(f) = OUT_OF_RANGE_SYMBOL
                             /\ model.out_of_range_frequency = 0
                          THEN Front(f) ELSE f
  BY DEF arriving_values, n
<1>6. Last(f) = f[Len(f)]
  BY DEF Last
<1> HIDE DEF f
<1>7. Last(f) = field[i + 1]
  BY <1>3, <1>4, <1>6
<1>8. ~(field[i + 1] = OUT_OF_RANGE_SYMBOL /\ model.out_of_range_frequency = 0)
  BY <1>1 DEF SymbolAt
<1> QED
  BY <1>3, <1>5, <1>7, <1>8 DEF f

-----------------------------------------------------------------------------
(* The decoder's number *)

\* Whatever bits arrive, the numbers that value may become are in the interval.
InInterval(v, off, l, h) == off \in Nat /\ v \in Nat /\ l <= v /\ v + pow2(off) <= h + 1

\* The bits that the decoder takes at once are there and fit in a code value.
MinimumArrives ==
  pc = "sent" =>
    /\ min_size_repeated(model) \in 0..CODE_VALUE_BITS
    /\ min_size_repeated(model) <= Len(bits)

\* The highest number value may become is in the interval.
LEMMA ValueHighIs ==
  ASSUME low \in Nat, high \in Nat, InInterval(value, bit_stream_offset, low, high)
  PROVE  /\ value_high = value + pow2(bit_stream_offset) - 1
         /\ value \in low..high /\ value_high \in low..high
         /\ bit_stream_offset = 0 => value_high = value
<1> DEFINE p == pow2(bit_stream_offset)
<1>1. /\ p \in Nat \ {0} /\ value \in Nat /\ low <= value /\ value + p <= high + 1
      /\ bit_stream_offset \in Nat /\ (bit_stream_offset = 0 => p = 1)
  BY Pow2Is DEF InInterval
<1>2. value_high = value + (IF bit_stream_offset > 0 THEN p - 1 ELSE 0)
  BY DEF value_high
<1> HIDE DEF p
<1>3. /\ value_high = value + p - 1 /\ value \in low..high /\ value_high \in low..high
      /\ bit_stream_offset = 0 => value_high = value
  BY <1>1, <1>2
<1> QED
  BY <1>3 DEF p

\* The numbers that value may become belong to the symbol that is decoded.
LEMMA DecodedIs ==
  ASSUME IInv, InInterval(value, bit_stream_offset, low, high),
         NEW s \in Symbols(model), first_symbol(s), Unambiguous(s)
  PROVE  /\ PartFrom(model, DecoderCounts, s, Numbers) <= value - low
         /\ value - low + pow2(bit_stream_offset) <= PartTo(model, DecoderCounts, s, Numbers)
         /\ PartFrom(model, DecoderCounts, s, Numbers) \in Nat
         /\ PartTo(model, DecoderCounts, s, Numbers) \in Nat
<1>1. /\ low \in Nat /\ high \in Nat /\ low <= high
      /\ model \in Models /\ DecoderCounts \in Counts(model)
  BY DEF IInv, IntervalOK, CountsOK, DecoderCounts
<1>2. /\ value_high = value + pow2(bit_stream_offset) - 1
      /\ value \in low..high /\ value_high \in low..high
  BY <1>1, ValueHighIs
<1>3. PartFrom(model, DecoderCounts, s, Numbers) <= value - low
  BY <1>2, FirstSymbolIs
<1>4. value_high - low < PartTo(model, DecoderCounts, s, Numbers)
  BY <1>2, UnambiguousIs
<1>5. /\ PartFrom(model, DecoderCounts, s, Numbers) \in Nat
      /\ PartTo(model, DecoderCounts, s, Numbers) \in Nat
  <2>1. /\ DecoderCounts[max_symbol(model)] \in Nat \ {0}
        /\ below(DecoderCounts, s) \in Nat /\ DecoderCounts[s] \in Nat
        /\ below(DecoderCounts, s) <= DecoderCounts[s]
    BY <1>1, CountsFit
  <2>2. Numbers \in Nat
    BY <1>1 DEF Numbers
  <2> QED
    BY <2>1, <2>2, PartsOrder DEF PartFrom, PartTo
<1> DEFINE p == pow2(bit_stream_offset)
           x == PartTo(model, DecoderCounts, s, Numbers)
<1>6. p \in Nat \ {0} /\ x \in Nat /\ value_high = value + p - 1 /\ value \in Int
      /\ value_high - low < x
  BY <1>2, <1>4, <1>5, Pow2Is DEF InInterval
<1> HIDE DEF p, x
<1>7. value - low + p <= x
  BY <1>1, <1>6
<1> QED
  BY <1>3, <1>5, <1>7 DEF p, x

\* Narrowing to the certain symbol keeps the numbers value may become in the interval.
LEMMA NarrowValue ==
  ASSUME IInv, InInterval(value, bit_stream_offset, low, high),
         NEW s \in Symbols(model), first_symbol(s), Unambiguous(s), Narrow("decoder", s)
  PROVE  /\ InInterval(value, bit_stream_offset, low', high')
         /\ low' = low + PartFrom(model, DecoderCounts, s, Numbers)
         /\ high' = low + PartTo(model, DecoderCounts, s, Numbers) - 1
<1> DEFINE x == PartFrom(model, DecoderCounts, s, Numbers)
           y == PartTo(model, DecoderCounts, s, Numbers)
           p == pow2(bit_stream_offset)
<1>1. low' = low + x /\ high' = low + y - 1
  BY DEF Narrow, PartFrom, PartTo, total_freq, DecoderCounts, Numbers
<1>2. x <= value - low /\ value - low + p <= y /\ x \in Nat /\ y \in Nat
  BY DecodedIs
<1>3. low \in Nat /\ value \in Nat /\ p \in Nat /\ bit_stream_offset \in Nat
  BY Pow2Is DEF IInv, IntervalOK, InInterval
<1> HIDE DEF x, y, p
<1>4. low + x <= value /\ value + p <= (low + y - 1) + 1
  BY <1>2, <1>3
<1> QED
  BY <1>1, <1>3, <1>4 DEF InInterval, x, y, p

\* It takes a bit only while there is more than one number.
LEMMA AmbiguousNumbers ==
  ASSUME IInv, InInterval(value, bit_stream_offset, low, high),
         NEW s \in Symbols(model), first_symbol(s), ~Unambiguous(s)
  PROVE  bit_stream_offset # 0
<1>1. low \in Nat /\ high \in Nat
  BY DEF IInv, IntervalOK
<1>2. /\ value \in low..high /\ value_high \in low..high
      /\ bit_stream_offset = 0 => value_high = value
  BY <1>1, ValueHighIs
<1>3. value - low < PartTo(model, DecoderCounts, s, Numbers)
  BY <1>2, FirstSymbolIs
<1>4. ~(value_high - low < PartTo(model, DecoderCounts, s, Numbers))
  BY <1>2, UnambiguousIs
<1> QED
  BY <1>2, <1>3, <1>4

\* One more bit leaves half of the numbers value may become, in the interval still.
LEMMA TakeBit ==
  ASSUME NEW v, NEW off, NEW l \in Nat, NEW h \in Nat, InInterval(v, off, l, h), off # 0,
         NEW x \in {0, 1}
  PROVE  off - 1 \in Nat /\ InInterval(v + x * pow2(off - 1), off - 1, l, h)
<1>1. off \in Nat /\ v \in Nat /\ l <= v /\ v + pow2(off) <= h + 1
  BY DEF InInterval
<1>2. off - 1 \in Nat
  BY <1>1
<1>3. pow2(off) = 2 * pow2(off - 1) /\ pow2(off - 1) \in Nat \ {0}
  <2>1. PICK i \in Nat : i = off - 1 /\ off = i + 1
    BY <1>1, <1>2
  <2> QED
    BY <2>1, Pow2Is
<1> DEFINE p == pow2(off - 1)
<1>4. p \in Nat /\ v + 2 * p <= h + 1
  BY <1>1, <1>3
<1> HIDE DEF p
<1>5. x * p \in Nat /\ x * p + p <= 2 * p
  BY <1>4
<1>6. v + x * p \in Nat /\ l <= v + x * p /\ (v + x * p) + p <= h + 1
  BY <1>1, <1>4, <1>5
<1> QED
  BY <1>2, <1>6 DEF InInterval, p

\* Doubling keeps them in it.
LEMMA DoubleValue ==
  ASSUME IInv, Double, NEW v, NEW off, InInterval(v, off, low, high)
  PROVE  /\ InInterval(2 * (v - doubling_origin), off + 1, low', high')
         /\ doubling_origin \in Nat /\ doubling_origin <= low
<1>1. FIRST_QTR \in Nat \ {0}
  BY Quarter
<1>2. off \in Nat /\ v \in Nat /\ low <= v /\ v + pow2(off) <= high + 1
  BY DEF InInterval
<1>3. off + 1 \in Nat /\ pow2(off + 1) = 2 * pow2(off) /\ pow2(off) \in Nat
  BY <1>2, Pow2Is
<1>4. low \in Nat /\ high \in Nat
  BY DEF IInv, IntervalOK
<1>5. doubling_origin \in Nat /\ doubling_origin <= low
  <2> HIDE DEF FIRST_QTR
  <2> QED
    BY <1>1, <1>4 DEF Double, Doubles, doubling_origin, InLower, InUpper, InMiddle, HALF
<1> DEFINE o == doubling_origin
           p == pow2(off)
<1>6. low' = 2 * (low - o) /\ high' = 2 * (high - o) + 1
  BY DEF Double
<1> HIDE DEF o, p
<1>7. 2 * (v - o) \in Nat /\ 2 * (low - o) <= 2 * (v - o)
      /\ 2 * (v - o) + 2 * p <= (2 * (high - o) + 1) + 1
  BY <1>2, <1>3, <1>4, <1>5 DEF o, p
<1> QED
  BY <1>3, <1>5, <1>6, <1>7 DEF InInterval, o, p

\* The types of everything, and the decoder's number in the interval.
FieldOK ==
  /\ field \in Seq(Symbols(model) \ {EOF_SYMBOL})
  /\ pc \in {"idle", "encode", "emit", "finish", "sent", "decode", "shift", "decoded", "thrown"}
  /\ value_index \in Nat /\ value_index <= model.max_repeat
  /\ pc \in {"encode", "emit", "decode", "shift"} => value_index < model.max_repeat

OutputOK == bits \in Seq({0, 1}) /\ bits_to_follow \in Nat

InputOK ==
  /\ value \in Nat /\ value <= TOP_VALUE /\ bit_stream_offset \in Int
  /\ stream \in Seq({0, 1}) /\ used \in Nat
  /\ values \in Seq(Symbols(model) \ {EOF_SYMBOL})
  /\ pc \in {"decode", "shift"} => InInterval(value, bit_stream_offset, low, high)

RestOK == lost \in BOOLEAN /\ messages \in Nat /\ messages <= MaxMessages

\* Between two messages everything is as in the beginning.
FreshOK ==
  pc = "idle" =>
    value_index = 0 /\ low = 0 /\ high = TOP_VALUE /\ bits_to_follow = 0 /\ bits = << >>

Types == FieldOK /\ OutputOK /\ InputOK /\ RestOK /\ FreshOK

TInv == IInv /\ Types

\* What the definitions of constants are is the same in the next state.
LEMMA SameConstants ==
  /\ TOP_VALUE' = TOP_VALUE /\ EOF_SYMBOL' = EOF_SYMBOL /\ HALF' = HALF
  /\ model' = model => Symbols(model)' = Symbols(model) /\ model.max_repeat' = model.max_repeat
BY DEF TOP_VALUE, FIRST_QTR, EOF_SYMBOL, HALF, Symbols, max_symbol

\* A sender that has not sent anything.
LEMMA InitTInv == Init => TInv
<1> SUFFICES ASSUME Init PROVE TInv
  OBVIOUS
<1>1. IInv
  BY InitIInv
<1>2. TOP_VALUE \in Nat
  <2>1. FIRST_QTR \in Nat \ {0}
    BY Quarter
  <2> HIDE DEF FIRST_QTR
  <2> QED
    BY <2>1 DEF TOP_VALUE
<1>3. model.max_repeat \in Nat \ {0} /\ MaxMessages \in Nat
  BY <1>1, ModelTypes, ArithmeticAssumption DEF IInv, CountsOK
<1>4. FieldOK /\ OutputOK /\ RestOK /\ FreshOK
  <2>1. FieldOK
    BY <1>3 DEF Init, FieldOK
  <2>2. OutputOK
    BY DEF Init, OutputOK
  <2>3. RestOK
    <3>1. lost \in BOOLEAN
      BY DEF Init
    <3>2. messages = 0
      BY DEF Init
    <3>3. messages \in Nat /\ messages <= MaxMessages
      BY <1>3, <3>2
    <3> QED
      BY <3>1, <3>3 DEF RestOK
  <2>4. FreshOK
    BY DEF Init, FreshOK
  <2> QED
    BY <2>1, <2>2, <2>3, <2>4
<1>5. InputOK
  BY <1>2 DEF Init, InputOK
<1> QED
  BY <1>1, <1>4, <1>5 DEF TInv, Types

\* The first bits as a code value.
LEMMA LeadingValueIs ==
  ASSUME NEW b \in Seq({0, 1}), NEW d \in Seq({0, 1}), NEW n \in 0..CODE_VALUE_BITS,
         n <= Len(b), n <= Len(d), \A j \in 1..n : b[j] = d[j]
  PROVE  /\ leading_value(SubSeq(b, 1, n)) = number(d)[n] * pow2(CODE_VALUE_BITS - n)
         /\ CODE_VALUE_BITS - n \in Nat
         /\ InInterval(leading_value(SubSeq(b, 1, n)), CODE_VALUE_BITS - n, 0, TOP_VALUE)
         /\ leading_value(SubSeq(b, 1, n)) <= TOP_VALUE
<1> DEFINE c == SubSeq(b, 1, n)
           k == CODE_VALUE_BITS - n
           p == pow2(k)
           r == number(d)[n]
<1>1. CODE_VALUE_BITS \in Nat /\ n \in Nat /\ k \in Nat /\ n \in 0..Len(b) /\ n \in 0..Len(d)
  BY ArithmeticAssumption
<1>2. c \in Seq({0, 1}) /\ Len(c) = n /\ \A j \in 1..n : c[j] = b[j]
  BY <1>1, SubSeqTypes
<1>3. Min({Len(c), CODE_VALUE_BITS}) = n
  BY <1>1, <1>2, MinOfTwo
<1>4. leading_value(c) = number(c)[n] * p
  BY <1>3 DEF leading_value
<1> HIDE DEF c
<1>5. number(c)[n] = r
  <2>1. n <= Len(c) /\ n <= Len(d) /\ n \in Nat /\ n \in 0..n /\ \A j \in 1..n : c[j] = d[j]
    BY <1>1, <1>2
  <2> QED
    BY <1>2, <2>1, NumberOfPrefix
<1>6. r \in Nat /\ r + 1 <= pow2(n) /\ pow2(n) \in Nat \ {0}
  <2>1. 0 + n <= Len(d) /\ 0 \in Nat /\ 0 + n = n
    BY <1>1
  <2>2. number(d)[0 + n] + 1 <= (number(d)[0] + 1) * pow2(n)
    BY <1>1, <2>1, NumberOfMoreBits
  <2>3. number(d)[0] = 0 /\ r \in Nat /\ pow2(n) \in Nat \ {0}
    BY <1>1, NumberIs, Pow2Is
  <2> QED
    BY <2>1, <2>2, <2>3
<1>7. p \in Nat \ {0} /\ pow2(n) * p = CodeValues
  <2>1. n + k = CODE_VALUE_BITS
    BY <1>1
  <2>2. pow2(n + k) = pow2(n) * pow2(k)
    BY <1>1, Pow2Plus
  <2> QED
    BY <1>1, <2>1, <2>2, Pow2Is, CodeValuesIs
<1>8. TOP_VALUE + 1 = CodeValues /\ CodeValues \in Nat
  BY CodeValuesIs DEF CodeValues
<1> DEFINE q == pow2(n)
           W == CodeValues
           v == leading_value(c)
<1>9. v = r * p
  BY <1>4, <1>5
<1> HIDE DEF p, r, q, v, W
<1>10. r * p \in Nat /\ (r + 1) * p = r * p + p /\ (r + 1) * p <= q * p
  <2>1. r \in Nat /\ p \in Nat \ {0} /\ q \in Nat /\ r + 1 \in Int /\ r + 1 <= q
    BY <1>6, <1>7 DEF q
  <2>2. (r + 1) * p <= q * p
    BY <2>1, Cancel
  <2> QED
    BY <2>1, <2>2
<1>11. v \in Nat /\ v + p <= W
  BY <1>7, <1>9, <1>10 DEF q, W
<1>12. TOP_VALUE = W - 1 /\ W \in Nat
  BY <1>8, CodeValuesIs DEF W
<1>13. 0 <= v /\ v + p <= TOP_VALUE + 1 /\ v <= TOP_VALUE
  <2> HIDE DEF TOP_VALUE
  <2> QED
    BY <1>7, <1>11, <1>12
<1> QED
  BY <1>1, <1>9, <1>11, <1>13 DEF InInterval, v, c, p, r

\* Every step keeps the types, if the bits taken at once are there.
LEMMA NextTInv == TInv /\ MinimumArrives /\ [Next]_vars => TInv'
<1> SUFFICES ASSUME TInv, MinimumArrives, [Next]_vars PROVE TInv'
  OBVIOUS
<1>1. IInv /\ IInv'
  BY NextIInv DEF TInv
<1>0. SUFFICES Types'
  BY <1>1 DEF TInv
<1>2. /\ model \in Models /\ low \in Nat /\ high \in Nat /\ high <= TOP_VALUE
      /\ low' \in Nat /\ high' \in Nat /\ high' <= TOP_VALUE
  BY <1>1, SameConstants DEF IInv, IntervalOK, CountsOK
<1>3. model.max_repeat \in Nat \ {0} /\ MaxMessages \in Nat
  BY <1>2, ModelTypes, ArithmeticAssumption
<1>4. model' = model
  BY DEF Next, Work, StartEncode, EncodeSymbol, EmitBit, SymbolEncoded, FinishEncode, Lose,
         StartDecode, GetBit, DecodeSymbol, ShiftBit, SymbolDecoded, EndDecode, EndMessage, vars
<1>5. Symbols(model)' = Symbols(model) /\ EOF_SYMBOL' = EOF_SYMBOL /\ TOP_VALUE' = TOP_VALUE
  BY <1>4, SameConstants
<1>6. TOP_VALUE \in Nat
  <2>1. FIRST_QTR \in Nat \ {0}
    BY Quarter
  <2> HIDE DEF FIRST_QTR
  <2> QED
    BY <2>1 DEF TOP_VALUE
<1> HIDE DEF TOP_VALUE
<1> USE DEF TInv
<1>7. FieldOK /\ OutputOK /\ InputOK /\ RestOK /\ FreshOK
  BY DEF Types
\* Encoding leaves the decoder's part alone.
<1>8. ASSUME UNCHANGED <<input, lost, messages>>, pc' \notin {"decode", "shift"}
      PROVE  InputOK' /\ RestOK'
  BY <1>4, <1>5, <1>7, <1>8 DEF InputOK, RestOK, input
<1>9. ASSUME NEW b, NEW n \in Nat, b \in {0, 1} PROVE bit_plus_follow(b, n) \in Seq({0, 1})
  <2> DEFINE y == [i \in 1..n |-> 1 - b]
  <2>2. y \in Seq({0, 1}) /\ << b >> \in Seq({0, 1})
    BY <1>9
  <2> QED
    BY <2>2 DEF bit_plus_follow
<1>10. ASSUME NEW f \in FieldsOf(model), StartEncode(f) PROVE Types'
  <2>1. f \in Seq(Symbols(model) \ {EOF_SYMBOL})
    BY <1>2, ModelTypes
  <2>2. FieldOK' /\ OutputOK' /\ FreshOK'
    BY <1>3, <1>4, <1>5, <1>7, <1>10, <2>1
       DEF StartEncode, FieldOK, OutputOK, FreshOK, interval, output
  <2>3. InputOK' /\ RestOK'
    BY <1>3, <1>4, <1>5, <1>7, <1>10 DEF StartEncode, InputOK, RestOK, input
  <2> QED
    BY <2>2, <2>3 DEF Types
<1>11. CASE EncodeSymbol
  <2>1. InputOK' /\ RestOK'
    BY <1>8, <1>11 DEF EncodeSymbol
  <2>2. FieldOK' /\ OutputOK' /\ FreshOK'
    BY <1>4, <1>5, <1>7, <1>11 DEF EncodeSymbol, FieldOK, OutputOK, FreshOK, output
  <2> QED
    BY <2>1, <2>2 DEF Types
<1>12. CASE EmitBit
  <2>1. InputOK' /\ RestOK'
    BY <1>8, <1>12 DEF EmitBit
  <2>2. FieldOK' /\ FreshOK'
    BY <1>4, <1>5, <1>7, <1>12 DEF EmitBit, FieldOK, FreshOK
  <2>3. OutputOK'
    <3>1. CASE InMiddle
      BY <1>7, <1>12, <3>1 DEF EmitBit, OutputOK
    <3>2. CASE ~InMiddle
      <4>1. PICK x \in {0, 1} : bits' = bits \o bit_plus_follow(x, bits_to_follow)
        BY <1>12, <3>2 DEF EmitBit
      <4>2. bit_plus_follow(x, bits_to_follow) \in Seq({0, 1})
        BY <1>7, <1>9 DEF OutputOK
      <4>3. bits' \in Seq({0, 1})
        BY <1>7, <4>1, <4>2 DEF OutputOK
      <4> QED
        BY <1>12, <3>2, <4>3 DEF EmitBit, OutputOK
    <3> QED
      BY <3>1, <3>2
  <2> QED
    BY <2>1, <2>2, <2>3 DEF Types
<1>13. CASE SymbolEncoded
  <2>1. InputOK' /\ RestOK'
    BY <1>8, <1>13 DEF SymbolEncoded
  <2>2. FieldOK'
    BY <1>3, <1>4, <1>5, <1>7, <1>13 DEF SymbolEncoded, FieldOK
  <2>3. OutputOK' /\ FreshOK'
    BY <1>7, <1>13 DEF SymbolEncoded, OutputOK, FreshOK, output
  <2> QED
    BY <2>1, <2>2, <2>3 DEF Types
<1>14. CASE FinishEncode
  <2>1. InputOK' /\ RestOK'
    BY <1>8, <1>14 DEF FinishEncode
  <2>2. FieldOK' /\ FreshOK'
    BY <1>4, <1>5, <1>7, <1>14 DEF FinishEncode, FieldOK, FreshOK
  <2>3. final_bits \in Seq({0, 1})
    <3>1. bits_to_follow \in Nat /\ bits_to_follow + 1 \in Nat
      BY <1>7 DEF OutputOK
    <3>2. \A b \in {0, 1} : /\ bit_plus_follow(b, bits_to_follow) \in Seq({0, 1})
                            /\ bit_plus_follow(b, bits_to_follow + 1) \in Seq({0, 1})
      BY <1>9, <3>1
    <3>3. << >> \in Seq({0, 1})
      OBVIOUS
    <3> QED
      BY <3>2, <3>3 DEF final_bits
  <2>4. bits' \in Seq({0, 1})
    BY <1>7, <1>14, <2>3 DEF FinishEncode, OutputOK
  <2>5. OutputOK'
    BY <1>14, <2>4 DEF FinishEncode, OutputOK
  <2> QED
    BY <2>1, <2>2, <2>5 DEF Types
<1>15. ASSUME EndMessage, lost' \in BOOLEAN PROVE Types'
  <2>1. FieldOK'
    BY <1>3, <1>4, <1>5, <1>15 DEF EndMessage, FieldOK
  <2>2. OutputOK' /\ FreshOK'
    BY <1>5, <1>15 DEF EndMessage, OutputOK, FreshOK
  <2>3. InputOK' /\ RestOK'
    BY <1>5, <1>6, <1>7, <1>15 DEF EndMessage, InputOK, RestOK
  <2> QED
    BY <2>1, <2>2, <2>3 DEF Types
<1>16. CASE Lose
  BY <1>15, <1>16 DEF Lose
<1>17. CASE EndDecode
  BY <1>7, <1>15, <1>17 DEF EndDecode, RestOK
<1>18. ASSUME NEW tail \in Tails, StartDecode(tail) PROVE Types'
  <2> DEFINE arrived == bits \o tail
             n == min_size_repeated(model)
  <2>1. tail \in Seq({0, 1}) /\ bits \in Seq({0, 1}) /\ n \in 0..CODE_VALUE_BITS /\ n <= Len(bits)
    BY <1>7, <1>18, ArithmeticAssumption DEF OutputOK, MinimumArrives, StartDecode
  <2>2. /\ arrived \in Seq({0, 1}) /\ Len(arrived) = Len(bits) + Len(tail)
        /\ n \in Nat /\ n <= Len(arrived) /\ ~(Len(arrived) < n)
    BY <2>1, ArithmeticAssumption
  <2>3. OutputOK' /\ RestOK'
    BY <1>7, <1>18 DEF StartDecode, OutputOK, RestOK, output
  <2>4. /\ value' = leading_value(SubSeq(arrived, 1, n))
        /\ bit_stream_offset' = CODE_VALUE_BITS - n
        /\ stream' = SubSeq(arrived, n + 1, Len(arrived))
        /\ used' = n /\ values' = << >> /\ low' = 0 /\ high' = TOP_VALUE
        /\ value_index' = 0 /\ pc' = "decode"
    BY <1>18, <2>2 DEF StartDecode
  <2>5. FieldOK' /\ FreshOK'
    BY <1>3, <1>4, <1>5, <1>7, <1>18, <2>4 DEF StartDecode, FieldOK, FreshOK
  <2> HIDE DEF arrived, n
  <2>6. /\ InInterval(value', bit_stream_offset', low', high') /\ value' <= TOP_VALUE
        /\ bit_stream_offset' \in Nat
    BY <2>1, <2>2, <2>4, LeadingValueIs
  <2>7. stream' \in Seq({0, 1})
    BY <2>2, <2>4
  <2>8. value' \in Nat
    BY <2>6 DEF InInterval
  <2>9. InputOK'
    BY <1>5, <2>1, <2>2, <2>4, <2>6, <2>7, <2>8 DEF InputOK
  <2> QED
    BY <2>3, <2>5, <2>9 DEF Types
<1>19. CASE GetBit
  <2>1. InInterval(value, bit_stream_offset, low, high)
    BY <1>7, <1>19 DEF GetBit, InputOK
  <2>2. bit_stream_offset # 0
    <3>1. PICK s \in Symbols(model) : first_symbol(s) /\ ~Unambiguous(s)
      BY <1>19 DEF GetBit
    <3> QED
      BY <1>1, <2>1, <3>1, AmbiguousNumbers
  <2>3. OutputOK' /\ RestOK'
    BY <1>7, <1>19 DEF GetBit, OutputOK, RestOK, output
  <2>4. FieldOK' /\ FreshOK'
    BY <1>4, <1>5, <1>7, <1>19 DEF GetBit, FieldOK, FreshOK
  <2>5. CASE stream = << >>
    <3>1. InputOK'
      BY <1>4, <1>5, <1>7, <1>19, <2>5 DEF GetBit, InputOK
    <3> QED
      BY <2>3, <2>4, <3>1 DEF Types
  <2>6. CASE stream # << >>
    <3>1. /\ bit_stream_offset' = bit_stream_offset - 1
          /\ value' = value + Head(stream) * pow2(bit_stream_offset - 1)
          /\ stream' = Tail(stream) /\ used' = used + 1 /\ pc' = pc
          /\ low' = low /\ high' = high /\ values' = values
      BY <1>19, <2>6 DEF GetBit, interval
    <3>2. stream \in Seq({0, 1}) /\ Head(stream) \in {0, 1} /\ Tail(stream) \in Seq({0, 1})
      BY <1>7, <2>6 DEF InputOK
    <3>3. bit_stream_offset' \in Nat /\ InInterval(value', bit_stream_offset', low', high')
      BY <1>2, <2>1, <2>2, <3>1, <3>2, TakeBit
    <3>4. value' \in Nat /\ value' <= TOP_VALUE
      <4>1. value' \in Nat /\ value' + pow2(bit_stream_offset') <= high' + 1
            /\ pow2(bit_stream_offset') \in Nat \ {0}
        BY <3>3, Pow2Is DEF InInterval
      <4> DEFINE p == pow2(bit_stream_offset')
      <4>2. p \in Nat \ {0} /\ value' + p <= high' + 1
        BY <4>1
      <4> HIDE DEF p
      <4> QED
        BY <1>2, <1>6, <4>1, <4>2
    <3>5. InputOK'
      BY <1>4, <1>5, <1>7, <3>1, <3>2, <3>3, <3>4 DEF InputOK
    <3> QED
      BY <2>3, <2>4, <3>5 DEF Types
  <2> QED
    BY <2>5, <2>6
<1>20. CASE DecodeSymbol
  <2>1. InInterval(value, bit_stream_offset, low, high)
    BY <1>7, <1>20 DEF DecodeSymbol, InputOK
  <2>2. PICK s \in Symbols(model) :
          /\ first_symbol(s) /\ Unambiguous(s) /\ Narrow("decoder", s)
          /\ IF s = EOF_SYMBOL THEN pc' = "decoded" /\ values' = values
                               ELSE pc' = "shift" /\ values' = Append(values, s)
    BY <1>20 DEF DecodeSymbol
  <2>3. InInterval(value, bit_stream_offset, low', high')
    BY <1>1, <2>1, <2>2, NarrowValue
  <2>4. OutputOK' /\ RestOK'
    BY <1>7, <1>20 DEF DecodeSymbol, OutputOK, RestOK, output
  <2>5. FieldOK' /\ FreshOK'
    BY <1>4, <1>5, <1>7, <1>20, <2>2 DEF DecodeSymbol, FieldOK, FreshOK
  <2>6. values' \in Seq(Symbols(model) \ {EOF_SYMBOL})
    BY <1>7, <2>2 DEF InputOK
  <2>7. value' = value /\ bit_stream_offset' = bit_stream_offset /\ stream' = stream /\ used' = used
    BY <1>20 DEF DecodeSymbol
  <2>8. InputOK'
    BY <1>5, <1>7, <2>3, <2>6, <2>7 DEF InputOK
  <2> QED
    BY <2>4, <2>5, <2>8 DEF Types
<1>21. CASE ShiftBit
  <2>1. InInterval(value, bit_stream_offset, low, high)
    BY <1>7, <1>21 DEF ShiftBit, InputOK
  <2>2. /\ Double /\ value' = 2 * (value - doubling_origin)
        /\ bit_stream_offset' = bit_stream_offset + 1
        /\ stream' = stream /\ used' = used /\ values' = values /\ pc' = pc
    BY <1>21 DEF ShiftBit
  <2>3. InInterval(value', bit_stream_offset', low', high')
    BY <1>1, <2>1, <2>2, DoubleValue
  <2>4. value' \in Nat /\ value' <= TOP_VALUE /\ bit_stream_offset' \in Nat
    <3>1. value' \in Nat /\ value' + pow2(bit_stream_offset') <= high' + 1
          /\ pow2(bit_stream_offset') \in Nat \ {0} /\ bit_stream_offset' \in Nat
      BY <2>3, Pow2Is DEF InInterval
    <3> DEFINE p == pow2(bit_stream_offset')
    <3>2. p \in Nat \ {0} /\ value' + p <= high' + 1
      BY <3>1
    <3> HIDE DEF p
    <3> QED
      BY <1>2, <1>6, <3>1, <3>2
  <2>5. OutputOK' /\ RestOK'
    BY <1>7, <1>21 DEF ShiftBit, OutputOK, RestOK, output
  <2>6. FieldOK' /\ FreshOK'
    BY <1>4, <1>5, <1>7, <1>21 DEF ShiftBit, FieldOK, FreshOK
  <2>7. InputOK'
    BY <1>5, <1>7, <2>2, <2>3, <2>4 DEF InputOK
  <2> QED
    BY <2>5, <2>6, <2>7 DEF Types
<1>22. CASE SymbolDecoded
  <2>1. InInterval(value, bit_stream_offset, low, high)
    BY <1>7, <1>22 DEF SymbolDecoded, InputOK
  <2>2. OutputOK' /\ RestOK'
    BY <1>7, <1>22 DEF SymbolDecoded, OutputOK, RestOK, output
  <2>3. FieldOK' /\ FreshOK'
    BY <1>3, <1>4, <1>5, <1>7, <1>22 DEF SymbolDecoded, FieldOK, FreshOK
  <2>4. InputOK'
    BY <1>5, <1>7, <1>22, <2>1 DEF SymbolDecoded, InputOK, interval, input
  <2> QED
    BY <2>2, <2>3, <2>4 DEF Types
<1>23. CASE UNCHANGED vars
  <2>1. FieldOK' /\ OutputOK' /\ FreshOK' /\ RestOK'
    BY <1>4, <1>5, <1>7, <1>23
       DEF vars, FieldOK, OutputOK, FreshOK, RestOK, interval, output
  <2>2. InputOK'
    BY <1>5, <1>7, <1>23 DEF vars, InputOK, interval, input
  <2> QED
    BY <2>1, <2>2 DEF Types
<1> QED
  BY <1>1, <1>10, <1>11, <1>12, <1>13, <1>14, <1>16, <1>17, <1>18, <1>19, <1>20, <1>21, <1>22,
     <1>23 DEF Next, Work

\* TypeOK: with a minimum that arrives, whatever arrives else.
LEMMA TInvHolds == TInv => TypeOK
<1> SUFFICES ASSUME TInv PROVE TypeOK
  OBVIOUS
<1>1. /\ low \in Nat /\ high \in Nat /\ low <= high /\ high <= TOP_VALUE /\ model \in Models
      /\ c_freqs \in [{"encoder", "decoder"} -> Counts(model)]
  BY DEF TInv, IInv, IntervalOK, CountsOK
<1>2. Counts(model) \subseteq [Symbols(model) -> 0..MAX_FREQUENCY]
  BY DEF Counts
<1>3. model.max_repeat \in Nat /\ MaxMessages \in Nat
  BY <1>1, ModelTypes, ArithmeticAssumption
<1>4. TOP_VALUE \in Nat
  <2>1. FIRST_QTR \in Nat \ {0}
    BY Quarter
  <2> HIDE DEF FIRST_QTR
  <2> QED
    BY <2>1 DEF TOP_VALUE
<1> HIDE DEF TOP_VALUE, MAX_FREQUENCY
<1>5. low \in 0..TOP_VALUE /\ high \in 0..TOP_VALUE
  BY <1>1, <1>4
<1>6. /\ value \in 0..TOP_VALUE /\ bit_stream_offset \in Int /\ stream \in Seq({0, 1})
      /\ used \in Nat /\ values \in Seq(Symbols(model) \ {EOF_SYMBOL})
  BY <1>4 DEF TInv, Types, InputOK
<1>7. value_index \in 0..model.max_repeat /\ messages \in 0..MaxMessages /\ lost \in BOOLEAN
  BY <1>3 DEF TInv, Types, FieldOK, RestOK
<1>8. /\ pc \in {"idle", "encode", "emit", "finish", "sent", "decode", "shift", "decoded", "thrown"}
      /\ bits_to_follow \in Nat /\ bits \in Seq({0, 1})
  BY DEF TInv, Types, FieldOK, OutputOK
<1>9. /\ DOMAIN c_freqs = {"encoder", "decoder"}
      /\ \A end \in DOMAIN c_freqs : c_freqs[end] \in [Symbols(model) -> 0..MAX_FREQUENCY]
  BY <1>1, <1>2
<1> QED
  BY <1>1, <1>5, <1>6, <1>7, <1>8, <1>9 DEF TypeOK, Bits

-----------------------------------------------------------------------------
(* The decoder goes where the encoder was *)

\* What the decoder is about to learn, and what the encoder made of it.
LEMMA InDecoding ==
  ASSUME TInv, Sendable(model, field), pc \in {"decode", "shift"},
         NEW h, Encoded(h), NEW k \in 1..Len(h), Decoding(h, k)
  PROVE  /\ Len(h) \in Nat /\ k + 1 \in 1..Len(h) /\ Len(h) \in 1..Len(h)
         /\ Proper(model, field, h[k]) /\ Proper(model, field, h[k + 1])
         /\ Proper(model, field, h[Len(h)])
         /\ Follows(model, field, h[k], h[k + 1])
         /\ Within(h[Len(h)], h[k + 1])
         /\ Inside(number(bits)[Len(bits)], Len(bits), h[k + 1])
         /\ InInterval(value, bit_stream_offset, low, high)
         /\ model \in Models /\ bits \in Seq({0, 1}) /\ used \in 0..Len(bits)
<1>1. /\ History(model, field, h) /\ NarrowedOnly(model, field, h)
      /\ TellAll(bits, h[Len(h)])
  BY DEF Encoded
<1>2. h \in Seq(States(model)) /\ Len(h) \in Nat
  BY <1>1 DEF History
<1>3. k < Len(h) /\ used \in 0..Len(bits)
  BY DEF Decoding
<1>4. k \in 1..Len(h) - 1 /\ k + 1 \in 1..Len(h) /\ Len(h) \in 1..Len(h)
  BY <1>2, <1>3
<1>5. /\ Proper(model, field, h[k]) /\ Proper(model, field, h[k + 1])
      /\ Proper(model, field, h[Len(h)])
      /\ Follows(model, field, h[k], h[k + 1])
  BY <1>1, <1>4 DEF History
<1>6. Within(h[Len(h)], h[k + 1])
  BY <1>1, <1>4 DEF NarrowedOnly
<1>7. bits \in Seq({0, 1}) /\ model \in Models /\ InInterval(value, bit_stream_offset, low, high)
  BY DEF TInv, Types, OutputOK, InputOK, IInv, CountsOK
<1>8. Len(bits) \in Nat /\ number(bits)[Len(bits)] \in Nat
  <2>1. Len(bits) \in Nat /\ Len(bits) \in 0..Len(bits)
    BY <1>7
  <2> QED
    BY <1>7, <2>1, NumberIs
<1>9. Inside(number(bits)[Len(bits)], Len(bits), h[Len(h)])
  BY <1>1 DEF TellAll
<1>10. Inside(number(bits)[Len(bits)], Len(bits), h[k + 1])
  BY <1>5, <1>6, <1>8, <1>9, InsideOrder
<1> QED
  BY <1>2, <1>3, <1>4, <1>5, <1>6, <1>7, <1>10

\* Where a symbol is next, the encoder narrowed the same interval.
LEMMA EncodedHere ==
  ASSUME TInv, Sendable(model, field), pc = "decode",
         NEW h, Encoded(h), NEW k \in 1..Len(h), Decoding(h, k)
  PROVE  LET S == SymbolAt(model, field, value_index)
         IN /\ S \in Symbols(model)
            /\ Encodes(model, field, h[k], h[k + 1])
            /\ h[k + 1].low = low + PartFrom(model, DecoderCounts, S, Numbers)
            /\ h[k + 1].high = low + PartTo(model, DecoderCounts, S, Numbers) - 1
            /\ h[k + 1].c = Counted(model, DecoderCounts, S)
            /\ h[k + 1].index = value_index
            /\ PartFrom(model, DecoderCounts, S, Numbers) \in Nat
            /\ PartTo(model, DecoderCounts, S, Numbers) \in Nat
            /\ Placed(number(bits)[used], used, bit_stream_offset, value, h[k + 1])
<1> DEFINE S == SymbolAt(model, field, value_index)
<1>1. /\ Follows(model, field, h[k], h[k + 1]) /\ model \in Models
  BY InDecoding
<1>2. /\ h[k].at = "encode" /\ h[k].low = low /\ h[k].high = high /\ h[k].index = value_index
      /\ h[k].c = DecoderCounts
      /\ Placed(number(bits)[used], used, bit_stream_offset, value, h[k])
  BY DEF Decoding, DecoderCounts
<1>3. Encodes(model, field, h[k], h[k + 1])
  BY <1>1, <1>2 DEF Follows, DoublesTo, Ends
<1>4. /\ h[k + 1].low = low + PartFrom(model, DecoderCounts, S, Numbers)
      /\ h[k + 1].high = low + PartTo(model, DecoderCounts, S, Numbers) - 1
      /\ h[k + 1].c = Counted(model, DecoderCounts, S)
      /\ h[k + 1].index = value_index
      /\ h[k + 1].base = h[k].base /\ h[k + 1].doubled = h[k].doubled
  BY <1>2, <1>3 DEF Encodes, Numbers
<1>5. Placed(number(bits)[used], used, bit_stream_offset, value, h[k + 1])
  BY <1>2, <1>4 DEF Placed
<1>6. S \in Symbols(model)
  <2>1. value_index \in Nat
    BY DEF TInv, Types, FieldOK
  <2> QED
    BY <1>1, <2>1, SymbolIsOne
<1>7. /\ PartFrom(model, DecoderCounts, S, Numbers) \in Nat
      /\ PartTo(model, DecoderCounts, S, Numbers) \in Nat
  <2>1. DecoderCounts \in Counts(model) /\ Numbers \in Nat
    BY DEF TInv, IInv, CountsOK, IntervalOK, DecoderCounts, Numbers
  <2>2. /\ DecoderCounts[max_symbol(model)] \in Nat \ {0}
        /\ below(DecoderCounts, S) \in Nat /\ DecoderCounts[S] \in Nat
        /\ below(DecoderCounts, S) <= DecoderCounts[S]
    BY <1>1, <1>6, <2>1, CountsFit
  <2> QED
    BY <2>1, <2>2, PartsOrder DEF PartFrom, PartTo
<1> QED
  BY <1>3, <1>4, <1>5, <1>6, <1>7

\* The symbol that is certain is the one that was encoded.
LEMMA SymbolIsRight ==
  ASSUME TInv, Sendable(model, field), pc = "decode",
         NEW h, Encoded(h), NEW k \in 1..Len(h), Decoding(h, k),
         NEW s \in Symbols(model), first_symbol(s), Unambiguous(s)
  PROVE  s = SymbolAt(model, field, value_index)
<1> DEFINE S == SymbolAt(model, field, value_index)
           R == Numbers
           c == DecoderCounts
           p == pow2(bit_stream_offset)
           l == h[k + 1].low
           t == h[k + 1].high
           a == PartFrom(model, c, s, R)
           b == PartTo(model, c, s, R)
           x == PartFrom(model, c, S, R)
           y == PartTo(model, c, S, R)
<1>1. /\ S \in Symbols(model) /\ l = low + x /\ t = low + y - 1 /\ x \in Nat /\ y \in Nat
      /\ Placed(number(bits)[used], used, bit_stream_offset, value, h[k + 1])
  BY EncodedHere
<1>2. /\ InInterval(value, bit_stream_offset, low, high) /\ Proper(model, field, h[k + 1])
      /\ Inside(number(bits)[Len(bits)], Len(bits), h[k + 1])
      /\ model \in Models /\ bits \in Seq({0, 1}) /\ used \in 0..Len(bits)
  BY InDecoding
<1>3. l < value + p /\ value <= t
  BY <1>1, <1>2, Meets
<1>4. a <= value - low /\ value - low + p <= b /\ a \in Nat /\ b \in Nat
  BY <1>2, DecodedIs DEF TInv
<1>5. low \in Nat /\ value \in Nat /\ p \in Nat \ {0} /\ R \in Nat
      /\ c \in Counts(model)
  BY <1>2, Pow2Is DEF TInv, IInv, IntervalOK, CountsOK, InInterval, Numbers, DecoderCounts
<1>6. PICK z \in Int : a <= z /\ z < b /\ x <= z /\ z < y
  <2> HIDE DEF a, b, x, y, p, l, t
  <2>1. CASE l <= value
    <3>1. value - low \in Int /\ a <= value - low /\ value - low < b
          /\ x <= value - low /\ value - low < y
      BY <1>1, <1>3, <1>4, <1>5, <2>1
    <3> QED
      BY <3>1
  <2>2. CASE ~(l <= value)
    <3>0. l \in Nat /\ t >= l
      <4>1. Proper(model, field, h[k + 1])
        BY <1>2
      <4> QED
        BY <4>1 DEF Proper, States, l, t
    <3>1. x \in Int /\ a <= x /\ x < b /\ x <= x /\ x < y
      BY <1>1, <1>3, <1>4, <1>5, <2>2, <3>0
    <3> QED
      BY <3>1
  <2> QED
    BY <2>1, <2>2
<1> HIDE DEF R, c, S
<1>7. s = S
  BY <1>1, <1>2, <1>5, <1>6, PartsDisjoint
<1> QED
  BY <1>7 DEF S

\* With all the bits a symbol is certain.
LEMMA CertainAtLast ==
  ASSUME TInv, Sendable(model, field), pc = "decode",
         NEW h, Encoded(h), NEW k \in 1..Len(h), Decoding(h, k),
         NEW s \in Symbols(model), first_symbol(s), ~Unambiguous(s)
  PROVE  used < Len(bits)
<1> DEFINE S == SymbolAt(model, field, value_index)
           R == Numbers
           c == DecoderCounts
           p == pow2(bit_stream_offset)
           a == PartFrom(model, c, s, R)
           b == PartTo(model, c, s, R)
           x == PartFrom(model, c, S, R)
           y == PartTo(model, c, S, R)
<1>1. /\ S \in Symbols(model) /\ x \in Nat /\ y \in Nat
      /\ h[k + 1].low = low + x /\ h[k + 1].high = low + y - 1
      /\ Placed(number(bits)[used], used, bit_stream_offset, value, h[k + 1])
  BY EncodedHere
<1>2. /\ InInterval(value, bit_stream_offset, low, high) /\ Proper(model, field, h[k + 1])
      /\ Inside(number(bits)[Len(bits)], Len(bits), h[k + 1])
      /\ model \in Models /\ bits \in Seq({0, 1}) /\ used \in 0..Len(bits)
  BY InDecoding
<1>3. SUFFICES ASSUME used = Len(bits) PROVE FALSE
  BY <1>2
<1>4. low \in Nat /\ high \in Nat /\ value \in Nat /\ p \in Nat \ {0} /\ R \in Nat
      /\ c \in Counts(model)
  BY <1>2, Pow2Is DEF TInv, IInv, IntervalOK, CountsOK, InInterval, Numbers, DecoderCounts
<1>5. number(bits)[used] \in Nat /\ used \in Nat
  BY <1>2, NumberIs
<1>6. h[k + 1].low <= value /\ value + p <= h[k + 1].high + 1
  <2>1. Inside(number(bits)[used], used, h[k + 1])
    BY <1>2, <1>3
  <2> QED
    BY <1>1, <1>2, <1>5, <2>1, InsideHere
<1>7. value_high = value + p - 1 /\ value \in low..high /\ value_high \in low..high
  BY <1>2, <1>4, ValueHighIs
<1>8. a <= value - low /\ value - low < b
  BY <1>7, FirstSymbolIs DEF TInv
<1>9. ~(value_high - low < b)
  BY <1>7, UnambiguousIs DEF TInv
<1>10. x <= value - low /\ value - low < y /\ value_high - low < y /\ value - low \in Int
  <2> HIDE DEF x, y, p
  <2>1. low + x <= value /\ value + p <= (low + y - 1) + 1
    BY <1>1, <1>6
  <2> QED
    BY <1>1, <1>4, <1>7, <2>1
<1>11. s = S
  <2> HIDE DEF R, c, S
  <2> QED
    BY <1>1, <1>2, <1>4, <1>8, <1>10, PartsDisjoint
<1> QED
  BY <1>9, <1>10, <1>11

\* The bits that tell the last interval are all of them.
LEMMA AllUsed ==
  ASSUME NEW b \in Seq({0, 1}), NEW e, TellAll(b, e), NEW u \in 0..Len(b),
         Inside(number(b)[u], u, e)
  PROVE  u = Len(b)
<1>1. Len(b) \in Nat
  OBVIOUS
<1>2. ~(u \in 0..Len(b) - 1)
  BY DEF TellAll
<1> QED
  BY <1>1, <1>2

-----------------------------------------------------------------------------
(* The invariant of both ends *)

AInv ==
  /\ TInv
  /\ ~model.is_adaptive => c_freqs["encoder"] = c_freqs["decoder"]
  /\ InStep =>
       /\ pc = "idle" => c_freqs["encoder"] = c_freqs["decoder"]
       /\ pc # "idle" => Sendable(model, field)
       /\ pc \in {"encode", "emit", "finish"} => \E h : Encoding(h)
       /\ pc = "sent" => \E h : Encoded(h) /\ h[1].c = c_freqs["decoder"]
       /\ pc \in {"decode", "shift"} =>
            \E h : \E k \in 1..Len(h) : Encoded(h) /\ Decoding(h, k)
       /\ pc = "decoded" => Decoded
       /\ pc # "thrown"

\* Two new models count alike.
LEMMA InitAInv == Init => AInv
<1> SUFFICES ASSUME Init PROVE AInv
  OBVIOUS
<1>1. TInv
  BY InitTInv
<1>2. c_freqs["encoder"] = c_freqs["decoder"] /\ pc = "idle"
  BY DEF Init
<1> QED
  BY <1>1, <1>2 DEF AInv

\* A step of the encoder adds a state.
LEMMA EncoderStep ==
  ASSUME model \in Models, Sendable(model, field), NEW h, Encoding(h),
         NEW d, Proper(model, field, d), Follows(model, field, h[Len(h)], d),
         h[Len(h)].at = "encode" => h[Len(h)].low <= d.low /\ d.high <= h[Len(h)].high,
         model' = model, field' = field, c_freqs'["decoder"] = c_freqs["decoder"],
         d.at = pc', d.low = low', d.high = high', d.index = value_index',
         d.c = c_freqs'["encoder"], Tells(bits', bits_to_follow', d)
  PROVE  (\E g : Encoding(g))'
<1>1. History(model, field, h) /\ NarrowedOnly(model, field, h) /\ h[1].c = c_freqs["decoder"]
  BY DEF Encoding
<1>2. PICK g : g = Append(h, d)
  OBVIOUS
<1>3. PICK e : e = h[Len(h)]
  OBVIOUS
<1>4. /\ History(model, field, g) /\ NarrowedOnly(model, field, g)
      /\ g[Len(g)] = d /\ g[1] = h[1]
  BY <1>1, <1>2, <1>3, HistoryGrows
<1>5. /\ History(model', field', g) /\ NarrowedOnly(model', field', g)
  BY <1>4
<1>6. Encoding(g)'
  BY <1>1, <1>4, <1>5 DEF Encoding
<1> QED
  BY <1>6

\* A message starts a history.
LEMMA StartStep ==
  ASSUME AInv, TInv', model' = model, InStep, NEW f \in FieldsOf(model),
         FilledIfNecessary(f), OutOfRangeIsLast(f), StartEncode(f)
  PROVE  Sendable(model, field)' /\ (\E h : Encoding(h))'
<1>1. /\ model \in Models /\ c_freqs["encoder"] = c_freqs["decoder"]
      /\ c_freqs["encoder"] \in Counts(model)
      /\ low = 0 /\ high = TOP_VALUE /\ value_index = 0 /\ bits = << >> /\ bits_to_follow = 0
  BY DEF AInv, TInv, Types, FreshOK, IInv, CountsOK, StartEncode
<1>2. /\ field' = f /\ pc' = "encode" /\ low' = 0 /\ high' = TOP_VALUE /\ value_index' = 0
      /\ bits' = << >> /\ bits_to_follow' = 0 /\ c_freqs' = c_freqs
  BY <1>1 DEF StartEncode, interval, output
<1>3. Sendable(model, f)
  BY <1>1, SentIsSendable
<1> DEFINE d == [at |-> "encode", low |-> 0, high |-> TOP_VALUE, c |-> c_freqs["encoder"],
                 index |-> 0, base |-> 0, doubled |-> 0]
<1>4. /\ d.at = "encode" /\ d.low = 0 /\ d.high = TOP_VALUE /\ d.c = c_freqs["encoder"]
      /\ d.index = 0 /\ d.base = 0 /\ d.doubled = 0
  OBVIOUS
<1>5. TOP_VALUE \in Nat /\ ~CanDouble(0, TOP_VALUE) /\ 0 <= TOP_VALUE
  <2>1. FIRST_QTR \in Nat \ {0}
    BY Quarter
  <2> HIDE DEF FIRST_QTR
  <2> QED
    BY <2>1 DEF CanDouble, TOP_VALUE, HALF, THIRD_QTR
<1>6. d \in States(model)
  BY <1>1, <1>5 DEF States
<1>7. model.max_repeat \in Nat \ {0} /\ Len(f) \in Nat
  BY <1>1, <1>3, ModelTypes DEF Sendable
<1> HIDE DEF d
<1>8. Proper(model, f, d)
  BY <1>4, <1>5, <1>6, <1>7 DEF Proper
<1>9. First(d)
  BY <1>4 DEF First
<1>10. PICK g : g = << d >>
  OBVIOUS
<1>11. History(model, f, g) /\ NarrowedOnly(model, f, g) /\ g[Len(g)] = d /\ g[1] = d
  BY <1>1, <1>8, <1>9, <1>10, HistoryBegins
<1>12. Tells(<< >>, 0, d)
  <2>1. << >> \in Seq({0, 1}) /\ Len(<< >>) = 0
    OBVIOUS
  <2>2. number(<< >>)[0] = 0
    BY <2>1, NumberIs
  <2>3. (0 * CodeValues) * pow2(0) + HALF * (pow2(0) - 1) = 0
    <3>1. CodeValues \in Nat /\ HALF \in Nat /\ pow2(0) = 1
      BY CodeValuesIs, Pow2Is
    <3> QED
      BY <3>1
  <2> QED
    BY <1>4, <2>1, <2>2, <2>3 DEF Tells
<1>13. Encoding(g)'
  <2>1. History(model', field', g) /\ NarrowedOnly(model', field', g)
    BY <1>2, <1>11
  <2>2. Tells(bits', bits_to_follow', d)
    BY <1>2, <1>12
  <2> QED
    BY <1>1, <1>2, <1>4, <1>11, <2>1, <2>2 DEF Encoding
<1>14. Sendable(model', field')
  BY <1>2, <1>3
<1> QED
  BY <1>13, <1>14

\* The part of a symbol is in the interval.
LEMMA PartInside ==
  ASSUME IInv, ~Doubles, NEW end \in {"encoder", "decoder"}, NEW s \in Symbols(model)
  PROVE  /\ PartFrom(model, c_freqs[end], s, Numbers) \in Nat
         /\ PartTo(model, c_freqs[end], s, Numbers) \in Nat
         /\ PartTo(model, c_freqs[end], s, Numbers) <= Numbers
         /\ Numbers \in Nat
<1> DEFINE R == Numbers
           c == c_freqs[end]
           T == c[max_symbol(model)]
           a == below(c, s)
           b == c[s]
<1>1. c \in Counts(model) /\ model \in Models
  BY DEF IInv, CountsOK
<1>2. /\ T \in Nat \ {0} /\ T < FIRST_QTR /\ a \in Nat /\ b \in Nat /\ b <= T
  BY <1>1, CountsFit
<1>3. R \in Nat /\ R > FIRST_QTR
  BY WideInterval DEF IInv, IntervalOK, Numbers
<1> HIDE DEF R, T, a, b
<1>4. (R * a) \div T \in Nat /\ (R * b) \div T \in Nat
  <2>1. a <= a /\ b <= b
    BY <1>2
  <2> QED
    BY <1>2, <1>3, <2>1, PartsOrder
<1>5. (R * b) \div T <= R
  <2> DEFINE x == R * b
             y == x \div T
  <2>1. x \in Nat /\ x <= R * T
    BY <1>2, <1>3
  <2> HIDE DEF x
  <2>2. y \in Nat /\ T * y <= x
    BY <1>2, <2>1, Quotient
  <2> HIDE DEF y
  <2>3. y * T <= R * T
    <3>1. T * y = y * T /\ y * T \in Nat /\ R * T \in Nat
      BY <1>2, <1>3, <2>2
    <3> QED
      BY <2>1, <2>2, <3>1
  <2>4. y <= R
    BY <1>2, <1>3, <2>2, <2>3, Cancel
  <2> QED
    BY <2>4 DEF y, x
<1> QED
  BY <1>3, <1>4, <1>5 DEF PartFrom, PartTo, R, T, a, b

\* What counting does to the counts of an end, and not to those of the other.
LEMMA CountedIs ==
  ASSUME CountsOK, NEW end \in {"encoder", "decoder"}, NEW s, update_model(end, s)
  PROVE  /\ c_freqs'[end] = Counted(model, c_freqs[end], s)
         /\ \A other \in {"encoder", "decoder"} \ {end} : c_freqs'[other] = c_freqs[other]
         /\ ~model.is_adaptive => c_freqs' = c_freqs
<1>1. c_freqs \in [{"encoder", "decoder"} -> Counts(model)]
  BY DEF CountsOK
<1>2. DOMAIN c_freqs[end] = Symbols(model)
  BY <1>1 DEF Counts
<1> QED
  BY <1>1, <1>2 DEF update_model, Counted

\* A symbol narrows it.
LEMMA EncodeStep ==
  ASSUME AInv, TInv', model' = model, InStep, EncodeSymbol
  PROVE  (\E h : Encoding(h))'
<1>1. /\ TInv /\ IInv /\ model \in Models /\ Sendable(model, field) /\ pc = "encode" /\ ~Doubles
  BY DEF AInv, TInv, IInv, CountsOK, Doubled, EncodeSymbol
<1>2. PICK h : Encoding(h)
  BY <1>1 DEF AInv
<1>3. PICK e : e = h[Len(h)]
  OBVIOUS
<1>4. /\ e.at = pc /\ e.low = low /\ e.high = high /\ e.index = value_index
      /\ e.c = c_freqs["encoder"] /\ Tells(bits, bits_to_follow, e)
      /\ History(model, field, h)
  BY <1>2, <1>3 DEF Encoding
<1>5. Proper(model, field, e)
  <2>1. h \in Seq(States(model)) /\ h # << >>
    BY <1>4 DEF History
  <2>2. Len(h) \in 1..Len(h)
    BY <2>1
  <2> QED
    BY <1>3, <1>4, <2>2 DEF History
<1>6. PICK s \in Symbols(model) :
        stands_for(s, next_symbol) /\ Narrow("encoder", s) /\ update_model("encoder", s)
  BY DEF EncodeSymbol
<1>7. /\ pc' = "emit" /\ field' = field /\ value_index' = value_index
      /\ bits' = bits /\ bits_to_follow' = bits_to_follow
  BY DEF EncodeSymbol, output
<1>8. s = SymbolAt(model, field, e.index)
  <2>1. value_index \in Nat /\ value_index <= Len(field) /\ value_index < model.max_repeat
    BY <1>4, <1>5 DEF Proper, States
  <2> QED
    BY <1>1, <1>4, <1>6, <2>1, StandsForIt
<1> DEFINE d == [at |-> "emit", low |-> low', high |-> high', c |-> c_freqs'["encoder"],
                 index |-> value_index, base |-> e.base, doubled |-> e.doubled]
<1>9. /\ d.at = "emit" /\ d.low = low' /\ d.high = high' /\ d.c = c_freqs'["encoder"]
      /\ d.index = value_index /\ d.base = e.base /\ d.doubled = e.doubled
  OBVIOUS
<1>10. /\ c_freqs'["encoder"] = Counted(model, e.c, s)
       /\ c_freqs'["decoder"] = c_freqs["decoder"]
  BY <1>1, <1>4, <1>6, CountedIs DEF IInv
<1>11. /\ low' = low + PartFrom(model, c_freqs["encoder"], s, Numbers)
       /\ high' = low + PartTo(model, c_freqs["encoder"], s, Numbers) - 1
  BY <1>6 DEF Narrow, PartFrom, PartTo, total_freq, Numbers
<1>12. /\ low' \in Nat /\ high' \in Nat /\ low' <= high' /\ high' <= TOP_VALUE
       /\ c_freqs'["encoder"] \in Counts(model)
  <2>1. /\ low' \in Nat /\ high' \in Nat /\ low' <= high' /\ high' <= TOP_VALUE
    BY SameConstants DEF TInv, IInv, IntervalOK
  <2>2. c_freqs' \in [{"encoder", "decoder"} -> Counts(model')]
    BY DEF TInv, IInv, CountsOK
  <2> QED
    BY <2>1, <2>2
<1>13. d \in States(model)
  BY <1>4, <1>5, <1>12 DEF Proper, States
<1> HIDE DEF d
<1>14. Proper(model, field, d)
  BY <1>4, <1>5, <1>9, <1>12, <1>13 DEF Proper
<1>15. Encodes(model, field, e, d)
  BY <1>1, <1>4, <1>7, <1>8, <1>9, <1>10, <1>11 DEF Encodes, Numbers
<1>16. e.low <= d.low /\ d.high <= e.high
  <2> DEFINE x == PartFrom(model, c_freqs["encoder"], s, Numbers)
             y == PartTo(model, c_freqs["encoder"], s, Numbers)
  <2>1. x \in Nat /\ y \in Nat /\ y <= high - low + 1 /\ low \in Nat /\ high \in Nat
    BY <1>1, PartInside DEF Numbers, IInv, IntervalOK
  <2> HIDE DEF x, y
  <2>2. low <= low + x /\ low + y - 1 <= high
    BY <2>1
  <2> QED
    BY <1>4, <1>9, <1>11, <2>2 DEF x, y
<1>17. Tells(bits', bits_to_follow', d)
  BY <1>4, <1>7, <1>9 DEF Tells
<1>18. Follows(model, field, h[Len(h)], d)
  BY <1>3, <1>15 DEF Follows
<1>19. h[Len(h)].low <= d.low /\ d.high <= h[Len(h)].high
  BY <1>3, <1>16
<1> QED
  BY <1>1, <1>2, <1>7, <1>9, <1>10, <1>14, <1>17, <1>18, <1>19, EncoderStep

\* Doubling about the middle adds a bit to follow.
LEMMA TellsMiddle ==
  ASSUME NEW b \in Seq({0, 1}), NEW F \in Nat, NEW e, NEW d, Tells(b, F, e),
         d.doubled = e.doubled + 1, d.base = 2 * (e.base + FIRST_QTR)
  PROVE  Tells(b, F + 1, d)
<1> DEFINE n == number(b)[Len(b)]
           p == pow2(F)
           q == FIRST_QTR
           W == CodeValues
           H == HALF
<1>0. Len(b) \in Nat /\ Len(b) \in 0..Len(b)
  OBVIOUS
<1>1. n \in Nat /\ p \in Nat \ {0} /\ q \in Nat /\ pow2(F + 1) = 2 * p
  BY <1>0, NumberIs, Pow2Is, Quarter
<1>2. W \in Nat /\ H = 2 * q
  BY CodeValuesIs
<1>3. e.doubled = Len(b) + F /\ e.base = (n * W) * p + H * (p - 1)
  BY DEF Tells
<1>4. d.base = 2 * (e.base + q)
  OBVIOUS
<1>5. d.doubled = Len(b) + (F + 1)
  BY <1>0, <1>3
<1> HIDE DEF n, p, q, W, H
<1>6. d.base = (n * W) * (2 * p) + H * (2 * p - 1)
  <2> DEFINE x == n * W
  <2>1. x \in Nat
    BY <1>1, <1>2
  <2> HIDE DEF x
  <2>2. x * (2 * p) = 2 * (x * p) /\ H * (2 * p - 1) = 2 * (H * p) - H
        /\ H * (p - 1) = H * p - H /\ x * p \in Nat /\ H * p \in Nat
    BY <1>1, <1>2, <2>1
  <2>3. e.base = x * p + H * (p - 1)
    BY <1>3 DEF x
  <2> QED
    BY <1>1, <1>2, <1>4, <2>2, <2>3 DEF x
<1> QED
  BY <1>1, <1>5, <1>6 DEF Tells, n, p, W, H

\* Doubling about an end settles the bit and those that follow.
LEMMA TellsEnd ==
  ASSUME NEW b \in Seq({0, 1}), NEW F \in Nat, NEW e, NEW d, Tells(b, F, e),
         NEW x \in {0, 1}, d.doubled = e.doubled + 1,
         d.base = 2 * (e.base + (IF x = 0 THEN 0 ELSE HALF))
  PROVE  Tells(Extended(b, x, F), 0, d)
<1> DEFINE n == number(b)[Len(b)]
           p == pow2(F)
           W == CodeValues
           H == HALF
           r == number(Extended(b, x, F))[Len(b) + 1 + F]
<1>0. Len(b) \in Nat /\ Len(b) \in 0..Len(b)
  OBVIOUS
<1>1. n \in Nat /\ p \in Nat \ {0}
  BY <1>0, NumberIs, Pow2Is
<1>2. H \in Nat /\ W = 2 * H
  BY CodeValuesIs
<1>3. e.doubled = Len(b) + F /\ e.base = (n * W) * p + H * (p - 1)
  BY DEF Tells
<1>4. r = (2 * n + x) * p + (1 - x) * (p - 1)
  BY NumberOfAppended
<1>5. d.base = 2 * (e.base + (IF x = 0 THEN 0 ELSE H))
  OBVIOUS
<1>6. Len(Extended(b, x, F)) = Len(b) + 1 + F /\ d.doubled = Len(b) + 1 + F + 0
  <2>1. /\ Extended(b, x, F) \in Seq({0, 1}) /\ Len(Extended(b, x, F)) = Len(b) + 1 + F
    BY ExtendedBits
  <2> DEFINE l == Len(b)
             i == d.doubled
             j == e.doubled
  <2>2. l \in Nat /\ i = j + 1 /\ j = l + F
    BY <1>0, <1>3
  <2> HIDE DEF l, i, j
  <2>3. i = l + 1 + F + 0
    BY <2>2
  <2> QED
    BY <2>1, <2>3 DEF l, i
<1> HIDE DEF n, p, W, H, r
<1>7. d.base = r * W
  <2> DEFINE y == n * p
             z == y * H
             g == H * p
  <2>1. y \in Nat /\ z \in Nat /\ g \in Nat
    BY <1>1, <1>2
  <2>2. (n * W) * p = 2 * z /\ H * (p - 1) = g - H
    <3>1. (n * (2 * H)) * p = 2 * ((n * p) * H)
      BY <1>1, <1>2
    <3>2. H * (p - 1) = H * p - H
      BY <1>1, <1>2
    <3> QED
      BY <1>2, <3>1, <3>2
  <2>3. (2 * n) * p = 2 * y /\ (2 * n + 1) * p = 2 * y + p
    BY <1>1
  <2> HIDE DEF y
  <2>4. (2 * y + p - 1) * (2 * H) = 4 * z + 2 * g - 2 * H
        /\ (2 * y + p) * (2 * H) = 4 * z + 2 * g
    BY <1>1, <1>2, <2>1
  <2> HIDE DEF z, g
  <2>5. CASE x = 0
    <3>1. r = 2 * y + p - 1
      <4>1. (2 * n + 0) * p = 2 * y /\ (1 - 0) * (p - 1) = p - 1
        BY <1>1, <2>3
      <4> QED
        BY <1>1, <1>4, <2>1, <2>5, <4>1
    <3>2. d.base = 4 * z + 2 * g - 2 * H
      BY <1>2, <1>3, <1>5, <2>1, <2>2, <2>5
    <3> QED
      BY <1>2, <2>4, <3>1, <3>2
  <2>6. CASE x = 1
    <3>1. r = 2 * y + p
      <4>1. (1 - 1) * (p - 1) = 0
        BY <1>1
      <4> QED
        BY <1>1, <1>4, <2>1, <2>3, <2>6, <4>1
    <3>2. d.base = 4 * z + 2 * g
      BY <1>2, <1>3, <1>5, <2>1, <2>2, <2>6
    <3> QED
      BY <1>2, <2>4, <3>1, <3>2
  <2> QED
    BY <2>5, <2>6
<1>8. pow2(0) = 1 /\ r \in Nat
  <2>1. r \in Nat
    <3>0. Extended(b, x, F) \in Seq({0, 1})
      BY ExtendedBits
    <3>1. Extended(b, x, F) \in Seq({0, 1}) /\ Len(b) + 1 + F \in 0..Len(Extended(b, x, F))
      BY <1>0, <1>6, <3>0
    <3> QED
      BY <3>1, NumberIs DEF r
  <2> QED
    BY <2>1, Pow2Is
<1>9. (r * W) * 1 + H * (1 - 1) = r * W
  <2>1. r * W \in Nat
    BY <1>2, <1>8
  <2> QED
    BY <1>2, <2>1
<1>10. d.base = (number(Extended(b, x, F))[Len(Extended(b, x, F))] * CodeValues) * pow2(0)
                  + HALF * (pow2(0) - 1)
  BY <1>6, <1>7, <1>8, <1>9 DEF r, W, H
<1> QED
  BY <1>6, <1>10 DEF Tells

\* The state the encoder is in.
LEMMA EncoderState ==
  ASSUME AInv, InStep, pc \in {"encode", "emit", "finish"}, NEW h, Encoding(h)
  PROVE  /\ TInv /\ IInv /\ model \in Models /\ Sendable(model, field)
         /\ Len(h) \in 1..Len(h)
         /\ Proper(model, field, h[Len(h)])
         /\ h[Len(h)].at = pc /\ h[Len(h)].low = low /\ h[Len(h)].high = high
         /\ h[Len(h)].index = value_index /\ h[Len(h)].c = c_freqs["encoder"]
         /\ Tells(bits, bits_to_follow, h[Len(h)])
         /\ bits \in Seq({0, 1}) /\ bits_to_follow \in Nat
<1>1. TInv /\ IInv /\ model \in Models /\ Sendable(model, field)
  BY DEF AInv, TInv, IInv, CountsOK
<1>2. History(model, field, h)
  BY DEF Encoding
<1>3. h \in Seq(States(model)) /\ h # << >>
  BY <1>2 DEF History
<1>4. Len(h) \in 1..Len(h)
  BY <1>3
<1>5. Proper(model, field, h[Len(h)])
  BY <1>2, <1>4 DEF History
<1> QED
  BY <1>1, <1>4, <1>5 DEF Encoding, TInv, Types, OutputOK

\* A bit that is given out, or put off, doubles it.
LEMMA EmitStep ==
  ASSUME AInv, TInv', model' = model, InStep, EmitBit
  PROVE  (\E h : Encoding(h))'
<1>1. PICK h : Encoding(h)
  BY DEF AInv, EmitBit
<1>2. PICK e : e = h[Len(h)]
  OBVIOUS
<1>3. /\ IInv /\ model \in Models /\ Sendable(model, field)
      /\ Proper(model, field, e)
      /\ e.at = "emit" /\ e.low = low /\ e.high = high /\ e.index = value_index
      /\ e.c = c_freqs["encoder"] /\ Tells(bits, bits_to_follow, e)
      /\ bits \in Seq({0, 1}) /\ bits_to_follow \in Nat
  <2>1. pc = "emit"
    BY DEF EmitBit
  <2> QED
    BY <1>1, <1>2, <2>1, EncoderState
<1>4. /\ Double /\ pc' = pc /\ pc = "emit" /\ c_freqs' = c_freqs /\ field' = field
      /\ value_index' = value_index
  BY DEF EmitBit
<1>5. Origin(low, high) = doubling_origin /\ CanDouble(low, high)
  BY <1>4 DEF Origin, doubling_origin, InLower, InUpper, CanDouble, Double, Doubles, InMiddle
<1>6. low' = 2 * (low - doubling_origin) /\ high' = 2 * (high - doubling_origin) + 1
  BY <1>4 DEF Double
<1>7. doubling_origin \in Nat
  <2>1. FIRST_QTR \in Nat
    BY Quarter
  <2> HIDE DEF FIRST_QTR
  <2> QED
    BY <2>1 DEF doubling_origin, HALF
<1> DEFINE d == [at |-> "emit", low |-> low', high |-> high', c |-> e.c, index |-> e.index,
                 base |-> 2 * (e.base + doubling_origin), doubled |-> e.doubled + 1]
<1>8. /\ d.at = "emit" /\ d.low = low' /\ d.high = high' /\ d.c = e.c /\ d.index = e.index
      /\ d.base = 2 * (e.base + doubling_origin) /\ d.doubled = e.doubled + 1
  OBVIOUS
<1>9. low' \in Nat /\ high' \in Nat /\ low' <= high' /\ high' <= TOP_VALUE
  BY SameConstants DEF TInv, IInv, IntervalOK
<1>10. /\ e.c \in Counts(model) /\ e.index \in Nat /\ e.base \in Nat /\ e.doubled \in Nat
       /\ e.index < model.max_repeat /\ e.index <= Len(field)
  BY <1>3 DEF Proper, States
<1>11. 2 * (e.base + doubling_origin) \in Nat
  <2> DEFINE x == e.base
             y == doubling_origin
  <2>1. x \in Nat /\ y \in Nat
    BY <1>7, <1>10
  <2> HIDE DEF x, y
  <2>2. 2 * (x + y) \in Nat
    BY <2>1
  <2> QED
    BY <2>2 DEF x, y
<1>12. d \in States(model)
  BY <1>9, <1>10, <1>11 DEF States
<1> HIDE DEF d
<1>13. Proper(model, field, d)
  BY <1>8, <1>9, <1>10, <1>12 DEF Proper
<1>14. DoublesTo(e, d)
  BY <1>3, <1>5, <1>6, <1>8 DEF DoublesTo
<1>15. Tells(bits', bits_to_follow', d)
  <2>1. CASE InMiddle
    <3>1. doubling_origin = FIRST_QTR
      BY <2>1 DEF InMiddle, doubling_origin
    <3>2. bits' = bits /\ bits_to_follow' = bits_to_follow + 1
      BY <2>1 DEF EmitBit
    <3> QED
      BY <1>3, <1>8, <3>1, <3>2, TellsMiddle
  <2>2. CASE ~InMiddle
    <3> DEFINE x == IF InLower THEN 0 ELSE 1
    <3>1. x \in {0, 1} /\ doubling_origin = (IF x = 0 THEN 0 ELSE HALF)
      BY <1>4, <2>2 DEF doubling_origin, Double, Doubles
    <3>2. bits' = Extended(bits, x, bits_to_follow) /\ bits_to_follow' = 0
      BY <2>2 DEF EmitBit, Extended
    <3> HIDE DEF x
    <3>3. Tells(Extended(bits, x, bits_to_follow), 0, d)
      BY <1>3, <1>8, <3>1, TellsEnd
    <3> QED
      BY <3>2, <3>3
  <2> QED
    BY <2>1, <2>2
<1>16. Follows(model, field, h[Len(h)], d) /\ h[Len(h)].at = "emit"
  BY <1>2, <1>3, <1>14 DEF Follows
<1> QED
  BY <1>1, <1>3, <1>4, <1>8, <1>13, <1>15, <1>16, EncoderStep

\* A symbol that is encoded makes room for the next.
LEMMA EndsStep ==
  ASSUME AInv, TInv', model' = model, InStep, SymbolEncoded
  PROVE  (\E h : Encoding(h))'
<1>1. PICK h : Encoding(h)
  BY DEF AInv, SymbolEncoded
<1>2. PICK e : e = h[Len(h)]
  OBVIOUS
<1>3. /\ IInv /\ model \in Models /\ Sendable(model, field)
      /\ Proper(model, field, e)
      /\ e.at = "emit" /\ e.low = low /\ e.high = high /\ e.index = value_index
      /\ e.c = c_freqs["encoder"] /\ Tells(bits, bits_to_follow, e)
      /\ bits \in Seq({0, 1}) /\ bits_to_follow \in Nat
  <2>1. pc = "emit"
    BY DEF SymbolEncoded
  <2> QED
    BY <1>1, <1>2, <2>1, EncoderState
<1>4. /\ ~Doubles /\ c_freqs' = c_freqs /\ field' = field /\ low' = low /\ high' = high
      /\ bits' = bits /\ bits_to_follow' = bits_to_follow
      /\ IF value_index = Len(field) \/ value_index + 1 = model.max_repeat
           THEN pc' = "finish" /\ value_index' = value_index
           ELSE pc' = "encode" /\ value_index' = value_index + 1
  BY DEF SymbolEncoded, interval, output
<1>5. ~CanDouble(low, high)
  BY <1>4 DEF CanDouble, Doubles, InLower, InUpper, InMiddle
<1> DEFINE d == [at |-> pc', low |-> low, high |-> high, c |-> e.c, index |-> value_index',
                 base |-> e.base, doubled |-> e.doubled]
<1>6. /\ d.at = pc' /\ d.low = low /\ d.high = high /\ d.c = e.c /\ d.index = value_index'
      /\ d.base = e.base /\ d.doubled = e.doubled
  OBVIOUS
<1>7. /\ e.low \in Nat /\ e.high \in Nat /\ e.low <= e.high /\ e.high <= TOP_VALUE
      /\ e.c \in Counts(model) /\ e.index \in Nat /\ e.base \in Nat /\ e.doubled \in Nat
      /\ e.index < model.max_repeat /\ e.index <= Len(field)
  BY <1>3 DEF Proper, States
<1>8. Len(field) \in Nat /\ model.max_repeat \in Nat
  BY <1>3, ModelTypes DEF Sendable
<1>9. /\ value_index' \in Nat /\ value_index' < model.max_repeat /\ value_index' <= Len(field)
      /\ pc' \in {"encode", "finish"}
  BY <1>3, <1>4, <1>7, <1>8
<1>10. d \in States(model)
  BY <1>3, <1>7, <1>9 DEF States
<1> HIDE DEF d
<1>11. Proper(model, field, d)
  BY <1>3, <1>5, <1>6, <1>7, <1>9, <1>10 DEF Proper
<1>12. Ends(model, field, e, d)
  BY <1>3, <1>4, <1>5, <1>6 DEF Ends
<1>13. Tells(bits', bits_to_follow', d)
  BY <1>3, <1>4, <1>6 DEF Tells
<1>14. Follows(model, field, h[Len(h)], d) /\ h[Len(h)].at = "emit"
  BY <1>2, <1>3, <1>12 DEF Follows
<1> QED
  BY <1>1, <1>3, <1>4, <1>6, <1>11, <1>13, <1>14, EncoderStep

\* The last bits tell where the history ends.
LEMMA FinishStep ==
  ASSUME AInv, TInv', model' = model, InStep, FinishEncode
  PROVE  (\E h : Encoded(h) /\ h[1].c = c_freqs["decoder"])'
<1>1. PICK h : Encoding(h)
  BY DEF AInv, FinishEncode
<1>2. PICK e : e = h[Len(h)]
  OBVIOUS
<1>3. /\ IInv /\ model \in Models /\ Sendable(model, field)
      /\ Proper(model, field, e)
      /\ e.at = "finish" /\ e.low = low /\ e.high = high /\ e.index = value_index
      /\ e.c = c_freqs["encoder"] /\ Tells(bits, bits_to_follow, e)
      /\ bits \in Seq({0, 1}) /\ bits_to_follow \in Nat
  <2>1. pc = "finish"
    BY DEF FinishEncode
  <2> QED
    BY <1>1, <1>2, <2>1, EncoderState
<1>4. bits' = bits \o final_bits /\ c_freqs' = c_freqs /\ field' = field
  BY DEF FinishEncode
<1>5. \/ e.low = 0 /\ e.high = TOP_VALUE /\ bits_to_follow = 0 /\ bits' = bits
      \/ /\ e.low = 0 /\ (e.high # TOP_VALUE \/ bits_to_follow > 0)
         /\ bits' = Extended(bits, 0, bits_to_follow)
      \/ e.low # 0 /\ e.high = TOP_VALUE /\ bits' = Extended(bits, 1, bits_to_follow)
      \/ /\ e.low # 0 /\ e.high # TOP_VALUE
         /\ bits' = Extended(bits, IF e.low < FIRST_QTR THEN 0 ELSE 1, bits_to_follow + 1)
  <2>1. bits \o << >> = bits
    BY <1>3
  <2>2. bits_to_follow > 0 \/ bits_to_follow = 0
    BY <1>3
  <2> HIDE DEF TOP_VALUE, FIRST_QTR
  <2>3. CASE e.low = 0
    BY <1>3, <1>4, <2>1, <2>2, <2>3 DEF final_bits, Extended
  <2>4. CASE e.low # 0
    BY <1>3, <1>4, <2>4 DEF final_bits, Extended
  <2> QED
    BY <2>3, <2>4
<1>6. PICK b : b = bits'
  OBVIOUS
<1>7. b \in Seq({0, 1}) /\ TellAll(b, e)
  BY <1>3, <1>5, <1>6, LastBits
<1>8. /\ History(model, field, h) /\ NarrowedOnly(model, field, h)
      /\ h[1].c = c_freqs["decoder"]
  BY <1>1 DEF Encoding
<1>9. /\ History(model', field', h) /\ NarrowedOnly(model', field', h)
      /\ TellAll(bits', h[Len(h)])
  BY <1>2, <1>4, <1>6, <1>7, <1>8
<1>10. Encoded(h)'
  BY <1>2, <1>3, <1>4, <1>9 DEF Encoded
<1> QED
  BY <1>4, <1>8, <1>10

-----------------------------------------------------------------------------
(* The steps of the decoder *)

\* What an encoding is does not change while it is decoded.
LEMMA EncodedStays ==
  ASSUME NEW h, Encoded(h), model' = model, field' = field, bits' = bits,
         c_freqs'["encoder"] = c_freqs["encoder"]
  PROVE  Encoded(h)'
<1>1. /\ History(model, field, h) /\ NarrowedOnly(model, field, h)
      /\ h[Len(h)].at = "finish" /\ h[Len(h)].c = c_freqs["encoder"]
      /\ TellAll(bits, h[Len(h)])
  BY DEF Encoded
<1>2. /\ History(model', field', h) /\ NarrowedOnly(model', field', h)
      /\ TellAll(bits', h[Len(h)])
  BY <1>1
<1> QED
  BY <1>1, <1>2 DEF Encoded

\* The bits b come first in a, and behind n of them the rest.
ComesFirst(b, n, a) ==
  /\ a \in Seq({0, 1}) /\ n <= Len(a) /\ Len(b) \in Nat
  /\ \A j \in 1..n : a[j] = b[j]
  /\ Len(b) - n <= Len(SubSeq(a, n + 1, Len(a)))
  /\ \A i \in 1..Len(b) - n : SubSeq(a, n + 1, Len(a))[i] = b[n + i]

\* So it is with what arrives.
LEMMA ArrivedBits ==
  ASSUME NEW b \in Seq({0, 1}), NEW t \in Seq({0, 1}), NEW n \in Nat, n <= Len(b),
         NEW a, a = b \o t
  PROVE  ComesFirst(b, n, a)
<1>1. /\ b \o t \in Seq({0, 1}) /\ Len(b \o t) = Len(b) + Len(t) /\ Len(b) \in Nat
      /\ Len(t) \in Nat
  OBVIOUS
<1>2. \A j \in 1..Len(b) : (b \o t)[j] = b[j]
  OBVIOUS
<1>3. /\ a \in Seq({0, 1}) /\ Len(a) \in Nat /\ Len(b) <= Len(a) /\ n <= Len(a)
      /\ \A j \in 1..Len(b) : a[j] = b[j]
  BY <1>1, <1>2
<1>4. /\ Len(SubSeq(a, n + 1, Len(a))) = Len(a) - n
      /\ \A i \in 1..Len(a) - n : SubSeq(a, n + 1, Len(a))[i] = a[n + i]
  BY <1>3
<1>5. \A i \in 1..Len(b) - n : i \in 1..Len(a) - n /\ n + i \in 1..Len(b)
  BY <1>1, <1>3
<1>6. \A i \in 1..Len(b) - n : SubSeq(a, n + 1, Len(a))[i] = b[n + i]
  BY <1>3, <1>4, <1>5
<1>7. Len(b) - n <= Len(SubSeq(a, n + 1, Len(a)))
  BY <1>1, <1>3, <1>4
<1>8. \A j \in 1..n : a[j] = b[j]
  BY <1>1, <1>3
<1> QED
  BY <1>1, <1>3, <1>6, <1>7, <1>8 DEF ComesFirst

\* The decoder begins where the history does.
LEMMA BeginStep ==
  ASSUME AInv, MinimumArrives, TInv', model' = model, InStep, NEW tail \in Tails, StartDecode(tail)
  PROVE  pc' = "decode" /\ (\E h : \E k \in 1..Len(h) : Encoded(h) /\ Decoding(h, k))'
<1>1. /\ TInv /\ model \in Models /\ Sendable(model, field) /\ pc = "sent"
      /\ bits \in Seq({0, 1}) /\ field \in Seq(Symbols(model) \ {EOF_SYMBOL})
  BY DEF AInv, TInv, IInv, CountsOK, Types, OutputOK, FieldOK, StartDecode
<1>2. PICK h : Encoded(h) /\ h[1].c = c_freqs["decoder"]
  BY <1>1 DEF AInv
<1>3. /\ h \in Seq(States(model)) /\ h # << >> /\ First(h[1]) /\ h[Len(h)].at = "finish"
  BY <1>2 DEF Encoded, History
<1>4. Len(h) \in Nat /\ 1 < Len(h) /\ 1 \in 1..Len(h)
  <2>1. Len(h) \in Nat /\ 1 <= Len(h)
    BY <1>3
  <2>2. Len(h) # 1
    BY <1>3 DEF First
  <2>3. PICK m : m = Len(h)
    OBVIOUS
  <2>4. m \in Nat /\ 1 < m
    BY <2>1, <2>2, <2>3
  <2> QED
    BY <2>3, <2>4
<1>5. PICK n : n = min_size_repeated(model)
  OBVIOUS
<1>6. n \in 0..CODE_VALUE_BITS /\ n \in Nat /\ n <= Len(bits) /\ CODE_VALUE_BITS \in Nat
  <2>1. n \in 0..CODE_VALUE_BITS /\ n <= Len(bits)
    BY <1>1, <1>5 DEF MinimumArrives
  <2> QED
    BY <2>1, ArithmeticAssumption
<1>7. tail \in Seq({0, 1})
  BY ArithmeticAssumption
<1>8. PICK a : a = bits \o tail
  OBVIOUS
<1>9. /\ a \in Seq({0, 1}) /\ n <= Len(a) /\ Len(bits) \in Nat
      /\ \A j \in 1..n : a[j] = bits[j]
      /\ Len(bits) - n <= Len(SubSeq(a, n + 1, Len(a)))
      /\ \A i \in 1..Len(bits) - n : SubSeq(a, n + 1, Len(a))[i] = bits[n + i]
  <2>1. ComesFirst(bits, n, a)
    BY <1>1, <1>6, <1>7, <1>8, ArrivedBits
  <2> QED
    BY <2>1 DEF ComesFirst
<1>10. ~(Len(a) < n) /\ n \in 0..Len(bits)
  <2>1. Len(a) \in Nat
    BY <1>9
  <2> QED
    BY <1>6, <1>9, <2>1
<1>11. /\ value' = leading_value(SubSeq(a, 1, n))
       /\ bit_stream_offset' = CODE_VALUE_BITS - n
       /\ stream' = SubSeq(a, n + 1, Len(a))
       /\ used' = n /\ values' = << >> /\ low' = 0 /\ high' = TOP_VALUE
       /\ value_index' = 0 /\ pc' = "decode"
       /\ c_freqs' = c_freqs /\ field' = field /\ bits' = bits
  BY <1>5, <1>8, <1>10 DEF StartDecode, output
<1>12. /\ leading_value(SubSeq(a, 1, n)) = number(bits)[n] * pow2(CODE_VALUE_BITS - n)
       /\ CODE_VALUE_BITS - n \in Nat
       /\ leading_value(SubSeq(a, 1, n)) \in Nat
  BY <1>1, <1>6, <1>9, LeadingValueIs DEF InInterval
<1>13. Placed(number(bits)[n], n, CODE_VALUE_BITS - n, leading_value(SubSeq(a, 1, n)), h[1])
  <2> DEFINE x == number(bits)[n] * pow2(CODE_VALUE_BITS - n)
  <2>1. x \in Nat /\ x + 0 = x /\ n + (CODE_VALUE_BITS - n) = CODE_VALUE_BITS + 0
    BY <1>6, <1>12
  <2> QED
    BY <1>3, <1>12, <2>1 DEF Placed, First
<1>14. SubSeq(field, 1, 0) = << >>
  BY <1>1
<1>15. Encoded(h)'
  BY <1>2, <1>11, EncodedStays
<1>16. h[1].at = "encode" /\ h[1].low = 0 /\ h[1].high = TOP_VALUE /\ h[1].index = 0
  BY <1>3 DEF First
<1>17. Decoding(h, 1)'
  <2>1. TOP_VALUE' = TOP_VALUE /\ CODE_VALUE_BITS' = CODE_VALUE_BITS
    BY SameConstants
  <2>2. Placed(number(bits')[used'], used', bit_stream_offset', value', h[1])
    BY <1>11, <1>13
  <2>3. /\ used' \in 0..Len(bits') /\ Len(bits') - used' <= Len(stream')
        /\ \A i \in 1..Len(bits') - used' : stream'[i] = bits'[used' + i]
    BY <1>9, <1>10, <1>11
  <2>4. values' = SubSeq(field', 1, value_index')
    BY <1>11, <1>14
  <2>5. pc' = "decode" /\ pc' # "shift"
    BY <1>11
  <2>6. /\ h[1].low = low' /\ h[1].high = high' /\ h[1].index = value_index'
        /\ h[1].c = c_freqs'["decoder"]
    BY <1>2, <1>11, <1>16
  <2> QED
    BY <1>4, <1>16, <2>2, <2>3, <2>4, <2>5, <2>6 DEF Decoding
<1> QED
  BY <1>4, <1>11, <1>15, <1>17

\* The state of the encoder that the decoder has come to.
LEMMA DecoderState ==
  ASSUME AInv, InStep, pc \in {"decode", "shift"}, NEW h, Encoded(h), NEW k \in 1..Len(h),
         Decoding(h, k)
  PROVE  /\ TInv /\ IInv /\ model \in Models /\ Sendable(model, field)
         /\ k \in Nat /\ k < Len(h) /\ k + 1 \in 1..Len(h) /\ Len(h) \in Nat
         /\ h[k].low = low /\ h[k].high = high /\ h[k].index = value_index
         /\ h[k].c = c_freqs["decoder"]
         /\ h[k].at = (IF pc = "decode" THEN "encode" ELSE "emit")
         /\ bits \in Seq({0, 1}) /\ Len(bits) \in Nat /\ used \in 0..Len(bits) /\ used \in Nat
         /\ stream \in Seq({0, 1}) /\ Len(stream) \in Nat
         /\ field \in Seq(Symbols(model) \ {EOF_SYMBOL}) /\ Len(field) \in Nat
         /\ value_index \in Nat /\ value_index < model.max_repeat /\ value_index <= Len(field)
         /\ Placed(number(bits)[used], used, bit_stream_offset, value, h[k])
         /\ Len(bits) - used <= Len(stream)
         /\ \A i \in 1..Len(bits) - used : stream[i] = bits[used + i]
         /\ values = SubSeq(field, 1, IF pc = "decode" THEN value_index ELSE value_index + 1)
<1>1. TInv /\ IInv /\ model \in Models /\ Sendable(model, field)
  BY DEF AInv, TInv, IInv, CountsOK
<1>2. /\ Len(h) \in Nat /\ k + 1 \in 1..Len(h) /\ Proper(model, field, h[k])
      /\ bits \in Seq({0, 1}) /\ used \in 0..Len(bits)
  BY <1>1, InDecoding
<1>3. /\ stream \in Seq({0, 1}) /\ field \in Seq(Symbols(model) \ {EOF_SYMBOL})
  BY <1>1 DEF TInv, Types, InputOK, FieldOK
<1>4. value_index \in Nat /\ value_index < model.max_repeat /\ value_index <= Len(field)
  BY <1>2 DEF Proper, States, Decoding
<1>5. Len(bits) \in Nat /\ Len(stream) \in Nat /\ Len(field) \in Nat /\ used \in Nat /\ k \in Nat
  BY <1>2, <1>3
<1> QED
  BY <1>1, <1>2, <1>3, <1>4, <1>5 DEF Decoding

\* A bit that is asked for is one of the message's.
LEMMA BitStep ==
  ASSUME AInv, TInv', model' = model, InStep, GetBit
  PROVE  pc' = "decode" /\ (\E h : \E k \in 1..Len(h) : Encoded(h) /\ Decoding(h, k))'
<1>1. pc = "decode"
  BY DEF GetBit
<1>2. PICK h : \E k \in 1..Len(h) : Encoded(h) /\ Decoding(h, k)
  BY <1>1 DEF AInv
<1>3. PICK k \in 1..Len(h) : Encoded(h) /\ Decoding(h, k)
  BY <1>2
<1>4. /\ TInv /\ IInv /\ model \in Models /\ Sendable(model, field)
      /\ bits \in Seq({0, 1}) /\ Len(bits) \in Nat /\ used \in 0..Len(bits) /\ used \in Nat
      /\ stream \in Seq({0, 1}) /\ Len(stream) \in Nat
      /\ Placed(number(bits)[used], used, bit_stream_offset, value, h[k])
      /\ Len(bits) - used <= Len(stream)
      /\ \A i \in 1..Len(bits) - used : stream[i] = bits[used + i]
      /\ h[k].low = low /\ h[k].high = high /\ h[k].index = value_index
      /\ h[k].c = c_freqs["decoder"] /\ h[k].at = "encode" /\ k < Len(h)
      /\ values = SubSeq(field, 1, value_index)
  BY <1>1, <1>3, DecoderState
<1>5. PICK s \in Symbols(model) : first_symbol(s) /\ ~Unambiguous(s)
  BY DEF GetBit
<1>6. used < Len(bits)
  BY <1>1, <1>3, <1>4, <1>5, CertainAtLast
<1>7. bit_stream_offset # 0
  <2>1. InInterval(value, bit_stream_offset, low, high)
    BY <1>1, <1>3, <1>4, InDecoding
  <2> QED
    BY <1>4, <1>5, <2>1, AmbiguousNumbers
<1>8. stream # << >> /\ Head(stream) = bits[used + 1]
  <2>1. 1 \in 1..Len(bits) - used /\ Len(stream) >= 1
    BY <1>4, <1>6
  <2>2. stream[1] = bits[used + 1]
    BY <1>4, <2>1
  <2> QED
    BY <1>4, <2>1, <2>2
<1>9. /\ bit_stream_offset' = bit_stream_offset - 1
      /\ value' = value + bits[used + 1] * pow2(bit_stream_offset - 1)
      /\ stream' = Tail(stream) /\ used' = used + 1 /\ pc' = pc
      /\ c_freqs' = c_freqs /\ field' = field /\ value_index' = value_index
      /\ low' = low /\ high' = high /\ bits' = bits /\ values' = values
  BY <1>8 DEF GetBit, interval, output
<1>10. Proper(model, field, h[k])
  BY <1>1, <1>3, <1>4, InDecoding
<1>11. h[k].base \in Nat /\ h[k].doubled \in Nat
  BY <1>10 DEF Proper, States
<1>12. Placed(number(bits)[used + 1], used + 1, bit_stream_offset - 1,
              value + bits[used + 1] * pow2(bit_stream_offset - 1), h[k])
  BY <1>4, <1>6, <1>7, <1>11, NextBit
<1>13. /\ used + 1 \in 0..Len(bits) /\ Len(bits) - (used + 1) <= Len(Tail(stream))
       /\ \A i \in 1..Len(bits) - (used + 1) : Tail(stream)[i] = bits[(used + 1) + i]
  <2>1. used + 1 \in 0..Len(bits)
    BY <1>4, <1>6
  <2>2. Len(Tail(stream)) = Len(stream) - 1
    BY <1>4, <1>8
  <2>3. Len(bits) - (used + 1) <= Len(Tail(stream))
    BY <1>4, <2>2
  <2>4. ASSUME NEW i \in 1..Len(bits) - (used + 1)
        PROVE  Tail(stream)[i] = bits[(used + 1) + i]
    <3>1. i + 1 \in 1..Len(bits) - used /\ i \in 1..Len(stream) - 1
          /\ used + (i + 1) = (used + 1) + i
      BY <1>4
    <3>2. Tail(stream)[i] = stream[i + 1]
      BY <1>4, <1>8, <3>1
    <3>3. stream[i + 1] = bits[used + (i + 1)]
      BY <1>4, <3>1
    <3> QED
      BY <3>1, <3>2, <3>3
  <2> QED
    BY <2>1, <2>3, <2>4
<1>14. Encoded(h)'
  BY <1>3, <1>9, EncodedStays
<1>15. Decoding(h, k)'
  <2>1. Placed(number(bits')[used'], used', bit_stream_offset', value', h[k])
    BY <1>9, <1>12
  <2>2. /\ used' \in 0..Len(bits') /\ Len(bits') - used' <= Len(stream')
        /\ \A i \in 1..Len(bits') - used' : stream'[i] = bits'[used' + i]
    BY <1>9, <1>13
  <2>3. values' = SubSeq(field', 1, value_index')
    BY <1>4, <1>9
  <2>4. /\ h[k].low = low' /\ h[k].high = high' /\ h[k].index = value_index'
        /\ h[k].c = c_freqs'["decoder"] /\ pc' = "decode"
    BY <1>1, <1>4, <1>9
  <2> QED
    BY <1>4, <2>1, <2>2, <2>3, <2>4 DEF Decoding
<1> QED
  BY <1>1, <1>9, <1>14, <1>15

\* The last bits are taken when they tell the state where the encoder ended.
LEMMA AllTaken ==
  ASSUME TInv, NEW h, Encoded(h), NEW d, Proper(model, field, d), Proper(model, field, h[Len(h)]),
         Within(d, h[Len(h)]), bits \in Seq({0, 1}), used \in 0..Len(bits),
         NEW off, NEW v, Placed(number(bits)[used], used, off, v, d),
         InInterval(v, off, d.low, d.high)
  PROVE  used = Len(bits)
<1>1. number(bits)[used] \in Nat /\ used \in Nat
  BY NumberIs
<1>2. d.low <= v /\ v + pow2(off) <= d.high + 1
  BY DEF InInterval
<1>3. Inside(number(bits)[used], used, d)
  BY <1>1, <1>2, InsideHere
<1>4. Inside(number(bits)[used], used, h[Len(h)])
  BY <1>1, <1>3, InsideOrder
<1> QED
  BY <1>4, AllUsed DEF Encoded

\* A symbol that is certain leads to the state that encoding it led to; EOF is the last.
LEMMA DecodeStep ==
  ASSUME AInv, TInv', model' = model, InStep, DecodeSymbol
  PROVE  \/ pc' = "decoded" /\ Decoded'
         \/ pc' = "shift" /\ (\E h : \E k \in 1..Len(h) : Encoded(h) /\ Decoding(h, k))'
<1>1. pc = "decode"
  BY DEF DecodeSymbol
<1>2. PICK h : \E k \in 1..Len(h) : Encoded(h) /\ Decoding(h, k)
  BY <1>1 DEF AInv
<1>3. PICK k \in 1..Len(h) : Encoded(h) /\ Decoding(h, k)
  BY <1>2
<1>4. /\ TInv /\ IInv /\ CountsOK /\ model \in Models /\ Sendable(model, field)
      /\ bits \in Seq({0, 1}) /\ used \in 0..Len(bits)
      /\ Len(h) \in Nat /\ k \in Nat /\ k + 1 \in 1..Len(h)
      /\ field \in Seq(Symbols(model) \ {EOF_SYMBOL})
      /\ value_index \in Nat /\ value_index < model.max_repeat /\ value_index <= Len(field)
      /\ Len(bits) - used <= Len(stream)
      /\ \A i \in 1..Len(bits) - used : stream[i] = bits[used + i]
      /\ values = SubSeq(field, 1, value_index)
  BY <1>1, <1>3, DecoderState DEF IInv
<1>5. PICK s \in Symbols(model) :
        /\ first_symbol(s) /\ Unambiguous(s) /\ Narrow("decoder", s) /\ update_model("decoder", s)
        /\ IF s = EOF_SYMBOL
             THEN pc' = "decoded" /\ values' = values
             ELSE pc' = "shift" /\ values' = Append(values, s)
  BY DEF DecodeSymbol
<1>6. /\ field' = field /\ value_index' = value_index /\ bits' = bits
      /\ value' = value /\ bit_stream_offset' = bit_stream_offset
      /\ stream' = stream /\ used' = used
  BY DEF DecodeSymbol, output
<1>7. s = SymbolAt(model, field, value_index)
  BY <1>1, <1>3, <1>4, <1>5, SymbolIsRight
<1>8. PICK e : e = h[k + 1]
  OBVIOUS
<1>9. /\ Encodes(model, field, h[k], h[k + 1])
      /\ e.low = low + PartFrom(model, DecoderCounts, s, Numbers)
      /\ e.high = low + PartTo(model, DecoderCounts, s, Numbers) - 1
      /\ e.c = Counted(model, DecoderCounts, s) /\ e.index = value_index
      /\ Placed(number(bits)[used], used, bit_stream_offset, value, e)
  BY <1>1, <1>3, <1>4, <1>7, <1>8, EncodedHere
<1>10. e.at = "emit"
  BY <1>8, <1>9 DEF Encodes
<1>11. InInterval(value, bit_stream_offset, low, high)
  BY <1>1, <1>3, <1>4, InDecoding
<1>12. /\ InInterval(value, bit_stream_offset, low', high')
       /\ low' = e.low /\ high' = e.high
  BY <1>4, <1>5, <1>9, <1>11, NarrowValue
<1>13. /\ c_freqs'["decoder"] = e.c /\ c_freqs'["encoder"] = c_freqs["encoder"]
  BY <1>4, <1>5, <1>9, CountedIs DEF DecoderCounts
<1>14. PICK g : g = h[Len(h)]
  OBVIOUS
<1>15. /\ Proper(model, field, e) /\ Proper(model, field, g) /\ Within(g, e)
  BY <1>1, <1>3, <1>4, <1>8, <1>14, InDecoding
<1>16. g.at = "finish" /\ g.c = c_freqs["encoder"] /\ NarrowedOnly(model, field, h)
  BY <1>3, <1>14 DEF Encoded
<1>17. CASE s = EOF_SYMBOL
  <2>1. pc' = "decoded" /\ values' = values
    BY <1>5, <1>17
  <2>2. g.c = e.c /\ Within(e, g)
    BY <1>4, <1>7, <1>8, <1>9, <1>10, <1>14, <1>16, <1>17 DEF NarrowedOnly
  <2>3. used = Len(bits)
    <3>1. InInterval(value, bit_stream_offset, e.low, e.high)
      BY <1>12
    <3> QED
      BY <1>3, <1>4, <1>9, <1>14, <1>15, <2>2, <3>1, AllTaken
  <2>4. values = arriving_values
    BY <1>4, <1>7, <1>17, ArrivesBeforeEof
  <2>5. arriving_values' = arriving_values
    BY <1>6, SameConstants DEF arriving_values, OUT_OF_RANGE_SYMBOL
  <2>6. Decoded'
    BY <1>6, <1>13, <1>16, <2>1, <2>2, <2>3, <2>4, <2>5 DEF Decoded
  <2> QED
    BY <2>1, <2>6
<1>18. CASE s # EOF_SYMBOL
  <2>1. pc' = "shift" /\ values' = Append(values, s)
    BY <1>5, <1>18
  <2>2. value_index < Len(field) /\ s = field[value_index + 1]
    BY <1>4, <1>7, <1>18, SymbolIsOne
  <2>3. values' = SubSeq(field, 1, value_index + 1)
    BY <1>4, <2>1, <2>2, GrowingSubSeq
  <2>4. k + 1 < Len(h)
    <3>1. k + 1 # Len(h)
      BY <1>8, <1>10, <1>14, <1>16
    <3> QED
      BY <1>4, <3>1
  <2>5. Encoded(h)'
    BY <1>3, <1>6, <1>13, EncodedStays
  <2>6. Decoding(h, k + 1)'
    <3>1. Placed(number(bits')[used'], used', bit_stream_offset', value', h[k + 1])
      BY <1>6, <1>8, <1>9
    <3>2. /\ used' \in 0..Len(bits') /\ Len(bits') - used' <= Len(stream')
          /\ \A i \in 1..Len(bits') - used' : stream'[i] = bits'[used' + i]
      BY <1>4, <1>6
    <3>3. values' = SubSeq(field', 1, value_index' + 1)
      BY <1>6, <2>3
    <3>4. /\ h[k + 1].low = low' /\ h[k + 1].high = high' /\ h[k + 1].index = value_index'
          /\ h[k + 1].c = c_freqs'["decoder"] /\ pc' = "shift" /\ h[k + 1].at = "emit"
      BY <1>6, <1>8, <1>9, <1>10, <1>12, <1>13, <2>1
    <3>5. SymbolAt(model', field', value_index') # EOF_SYMBOL'
      BY <1>6, <1>7, <1>18, SameConstants
    <3>6. pc' # "decode" /\ (IF pc' = "decode" THEN "encode" ELSE "emit") = "emit"
      BY <3>4
    <3> QED
      BY <2>4, <3>1, <3>2, <3>3, <3>4, <3>5, <3>6 DEF Decoding
  <2> QED
    BY <1>4, <2>1, <2>5, <2>6
<1> QED
  BY <1>17, <1>18

\* Doubling keeps the places of the bits taken.
LEMMA DoublePlaced ==
  ASSUME NEW n \in Nat, NEW u \in Nat, NEW off, NEW v, NEW o \in Nat, NEW e, NEW d,
         Placed(n, u, off, v, e), e.base \in Nat, e.doubled \in Nat, o <= v,
         d.base = 2 * (e.base + o), d.doubled = e.doubled + 1
  PROVE  Placed(n, u, off + 1, 2 * (v - o), d)
<1> DEFINE B == e.base
           D == e.doubled
           p == pow2(off)
<1>1. off \in Nat /\ v \in Nat /\ u + off = CODE_VALUE_BITS + D /\ v + B = n * p
  BY DEF Placed
<1>2. pow2(off + 1) = 2 * p /\ p \in Nat
  BY <1>1, Pow2Is
<1>3. B \in Nat /\ D \in Nat /\ CODE_VALUE_BITS \in Nat
  BY ArithmeticAssumption
<1>4. d.base = 2 * (B + o) /\ d.doubled = D + 1
  OBVIOUS
<1> HIDE DEF B, D, p
<1>5. n * (2 * p) = 2 * (n * p) /\ n * p \in Nat
  BY <1>2
<1>6. 2 * (v - o) + 2 * (B + o) = n * (2 * p)
  BY <1>1, <1>3, <1>5
<1>7. off + 1 \in Nat /\ 2 * (v - o) \in Nat /\ u + (off + 1) = CODE_VALUE_BITS + (D + 1)
  BY <1>1, <1>3
<1> QED
  BY <1>2, <1>4, <1>6, <1>7 DEF Placed

\* The decoder doubles where the encoder did.
LEMMA ShiftStep ==
  ASSUME AInv, TInv', model' = model, InStep, ShiftBit
  PROVE  pc' = "shift" /\ (\E h : \E k \in 1..Len(h) : Encoded(h) /\ Decoding(h, k))'
<1>1. pc = "shift" /\ Double /\ Doubles
  BY DEF ShiftBit, Double
<1>2. PICK h : \E k \in 1..Len(h) : Encoded(h) /\ Decoding(h, k)
  BY <1>1 DEF AInv
<1>3. PICK k \in 1..Len(h) : Encoded(h) /\ Decoding(h, k)
  BY <1>2
<1>4. /\ TInv /\ IInv /\ model \in Models /\ Sendable(model, field)
      /\ Len(h) \in Nat /\ k \in Nat /\ k + 1 \in 1..Len(h)
      /\ h[k].low = low /\ h[k].high = high /\ h[k].index = value_index
      /\ h[k].c = c_freqs["decoder"] /\ h[k].at = "emit"
      /\ bits \in Seq({0, 1}) /\ used \in 0..Len(bits) /\ used \in Nat
      /\ Placed(number(bits)[used], used, bit_stream_offset, value, h[k])
      /\ Len(bits) - used <= Len(stream)
      /\ \A i \in 1..Len(bits) - used : stream[i] = bits[used + i]
      /\ values = SubSeq(field, 1, value_index + 1)
  BY <1>1, <1>3, DecoderState
<1>5. /\ pc' = "shift" /\ value' = 2 * (value - doubling_origin)
      /\ bit_stream_offset' = bit_stream_offset + 1
      /\ c_freqs' = c_freqs /\ field' = field /\ value_index' = value_index /\ bits' = bits
      /\ stream' = stream /\ used' = used /\ values' = values
      /\ low' = 2 * (low - doubling_origin) /\ high' = 2 * (high - doubling_origin) + 1
  BY <1>1 DEF ShiftBit, output, Double
<1>6. PICK e : e = h[k]
  OBVIOUS
<1>7. PICK d : d = h[k + 1]
  OBVIOUS
<1>8. /\ Proper(model, field, e) /\ Follows(model, field, e, d)
      /\ InInterval(value, bit_stream_offset, low, high)
  BY <1>1, <1>3, <1>4, <1>6, <1>7, InDecoding
<1>9. Origin(low, high) = doubling_origin /\ CanDouble(low, high)
  BY <1>1 DEF Origin, doubling_origin, InLower, InUpper, CanDouble, Doubles, InMiddle
<1>10. DoublesTo(e, d)
  BY <1>4, <1>6, <1>8, <1>9 DEF Follows, Encodes, Ends
<1>11. /\ d.at = "emit" /\ d.low = low' /\ d.high = high' /\ d.c = e.c /\ d.index = e.index
       /\ d.base = 2 * (e.base + doubling_origin) /\ d.doubled = e.doubled + 1
  BY <1>4, <1>5, <1>6, <1>9, <1>10 DEF DoublesTo
<1>12. e.base \in Nat /\ e.doubled \in Nat
  BY <1>8 DEF Proper, States
<1>13. doubling_origin \in Nat /\ doubling_origin <= value
  <2>1. doubling_origin \in Nat /\ doubling_origin <= low
    BY <1>1, <1>4, <1>8, DoubleValue
  <2>2. low \in Nat /\ value \in Nat /\ low <= value
    BY <1>4, <1>8 DEF InInterval, IInv, IntervalOK
  <2> HIDE DEF doubling_origin
  <2> QED
    BY <2>1, <2>2
<1>14. number(bits)[used] \in Nat
  BY <1>4, NumberIs
<1>15. Placed(number(bits)[used], used, bit_stream_offset + 1, 2 * (value - doubling_origin), d)
  BY <1>4, <1>6, <1>11, <1>12, <1>13, <1>14, DoublePlaced
<1>16. k + 1 < Len(h)
  <2>1. h[Len(h)].at = "finish"
    BY <1>3 DEF Encoded
  <2>2. k + 1 # Len(h)
    BY <1>7, <1>11, <2>1
  <2> QED
    BY <1>4, <2>2
<1>17. Encoded(h)'
  BY <1>3, <1>5, EncodedStays
<1>18. Decoding(h, k + 1)'
  <2>1. Placed(number(bits')[used'], used', bit_stream_offset', value', h[k + 1])
    BY <1>5, <1>7, <1>15
  <2>2. /\ used' \in 0..Len(bits') /\ Len(bits') - used' <= Len(stream')
        /\ \A i \in 1..Len(bits') - used' : stream'[i] = bits'[used' + i]
    BY <1>4, <1>5
  <2>3. values' = SubSeq(field', 1, value_index' + 1)
    BY <1>4, <1>5
  <2>4. /\ h[k + 1].low = low' /\ h[k + 1].high = high' /\ h[k + 1].index = value_index'
        /\ h[k + 1].c = c_freqs'["decoder"] /\ pc' = "shift" /\ h[k + 1].at = "emit"
    BY <1>4, <1>5, <1>6, <1>7, <1>11
  <2>5. SymbolAt(model', field', value_index') # EOF_SYMBOL'
    <3>1. SymbolAt(model, field, value_index) # EOF_SYMBOL
      BY <1>1, <1>3 DEF Decoding
    <3> QED
      BY <1>5, <3>1, SameConstants
  <2>6. pc' # "decode" /\ (IF pc' = "decode" THEN "encode" ELSE "emit") = "emit"
    BY <2>4
  <2> QED
    BY <1>16, <2>1, <2>2, <2>3, <2>4, <2>5, <2>6 DEF Decoding
<1> QED
  BY <1>4, <1>5, <1>17, <1>18

\* It goes on to the next symbol, or ends, where the encoder did.
LEMMA SymbolDecodedStep ==
  ASSUME AInv, TInv', model' = model, InStep, SymbolDecoded
  PROVE  \/ pc' = "decoded" /\ Decoded'
         \/ pc' = "decode" /\ (\E h : \E k \in 1..Len(h) : Encoded(h) /\ Decoding(h, k))'
<1>1. pc = "shift" /\ ~Doubles
  BY DEF SymbolDecoded
<1>2. PICK h : \E k \in 1..Len(h) : Encoded(h) /\ Decoding(h, k)
  BY <1>1 DEF AInv
<1>3. PICK k \in 1..Len(h) : Encoded(h) /\ Decoding(h, k)
  BY <1>2
<1>4. /\ TInv /\ IInv /\ model \in Models /\ Sendable(model, field)
      /\ Len(h) \in Nat /\ k \in Nat /\ k + 1 \in 1..Len(h)
      /\ h[k].low = low /\ h[k].high = high /\ h[k].index = value_index
      /\ h[k].c = c_freqs["decoder"] /\ h[k].at = "emit"
      /\ bits \in Seq({0, 1}) /\ used \in 0..Len(bits) /\ used \in Nat
      /\ value_index \in Nat /\ value_index < model.max_repeat
      /\ field \in Seq(Symbols(model) \ {EOF_SYMBOL}) /\ Len(field) \in Nat
      /\ Placed(number(bits)[used], used, bit_stream_offset, value, h[k])
      /\ Len(bits) - used <= Len(stream)
      /\ \A i \in 1..Len(bits) - used : stream[i] = bits[used + i]
      /\ values = SubSeq(field, 1, value_index + 1)
  BY <1>1, <1>3, DecoderState
<1>5. /\ value_index' = value_index + 1
      /\ pc' = IF value_index + 1 = model.max_repeat THEN "decoded" ELSE "decode"
      /\ c_freqs' = c_freqs /\ field' = field /\ low' = low /\ high' = high /\ bits' = bits
      /\ value' = value /\ bit_stream_offset' = bit_stream_offset
      /\ stream' = stream /\ used' = used /\ values' = values
  BY DEF SymbolDecoded, interval, output, input
<1>6. PICK e : e = h[k]
  OBVIOUS
<1>7. PICK d : d = h[k + 1]
  OBVIOUS
<1>8. PICK g : g = h[Len(h)]
  OBVIOUS
<1>9. /\ Follows(model, field, e, d) /\ Proper(model, field, d) /\ Proper(model, field, g)
      /\ InInterval(value, bit_stream_offset, low, high)
  BY <1>1, <1>3, <1>4, <1>6, <1>7, <1>8, InDecoding
<1>10. ~CanDouble(low, high)
  BY <1>1 DEF CanDouble, Doubles, InLower, InUpper, InMiddle
<1>11. Ends(model, field, e, d)
  BY <1>4, <1>6, <1>9, <1>10 DEF Follows, Encodes, DoublesTo
<1>12. SymbolAt(model, field, value_index) # EOF_SYMBOL
  BY <1>1, <1>3 DEF Decoding
<1>13. value_index < Len(field)
  BY <1>4, <1>12, SymbolIsOne
<1>14. /\ d.low = low /\ d.high = high /\ d.base = e.base /\ d.doubled = e.doubled /\ d.c = e.c
  BY <1>4, <1>6, <1>11 DEF Ends
<1>15. Placed(number(bits)[used], used, bit_stream_offset, value, d)
  BY <1>4, <1>6, <1>14 DEF Placed
<1>16. /\ g.at = "finish" /\ g.c = c_freqs["encoder"]
       /\ History(model, field, h) /\ NarrowedOnly(model, field, h)
  BY <1>3, <1>8 DEF Encoded
<1>17. CASE value_index + 1 = model.max_repeat
  <2>1. d.at = "finish"
    BY <1>4, <1>6, <1>11, <1>17 DEF Ends
  <2>2. k + 1 = Len(h)
    <3>1. SUFFICES ASSUME k + 1 # Len(h) PROVE FALSE
      OBVIOUS
    <3>2. k + 1 \in 1..Len(h) - 1
      BY <1>4, <3>1
    <3>3. Follows(model, field, h[k + 1], h[(k + 1) + 1])
      BY <1>16, <3>2 DEF History
    <3> QED
      BY <1>7, <2>1, <3>3 DEF Follows, Encodes, DoublesTo, Ends
  <2>3. d = g /\ g.c = c_freqs["decoder"]
    BY <1>4, <1>6, <1>7, <1>8, <1>14, <2>2
  <2>4. used = Len(bits)
    <3>1. InInterval(value, bit_stream_offset, d.low, d.high)
      BY <1>9, <1>14
    <3>2. Within(d, g)
      BY <1>4, <1>7, <1>8, <1>16, <2>3 DEF NarrowedOnly
    <3> QED
      BY <1>3, <1>4, <1>8, <1>9, <1>15, <3>1, <3>2, AllTaken
  <2>5. values = arriving_values
    BY <1>4, <1>12, <1>17, ArrivesInFull
  <2>6. arriving_values' = arriving_values
    BY <1>5, SameConstants DEF arriving_values, OUT_OF_RANGE_SYMBOL
  <2>7. Decoded'
    BY <1>5, <1>16, <2>3, <2>4, <2>5, <2>6 DEF Decoded
  <2> QED
    BY <1>5, <1>17, <2>7
<1>18. CASE value_index + 1 # model.max_repeat
  <2>1. d.at = "encode" /\ d.index = value_index + 1
    <3>1. value_index # Len(field)
      BY <1>4, <1>13
    <3> QED
      BY <1>4, <1>6, <1>11, <1>18, <3>1 DEF Ends
  <2>2. k + 1 < Len(h)
    <3>1. k + 1 # Len(h)
      BY <1>7, <1>8, <1>16, <2>1
    <3> QED
      BY <1>4, <3>1
  <2>3. Encoded(h)'
    BY <1>3, <1>5, EncodedStays
  <2>4. Decoding(h, k + 1)'
    <3>1. Placed(number(bits')[used'], used', bit_stream_offset', value', h[k + 1])
      BY <1>5, <1>7, <1>15
    <3>2. /\ used' \in 0..Len(bits') /\ Len(bits') - used' <= Len(stream')
          /\ \A i \in 1..Len(bits') - used' : stream'[i] = bits'[used' + i]
      BY <1>4, <1>5
    <3>3. values' = SubSeq(field', 1, value_index')
      BY <1>4, <1>5
    <3>4. /\ h[k + 1].low = low' /\ h[k + 1].high = high' /\ h[k + 1].index = value_index'
          /\ h[k + 1].c = c_freqs'["decoder"] /\ pc' = "decode" /\ h[k + 1].at = "encode"
      BY <1>4, <1>5, <1>6, <1>7, <1>14, <1>18, <2>1
    <3>5. pc' # "shift" /\ (IF pc' = "decode" THEN "encode" ELSE "emit") = "encode"
      BY <3>4
    <3> QED
      BY <2>2, <3>1, <3>2, <3>3, <3>4, <3>5 DEF Decoding
  <2> QED
    BY <1>4, <1>5, <1>18, <2>3, <2>4
<1> QED
  BY <1>17, <1>18

\* Counting leaves the counts of a model that does not adapt alone, and what an
\* end does before the other has seen the message is the only way apart.
LEMMA StaticStays ==
  ASSUME TInv, ~model.is_adaptive, c_freqs["encoder"] = c_freqs["decoder"], [Next]_vars
  PROVE  c_freqs'["encoder"] = c_freqs'["decoder"]
<1>0. CountsOK
  BY DEF TInv, IInv
<1>1. CASE EncodeSymbol \/ DecodeSymbol
  <2>1. PICK end \in {"encoder", "decoder"} : \E s \in Symbols(model) : update_model(end, s)
    BY <1>1 DEF EncodeSymbol, DecodeSymbol
  <2>2. c_freqs' = c_freqs
    BY <1>0, <2>1, CountedIs
  <2> QED
    BY <2>2
<1>2. CASE ~(EncodeSymbol \/ DecodeSymbol)
  <2>1. c_freqs' = c_freqs
    BY <1>2 DEF Next, Work, EmitBit, SymbolEncoded, FinishEncode, Lose, StartDecode, GetBit,
                ShiftBit, SymbolDecoded, EndDecode, EndMessage, StartEncode, vars
  <2> QED
    BY <2>1
<1> QED
  BY <1>1, <1>2

\* The parameters stay, and what is out of step stays so.
LEMMA OutOfStepForGood ==
  ASSUME TInv, [Next]_vars
  PROVE  model' = model /\ (InStep' => InStep)
<1>1. model' = model
  BY DEF Next, Work, EncodeSymbol, EmitBit, SymbolEncoded, FinishEncode, Lose, StartDecode,
         GetBit, DecodeSymbol, ShiftBit, SymbolDecoded, EndDecode, EndMessage, StartEncode, vars
<1>2. lost' = lost \/ lost' = TRUE \/ lost' = (lost \/ pc = "thrown")
  BY DEF Next, Work, EncodeSymbol, EmitBit, SymbolEncoded, FinishEncode, Lose, StartDecode,
         GetBit, DecodeSymbol, ShiftBit, SymbolDecoded, EndDecode, EndMessage, StartEncode, vars
<1>3. lost => lost'
  BY <1>2
<1> QED
  BY <1>1, <1>3 DEF InStep

\* What AInv says of two ends that are in step.
Meeting ==
  /\ pc = "idle" => c_freqs["encoder"] = c_freqs["decoder"]
  /\ pc # "idle" => Sendable(model, field)
  /\ pc \in {"encode", "emit", "finish"} => \E h : Encoding(h)
  /\ pc = "sent" => \E h : Encoded(h) /\ h[1].c = c_freqs["decoder"]
  /\ pc \in {"decode", "shift"} => \E h : \E k \in 1..Len(h) : Encoded(h) /\ Decoding(h, k)
  /\ pc = "decoded" => Decoded
  /\ pc # "thrown"

\* The end of a message leaves the models as they are.
LEMMA EndStep ==
  ASSUME AInv, InStep, InStep', model' = model, Lose \/ EndDecode
  PROVE  Meeting'
<1>1. pc' = "idle" /\ c_freqs' = c_freqs
  BY DEF Lose, EndDecode, EndMessage
<1>2. c_freqs["encoder"] = c_freqs["decoder"]
  <2>1. CASE Lose
    <3>1. lost'
      BY <2>1 DEF Lose
    <3>2. ~model.is_adaptive
      BY <3>1 DEF InStep
    <3> QED
      BY <3>2 DEF AInv
  <2>2. CASE EndDecode
    <3>1. pc = "decoded"
      BY <2>2 DEF EndDecode, AInv
    <3> QED
      BY <3>1 DEF AInv, Decoded
  <2> QED
    BY <2>1, <2>2
<1> QED
  BY <1>1, <1>2 DEF Meeting

\* Every step of two ends in step keeps them so.
LEMMA NextMeeting ==
  ASSUME AInv, MinimumArrives, TInv', InStep, InStep', model' = model, Next
  PROVE  Meeting'
<1>0. ASSUME pc # "idle", field' = field PROVE Sendable(model, field)'
  BY <1>0 DEF AInv
<1>1. CASE EncodeSymbol
  <2>1. pc' = "emit" /\ pc # "idle" /\ field' = field
    BY <1>1 DEF EncodeSymbol
  <2> QED
    BY <1>0, <1>1, <2>1, EncodeStep DEF Meeting
<1>2. CASE EmitBit
  <2>1. pc' = "emit" /\ pc # "idle" /\ field' = field
    BY <1>2 DEF EmitBit
  <2> QED
    BY <1>0, <1>2, <2>1, EmitStep DEF Meeting
<1>3. CASE SymbolEncoded
  <2>1. pc' \in {"finish", "encode"} /\ pc # "idle" /\ field' = field
    BY <1>3 DEF SymbolEncoded
  <2> QED
    BY <1>0, <1>3, <2>1, EndsStep DEF Meeting
<1>4. CASE FinishEncode
  <2>1. pc' = "sent" /\ pc # "idle" /\ field' = field
    BY <1>4 DEF FinishEncode
  <2> QED
    BY <1>0, <1>4, <2>1, FinishStep DEF Meeting
<1>5. CASE Lose \/ EndDecode
  BY <1>5, EndStep
<1>6. ASSUME NEW tail \in Tails, StartDecode(tail) PROVE Meeting'
  <2>1. pc # "idle" /\ field' = field
    BY <1>6 DEF StartDecode
  <2>2. pc' = "decode" /\ (\E h : \E k \in 1..Len(h) : Encoded(h) /\ Decoding(h, k))'
    BY <1>6, BeginStep
  <2> QED
    BY <1>0, <2>1, <2>2 DEF Meeting
<1>7. CASE GetBit
  <2>1. pc # "idle" /\ field' = field
    BY <1>7 DEF GetBit
  <2>2. pc' = "decode" /\ (\E h : \E k \in 1..Len(h) : Encoded(h) /\ Decoding(h, k))'
    BY <1>7, BitStep
  <2> QED
    BY <1>0, <2>1, <2>2 DEF Meeting
<1>8. CASE DecodeSymbol
  <2>1. pc # "idle" /\ field' = field
    BY <1>8 DEF DecodeSymbol
  <2>2. \/ pc' = "decoded" /\ Decoded'
        \/ pc' = "shift" /\ (\E h : \E k \in 1..Len(h) : Encoded(h) /\ Decoding(h, k))'
    BY <1>8, DecodeStep
  <2> QED
    BY <1>0, <2>1, <2>2 DEF Meeting
<1>9. CASE ShiftBit
  <2>1. pc # "idle" /\ field' = field
    BY <1>9 DEF ShiftBit
  <2>2. pc' = "shift" /\ (\E h : \E k \in 1..Len(h) : Encoded(h) /\ Decoding(h, k))'
    BY <1>9, ShiftStep
  <2> QED
    BY <1>0, <2>1, <2>2 DEF Meeting
<1>10. CASE SymbolDecoded
  <2>1. pc # "idle" /\ field' = field
    BY <1>10 DEF SymbolDecoded
  <2>2. \/ pc' = "decoded" /\ Decoded'
        \/ pc' = "decode" /\ (\E h : \E k \in 1..Len(h) : Encoded(h) /\ Decoding(h, k))'
    BY <1>10, SymbolDecodedStep
  <2> QED
    BY <1>0, <2>1, <2>2 DEF Meeting
<1>11. ASSUME NEW f \in FieldsOf(model), FilledIfNecessary(f), OutOfRangeIsLast(f), StartEncode(f)
       PROVE  Meeting'
  <2>1. pc' = "encode"
    BY <1>11 DEF StartEncode
  <2>2. Sendable(model, field)' /\ (\E h : Encoding(h))'
    BY <1>11, StartStep
  <2> QED
    BY <2>1, <2>2 DEF Meeting
<1> QED
  BY <1>1, <1>2, <1>3, <1>4, <1>5, <1>6, <1>7, <1>8, <1>9, <1>10, <1>11 DEF Next, Work

\* Every step keeps the invariant, if the bits taken at once are there.
LEMMA NextAInv == AInv /\ MinimumArrives /\ [Next]_vars => AInv'
<1> SUFFICES ASSUME AInv, MinimumArrives, [Next]_vars PROVE AInv'
  OBVIOUS
<1>1. TInv /\ TInv'
  BY NextTInv DEF AInv
<1>2. model' = model /\ (InStep' => InStep)
  BY <1>1, OutOfStepForGood
<1>3. (~model.is_adaptive => c_freqs["encoder"] = c_freqs["decoder"])'
  BY <1>1, <1>2, StaticStays DEF AInv
<1>4. InStep' => Meeting'
  <2>1. CASE Next
    BY <1>1, <1>2, <2>1, NextMeeting
  <2>2. CASE UNCHANGED vars
    BY <2>2 DEF vars, interval, output, input, AInv, Meeting, InStep, Sendable, Encoding, Encoded,
                Decoding, Decoded, arriving_values
  <2> QED
    BY <2>1, <2>2
<1> QED
  BY <1>1, <1>3, <1>4 DEF AInv, Meeting

-----------------------------------------------------------------------------
(* The two ends agree *)

\* The properties follow from it.
LEMMA AInvHolds ==
  AInv => TypeOK /\ ModelsInStep /\ DecodesWhatWasEncoded /\ ConsumesWhatWasProduced
<1> SUFFICES ASSUME AInv
             PROVE  TypeOK /\ ModelsInStep /\ DecodesWhatWasEncoded /\ ConsumesWhatWasProduced
  OBVIOUS
<1>1. TypeOK
  BY TInvHolds DEF AInv
<1>2. ModelsInStep
  BY DEF AInv, ModelsInStep
<1>3. DecodesWhatWasEncoded
  BY DEF AInv, Decoded, DecodesWhatWasEncoded
<1>4. ConsumesWhatWasProduced
  BY DEF AInv, Decoded, ConsumesWhatWasProduced
<1> QED
  BY <1>1, <1>2, <1>3, <1>4

\* A model that adapts takes no bits before it looks at them, and one that does
\* not takes those that its size says.
LEMMA MinimumOfAdaptive == AInv /\ model.is_adaptive => MinimumArrives
<1> SUFFICES ASSUME AInv, model.is_adaptive, pc = "sent"
             PROVE  /\ min_size_repeated(model) \in 0..CODE_VALUE_BITS
                    /\ min_size_repeated(model) <= Len(bits)
  BY DEF MinimumArrives
<1>1. min_size_repeated(model) = 0
  BY DEF min_size_repeated
<1>2. bits \in Seq({0, 1}) /\ CODE_VALUE_BITS \in Nat
  BY ArithmeticAssumption DEF AInv, TInv, Types, OutputOK
<1>3. Len(bits) \in Nat /\ 0 \in 0..CODE_VALUE_BITS
  BY <1>2
<1>4. 0 <= Len(bits)
  BY <1>3
<1> QED
  BY <1>1, <1>3, <1>4

\* The sizes that load() counts with say that they are there.
LEMMA SizesSayMinimum == AInv /\ SizeWithinBounds => MinimumArrives
<1> SUFFICES ASSUME AInv, SizeWithinBounds PROVE MinimumArrives
  OBVIOUS
<1>1. CASE model.is_adaptive
  BY <1>1, MinimumOfAdaptive
<1>2. CASE ~model.is_adaptive
  BY <1>2 DEF SizeWithinBounds, MinimumArrives
<1> QED
  BY <1>1, <1>2

\* The invariant holds as long as the sizes of a static model do.
LEMMA AInvAlways == Spec /\ []SizeWithinBounds => []AInv
<1>1. Init => AInv
  BY InitAInv
<1>2. AInv /\ SizeWithinBounds /\ [Next]_vars => AInv'
  BY SizesSayMinimum, NextAInv
<1> QED
  BY <1>1, <1>2, PTL DEF Spec

\* A model does not begin or cease to adapt.
LEMMA AdaptiveAlways == Spec => [](model.is_adaptive => AInv)
<1> DEFINE J == model \in Models /\ (model.is_adaptive => AInv)
<1>1. Init => J
  BY InitAInv DEF Init
<1>2. J /\ [Next]_vars => J'
  <2> SUFFICES ASSUME J, [Next]_vars PROVE J'
    OBVIOUS
  <2>1. model' = model
    BY DEF Next, Work, EncodeSymbol, EmitBit, SymbolEncoded, FinishEncode, Lose, StartDecode,
           GetBit, DecodeSymbol, ShiftBit, SymbolDecoded, EndDecode, EndMessage, StartEncode, vars
  <2>2. ASSUME model.is_adaptive PROVE AInv'
    BY <2>2, MinimumOfAdaptive, NextAInv
  <2> QED
    BY <2>1, <2>2
<1>3. J => (model.is_adaptive => AInv)
  OBVIOUS
<1> HIDE DEF J
<1> QED
  BY <1>1, <1>2, <1>3, PTL DEF Spec

\* Every variable keeps its type, for every model, whose numbers have any width,
\* and any sequence of messages, as long as a static model has the sizes that
\* min_size_repeated() computes.
THEOREM ArithmeticTypeCorrect == Spec /\ []SizeWithinBounds => []TypeOK
<1>1. AInv => TypeOK
  BY AInvHolds
<1> QED
  BY <1>1, AInvAlways, PTL

\* After every message that came through, both ends have counted the same
\* (field_codec_arithmetic.h:309 and :460).
THEOREM ModelsAlwaysInStep == Spec /\ []SizeWithinBounds => []ModelsInStep
<1>1. AInv => ModelsInStep
  BY AInvHolds
<1> QED
  BY <1>1, AInvAlways, PTL

\* decode_repeated() returns the values that encode_repeated() was given,
\* whatever bits come behind theirs.
THEOREM AlwaysDecodesWhatWasEncoded == Spec /\ []SizeWithinBounds => []DecodesWhatWasEncoded
<1>1. AInv => DecodesWhatWasEncoded
  BY AInvHolds
<1> QED
  BY <1>1, AInvAlways, PTL

\* It takes exactly their bits and never asks for one that is not there
\* (field_codec_arithmetic.h:503).
THEOREM AlwaysConsumesWhatWasProduced ==
  Spec /\ []SizeWithinBounds => []ConsumesWhatWasProduced
<1>1. AInv => ConsumesWhatWasProduced
  BY AInvHolds
<1> QED
  BY <1>1, AInvAlways, PTL

\* For a model that adapts the sizes do not matter: nothing is assumed.
THEOREM AdaptiveModelsAgree ==
  Spec => [](model.is_adaptive =>
               TypeOK /\ ModelsInStep /\ DecodesWhatWasEncoded /\ ConsumesWhatWasProduced)
<1>1. AInv => TypeOK /\ ModelsInStep /\ DecodesWhatWasEncoded /\ ConsumesWhatWasProduced
  BY AInvHolds
<1> DEFINE K == TypeOK /\ ModelsInStep /\ DecodesWhatWasEncoded /\ ConsumesWhatWasProduced
<1>2. (model.is_adaptive => AInv) => (model.is_adaptive => K)
  BY <1>1
<1> QED
  BY <1>2, AdaptiveAlways, PTL

=============================================================================
