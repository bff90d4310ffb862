-------------------------- MODULE FieldCodecProofs --------------------------
(***************************************************************************)
(* For any message of fields, the decoder takes the bits that were encoded *)
(* and every element gets its own, whatever is prefetched into the pools.  *)
(*                                                                         *)
(* The bits of all pools together are the end of the encoded message, so   *)
(* the pools are given by where it is cut (Cut): c[k] is where pool k      *)
(* begins and c[k - 1] where it ends.  Asking for bits moves the cuts of   *)
(* the pools around, each as far as it has to (GetMoreBits).  The          *)
(* invariant says where in the message the last cut is for each place the  *)
(* decoder can be at, and that what was prefetched for a field does not    *)
(* reach beyond that field (Standing).                                     *)
(***************************************************************************)
EXTENDS FieldCodec, SequenceTheorems, FiniteSetTheorems, WellFoundedInduction, TLAPS

-----------------------------------------------------------------------------
(* The invariant *)

\* x is in w, behind the first a of it.
At(w, a, x) ==
  a \in Nat /\ a + Len(x) <= Len(w) /\ \A i \in 1..Len(x) : w[a + i] = x[i]

\* The pools p hold the end of w, cut at c.
Cut(w, p, c) ==
  /\ p \in Seq(Seq(Bit)) /\ c \in [0..Len(p) -> Nat] /\ c[0] = Len(w)
  /\ \A k \in 1..Len(p) : c[k] + Len(p[k]) = c[k - 1] /\ At(w, c[k], p[k])

\* What the first i sizes come to.
total_to(sizes, i) == total([k \in 1..i |-> sizes[k]])

\* Where field fi begins in the message, and its element e.
field_lengths(v, s, vals) == [fi \in 1..Len(s) |-> Len(field_encode(v, s, vals, fi))]

field_start(v, s, vals, fi) == total_to(field_lengths(v, s, vals), fi - 1)

count_size(v, f) == IF f.repeated THEN count_bits(v, f) ELSE 0

wire_sizes(v, f, val) == [i \in 1..wire_elements(v, f, val) |-> wire_size(v, f, val, i)]

elem_start(v, s, vals, fi, e) ==
  field_start(v, s, vals, fi) + count_size(v, s[fi])
    + total_to(wire_sizes(v, s[fi], vals[fi]), e - 1)

\* Where the cuts are when the decoder is at "at", in field fi and element e.
Standing(v, s, vals, k, c, at, fi, e, n) ==
  \/ /\ at = "message" /\ k = 1 /\ fi = 1
     /\ c[1] = 0
  \/ /\ at = "field" /\ k = 2
     /\ c[2] = field_start(v, s, vals, fi)
  \/ /\ at = "count" /\ k = 3 /\ fi <= Len(s) /\ s[fi].repeated /\ e = 1
     /\ c[3] = field_start(v, s, vals, fi)
     /\ c[2] <= field_start(v, s, vals, fi + 1)
  \/ /\ at = "elements" /\ k = 3 /\ fi <= Len(s) /\ s[fi].repeated
     /\ n = wire_elements(v, s[fi], vals[fi]) /\ e \in 1..n + 1
     /\ c[3] = elem_start(v, s, vals, fi, e)
     /\ c[2] <= field_start(v, s, vals, fi + 1)
  \/ /\ at = "element" /\ k = 4 /\ fi <= Len(s) /\ s[fi].repeated
     /\ n = wire_elements(v, s[fi], vals[fi]) /\ e \in 1..n
     /\ ~omitted(v, s[fi], vals[fi], e)
     /\ c[4] = elem_start(v, s, vals, fi, e) /\ c[3] = c[4] + s[fi].min
     /\ c[2] <= field_start(v, s, vals, fi + 1)
  \/ /\ at = "element" /\ k = 3 /\ fi <= Len(s) /\ ~s[fi].repeated
     /\ e = 1 /\ ~omitted(v, s[fi], vals[fi], 1)
     /\ c[3] = field_start(v, s, vals, fi) /\ c[2] = c[3] + s[fi].min
  \/ /\ at = "done" /\ k = 1 /\ fi = Len(s) + 1
     /\ c[1] = Len(encode(v, s, vals))

\* What was taken is the beginning of w.
Taken(w, t, c, k) == t \in Seq(Bit) /\ Len(t) = c[k] /\ At(w, 0, t)

Gift == [field: Nat, elem: Nat, bits: Seq(Bit)]

FieldInv ==
  /\ \E s \in Schemas : version = s.version /\ schema = s.fields /\ value \in ValuesOf(schema)
  /\ field \in 1..Len(schema) + 1 /\ elem \in Nat /\ count \in Nat
  /\ given \in Seq(Gift) /\ ElementsGetTheirBits
  /\ \E c : /\ Cut(encode(version, schema, value), pools, c)
            /\ Taken(encode(version, schema, value), taken, c, Len(pools))
            /\ Standing(version, schema, value, Len(pools), c, pc, field, elem, count)

\* Elements that a condition may omit are not prefetched: in version 3, with no
\* minimum of repetitions.  Without it ConsumesWhatWasProduced is not true.
OmitsNothingPrefetched ==
  \A s \in Schemas : \A i \in 1..Len(s.fields) :
    LET f == s.fields[i] IN
      f.repeated /\ f.dynamic => s.version > 2 /\ f.min_repeat = 0

-----------------------------------------------------------------------------
(* Sums and sequences *)

\* What holds of 0, and of n + 1 if of n, holds of every natural number.
LEMMA NatSetInduction ==
  ASSUME NEW T, 0 \in T, \A n \in Nat : n \in T => n + 1 \in T
  PROVE  Nat \subseteq T
<1> SUFFICES ASSUME NEW b \in Nat, b \notin T PROVE FALSE
  OBVIOUS
<1> DEFINE R == OpToRel(<, Nat)
           B == Nat \ T
<1>1. IsWellFoundedOn(R, Nat)
  BY NatLessThanWellFounded
<1>2. B \subseteq Nat /\ B # {}
  OBVIOUS
<1>3. \A x, y \in Nat : x < y => <<x, y>> \in R
  BY DEF OpToRel
<1> HIDE DEF R, B
<1>4. PICK x \in B : \A y \in B : ~ (<<y, x>> \in R)
  BY <1>1, <1>2, WFMin
<1>5. x \in Nat /\ x # 0 /\ x - 1 \in Nat /\ x - 1 < x
  BY <1>4 DEF B
<1>6. x - 1 \notin B
  BY <1>3, <1>4, <1>5
<1> QED
  BY <1>4, <1>5, <1>6 DEF B

\* There is a function that adds up s as far as N.
LEMMA SumsExist ==
  ASSUME NEW N \in Nat, NEW s
  PROVE  \E g : g = [i \in 0..N |-> IF i = 0 THEN 0 ELSE g[i - 1] + s[i]]
<1> DEFINE T == {n \in Nat : \E g : g = [i \in 0..n |-> IF i = 0 THEN 0 ELSE g[i - 1] + s[i]]}
<1>1. 0 \in T
  <2> DEFINE g == [i \in 0..0 |-> 0]
  <2>1. g = [i \in 0..0 |-> IF i = 0 THEN 0 ELSE g[i - 1] + s[i]]
    OBVIOUS
  <2> QED
    BY <2>1
<1>2. \A n \in Nat : n \in T => n + 1 \in T
  <2> SUFFICES ASSUME NEW n \in Nat, n \in T PROVE n + 1 \in T
    OBVIOUS
  <2>1. PICK g : g = [i \in 0..n |-> IF i = 0 THEN 0 ELSE g[i - 1] + s[i]]
    OBVIOUS
  <2>2. \A i \in 0..n : g[i] = IF i = 0 THEN 0 ELSE g[i - 1] + s[i]
    BY <2>1
  <2> DEFINE f == [i \in 0..n + 1 |-> IF i = n + 1 THEN g[n] + s[n + 1] ELSE g[i]]
  <2>3. \A i \in 0..n + 1 : f[i] = IF i = n + 1 THEN g[n] + s[n + 1] ELSE g[i]
    OBVIOUS
  <2>4. f = [i \in 0..n + 1 |-> f[i]]
    OBVIOUS
  <2> HIDE DEF f
  <2>5. \A i \in 0..n + 1 : f[i] = IF i = 0 THEN 0 ELSE f[i - 1] + s[i]
    <3> SUFFICES ASSUME NEW i \in 0..n + 1 PROVE f[i] = IF i = 0 THEN 0 ELSE f[i - 1] + s[i]
      OBVIOUS
    <3>1. CASE i = n + 1
      <4>1. i # 0 /\ i - 1 = n /\ n \in 0..n + 1 /\ n # n + 1
        BY <3>1
      <4>2. f[i] = g[n] + s[i] /\ f[i - 1] = g[n]
        BY <2>3, <3>1, <4>1
      <4> QED
        BY <4>1, <4>2
    <3>2. CASE i # n + 1
      <4>1. i \in 0..n /\ f[i] = g[i]
        BY <2>3, <3>2
      <4>2. i # 0 => i - 1 \in 0..n + 1 /\ i - 1 # n + 1
        BY <4>1
      <4>3. i # 0 => f[i - 1] = g[i - 1]
        BY <2>3, <4>2
      <4> QED
        BY <2>2, <4>1, <4>3
    <3> QED
      BY <3>1, <3>2
  <2>6. f = [i \in 0..n + 1 |-> IF i = 0 THEN 0 ELSE f[i - 1] + s[i]]
    BY <2>4, <2>5
  <2> QED
    BY <2>6
<1> HIDE DEF T
<1>3. N \in T
  BY <1>1, <1>2, NatSetInduction
<1> QED
  BY <1>3 DEF T

\* Sums are functions that add one size after the other.
LEMMA TotalToIs ==
  ASSUME NEW s, NEW n \in Nat
  PROVE  \E g : /\ g[0] = 0 /\ \A i \in 1..n : g[i] = g[i - 1] + s[i]
                /\ total_to(s, n) = g[n]
<1> DEFINE u == [k \in 1..n |-> s[k]]
           P(g) == g = [i \in 0..Len(u) |-> IF i = 0 THEN 0 ELSE g[i - 1] + u[i]]
           c == CHOOSE g : P(g)
<1>1. Len(u) = n /\ \A i \in 1..n : u[i] = s[i]
  OBVIOUS
<1>2. P(c)
  <2>1. Len(u) \in Nat
    BY <1>1
  <2> HIDE DEF u
  <2> QED
    BY <2>1, SumsExist
<1>3. total_to(s, n) = c[n]
  BY <1>1 DEF total_to, total
<1> HIDE DEF c, u
<1>4. \A i \in 0..n : c[i] = IF i = 0 THEN 0 ELSE c[i - 1] + u[i]
  BY <1>1, <1>2
<1>5. c[0] = 0 /\ \A i \in 1..n : c[i] = c[i - 1] + s[i]
  BY <1>1, <1>4
<1> QED
  BY <1>3, <1>5

\* Two such functions agree.
LEMMA SumsAgree ==
  ASSUME NEW N \in Nat, NEW s, NEW g, NEW h, g[0] = 0, h[0] = 0,
         \A i \in 1..N : g[i] = g[i - 1] + s[i],
         \A i \in 1..N : h[i] = h[i - 1] + s[i]
  PROVE  g[N] = h[N]
<1> DEFINE T == {n \in Nat : n <= N => g[n] = h[n]}
<1>1. 0 \in T
  OBVIOUS
<1>2. \A n \in Nat : n \in T => n + 1 \in T
  <2> SUFFICES ASSUME NEW n \in Nat, n \in T, n + 1 <= N PROVE g[n + 1] = h[n + 1]
    OBVIOUS
  <2>1. g[n] = h[n] /\ n + 1 \in 1..N /\ (n + 1) - 1 = n
    OBVIOUS
  <2> QED
    BY <2>1
<1> HIDE DEF T
<1>3. N \in T
  BY <1>1, <1>2, NatSetInduction
<1> QED
  BY <1>3 DEF T

\* A sum with one more size.
LEMMA TotalGrows ==
  ASSUME NEW s
  PROVE  /\ total_to(s, 0) = 0
         /\ \A n \in Nat : total_to(s, n + 1) = total_to(s, n) + s[n + 1]
<1>1. total_to(s, 0) = 0
  BY TotalToIs
<1>2. ASSUME NEW n \in Nat
      PROVE  total_to(s, n + 1) = total_to(s, n) + s[n + 1]
  <2>1. PICK g : /\ g[0] = 0 /\ \A i \in 1..n : g[i] = g[i - 1] + s[i]
                 /\ total_to(s, n) = g[n]
    BY TotalToIs
  <2>2. PICK h : /\ h[0] = 0 /\ \A i \in 1..n + 1 : h[i] = h[i - 1] + s[i]
                 /\ total_to(s, n + 1) = h[n + 1]
    BY TotalToIs
  <2>3. h[n + 1] = h[n] + s[n + 1]
    <3>1. n + 1 \in 1..n + 1 /\ (n + 1) - 1 = n
      OBVIOUS
    <3> QED
      BY <2>2, <3>1
  <2>4. \A i \in 1..n : h[i] = h[i - 1] + s[i]
    BY <2>2
  <2>5. g[n] = h[n]
    BY <2>1, <2>2, <2>4, SumsAgree
  <2> QED
    BY <2>1, <2>2, <2>3, <2>5
<1> QED
  BY <1>1, <1>2

\* Sums of natural numbers are such, and grow.
LEMMA TotalsGrow ==
  ASSUME NEW N \in Nat, NEW s, \A i \in 1..N : s[i] \in Nat,
         NEW m \in 0..N, NEW n \in 0..N, m <= n
  PROVE  total_to(s, m) \in Nat /\ total_to(s, n) \in Nat /\ total_to(s, m) <= total_to(s, n)
<1> DEFINE A(k) == /\ total_to(s, k) \in Nat
                   /\ m <= k => total_to(s, m) \in Nat /\ total_to(s, m) <= total_to(s, k)
           T == {k \in Nat : k <= N => A(k)}
<1>1. 0 \in T
  BY TotalGrows
<1>2. \A k \in Nat : k \in T => k + 1 \in T
  <2> SUFFICES ASSUME NEW k \in Nat, k \in T, k + 1 <= N PROVE A(k + 1)
    OBVIOUS
  <2>1. A(k) /\ k + 1 \in 1..N
    OBVIOUS
  <2>2. total_to(s, k + 1) = total_to(s, k) + s[k + 1] /\ s[k + 1] \in Nat
    BY <2>1, TotalGrows
  <2>3. CASE m <= k
    BY <2>1, <2>2, <2>3
  <2>4. CASE ~(m <= k)
    <3>1. m <= k + 1 => m = k + 1
      BY <2>4
    <3> QED
      BY <2>1, <2>2, <3>1
  <2> QED
    BY <2>3, <2>4
<1> HIDE DEF T, A
<1>3. n \in T
  BY <1>1, <1>2, NatSetInduction
<1> QED
  BY <1>3 DEF T, A

\* What is no more size for size is no more in total.
LEMMA TotalsCompare ==
  ASSUME NEW N \in Nat, NEW s, NEW t,
         \A i \in 1..N : s[i] \in Nat /\ t[i] \in Nat /\ s[i] <= t[i]
  PROVE  total_to(s, N) <= total_to(t, N)
<1> DEFINE T == {k \in Nat : k <= N => /\ total_to(s, k) \in Nat /\ total_to(t, k) \in Nat
                                       /\ total_to(s, k) <= total_to(t, k)}
<1>1. 0 \in T
  BY TotalGrows
<1>2. \A k \in Nat : k \in T => k + 1 \in T
  <2> SUFFICES ASSUME NEW k \in Nat, k \in T, k + 1 <= N
               PROVE  /\ total_to(s, k + 1) \in Nat /\ total_to(t, k + 1) \in Nat
                      /\ total_to(s, k + 1) <= total_to(t, k + 1)
    OBVIOUS
  <2>1. /\ total_to(s, k) \in Nat /\ total_to(t, k) \in Nat /\ total_to(s, k) <= total_to(t, k)
        /\ k + 1 \in 1..N
    OBVIOUS
  <2>2. /\ total_to(s, k + 1) = total_to(s, k) + s[k + 1]
        /\ total_to(t, k + 1) = total_to(t, k) + t[k + 1]
    BY TotalGrows
  <2>3. s[k + 1] \in Nat /\ t[k + 1] \in Nat /\ s[k + 1] <= t[k + 1]
    BY <2>1
  <2> QED
    BY <2>1, <2>2, <2>3
<1> HIDE DEF T
<1>3. N \in T
  BY <1>1, <1>2, NatSetInduction
<1> QED
  BY <1>3 DEF T

\* The sum of a sequence is the sum to its end.
LEMMA TotalIsToEnd ==
  ASSUME NEW S, NEW s \in Seq(S)
  PROVE  total(s) = total_to(s, Len(s))
<1>1. s = [k \in 1..Len(s) |-> s[k]]
  OBVIOUS
<1> QED
  BY <1>1 DEF total_to

\* The same sizes have the same sum.
LEMMA SameTotals ==
  ASSUME NEW n \in Nat, NEW s, NEW t, \A i \in 1..n : s[i] = t[i]
  PROVE  total_to(s, n) = total_to(t, n)
<1>1. [k \in 1..n |-> s[k]] = [k \in 1..n |-> t[k]]
  OBVIOUS
<1> QED
  BY <1>1 DEF total_to

-----------------------------------------------------------------------------
(* Pieces of a sequence *)

\* Sequences with the same elements are the same.
LEMMA SameSequence ==
  ASSUME NEW S, NEW a \in Seq(S), NEW b \in Seq(S), Len(a) = Len(b),
         \A i \in 1..Len(a) : a[i] = b[i]
  PROVE  a = b
OBVIOUS

\* Two sequences behind one another.
LEMMA ConcatIs ==
  ASSUME NEW S, NEW a \in Seq(S), NEW b \in Seq(S)
  PROVE  /\ a \o b \in Seq(S) /\ Len(a \o b) = Len(a) + Len(b)
         /\ Len(a) \in Nat /\ Len(b) \in Nat
         /\ \A i \in 1..Len(a) : (a \o b)[i] = a[i]
         /\ \A i \in 1..Len(b) : (a \o b)[Len(a) + i] = b[i]
OBVIOUS

\* A piece of a sequence.
LEMMA SubSeqIs ==
  ASSUME NEW S, NEW w \in Seq(S), NEW from \in Nat, NEW k \in Nat, from + k <= Len(w)
  PROVE  /\ SubSeq(w, from + 1, from + k) \in Seq(S)
         /\ Len(SubSeq(w, from + 1, from + k)) = k
         /\ \A j \in 1..k : SubSeq(w, from + 1, from + k)[j] = w[from + j]
<1>1. SubSeq(w, from + 1, from + k)
        = [j \in 1..((from + k) - (from + 1) + 1) |-> w[(from + 1) + j - 1]]
  OBVIOUS
<1>2. (from + k) - (from + 1) + 1 = k /\ \A j \in 1..k : (from + 1) + j - 1 = from + j
  OBVIOUS
<1>3. SubSeq(w, from + 1, from + k) = [j \in 1..k |-> w[from + j]]
  BY <1>1, <1>2
<1>4. \A j \in 1..k : w[from + j] \in S
  OBVIOUS
<1> QED
  BY <1>3, <1>4

\* A piece of a piece.
LEMMA AtPart ==
  ASSUME NEW S, NEW w \in Seq(S), NEW x \in Seq(S), NEW y \in Seq(S), NEW a, NEW b,
         At(w, a, x), At(x, b, y)
  PROVE  At(w, a + b, y)
<1>1. Len(w) \in Nat /\ Len(x) \in Nat /\ Len(y) \in Nat
  OBVIOUS
<1>2. a \in Nat /\ a + Len(x) <= Len(w) /\ \A i \in 1..Len(x) : w[a + i] = x[i]
  BY DEF At
<1>3. b \in Nat /\ b + Len(y) <= Len(x) /\ \A i \in 1..Len(y) : x[b + i] = y[i]
  BY DEF At
<1>4. \A i \in 1..Len(y) : b + i \in 1..Len(x) /\ a + (b + i) = (a + b) + i
  BY <1>1, <1>2, <1>3
<1>5. \A i \in 1..Len(y) : w[(a + b) + i] = y[i]
  BY <1>2, <1>3, <1>4
<1>6. a + b \in Nat /\ (a + b) + Len(y) <= Len(w)
  BY <1>1, <1>2, <1>3
<1> QED
  BY <1>5, <1>6 DEF At

\* Two pieces that are behind one another.
LEMMA AtJoin ==
  ASSUME NEW S, NEW w \in Seq(S), NEW x \in Seq(S), NEW y \in Seq(S), NEW a,
         At(w, a, x), At(w, a + Len(x), y)
  PROVE  At(w, a, x \o y)
<1>1. /\ a \in Nat /\ \A i \in 1..Len(x) : w[a + i] = x[i]
      /\ (a + Len(x)) + Len(y) <= Len(w) /\ \A i \in 1..Len(y) : w[(a + Len(x)) + i] = y[i]
  BY DEF At
<1>2. /\ Len(x \o y) = Len(x) + Len(y) /\ Len(x) \in Nat /\ Len(y) \in Nat /\ Len(w) \in Nat
      /\ \A i \in 1..Len(x) : (x \o y)[i] = x[i]
      /\ \A i \in 1..Len(y) : (x \o y)[Len(x) + i] = y[i]
  BY ConcatIs
<1> DEFINE z == x \o y
<1> HIDE DEF z
<1>3. ASSUME NEW i \in 1..Len(x) + Len(y) PROVE w[a + i] = z[i]
  <2>1. CASE i <= Len(x)
    BY <1>1, <1>2, <2>1 DEF z
  <2>2. CASE i > Len(x)
    <3>1. i - Len(x) \in 1..Len(y) /\ Len(x) + (i - Len(x)) = i
          /\ (a + Len(x)) + (i - Len(x)) = a + i
      BY <1>1, <1>2, <2>2
    <3> QED
      BY <1>1, <1>2, <3>1 DEF z
  <2> QED
    BY <1>2, <2>1, <2>2
<1> QED
  BY <1>1, <1>2, <1>3 DEF At, z

\* Pieces of the same length at the same place are the same.
LEMMA AtSame ==
  ASSUME NEW S, NEW w \in Seq(S), NEW x \in Seq(S), NEW y \in Seq(S), NEW a,
         At(w, a, x), At(w, a, y), Len(x) = Len(y)
  PROVE  x = y
<1>1. \A i \in 1..Len(x) : x[i] = y[i]
  BY DEF At
<1> QED
  BY <1>1, SameSequence

\* A piece cut in two.
LEMMA AtCut ==
  ASSUME NEW S, NEW w \in Seq(S), NEW x \in Seq(S), NEW a, At(w, a, x), NEW n \in 0..Len(x)
  PROVE  /\ SubSeq(x, 1, n) \in Seq(S) /\ Len(SubSeq(x, 1, n)) = n
         /\ At(w, a, SubSeq(x, 1, n))
         /\ SubSeq(x, n + 1, Len(x)) \in Seq(S)
         /\ Len(SubSeq(x, n + 1, Len(x))) = Len(x) - n
         /\ At(w, a + n, SubSeq(x, n + 1, Len(x)))
<1> DEFINE y == SubSeq(x, 0 + 1, 0 + n)
           k == Len(x) - n
           z == SubSeq(x, n + 1, n + k)
<1>1. Len(x) \in Nat /\ n \in Nat /\ k \in Nat /\ n + k = Len(x) /\ 0 + n = n /\ 0 + 1 = 1
  OBVIOUS
<1>2. y \in Seq(S) /\ Len(y) = n /\ \A j \in 1..n : y[j] = x[0 + j]
  BY <1>1, SubSeqIs
<1>3. z \in Seq(S) /\ Len(z) = k /\ \A j \in 1..k : z[j] = x[n + j]
  <2> HIDE DEF k
  <2> QED
    BY <1>1, SubSeqIs
<1>4. SubSeq(x, 1, n) = y /\ SubSeq(x, n + 1, Len(x)) = z
  BY <1>1
<1> HIDE DEF y, z
<1>5. At(x, 0, y)
  BY <1>1, <1>2 DEF At
<1>6. At(x, n, z)
  BY <1>1, <1>3 DEF At
<1>7. At(w, a + 0, y) /\ At(w, a + n, z)
  BY <1>2, <1>3, <1>5, <1>6, AtPart
<1>8. a + 0 = a
  BY DEF At
<1> QED
  BY <1>2, <1>3, <1>4, <1>7, <1>8

\* Where the parts of two sequences behind one another are.
LEMMA AtBoth ==
  ASSUME NEW S, NEW x \in Seq(S), NEW y \in Seq(S)
  PROVE  /\ x \o y \in Seq(S) /\ Len(x \o y) = Len(x) + Len(y)
         /\ At(x \o y, 0, x) /\ At(x \o y, Len(x), y)
<1> DEFINE z == x \o y
<1>1. /\ z \in Seq(S) /\ Len(z) = Len(x) + Len(y) /\ Len(x) \in Nat /\ Len(y) \in Nat
      /\ \A i \in 1..Len(x) : z[i] = x[i]
      /\ \A i \in 1..Len(y) : z[Len(x) + i] = y[i]
  BY ConcatIs
<1> HIDE DEF z
<1>2. At(z, 0, x)
  BY <1>1 DEF At
<1>3. At(z, Len(x), y)
  BY <1>1 DEF At
<1> QED
  BY <1>1, <1>2, <1>3 DEF z

\* A sequence is in itself, and nothing is everywhere.
LEMMA AtEnds ==
  ASSUME NEW S, NEW w \in Seq(S)
  PROVE  At(w, 0, w) /\ \A a \in 0..Len(w) : At(w, a, << >>)
BY DEF At

\* There is a function that puts sequences behind one another as far as N.
LEMMA FlattenExists ==
  ASSUME NEW N \in Nat, NEW s
  PROVE  \E g : g = [i \in 1..N |-> IF i = 1 THEN s[i] ELSE g[i - 1] \o s[i]]
<1> DEFINE C(a, i) == a \o s[i]
<1> HIDE DEF C
<1> DEFINE T == {n \in Nat : \E g : g = [i \in 1..n |-> IF i = 1 THEN s[i] ELSE C(g[i - 1], i)]}
<1>1. 0 \in T
  <2> DEFINE g == [i \in 1..0 |-> 0]
  <2>1. g = [i \in 1..0 |-> IF i = 1 THEN s[i] ELSE C(g[i - 1], i)]
    OBVIOUS
  <2> QED
    BY <2>1
<1>2. \A n \in Nat : n \in T => n + 1 \in T
  <2> SUFFICES ASSUME NEW n \in Nat, n \in T PROVE n + 1 \in T
    OBVIOUS
  <2>1. PICK g : g = [i \in 1..n |-> IF i = 1 THEN s[i] ELSE C(g[i - 1], i)]
    OBVIOUS
  <2>2. \A i \in 1..n : g[i] = IF i = 1 THEN s[i] ELSE C(g[i - 1], i)
    BY <2>1
  <2> DEFINE x == IF n = 0 THEN s[1] ELSE C(g[n], n + 1)
             f == [i \in 1..n + 1 |-> IF i = n + 1 THEN x ELSE g[i]]
  <2>3. \A i \in 1..n + 1 : f[i] = IF i = n + 1 THEN x ELSE g[i]
    OBVIOUS
  <2>4. f = [i \in 1..n + 1 |-> f[i]]
    OBVIOUS
  <2> HIDE DEF f
  <2>5. \A i \in 1..n + 1 : f[i] = IF i = 1 THEN s[i] ELSE C(f[i - 1], i)
    <3> SUFFICES ASSUME NEW i \in 1..n + 1 PROVE f[i] = IF i = 1 THEN s[i] ELSE C(f[i - 1], i)
      OBVIOUS
    <3>1. CASE i = n + 1 /\ i = 1
      <4>1. n = 0 /\ f[i] = x
        BY <2>3, <3>1
      <4> QED
        BY <3>1, <4>1
    <3>2. CASE i = n + 1 /\ i # 1
      <4>1. i - 1 = n /\ n \in 1..n + 1 /\ n # n + 1 /\ n # 0
        BY <3>2
      <4>2. f[i] = x /\ f[i - 1] = g[n]
        BY <2>3, <3>2, <4>1
      <4>3. x = C(g[n], i)
        BY <3>2, <4>1
      <4> HIDE DEF x
      <4> QED
        BY <3>2, <4>2, <4>3
    <3>3. CASE i # n + 1
      <4> HIDE DEF x
      <4>1. i \in 1..n /\ f[i] = g[i]
        BY <2>3, <3>3
      <4>2. i # 1 => i - 1 \in 1..n + 1 /\ i - 1 # n + 1
        BY <4>1
      <4>3. i # 1 => f[i - 1] = g[i - 1]
        BY <2>3, <4>2
      <4> QED
        BY <2>2, <4>1, <4>3
    <3> QED
      BY <3>1, <3>2, <3>3
  <2>6. f = [i \in 1..n + 1 |-> IF i = 1 THEN s[i] ELSE C(f[i - 1], i)]
    BY <2>4, <2>5
  <2> QED
    BY <2>6
<1> HIDE DEF T
<1>3. N \in T
  BY <1>1, <1>2, NatSetInduction
<1> QED
  BY <1>3 DEF T, C

\* FlattenSeq() puts the parts behind one another.
LEMMA FlattenIs ==
  ASSUME NEW s, Len(s) \in Nat \ {0}
  PROVE  \E g : /\ g[1] = s[1]
                /\ \A i \in 2..Len(s) : g[i] = g[i - 1] \o s[i]
                /\ FlattenSeq(s) = g[Len(s)]
<1> DEFINE n == Len(s)
           C(a, i) == a \o s[i]
           P(g) == g = [i \in 1..n |-> IF i = 1 THEN s[i] ELSE C(g[i - 1], i)]
           c == CHOOSE g : P(g)
<1>1. P(c)
  BY FlattenExists
<1>2. FlattenSeq(s) = c[n]
  BY DEF FlattenSeq
<1> HIDE DEF c, C
<1>3. \A i \in 1..n : c[i] = IF i = 1 THEN s[i] ELSE C(c[i - 1], i)
  BY <1>1
<1> HIDE DEF n
<1>4. c[1] = s[1] /\ \A i \in 2..n : c[i] = C(c[i - 1], i)
  BY <1>3 DEF n
<1> QED
  BY <1>2, <1>4 DEF C, n

\* The lengths of the parts.
part_lengths(s) == [i \in 1..Len(s) |-> Len(s[i])]

\* Every part is where the lengths of those in front of it say.
LEMMA FlattenHolds ==
  ASSUME NEW S, NEW s \in Seq(Seq(S))
  PROVE  /\ FlattenSeq(s) \in Seq(S)
         /\ Len(FlattenSeq(s)) = total_to(part_lengths(s), Len(s))
         /\ \A i \in 1..Len(s) : At(FlattenSeq(s), total_to(part_lengths(s), i - 1), s[i])
<1> DEFINE n == Len(s)
           L == part_lengths(s)
<1>1. n \in Nat /\ \A i \in 1..n : s[i] \in Seq(S)
  OBVIOUS
<1>2. \A i \in 1..n : Len(s[i]) \in Nat /\ L[i] = Len(s[i])
  BY <1>1 DEF part_lengths
<1>3. CASE n = 0
  <2>1. FlattenSeq(s) = << >>
    <3>1. s = << >>
      BY <1>3
    <3> QED
      BY <3>1 DEF FlattenSeq
  <2>2. total_to(L, 0) = 0
    BY TotalGrows
  <2> QED
    BY <1>3, <2>1, <2>2
<1>4. CASE n # 0
  <2>1. PICK g : /\ g[1] = s[1] /\ \A i \in 2..n : g[i] = g[i - 1] \o s[i]
                 /\ FlattenSeq(s) = g[n]
    BY <1>1, <1>4, FlattenIs
  <2> DEFINE A(m) == /\ g[m] \in Seq(S) /\ Len(g[m]) = total_to(L, m)
                     /\ \A i \in 1..m : At(g[m], total_to(L, i - 1), s[i])
             T == {m \in Nat : m + 1 <= n => A(m + 1)}
  <2> HIDE DEF n, L
  <2>2. 0 \in T
    <3>1. 1 \in 1..n /\ 0 + 1 = 1
      BY <1>1, <1>4
    <3>2. total_to(L, 0) = 0 /\ total_to(L, 0 + 1) = total_to(L, 0) + L[1]
      BY <3>1, TotalGrows
    <3>3. L[1] = Len(s[1]) /\ L[1] \in Nat /\ s[1] \in Seq(S)
      BY <1>1, <1>2, <3>1
    <3>4. total_to(L, 1) = Len(s[1])
      BY <3>2, <3>3
    <3>5. At(s[1], 0, s[1])
      BY <3>3, AtEnds
    <3>6. \A i \in 1..1 : i = 1 /\ i - 1 = 0
      OBVIOUS
    <3>7. A(1)
      BY <2>1, <3>2, <3>3, <3>4, <3>5, <3>6
    <3> HIDE DEF A
    <3> QED
      BY <3>7
  <2>3. \A m \in Nat : m \in T => m + 1 \in T
    <3> SUFFICES ASSUME NEW m \in Nat, m \in T, (m + 1) + 1 <= n PROVE A((m + 1) + 1)
      OBVIOUS
    <3> DEFINE j == m + 1
    <3>1. /\ A(j) /\ j \in Nat /\ j + 1 \in 2..n /\ (j + 1) - 1 = j /\ j + 1 \in 1..n
      BY <1>1
    <3> HIDE DEF j
    <3>2. g[j + 1] = g[j] \o s[j + 1]
      BY <2>1, <3>1
    <3>3. s[j + 1] \in Seq(S) /\ L[j + 1] = Len(s[j + 1])
      BY <1>1, <1>2, <3>1
    <3>4. /\ g[j + 1] \in Seq(S) /\ Len(g[j + 1]) = Len(g[j]) + Len(s[j + 1])
          /\ At(g[j + 1], 0, g[j]) /\ At(g[j + 1], Len(g[j]), s[j + 1])
      <4>1. g[j] \in Seq(S)
        BY <3>1
      <4>2. /\ g[j] \o s[j + 1] \in Seq(S)
            /\ Len(g[j] \o s[j + 1]) = Len(g[j]) + Len(s[j + 1])
            /\ At(g[j] \o s[j + 1], 0, g[j]) /\ At(g[j] \o s[j + 1], Len(g[j]), s[j + 1])
        BY <3>3, <4>1, AtBoth
      <4> QED
        BY <3>2, <4>2
    <3>5. total_to(L, j + 1) = total_to(L, j) + L[j + 1]
      BY <3>1, TotalGrows
    <3>6. Len(g[j + 1]) = total_to(L, j + 1)
      BY <3>1, <3>3, <3>4, <3>5
    <3>7. ASSUME NEW i \in 1..j + 1 PROVE At(g[j + 1], total_to(L, i - 1), s[i])
      <4>1. CASE i = j + 1
        BY <3>1, <3>4, <4>1
      <4>2. CASE i # j + 1
        <5>1. i \in 1..j /\ i \in 1..n
          <6>1. j \in Nat /\ n \in Nat /\ j + 1 <= n
            BY <1>1, <3>1
          <6> QED
            BY <6>1, <4>2
        <5>2. At(g[j], total_to(L, i - 1), s[i]) /\ s[i] \in Seq(S)
          BY <1>1, <3>1, <5>1
        <5>3. At(g[j + 1], 0 + total_to(L, i - 1), s[i])
          BY <3>1, <3>4, <5>2, AtPart
        <5>4. 0 + total_to(L, i - 1) = total_to(L, i - 1)
          BY <5>2 DEF At
        <5> QED
          BY <5>3, <5>4
      <4> QED
        BY <4>1, <4>2
    <3>8. A(j + 1)
      BY <3>4, <3>6, <3>7
    <3> QED
      BY <3>8 DEF j
  <2> HIDE DEF T, A
  <2>4. n - 1 \in T /\ (n - 1) + 1 = n
    <3>1. n - 1 \in Nat /\ (n - 1) + 1 = n
      BY <1>1, <1>4
    <3>2. Nat \subseteq T
      BY <2>2, <2>3, NatSetInduction
    <3> QED
      BY <3>1, <3>2
  <2>5. A(n)
    BY <1>1, <2>4 DEF T
  <2> QED
    BY <2>1, <2>5 DEF A, n, L
<1> QED
  BY <1>3, <1>4

-----------------------------------------------------------------------------
(* The chain of pools *)

\* Nothing has been given up yet.
untouched(p) == [p |-> p, out |-> << >>, ok |-> TRUE]

\* What comes of asking pool i for up to n bits, up being what comes of asking
\* its parent.
asked(p, n, up, i) ==
  [m \in 0..n |->
     give_up(IF Len(p[i]) < m /\ i > 1 THEN up[m - Len(p[i])] ELSE untouched(p), i, m)]

\* g is a function from the pools, as far as N, to what comes of asking them.
IsAsking(p, n, N, g) == g = [i \in 1..N |-> asked(p, n, g[i - 1], i)]

\* There is such a function.
LEMMA AskingExists ==
  ASSUME NEW N \in Nat, NEW n \in Nat, NEW p
  PROVE  \E g : IsAsking(p, n, N, g)
<1> DEFINE first == [m \in 0..n |-> give_up(untouched(p), 1, m)]
           C(a, i) == asked(p, n, a, i)
<1>0. \A a : C(a, 1) = first
  <2> SUFFICES ASSUME NEW a, NEW m \in 0..n
               PROVE  (IF Len(p[1]) < m /\ 1 > 1 THEN a[m - Len(p[1])] ELSE untouched(p))
                        = untouched(p)
    BY DEF asked
  <2>1. ~(1 > 1)
    OBVIOUS
  <2> QED
    BY <2>1
<1> HIDE DEF C, first
<1> DEFINE T == {k \in Nat : \E g : g = [i \in 1..k |-> IF i = 1 THEN first ELSE C(g[i - 1], i)]}
<1>1. 0 \in T
  <2> DEFINE g == [i \in 1..0 |-> 0]
  <2>1. g = [i \in 1..0 |-> IF i = 1 THEN first ELSE C(g[i - 1], i)]
    OBVIOUS
  <2> QED
    BY <2>1
<1>2. \A k \in Nat : k \in T => k + 1 \in T
  <2> SUFFICES ASSUME NEW k \in Nat, k \in T PROVE k + 1 \in T
    OBVIOUS
  <2>1. PICK g : g = [i \in 1..k |-> IF i = 1 THEN first ELSE C(g[i - 1], i)]
    OBVIOUS
  <2>2. \A i \in 1..k : g[i] = IF i = 1 THEN first ELSE C(g[i - 1], i)
    BY <2>1
  <2> DEFINE x == IF k = 0 THEN first ELSE C(g[k], k + 1)
             f == [i \in 1..k + 1 |-> IF i = k + 1 THEN x ELSE g[i]]
  <2>3. \A i \in 1..k + 1 : f[i] = IF i = k + 1 THEN x ELSE g[i]
    OBVIOUS
  <2>4. f = [i \in 1..k + 1 |-> f[i]]
    OBVIOUS
  <2> HIDE DEF f
  <2>5. \A i \in 1..k + 1 : f[i] = IF i = 1 THEN first ELSE C(f[i - 1], i)
    <3> SUFFICES ASSUME NEW i \in 1..k + 1 PROVE f[i] = IF i = 1 THEN first ELSE C(f[i - 1], i)
      OBVIOUS
    <3>1. CASE i = k + 1 /\ i = 1
      <4>1. k = 0 /\ f[i] = x
        BY <2>3, <3>1
      <4> QED
        BY <3>1, <4>1
    <3>2. CASE i = k + 1 /\ i # 1
      <4>1. i - 1 = k /\ k \in 1..k + 1 /\ k # k + 1 /\ k # 0
        BY <3>2
      <4>2. f[i] = x /\ f[i - 1] = g[k]
        BY <2>3, <3>2, <4>1
      <4>3. x = C(g[k], i)
        BY <3>2, <4>1
      <4> HIDE DEF x
      <4> QED
        BY <3>2, <4>2, <4>3
    <3>3. CASE i # k + 1
      <4> HIDE DEF x
      <4>1. i \in 1..k /\ f[i] = g[i]
        BY <2>3, <3>3
      <4>2. i # 1 => i - 1 \in 1..k + 1 /\ i - 1 # k + 1
        BY <4>1
      <4>3. i # 1 => f[i - 1] = g[i - 1]
        BY <2>3, <4>2
      <4> QED
        BY <2>2, <4>1, <4>3
    <3> QED
      BY <3>1, <3>2, <3>3
  <2>6. f = [i \in 1..k + 1 |-> IF i = 1 THEN first ELSE C(f[i - 1], i)]
    BY <2>4, <2>5
  <2> QED
    BY <2>6
<1> HIDE DEF T
<1>3. N \in T
  BY <1>1, <1>2, NatSetInduction
<1>4. PICK g : g = [i \in 1..N |-> IF i = 1 THEN first ELSE C(g[i - 1], i)]
  BY <1>3 DEF T
<1>5. \A i \in 1..N : (IF i = 1 THEN first ELSE C(g[i - 1], i)) = C(g[i - 1], i)
  BY <1>0
<1>6. g = [i \in 1..N |-> C(g[i - 1], i)]
  BY <1>4, <1>5
<1> QED
  BY <1>6 DEF C, IsAsking

\* What comes of asking pool k for n bits, in terms of its parent.
LEMMA RelinquishIs ==
  ASSUME NEW p, NEW k \in Nat \ {0}, NEW n \in Nat
  PROVE  \E r : /\ relinquish_bits(p, k, n) = r[k][n]
                /\ \A j \in 1..k : \A m \in 0..n :
                     r[j][m] = give_up(IF Len(p[j]) < m /\ j > 1 THEN r[j - 1][m - Len(p[j])]
                                       ELSE untouched(p), j, m)
<1> DEFINE c == CHOOSE g : IsAsking(p, n, k, g)
<1>1. IsAsking(p, n, k, c)
  <2>1. \E g : IsAsking(p, n, k, g)
    BY AskingExists
  <2> QED
    BY <2>1
<1>2. relinquish_bits(p, k, n) = c[k][n]
  BY DEF relinquish_bits, untouched, asked, IsAsking
<1> HIDE DEF c
<1>3. ASSUME NEW j \in 1..k, NEW m \in 0..n
      PROVE  c[j][m] = give_up(IF Len(p[j]) < m /\ j > 1 THEN c[j - 1][m - Len(p[j])]
                               ELSE untouched(p), j, m)
  <2>1. c[j] = asked(p, n, c[j - 1], j)
    BY <1>1 DEF IsAsking
  <2>2. asked(p, n, c[j - 1], j)[m]
          = give_up(IF Len(p[j]) < m /\ j > 1 THEN c[j - 1][m - Len(p[j])]
                    ELSE untouched(p), j, m)
    BY DEF asked
  <2> QED
    BY <2>1, <2>2
<1> QED
  BY <1>2, <1>3

\* r is what comes of pool k, at a, giving up its first m bits and those of out.
GaveUp(w, p, out, a, k, m, r) ==
  /\ r.ok = TRUE
  /\ r.p \in Seq(Seq(Bit)) /\ Len(r.p) = Len(p)
  /\ \A j \in 1..Len(p) : j # k => r.p[j] = p[j]
  /\ r.out \in Seq(Bit) /\ Len(r.out) = m /\ At(w, a, r.out)
  /\ r.p[k] \in Seq(Bit) /\ Len(r.p[k]) = (Len(p[k]) + Len(out)) - m
  /\ At(w, a + m, r.p[k])

\* A pool that has, with what its parent gave it, enough gives up the front.
LEMMA GiveUp ==
  ASSUME NEW w \in Seq(Bit), NEW p \in Seq(Seq(Bit)), NEW out \in Seq(Bit), NEW a,
         NEW k \in 1..Len(p), NEW m \in Nat,
         At(w, a, p[k]), At(w, a + Len(p[k]), out), m <= Len(p[k]) + Len(out)
  PROVE  GaveUp(w, p, out, a, k, m, give_up([p |-> p, out |-> out, ok |-> TRUE], k, m))
<1> DEFINE r == give_up([p |-> p, out |-> out, ok |-> TRUE], k, m)
           mine == p[k] \o out
           front == SubSeq(mine, 1, m)
           back == SubSeq(mine, m + 1, Len(mine))
<1>1. p[k] \in Seq(Bit)
  OBVIOUS
<1>2. mine \in Seq(Bit) /\ Len(mine) = Len(p[k]) + Len(out) /\ At(w, a, mine)
  <2>1. mine \in Seq(Bit) /\ Len(mine) = Len(p[k]) + Len(out)
    BY <1>1, AtBoth
  <2> QED
    BY <1>1, <2>1, AtJoin
<1>3. r = [p |-> [p EXCEPT ![k] = back],
           out |-> SubSeq(mine, 1, IF m < Len(mine) THEN m ELSE Len(mine)),
           ok |-> m <= Len(mine)]
  BY DEF give_up
<1>4. Len(mine) \in Nat /\ m \in 0..Len(mine)
  BY <1>1, <1>2
<1> HIDE DEF mine
<1>5. (IF m < Len(mine) THEN m ELSE Len(mine)) = m
  BY <1>4
<1>6. /\ front \in Seq(Bit) /\ Len(front) = m /\ At(w, a, front)
      /\ back \in Seq(Bit) /\ Len(back) = Len(mine) - m /\ At(w, a + m, back)
  <2> HIDE DEF front, back
  <2>1. front = SubSeq(mine, 1, m) /\ back = SubSeq(mine, m + 1, Len(mine))
    BY DEF front, back
  <2>2. mine \in Seq(Bit) /\ At(w, a, mine)
    BY <1>2
  <2>3. /\ SubSeq(mine, 1, m) \in Seq(Bit) /\ Len(SubSeq(mine, 1, m)) = m
        /\ At(w, a, SubSeq(mine, 1, m))
        /\ SubSeq(mine, m + 1, Len(mine)) \in Seq(Bit)
        /\ Len(SubSeq(mine, m + 1, Len(mine))) = Len(mine) - m
        /\ At(w, a + m, SubSeq(mine, m + 1, Len(mine)))
    BY <1>4, <2>2, AtCut, Zenon
  <2> QED
    BY <2>1, <2>3
<1> HIDE DEF r
<1>7. r.p = [p EXCEPT ![k] = back] /\ r.out = front /\ r.ok = (m <= Len(mine))
  BY <1>3, <1>5
<1> HIDE DEF front, back
<1>8. /\ r.p \in Seq(Seq(Bit)) /\ Len(r.p) = Len(p) /\ r.p[k] = back
      /\ \A j \in 1..Len(p) : j # k => r.p[j] = p[j]
  BY <1>6, <1>7
<1>9. r.ok = TRUE
  <2>1. (m <= Len(mine)) = TRUE
    BY <1>4
  <2> QED
    BY <1>7, <2>1
<1>10. /\ r.out \in Seq(Bit) /\ Len(r.out) = m /\ At(w, a, r.out)
       /\ r.p[k] \in Seq(Bit) /\ Len(r.p[k]) = (Len(p[k]) + Len(out)) - m
       /\ At(w, a + m, r.p[k])
  BY <1>2, <1>6, <1>7, <1>8
<1> QED
  BY <1>8, <1>9, <1>10 DEF GaveUp, r

\* The pools and where they are cut.
LEMMA CutIs ==
  ASSUME NEW w \in Seq(Bit), NEW p, NEW c, Cut(w, p, c)
  PROVE  /\ p \in Seq(Seq(Bit)) /\ Len(p) \in Nat /\ Len(w) \in Nat /\ c[0] = Len(w)
         /\ \A j \in 0..Len(p) : c[j] \in Nat
         /\ \A j \in 1..Len(p) : /\ p[j] \in Seq(Bit) /\ Len(p[j]) \in Nat
                                 /\ c[j] \in Nat /\ c[j - 1] \in Nat
                                 /\ c[j] + Len(p[j]) = c[j - 1] /\ At(w, c[j], p[j])
<1>1. /\ p \in Seq(Seq(Bit)) /\ c \in [0..Len(p) -> Nat] /\ c[0] = Len(w)
      /\ \A k \in 1..Len(p) : c[k] + Len(p[k]) = c[k - 1] /\ At(w, c[k], p[k])
  BY Zenon DEF Cut
<1>2. Len(p) \in Nat /\ Len(w) \in Nat
  BY <1>1
<1>3. \A j \in 0..Len(p) : c[j] \in Nat
  BY <1>1
<1>4. \A j \in 1..Len(p) : p[j] \in Seq(Bit)
  BY <1>1
<1>5. \A j \in 1..Len(p) : Len(p[j]) \in Nat
  BY <1>4
<1>6. \A j \in 1..Len(p) : j \in 0..Len(p) /\ j - 1 \in 0..Len(p)
  BY <1>2
<1>7. \A j \in 1..Len(p) : c[j] \in Nat /\ c[j - 1] \in Nat
  BY <1>3, <1>6
<1> QED
  BY <1>1, <1>2, <1>3, <1>4, <1>5, <1>7

\* Each pool begins where the next ends, so it begins no earlier.
LEMMA CutsFall ==
  ASSUME NEW w \in Seq(Bit), NEW p, NEW c, Cut(w, p, c),
         NEW i \in 0..Len(p), NEW j \in i..Len(p)
  PROVE  c[i] \in Nat /\ c[j] \in Nat /\ c[j] <= c[i] /\ c[i] <= Len(w)
<1> DEFINE n == Len(p)
           T(f) == {k \in Nat : f + k <= n => c[f + k] \in Nat /\ c[f + k] <= c[f]}
<1>1. n \in Nat /\ Len(w) \in Nat /\ c[0] = Len(w) /\ \A k \in 0..n : c[k] \in Nat
  BY CutIs
<1>2. \A k \in 1..n : Len(p[k]) \in Nat /\ c[k] + Len(p[k]) = c[k - 1]
  BY CutIs
<1>3. ASSUME NEW f \in 0..n PROVE Nat \subseteq T(f)
  <2> HIDE DEF n
  <2>1. 0 \in T(f)
    BY <1>1
  <2>2. \A k \in Nat : k \in T(f) => k + 1 \in T(f)
    <3> SUFFICES ASSUME NEW k \in Nat, k \in T(f), f + (k + 1) <= n
                 PROVE  c[f + (k + 1)] \in Nat /\ c[f + (k + 1)] <= c[f]
      OBVIOUS
    <3> DEFINE h == f + k
    <3>1. h + 1 = f + (k + 1) /\ h \in 0..n /\ h + 1 \in 1..n /\ (h + 1) - 1 = h /\ h + 1 \in 0..n
      BY <1>1
    <3>2. c[h] <= c[f]
      BY <1>1
    <3> HIDE DEF h
    <3>3. c[h + 1] + Len(p[h + 1]) = c[h] /\ Len(p[h + 1]) \in Nat
      BY <1>2, <3>1
    <3>4. c[h + 1] \in Nat /\ c[h] \in Nat /\ c[f] \in Nat
      BY <1>1, <3>1
    <3>5. c[h + 1] <= c[f]
      BY <3>2, <3>3, <3>4
    <3> QED
      BY <3>1, <3>4, <3>5
  <2> HIDE DEF T
  <2> QED
    BY <2>1, <2>2, NatSetInduction
<1>4. /\ j - i \in Nat /\ i + (j - i) = j /\ j <= n
      /\ i \in Nat /\ 0 + i = i /\ i <= n /\ 0 \in 0..n
  BY <1>1
<1> HIDE DEF n
<1>5. j - i \in T(i) /\ i \in T(0)
  BY <1>3, <1>4 DEF n
<1>6. c[j] <= c[i] /\ c[i] <= c[0]
  BY <1>4, <1>5
<1> QED
  BY <1>1, <1>4, <1>6 DEF n

\* The first k pools begin where they began, or at x if that is further.
PushedTo(w, p, c, k, x) ==
  \A j \in 1..k : /\ at_least(c[j], x) + Len(p[j]) = at_least(c[j - 1], x)
                  /\ At(w, at_least(c[j], x), p[j])

\* r is what comes of asking pool k for n bits: the bits behind where it begins.
Drawn(w, p, c, k, n, r) ==
  /\ r.ok = TRUE
  /\ r.p \in Seq(Seq(Bit)) /\ Len(r.p) = Len(p)
  /\ \A j \in k + 1..Len(p) : r.p[j] = p[j]
  /\ PushedTo(w, r.p, c, k, c[k] + n)
  /\ r.out \in Seq(Bit) /\ Len(r.out) = n /\ At(w, c[k], r.out)

\* A pool that has what it is asked for.
LEMMA DrawnFromOne ==
  ASSUME NEW w \in Seq(Bit), NEW p, NEW c, Cut(w, p, c), NEW k \in 1..Len(p), NEW m \in Nat,
         m <= Len(p[k])
  PROVE  Drawn(w, p, c, k, m, give_up(untouched(p), k, m))
<1> DEFINE r == give_up(untouched(p), k, m)
           x == c[k] + m
<1>1. /\ p \in Seq(Seq(Bit)) /\ Len(p) \in Nat /\ p[k] \in Seq(Bit) /\ Len(p[k]) \in Nat
      /\ \A j \in 0..Len(p) : c[j] \in Nat
      /\ \A j \in 1..Len(p) : c[j] + Len(p[j]) = c[j - 1] /\ At(w, c[j], p[j])
  BY CutIs
<1>2. At(w, c[k] + Len(p[k]), << >>)
  <2>1. c[k] + Len(p[k]) \in 0..Len(w)
    BY <1>1 DEF At
  <2> QED
    BY <2>1, AtEnds
<1> DEFINE e == << >>
<1>3. e \in Seq(Bit) /\ Len(e) = 0 /\ m <= Len(p[k]) + Len(e)
  BY <1>1
<1>4. /\ r.ok = TRUE
      /\ r.p \in Seq(Seq(Bit)) /\ Len(r.p) = Len(p)
      /\ \A j \in 1..Len(p) : j # k => r.p[j] = p[j]
      /\ r.out \in Seq(Bit) /\ Len(r.out) = m /\ At(w, c[k], r.out)
      /\ r.p[k] \in Seq(Bit) /\ Len(r.p[k]) = (Len(p[k]) + 0) - m
      /\ At(w, c[k] + m, r.p[k])
  <2> HIDE DEF r, e
  <2>1. r = give_up([p |-> p, out |-> e, ok |-> TRUE], k, m)
    BY DEF r, e, untouched
  <2>2. At(w, c[k], p[k]) /\ At(w, c[k] + Len(p[k]), e)
    BY <1>1, <1>2 DEF e
  <2>3. /\ r.ok = TRUE
        /\ r.p \in Seq(Seq(Bit)) /\ Len(r.p) = Len(p)
        /\ \A j \in 1..Len(p) : j # k => r.p[j] = p[j]
        /\ r.out \in Seq(Bit) /\ Len(r.out) = m /\ At(w, c[k], r.out)
        /\ r.p[k] \in Seq(Bit) /\ Len(r.p[k]) = (Len(p[k]) + Len(e)) - m
        /\ At(w, c[k] + m, r.p[k])
    <3>1. GaveUp(w, p, e, c[k], k, m, give_up([p |-> p, out |-> e, ok |-> TRUE], k, m))
      BY <1>1, <1>3, <2>2, GiveUp
    <3>2. GaveUp(w, p, e, c[k], k, m, r)
      BY <2>1, <3>1
    <3> QED
      BY <3>2 DEF GaveUp
  <2> QED
    BY <1>3, <2>3
<1> HIDE DEF r
<1>5. PushedTo(w, r.p, c, k, x)
  <2> SUFFICES ASSUME NEW j \in 1..k
               PROVE  /\ at_least(c[j], x) + Len(r.p[j]) = at_least(c[j - 1], x)
                      /\ At(w, at_least(c[j], x), r.p[j])
    BY Zenon DEF PushedTo
  <2>1. c[k] \in Nat /\ c[j] \in Nat /\ c[j - 1] \in Nat /\ j \in 1..Len(p) /\ x \in Nat
    <3>1. j \in 1..Len(p) /\ j \in 0..Len(p) /\ j - 1 \in 0..Len(p) /\ k \in 0..Len(p)
      BY <1>1
    <3>2. c[k] \in Nat /\ c[j] \in Nat /\ c[j - 1] \in Nat
      BY <1>1, <3>1
    <3> QED
      BY <3>1, <3>2
  <2>2. c[j] + Len(p[j]) = c[j - 1] /\ At(w, c[j], p[j])
    BY <1>1, <2>1
  <2>3. CASE j = k
    <3>1. at_least(c[j], x) = x /\ Len(r.p[j]) = Len(p[j]) - m
      BY <1>1, <1>4, <2>1, <2>3 DEF at_least
    <3>2. at_least(c[j - 1], x) = c[j - 1]
      BY <1>1, <2>1, <2>2, <2>3 DEF at_least
    <3>3. x + (Len(p[j]) - m) = c[j - 1]
      BY <1>1, <2>1, <2>2, <2>3
    <3> QED
      BY <1>4, <2>3, <3>1, <3>2, <3>3
  <2>4. CASE j # k
    <3>1. c[k - 1] <= c[j] /\ c[j] <= c[j - 1] /\ x <= c[k - 1] /\ c[k - 1] \in Nat
      <4>1. k - 1 \in j..Len(p) /\ j \in 0..Len(p) /\ j \in j - 1..Len(p) /\ j - 1 \in 0..Len(p)
        <5>1. Len(p) \in Nat
          BY <1>1
        <5>2. k \in 1..Len(p) /\ j \in 1..k /\ j # k
          BY <2>4
        <5> QED
          BY <5>1, <5>2
      <4>2. c[k - 1] <= c[j] /\ c[k - 1] \in Nat
        BY <4>1, CutsFall
      <4>3. c[j] <= c[j - 1]
        BY <4>1, CutsFall
      <4>4. c[k] + Len(p[k]) = c[k - 1]
        BY <1>1
      <4>5. x <= c[k - 1]
        <5>1. m <= Len(p[k]) /\ Len(p[k]) \in Nat
          BY <1>1
        <5>2. c[k] + m <= c[k] + Len(p[k])
          BY <2>1, <5>1
        <5> QED
          BY <4>4, <5>2
      <4> QED
        BY <4>2, <4>3, <4>5
    <3>2. at_least(c[j], x) = c[j] /\ at_least(c[j - 1], x) = c[j - 1]
      <4> HIDE DEF x
      <4> QED
        BY <2>1, <3>1 DEF at_least
    <3>3. r.p[j] = p[j]
      BY <1>4, <2>1, <2>4
    <3> QED
      BY <2>2, <3>2, <3>3
  <2> QED
    BY <2>3, <2>4
<1>6. \A j \in k + 1..Len(p) : r.p[j] = p[j]
  <2>1. \A j \in k + 1..Len(p) : j \in 1..Len(p) /\ j # k
    BY <1>1
  <2> QED
    BY <1>4, <2>1
<1> QED
  BY <1>4, <1>5, <1>6 DEF Drawn, r

\* A pool whose parent gives it what it lacks.
LEMMA DrawnThroughParent ==
  ASSUME NEW w \in Seq(Bit), NEW p, NEW c, Cut(w, p, c), NEW k \in 2..Len(p), NEW m \in Nat,
         Len(p[k]) < m, c[k] + m <= Len(w),
         NEW up, up = [p |-> up.p, out |-> up.out, ok |-> up.ok],
         Drawn(w, p, c, k - 1, m - Len(p[k]), up)
  PROVE  Drawn(w, p, c, k, m, give_up(up, k, m))
<1> DEFINE r == give_up(up, k, m)
           x == c[k] + m
<1>0. Len(p) \in Nat /\ k \in 1..Len(p)
  <2>1. Len(p) \in Nat
    BY CutIs
  <2> QED
    BY <2>1
<1>1. /\ p \in Seq(Seq(Bit)) /\ p[k] \in Seq(Bit) /\ Len(p[k]) \in Nat
      /\ c[k] + Len(p[k]) = c[k - 1] /\ At(w, c[k], p[k])
      /\ c[k] \in Nat /\ c[k - 1] \in Nat
  <2>1. /\ p \in Seq(Seq(Bit))
        /\ \A j \in 1..Len(p) : /\ p[j] \in Seq(Bit) /\ Len(p[j]) \in Nat
                                /\ c[j] \in Nat /\ c[j - 1] \in Nat
                                /\ c[j] + Len(p[j]) = c[j - 1] /\ At(w, c[j], p[j])
    BY CutIs
  <2> QED
    BY <1>0, <2>1
<1>2. /\ k \in 1..Len(p) /\ k - 1 \in 0..Len(p) /\ k \in 0..Len(p) /\ (k - 1) + 1 = k
      /\ k \in (k - 1) + 1..Len(p) /\ k - 1 \in 1..Len(p)
  BY <1>0
<1>3. c[k] \in Nat /\ c[k - 1] \in Nat /\ Len(p[k]) \in Nat
  BY <1>1
<1>4. c[k - 1] + (m - Len(p[k])) = x
  <2>1. c[k] + Len(p[k]) = c[k - 1]
    BY <1>1
  <2> QED
    BY <1>3, <2>1
<1>5. /\ up.ok = TRUE /\ up.p \in Seq(Seq(Bit)) /\ Len(up.p) = Len(p)
      /\ \A j \in k..Len(p) : up.p[j] = p[j]
      /\ PushedTo(w, up.p, c, k - 1, x)
      /\ up.out \in Seq(Bit) /\ Len(up.out) = m - Len(p[k]) /\ At(w, c[k - 1], up.out)
  BY <1>2, <1>4 DEF Drawn
<1>6. up.p[k] = p[k] /\ k \in 1..Len(up.p)
  BY <1>2, <1>5
<1>7. m <= Len(p[k]) + Len(up.out)
  <2>1. Len(up.out) = m - Len(p[k])
    BY <1>5
  <2> QED
    BY <1>3, <2>1
<1>8. /\ r.ok = TRUE
      /\ r.p \in Seq(Seq(Bit)) /\ Len(r.p) = Len(up.p)
      /\ \A j \in 1..Len(up.p) : j # k => r.p[j] = up.p[j]
      /\ r.out \in Seq(Bit) /\ Len(r.out) = m /\ At(w, c[k], r.out)
      /\ r.p[k] \in Seq(Bit) /\ Len(r.p[k]) = (Len(p[k]) + Len(up.out)) - m
      /\ At(w, c[k] + m, r.p[k])
  <2>1. up = [p |-> up.p, out |-> up.out, ok |-> TRUE]
    BY <1>5
  <2>2. At(w, c[k], up.p[k]) /\ At(w, c[k] + Len(up.p[k]), up.out) /\ m <= Len(up.p[k]) + Len(up.out)
    BY <1>1, <1>5, <1>6, <1>7
  <2> HIDE DEF r
  <2>3. r = give_up([p |-> up.p, out |-> up.out, ok |-> TRUE], k, m)
    BY <2>1 DEF r
  <2>4. /\ r.ok = TRUE
        /\ r.p \in Seq(Seq(Bit)) /\ Len(r.p) = Len(up.p)
        /\ \A j \in 1..Len(up.p) : j # k => r.p[j] = up.p[j]
        /\ r.out \in Seq(Bit) /\ Len(r.out) = m /\ At(w, c[k], r.out)
        /\ r.p[k] \in Seq(Bit) /\ Len(r.p[k]) = (Len(up.p[k]) + Len(up.out)) - m
        /\ At(w, c[k] + m, r.p[k])
    <3>1. GaveUp(w, up.p, up.out, c[k], k, m,
                 give_up([p |-> up.p, out |-> up.out, ok |-> TRUE], k, m))
      BY <1>5, <1>6, <2>2, GiveUp
    <3>2. GaveUp(w, up.p, up.out, c[k], k, m, r)
      BY <2>3, <3>1
    <3> QED
      BY <3>2 DEF GaveUp
  <2> QED
    BY <1>6, <2>4
<1> HIDE DEF r
<1>9. PushedTo(w, r.p, c, k, x)
  <2> SUFFICES ASSUME NEW j \in 1..k
               PROVE  /\ at_least(c[j], x) + Len(r.p[j]) = at_least(c[j - 1], x)
                      /\ At(w, at_least(c[j], x), r.p[j])
    BY DEF PushedTo
  <2>1. CASE j = k
    <3>1. at_least(c[k], x) = x
      BY <1>3 DEF at_least
    <3>2. at_least(c[k - 1], x) = x
      <4>1. c[k - 1] < x
        BY <1>3, <1>4
      <4> QED
        BY <1>3, <4>1 DEF at_least
    <3>3. Len(r.p[k]) = 0
      <4>1. Len(r.p[k]) = (Len(p[k]) + (m - Len(p[k]))) - m
        BY <1>5, <1>8
      <4> QED
        BY <1>3, <4>1
    <3>4. x + 0 = x
      BY <1>3
    <3> QED
      BY <1>8, <2>1, <3>1, <3>2, <3>3, <3>4
  <2>2. CASE j # k
    <3>1. j \in 1..k - 1 /\ j \in 1..Len(up.p)
      <4>1. j \in 1..k /\ j # k /\ Len(up.p) = Len(p)
        BY <1>5, <2>2
      <4> QED
        BY <1>0, <4>1
    <3>2. /\ at_least(c[j], x) + Len(up.p[j]) = at_least(c[j - 1], x)
          /\ At(w, at_least(c[j], x), up.p[j])
      BY <1>5, <3>1 DEF PushedTo
    <3>3. r.p[j] = up.p[j]
      BY <1>8, <2>2, <3>1
    <3> QED
      BY <3>2, <3>3
  <2> QED
    BY <2>1, <2>2
<1>10. \A j \in k + 1..Len(p) : r.p[j] = p[j]
  <2>1. \A j \in k + 1..Len(p) : j \in 1..Len(p) /\ j # k /\ j \in k..Len(p)
    BY <1>0
  <2> QED
    BY <1>5, <1>8, <2>1
<1> QED
  BY <1>5, <1>8, <1>9, <1>10 DEF Drawn, r

\* relinquish_bits() gives up the bits behind where the pool begins, as many as
\* it is asked for, if there are as many in all pools down to the message.
LEMMA Relinquish ==
  ASSUME NEW w \in Seq(Bit), NEW p, NEW c, Cut(w, p, c), NEW k \in 1..Len(p), NEW n \in Nat,
         c[k] + n <= Len(w)
  PROVE  Drawn(w, p, c, k, n, relinquish_bits(p, k, n))
<1>1. /\ p \in Seq(Seq(Bit)) /\ Len(p) \in Nat /\ Len(w) \in Nat /\ c[0] = Len(w)
      /\ \A j \in 0..Len(p) : c[j] \in Nat
      /\ \A j \in 1..Len(p) : Len(p[j]) \in Nat /\ c[j] + Len(p[j]) = c[j - 1]
  BY CutIs
<1>2. PICK r : /\ relinquish_bits(p, k, n) = r[k][n]
               /\ \A j \in 1..k : \A m \in 0..n :
                    r[j][m] = give_up(IF Len(p[j]) < m /\ j > 1 THEN r[j - 1][m - Len(p[j])]
                                      ELSE untouched(p), j, m)
  <2>1. k \in Nat \ {0}
    BY <1>1
  <2> QED
    BY <2>1, RelinquishIs
<1> DEFINE A(j) == \A m \in 0..n : c[j] + m <= Len(w) =>
                     /\ Drawn(w, p, c, j, m, r[j][m])
                     /\ r[j][m] = [p |-> r[j][m].p, out |-> r[j][m].out, ok |-> r[j][m].ok]
           T == {j \in Nat : j \in 1..k => A(j)}
<1>3. \A up, j, m : (up.ok = TRUE) =>
         give_up(up, j, m) = [p |-> give_up(up, j, m).p, out |-> give_up(up, j, m).out,
                              ok |-> give_up(up, j, m).ok]
  <2> SUFFICES ASSUME NEW up, NEW j, NEW m, up.ok = TRUE
               PROVE  give_up(up, j, m)
                        = [p |-> give_up(up, j, m).p, out |-> give_up(up, j, m).out,
                           ok |-> give_up(up, j, m).ok]
    OBVIOUS
  <2> DEFINE mine == up.p[j] \o up.out
  <2>1. give_up(up, j, m)
          = [p   |-> [up.p EXCEPT ![j] = SubSeq(mine, m + 1, Len(mine))],
             out |-> SubSeq(mine, 1, IF m < Len(mine) THEN m ELSE Len(mine)),
             ok  |-> m <= Len(mine)]
    BY DEF give_up
  <2> QED
    BY <2>1
<1> HIDE DEF A
<1>4. 0 \in T
  OBVIOUS
<1>5. \A j \in Nat : j \in T => j + 1 \in T
  <2> SUFFICES ASSUME NEW h \in Nat, h \in T, h + 1 \in 1..k PROVE A(h + 1)
    OBVIOUS
  <2> DEFINE j == h + 1
  <2>1. j \in 1..k /\ j - 1 = h /\ j \in 1..Len(p) /\ (j > 1 => h \in 1..k) /\ (j > 1 => j \in 2..Len(p))
    BY <1>1
  <2>2. j > 1 => A(j - 1)
    BY <2>1
  <2> HIDE DEF j
  <2> SUFFICES ASSUME NEW m \in 0..n, c[j] + m <= Len(w)
               PROVE  /\ Drawn(w, p, c, j, m, r[j][m])
                      /\ r[j][m] = [p |-> r[j][m].p, out |-> r[j][m].out, ok |-> r[j][m].ok]
    BY DEF j, A
  <2>3. Len(p[j]) \in Nat /\ c[j] + Len(p[j]) = c[j - 1] /\ c[j] \in Nat /\ c[j - 1] \in Nat /\ m \in Nat
    <3>1. j - 1 \in 0..Len(p) /\ j \in 0..Len(p)
      BY <1>1, <2>1
    <3> QED
      BY <1>1, <2>1, <3>1
  <2>4. CASE m <= Len(p[j])
    <3>1. r[j][m] = give_up(untouched(p), j, m)
      <4>1. ~(Len(p[j]) < m)
        BY <2>3, <2>4
      <4> QED
        BY <1>2, <2>1, <4>1
    <3>2. untouched(p).ok = TRUE
      BY DEF untouched
    <3>3. Drawn(w, p, c, j, m, give_up(untouched(p), j, m))
      BY <2>1, <2>3, <2>4, DrawnFromOne
    <3> QED
      BY <1>3, <3>1, <3>2, <3>3
  <2>5. CASE ~(m <= Len(p[j])) /\ j > 1
    <3> DEFINE x == m - Len(p[j])
               up == r[j - 1][x]
    <3>1. Len(p[j]) < m /\ x \in 0..n /\ c[j - 1] + x <= Len(w)
      <4>1. Len(p[j]) < m /\ x \in Nat /\ x <= m
        BY <2>3, <2>5
      <4>2. c[j - 1] + x = c[j] + m
        BY <2>3
      <4> QED
        BY <4>1, <4>2
    <3>2. r[j][m] = give_up(up, j, m)
      BY <1>2, <2>1, <2>5, <3>1
    <3>3. /\ Drawn(w, p, c, j - 1, x, up)
          /\ up = [p |-> up.p, out |-> up.out, ok |-> up.ok]
      BY <2>2, <2>5, <3>1 DEF A
    <3> HIDE DEF up
    <3>4. Drawn(w, p, c, j, m, give_up(up, j, m))
      <4>1. j \in 2..Len(p) /\ m \in Nat
        BY <2>1, <2>3, <2>5
      <4> HIDE DEF x
      <4>2. x = m - Len(p[j])
        BY DEF x
      <4> QED
        BY <3>1, <3>3, <4>1, <4>2, DrawnThroughParent
    <3>5. up.ok = TRUE
      BY <3>3 DEF Drawn
    <3> QED
      BY <1>3, <3>2, <3>4, <3>5
  <2>6. CASE ~(m <= Len(p[j])) /\ ~(j > 1)
    <3>1. j = 1 /\ c[j - 1] = Len(w)
      BY <1>1, <2>1, <2>6
    <3> QED
      BY <1>1, <2>3, <2>6, <3>1
  <2> QED
    BY <2>4, <2>5, <2>6
<1> HIDE DEF T
<1>6. k \in T
  <2>1. k \in Nat
    BY <1>1
  <2> QED
    BY <1>4, <1>5, <2>1, NatSetInduction
<1>7. A(k) /\ n \in 0..n
  BY <1>6 DEF T
<1> QED
  BY <1>2, <1>7 DEF A

\* Where the cuts are when the last of k pools got n more bits.
pulled(c, k, n) ==
  [j \in 0..k |-> IF j = k THEN c[k] ELSE at_least(c[j], c[k - 1] + n)]

\* Where they are when another was opened, with n bits.
opened(c, k, n) ==
  [j \in 0..k + 1 |-> IF j = k + 1 THEN c[k] ELSE at_least(c[j], c[k] + n)]

\* get_more_bits() puts the bits that follow behind those of the last pool.
LEMMA GetMoreBits ==
  ASSUME NEW w \in Seq(Bit), NEW p, NEW c, Cut(w, p, c), Len(p) >= 2, NEW n \in Nat,
         c[Len(p) - 1] + n <= Len(w)
  PROVE  /\ get_more_bits(p, n).ok = TRUE
         /\ Len(get_more_bits(p, n).p) = Len(p)
         /\ Cut(w, get_more_bits(p, n).p, pulled(c, Len(p), n))
<1> DEFINE K == Len(p)
           r == relinquish_bits(p, K - 1, n)
           x == c[K - 1] + n
           d == pulled(c, K, n)
           q == [r.p EXCEPT ![K] = @ \o r.out]
<1>1. K \in Nat /\ K >= 2
  BY CutIs
<1>2. /\ p \in Seq(Seq(Bit)) /\ Len(w) \in Nat /\ c[0] = Len(w)
      /\ \A j \in 0..K : c[j] \in Nat
      /\ \A j \in 1..K : /\ p[j] \in Seq(Bit) /\ Len(p[j]) \in Nat
                         /\ c[j] \in Nat /\ c[j - 1] \in Nat
                         /\ c[j] + Len(p[j]) = c[j - 1] /\ At(w, c[j], p[j])
  BY CutIs
<1>3. /\ K - 1 \in 1..K /\ K \in 1..K /\ K - 1 \in 0..K /\ 0 \in 0..K
      /\ K \in (K - 1) + 1..K /\ \A j \in 1..K : j # K => j \in 1..K - 1
      /\ \A j \in 0..K : j # K => j \in 0..K - 1
  <2> HIDE DEF K
  <2> QED
    BY <1>1
<1>4. Drawn(w, p, c, K - 1, n, r)
  BY <1>3, Relinquish
<1>5. get_more_bits(p, n) = [p |-> q, ok |-> r.ok]
  BY DEF get_more_bits
<1> HIDE DEF K, r
<1>6. /\ r.ok = TRUE /\ r.p \in Seq(Seq(Bit)) /\ Len(r.p) = K
      /\ r.p[K] = p[K] /\ PushedTo(w, r.p, c, K - 1, x)
      /\ r.out \in Seq(Bit) /\ Len(r.out) = n /\ At(w, c[K - 1], r.out)
  BY <1>3, <1>4 DEF Drawn, K
<1>7. /\ p[K] \in Seq(Bit) /\ Len(p[K]) \in Nat /\ c[K] \in Nat /\ c[K - 1] \in Nat
      /\ c[K] + Len(p[K]) = c[K - 1] /\ At(w, c[K], p[K])
  BY <1>2, <1>3
<1>8. /\ p[K] \o r.out \in Seq(Bit) /\ Len(p[K] \o r.out) = Len(p[K]) + n
      /\ At(w, c[K], p[K] \o r.out)
  <2>1. p[K] \o r.out \in Seq(Bit) /\ Len(p[K] \o r.out) = Len(p[K]) + Len(r.out)
    <3>1. p[K] \in Seq(Bit) /\ r.out \in Seq(Bit)
      BY <1>6, <1>7
    <3> QED
      BY <3>1, ConcatIs
  <2>2. At(w, c[K] + Len(p[K]), r.out)
    BY <1>6, <1>7
  <2>3. At(w, c[K], p[K] \o r.out)
    BY <1>6, <1>7, <2>2, AtJoin
  <2> QED
    BY <1>6, <2>1, <2>3
<1>9. /\ q \in Seq(Seq(Bit)) /\ Len(q) = K /\ q[K] = p[K] \o r.out
      /\ \A j \in 1..K : j # K => q[j] = r.p[j]
  <2> DEFINE y == p[K] \o r.out
  <2>1. q = [r.p EXCEPT ![K] = y]
    BY <1>3, <1>6
  <2>2. y \in Seq(Bit)
    BY <1>8
  <2> HIDE DEF y, q
  <2>3. /\ q \in Seq(Seq(Bit)) /\ Len(q) = K /\ q[K] = y
        /\ \A j \in 1..K : j # K => q[j] = r.p[j]
    BY <1>3, <1>6, <2>1, <2>2
  <2> QED
    BY <2>3 DEF y
<1> HIDE DEF q
<1>10. \A j \in 0..K : d[j] = IF j = K THEN c[K] ELSE at_least(c[j], x)
  BY DEF pulled
<1>11. d \in [0..K -> Nat] /\ d[0] = Len(w)
  <2>1. x \in Nat /\ x <= Len(w)
    BY <1>7 DEF K
  <2>2. \A j \in 0..K : (IF j = K THEN c[K] ELSE at_least(c[j], x)) \in Nat
    BY <1>2, <2>1 DEF at_least
  <2>3. d = [j \in 0..K |-> IF j = K THEN c[K] ELSE at_least(c[j], x)]
    BY DEF pulled
  <2>4. d[0] = at_least(c[0], x)
    BY <1>1, <1>3, <1>10
  <2>5. at_least(c[0], x) = Len(w)
    BY <1>2, <2>1 DEF at_least
  <2> QED
    BY <2>2, <2>3, <2>4, <2>5
<1> HIDE DEF d
<1>12. ASSUME NEW j \in 1..K
       PROVE  d[j] + Len(q[j]) = d[j - 1] /\ At(w, d[j], q[j])
  <2>1. j \in 0..K /\ j - 1 \in 0..K /\ j - 1 # K
    BY <1>1
  <2>2. d[j - 1] = at_least(c[j - 1], x)
    BY <1>10, <2>1
  <2>3. CASE j = K
    <3>1. d[j] = c[K]
      BY <1>10, <2>1, <2>3
    <3>2. at_least(c[K - 1], x) = c[K - 1] + n
      BY <1>7 DEF at_least
    <3>3. c[K] + (Len(p[K]) + n) = c[K - 1] + n
      BY <1>7
    <3> QED
      BY <1>8, <1>9, <2>2, <2>3, <3>1, <3>2, <3>3
  <2>4. CASE j # K
    <3>1. d[j] = at_least(c[j], x) /\ q[j] = r.p[j] /\ j \in 1..K - 1
      BY <1>3, <1>9, <1>10, <2>1, <2>4
    <3>2. /\ at_least(c[j], x) + Len(r.p[j]) = at_least(c[j - 1], x)
          /\ At(w, at_least(c[j], x), r.p[j])
      BY <1>6, <3>1 DEF PushedTo
    <3> QED
      BY <2>2, <3>1, <3>2
  <2> QED
    BY <2>3, <2>4
<1>13. Cut(w, q, d)
  BY <1>9, <1>11, <1>12 DEF Cut
<1>14. get_more_bits(p, n).ok = TRUE /\ get_more_bits(p, n).p = q
  BY <1>5, <1>6
<1> QED
  BY <1>9, <1>13, <1>14 DEF K, d

\* A new pool starts empty, where the last one does.
LEMMA AppendNone ==
  ASSUME NEW w \in Seq(Bit), NEW p, NEW c, Cut(w, p, c)
  PROVE  /\ Len(Append(p, << >>)) = Len(p) + 1
         /\ Cut(w, Append(p, << >>), [j \in 0..Len(p) + 1 |-> IF j = Len(p) + 1 THEN c[Len(p)] ELSE c[j]])
<1> DEFINE K == Len(p)
           q == Append(p, << >>)
           d == [j \in 0..K + 1 |-> IF j = K + 1 THEN c[K] ELSE c[j]]
<1>1. K \in Nat
  BY CutIs
<1>2. /\ p \in Seq(Seq(Bit)) /\ Len(w) \in Nat /\ c[0] = Len(w)
      /\ \A j \in 0..K : c[j] \in Nat
      /\ \A j \in 1..K : /\ p[j] \in Seq(Bit) /\ Len(p[j]) \in Nat
                         /\ c[j] \in Nat /\ c[j - 1] \in Nat
                         /\ c[j] + Len(p[j]) = c[j - 1] /\ At(w, c[j], p[j])
  BY CutIs
<1>3. /\ q \in Seq(Seq(Bit)) /\ Len(q) = K + 1 /\ q[K + 1] = << >>
      /\ \A j \in 1..K : q[j] = p[j]
  <2> DEFINE e == << >>
  <2>1. e \in Seq(Bit)
    OBVIOUS
  <2> HIDE DEF e
  <2>2. Append(p, e) \in Seq(Seq(Bit)) /\ Len(Append(p, e)) = Len(p) + 1
        /\ Append(p, e)[Len(p) + 1] = e /\ \A j \in 1..Len(p) : Append(p, e)[j] = p[j]
    BY <1>2, <2>1
  <2> QED
    BY <2>2 DEF e
<1>4. \A j \in 0..K + 1 : d[j] = IF j = K + 1 THEN c[K] ELSE c[j]
  OBVIOUS
<1>5. d \in [0..K + 1 -> Nat]
  <2> HIDE DEF K
  <2>1. \A j \in 0..K + 1 : (IF j = K + 1 THEN c[K] ELSE c[j]) \in Nat
    BY <1>1, <1>2
  <2> QED
    BY <2>1
<1> HIDE DEF q, d, K
<1>6. c[K] \in Nat /\ c[K] \in 0..Len(w)
  <2>1. K \in 0..K /\ 0 \in 0..K
    BY <1>1
  <2>2. c[K] \in Nat /\ c[K] <= Len(w)
    BY <1>1, <2>1, CutsFall DEF K
  <2> QED
    BY <1>2, <2>2
<1>7. d[0] = Len(w)
  BY <1>1, <1>2, <1>4
<1>8. ASSUME NEW j \in 1..K + 1
      PROVE  d[j] + Len(q[j]) = d[j - 1] /\ At(w, d[j], q[j])
  <2>1. CASE j = K + 1
    <3>1. d[j] = c[K] /\ d[j - 1] = c[K]
      BY <1>1, <1>4, <2>1
    <3>2. Len(q[j]) = 0 /\ q[j] = << >>
      BY <1>3, <2>1
    <3>3. At(w, c[K], << >>)
      BY <1>6, AtEnds
    <3> QED
      BY <1>6, <3>1, <3>2, <3>3
  <2>2. CASE j # K + 1
    <3>1. j \in 1..K /\ j \in 0..K + 1 /\ j - 1 \in 0..K + 1 /\ j - 1 # K + 1
      BY <1>1, <2>2
    <3>2. d[j] = c[j] /\ d[j - 1] = c[j - 1] /\ q[j] = p[j]
      BY <1>3, <1>4, <2>2, <3>1
    <3> QED
      BY <1>2, <3>1, <3>2
  <2> QED
    BY <2>1, <2>2
<1>9. Cut(w, q, d)
  BY <1>3, <1>5, <1>7, <1>8 DEF Cut
<1> QED
  BY <1>3, <1>9 DEF q, d, K

\* Bitset(parent) and its get_more_bits() give a new pool the first bits of its
\* parent, and it what that takes.
LEMMA OpenChild ==
  ASSUME NEW w \in Seq(Bit), NEW p, NEW c, Cut(w, p, c), Len(p) >= 1, NEW n \in Nat,
         c[Len(p)] + n <= Len(w)
  PROVE  /\ open_child(p, n).ok = TRUE
         /\ Len(open_child(p, n).p) = Len(p) + 1
         /\ Cut(w, open_child(p, n).p, opened(c, Len(p), n))
<1> DEFINE K == Len(p)
           q == Append(p, << >>)
           d == [j \in 0..K + 1 |-> IF j = K + 1 THEN c[K] ELSE c[j]]
<1>1. K \in Nat /\ K >= 1
  BY CutIs
<1>2. Len(q) = K + 1 /\ Cut(w, q, d)
  BY AppendNone
<1>3. \A j \in 0..K + 1 : d[j] = IF j = K + 1 THEN c[K] ELSE c[j]
  OBVIOUS
<1> HIDE DEF q, d, K
<1>4. /\ (K + 1) - 1 = K /\ K \in 0..K + 1 /\ K + 1 \in 0..K + 1 /\ K # K + 1
      /\ K + 1 >= 2
  BY <1>1
<1>5. d[K] = c[K] /\ d[K + 1] = c[K]
  BY <1>3, <1>4
<1>6. d[Len(q) - 1] + n <= Len(w)
  BY <1>2, <1>4, <1>5 DEF K
<1>7. /\ get_more_bits(q, n).ok = TRUE
      /\ Len(get_more_bits(q, n).p) = K + 1
      /\ Cut(w, get_more_bits(q, n).p, pulled(d, K + 1, n))
  BY <1>2, <1>4, <1>6, GetMoreBits
<1>8. pulled(d, K + 1, n) = opened(c, K, n)
  <2>1. pulled(d, K + 1, n)
          = [j \in 0..K + 1 |-> IF j = K + 1 THEN d[K + 1] ELSE at_least(d[j], d[(K + 1) - 1] + n)]
    BY DEF pulled
  <2>2. \A j \in 0..K + 1 : (IF j = K + 1 THEN d[K + 1] ELSE at_least(d[j], d[(K + 1) - 1] + n))
                              = IF j = K + 1 THEN c[K] ELSE at_least(c[j], c[K] + n)
    BY <1>3, <1>4, <1>5
  <2> QED
    BY <2>1, <2>2 DEF opened
<1>9. open_child(p, n) = get_more_bits(q, n)
  BY DEF open_child, q
<1> QED
  BY <1>7, <1>8, <1>9 DEF K

\* The last pool goes, and what is left of it.
LEMMA FrontKeepsCuts ==
  ASSUME NEW w, NEW p, NEW c, Cut(w, p, c), w \in Seq(Bit), Len(p) >= 1
  PROVE  Len(Front(p)) = Len(p) - 1 /\ Cut(w, Front(p), [j \in 0..Len(p) - 1 |-> c[j]])
<1> DEFINE K == Len(p)
           q == Front(p)
           m == K - 1
           d == [j \in 0..m |-> c[j]]
<1>1. K \in Nat /\ K >= 1
  BY CutIs
<1>2. /\ p \in Seq(Seq(Bit)) /\ Len(w) \in Nat /\ c[0] = Len(w)
      /\ \A j \in 0..K : c[j] \in Nat
      /\ \A j \in 1..K : /\ p[j] \in Seq(Bit) /\ Len(p[j]) \in Nat
                         /\ c[j] \in Nat /\ c[j - 1] \in Nat
                         /\ c[j] + Len(p[j]) = c[j - 1] /\ At(w, c[j], p[j])
  BY CutIs
<1>3. q = SubSeq(p, 0 + 1, 0 + m)
  <2>1. 0 + 1 = 1 /\ 0 + m = m
    BY <1>1
  <2>2. q = SubSeq(p, 1, m)
    BY DEF Front
  <2> QED
    BY <2>1, <2>2
<1> HIDE DEF q, m, d
<1>4. m \in Nat /\ m + 1 = K /\ 0 + m <= K
  BY <1>1 DEF m
<1>5. q \in Seq(Seq(Bit)) /\ Len(q) = m /\ \A j \in 1..m : q[j] = p[0 + j]
  <2>1. /\ SubSeq(p, 0 + 1, 0 + m) \in Seq(Seq(Bit)) /\ Len(SubSeq(p, 0 + 1, 0 + m)) = m
        /\ \A j \in 1..m : SubSeq(p, 0 + 1, 0 + m)[j] = p[0 + j]
    BY <1>2, <1>4, SubSeqIs
  <2> QED
    BY <1>3, <2>1
<1> HIDE DEF K
<1>6. d \in [0..m -> Nat] /\ \A j \in 0..m : d[j] = c[j]
  <2>1. \A j \in 0..m : j \in 0..K
    BY <1>4
  <2> QED
    BY <1>2, <2>1 DEF d
<1>7. d[0] = Len(w)
  BY <1>2, <1>4, <1>6
<1>8. \A j \in 1..m : 0 + j = j /\ j \in 1..K /\ j \in 0..m /\ j - 1 \in 0..m
  BY <1>4
<1>9. ASSUME NEW j \in 1..m
      PROVE  d[j] + Len(q[j]) = d[j - 1] /\ At(w, d[j], q[j])
  <2>1. d[j] = c[j] /\ d[j - 1] = c[j - 1] /\ q[j] = p[j]
    BY <1>5, <1>6, <1>8
  <2>2. c[j] + Len(p[j]) = c[j - 1] /\ At(w, c[j], p[j])
    BY <1>2, <1>8
  <2> QED
    BY <2>1, <2>2
<1>10. Cut(w, q, d)
  BY <1>5, <1>6, <1>7, <1>9 DEF Cut
<1> QED
  BY <1>5, <1>10 DEF q, d, m, K

\* All pools together hold what is left of w behind where the last one begins.
LEMMA RemainingBits ==
  ASSUME NEW w \in Seq(Bit), NEW p, NEW c, Cut(w, p, c), Len(p) >= 1
  PROVE  /\ remaining_bits(p) \in Seq(Bit)
         /\ c[Len(p)] + Len(remaining_bits(p)) = Len(w)
         /\ At(w, c[Len(p)], remaining_bits(p))
<1> DEFINE K == Len(p)
           s == Reverse(p)
<1>1. K \in Nat /\ K >= 1
  BY CutIs
<1>2. /\ p \in Seq(Seq(Bit)) /\ Len(w) \in Nat /\ c[0] = Len(w)
      /\ \A j \in 0..K : c[j] \in Nat
      /\ \A j \in 1..K : /\ p[j] \in Seq(Bit) /\ Len(p[j]) \in Nat
                         /\ c[j] \in Nat /\ c[j - 1] \in Nat
                         /\ c[j] + Len(p[j]) = c[j - 1] /\ At(w, c[j], p[j])
  BY CutIs
<1>3. Len(s) = K /\ \A i \in 1..K : s[i] = p[(K - i) + 1]
  <2>1. s = [i \in 1..Len(p) |-> p[(Len(p) - i) + 1]]
    BY DEF Reverse
  <2> HIDE DEF s
  <2> QED
    BY <1>1, <2>1
<1> HIDE DEF K, s
<1>4. PICK g : /\ g[1] = s[1] /\ \A i \in 2..K : g[i] = g[i - 1] \o s[i]
               /\ FlattenSeq(s) = g[K]
  <2>1. Len(s) \in Nat \ {0}
    BY <1>1, <1>3
  <2> QED
    BY <1>3, <2>1, FlattenIs
<1> DEFINE A(i) == g[i] \in Seq(Bit) /\ c[K] + Len(g[i]) = c[K - i] /\ At(w, c[K], g[i])
           T == {i \in Nat : i + 1 <= K => A(i + 1)}
<1> HIDE DEF A
<1>5. 0 \in T
  <2>1. 0 + 1 = 1 /\ 1 \in 1..K /\ K \in 1..K /\ (K - 1) + 1 = K
    BY <1>1
  <2>2. g[1] = p[K]
    BY <1>3, <1>4, <2>1
  <2>3. A(1)
    BY <1>2, <2>1, <2>2 DEF A
  <2> QED
    BY <2>1, <2>3
<1>6. \A i \in Nat : i \in T => i + 1 \in T
  <2> SUFFICES ASSUME NEW m \in Nat, m \in T, (m + 1) + 1 <= K PROVE A((m + 1) + 1)
    OBVIOUS
  <2> DEFINE i == m + 1
             j == K - i
  <2>1. /\ i \in Nat /\ A(i) /\ i + 1 \in 2..K /\ i + 1 \in 1..K /\ (i + 1) - 1 = i
        /\ j \in 1..K /\ (K - (i + 1)) + 1 = j /\ K - (i + 1) = j - 1
    BY <1>1
  <2> HIDE DEF i
  <2>2. j = K - i
    OBVIOUS
  <2> HIDE DEF j
  <2>3. s[i + 1] = p[j] /\ g[i + 1] = g[i] \o p[j]
    BY <1>3, <1>4, <2>1
  <2>4. /\ p[j] \in Seq(Bit) /\ Len(p[j]) \in Nat /\ c[j] \in Nat /\ c[j - 1] \in Nat
        /\ c[j] + Len(p[j]) = c[j - 1] /\ At(w, c[j], p[j])
    BY <1>2, <2>1
  <2>5. g[i] \in Seq(Bit) /\ c[K] + Len(g[i]) = c[j] /\ At(w, c[K], g[i])
    BY <2>1, <2>2 DEF A
  <2>6. /\ g[i] \o p[j] \in Seq(Bit) /\ Len(g[i] \o p[j]) = Len(g[i]) + Len(p[j])
        /\ Len(g[i]) \in Nat
    BY <2>4, <2>5, ConcatIs
  <2>7. At(w, c[K], g[i] \o p[j])
    BY <2>4, <2>5, AtJoin
  <2>8. c[K] + (Len(g[i]) + Len(p[j])) = c[j - 1]
    <3>1. c[K] \in Nat
      BY <2>5 DEF At
    <3>2. /\ c[K] + Len(g[i]) = c[j] /\ c[j] + Len(p[j]) = c[j - 1]
          /\ c[j] \in Nat /\ Len(g[i]) \in Nat /\ Len(p[j]) \in Nat
      BY <2>4, <2>5, <2>6
    <3>3. \A a, b, d \in Nat : a + (b + d) = (a + b) + d
      OBVIOUS
    <3>4. c[K] + (Len(g[i]) + Len(p[j])) = (c[K] + Len(g[i])) + Len(p[j])
      BY <3>1, <3>2, <3>3
    <3> QED
      BY <3>2, <3>4, Zenon
  <2>9. A(i + 1)
    BY <2>1, <2>3, <2>6, <2>7, <2>8 DEF A
  <2> QED
    BY <2>9 DEF i
<1> HIDE DEF T
<1>7. A(K)
  <2>1. K - 1 \in Nat /\ (K - 1) + 1 = K
    BY <1>1
  <2>2. K - 1 \in T
    BY <1>5, <1>6, <2>1, NatSetInduction
  <2> QED
    BY <1>1, <2>1, <2>2 DEF T
<1>8. K - K = 0
  BY <1>1
<1>9. remaining_bits(p) = g[K]
  BY <1>4 DEF remaining_bits, s
<1> QED
  BY <1>2, <1>7, <1>8, <1>9 DEF A, K

-----------------------------------------------------------------------------
(* The message *)

\* Fields as a schema may have them, and values their codecs can encode.
Encodable(v, s, vals) ==
  /\ v \in {2, 3} /\ s \in Seq(FieldType)
  /\ \A i \in 1..Len(s) :
       /\ s[i].repeated => 1 <= s[i].max_repeat /\ s[i].min_repeat <= s[i].max_repeat
       /\ vals[i].elems \in Seq(0..s[i].longest)

\* No element that a condition may omit is prefetched (OmitsNothingPrefetched).
KeepsPrefetched(v, s) ==
  \A i \in 1..Len(s) : s[i].repeated /\ s[i].dynamic => v > 2 /\ s[i].min_repeat = 0

\* What a field is made of.
LEMMA FieldIs ==
  ASSUME NEW f \in FieldType
  PROVE  /\ f.repeated \in BOOLEAN /\ f.dynamic \in BOOLEAN /\ f.min \in Nat /\ f.longest \in Nat
         /\ f.min_repeat \in Nat /\ f.max_repeat \in Nat
BY DEF FieldType

\* The powers of two below n are so many.
LEMMA CeilLog2IsNat ==
  ASSUME NEW n \in Nat
  PROVE  ceil_log2(n) \in Nat
<1>1. IsFiniteSet(0..n)
  BY FS_Interval
<1>2. IsFiniteSet({b \in 0..n : 2^b < n})
  BY <1>1, FS_Subset
<1> QED
  BY <1>2, FS_CardinalityType DEF ceil_log2

\* The sizes of a field are natural numbers, and an element that is not omitted
\* is between the minimum of its codec and the longest it encodes.
LEMMA SizesAre ==
  ASSUME NEW v, NEW s, NEW vals, Encodable(v, s, vals), NEW fi \in 1..Len(s)
  PROVE  /\ s[fi] \in FieldType /\ v \in {2, 3} /\ vals[fi].elems \in Seq(0..s[fi].longest)
         /\ s[fi].repeated => 1 <= s[fi].max_repeat /\ s[fi].min_repeat <= s[fi].max_repeat
         /\ s[fi].repeated => count_bits(v, s[fi]) \in Nat
         /\ count_size(v, s[fi]) \in Nat
         /\ wire_elements(v, s[fi], vals[fi]) \in Nat
         /\ \A e \in Nat \ {0} :
              /\ element_size(s[fi], vals[fi], e) \in Nat
              /\ s[fi].min <= element_size(s[fi], vals[fi], e)
              /\ element_size(s[fi], vals[fi], e) <= s[fi].min + s[fi].longest
              /\ wire_size(v, s[fi], vals[fi], e) \in Nat
              /\ wire_size(v, s[fi], vals[fi], e) <= s[fi].min + s[fi].longest
              /\ ~omitted(v, s[fi], vals[fi], e)
                   => wire_size(v, s[fi], vals[fi], e) = element_size(s[fi], vals[fi], e)
<1> DEFINE f == s[fi]
           val == vals[fi]
<1>1. /\ f \in FieldType /\ v \in {2, 3} /\ val.elems \in Seq(0..f.longest)
      /\ f.repeated => 1 <= f.max_repeat /\ f.min_repeat <= f.max_repeat
  BY DEF Encodable
<1> HIDE DEF f, val
<1>2. /\ f.repeated \in BOOLEAN /\ f.dynamic \in BOOLEAN /\ f.min \in Nat /\ f.longest \in Nat
      /\ f.min_repeat \in Nat /\ f.max_repeat \in Nat
  BY <1>1, FieldIs
<1>3. Len(val.elems) \in Nat /\ \A e \in 1..Len(val.elems) : val.elems[e] \in 0..f.longest
  <2>1. \A S : \A q \in Seq(S) : Len(q) \in Nat /\ \A e \in 1..Len(q) : q[e] \in S
    OBVIOUS
  <2> QED
    BY <1>1, <2>1, Zenon
<1>4. f.repeated => count_bits(v, f) \in Nat
  <2>1. f.repeated => f.max_repeat - f.min_repeat + 1 \in Nat
    BY <1>1, <1>2
  <2>2. f.repeated => ceil_log2(f.max_repeat - f.min_repeat + 1) \in Nat
    BY <2>1, CeilLog2IsNat
  <2> QED
    BY <2>2 DEF count_bits, repeated_vector_field_size
<1>5. count_size(v, f) \in Nat
  BY <1>4 DEF count_size
<1>6. wire_elements(v, f, val) \in Nat
  BY <1>2, <1>3 DEF wire_elements, wire_vector_size, at_least, at_most
<1>7. ASSUME NEW e \in Nat \ {0}
      PROVE  /\ element_size(f, val, e) \in Nat
             /\ f.min <= element_size(f, val, e)
             /\ element_size(f, val, e) <= f.min + f.longest
             /\ wire_size(v, f, val, e) \in Nat
             /\ wire_size(v, f, val, e) <= f.min + f.longest
             /\ ~omitted(v, f, val, e) => wire_size(v, f, val, e) = element_size(f, val, e)
  <2> DEFINE x == IF e <= Len(val.elems) THEN val.elems[e] ELSE 0
  <2>1. x \in 0..f.longest
    BY <1>2, <1>3
  <2>2. element_size(f, val, e) = f.min + x
    BY DEF element_size
  <2> HIDE DEF x
  <2>3. /\ element_size(f, val, e) \in Nat /\ f.min <= element_size(f, val, e)
        /\ element_size(f, val, e) <= f.min + f.longest /\ 0 <= f.min + f.longest
    BY <1>2, <2>1, <2>2
  <2>4. CASE omitted(v, f, val, e)
    <3>1. wire_size(v, f, val, e) = 0
      BY <2>4 DEF wire_size
    <3> QED
      BY <2>3, <2>4, <3>1
  <2>5. CASE ~omitted(v, f, val, e)
    <3>1. wire_size(v, f, val, e) = element_size(f, val, e)
      BY <2>5 DEF wire_size
    <3> QED
      BY <2>3, <3>1
  <2> QED
    BY <2>4, <2>5
<1> QED
  BY <1>1, <1>4, <1>5, <1>6, <1>7 DEF f, val

\* The bits of an element, or of a count.
LEMMA BitsOfIs ==
  ASSUME NEW fi \in Nat, NEW i \in Nat, NEW n \in Nat
  PROVE  BitsOf(fi, i, n) \in Seq(Bit) /\ Len(BitsOf(fi, i, n)) = n
<1>1. \A b \in 1..n : <<fi, i, b>> \in Bit
  BY DEF Bit
<1> QED
  BY <1>1 DEF BitsOf

\* A field on the wire: its count, and its elements behind one another.
LEMMA FieldBits ==
  ASSUME NEW v, NEW s, NEW vals, Encodable(v, s, vals), NEW fi \in 1..Len(s)
  PROVE  /\ field_encode(v, s, vals, fi) \in Seq(Bit)
         /\ Len(field_encode(v, s, vals, fi))
              = count_size(v, s[fi])
                  + total_to(wire_sizes(v, s[fi], vals[fi]), wire_elements(v, s[fi], vals[fi]))
         /\ At(field_encode(v, s, vals, fi), 0, BitsOf(fi, 0, count_size(v, s[fi])))
         /\ \A e \in 1..wire_elements(v, s[fi], vals[fi]) :
              At(field_encode(v, s, vals, fi),
                 count_size(v, s[fi]) + total_to(wire_sizes(v, s[fi], vals[fi]), e - 1),
                 BitsOf(fi, e, wire_size(v, s[fi], vals[fi], e)))
<1> DEFINE f == s[fi]
           val == vals[fi]
           n == wire_elements(v, f, val)
           c == count_size(v, f)
           front == BitsOf(fi, 0, c)
           parts == [i \in 1..n |-> BitsOf(fi, i, wire_size(v, f, val, i))]
           back == FlattenSeq(parts)
           x == field_encode(v, s, vals, fi)
           sizes == wire_sizes(v, f, val)
<1>1. x = front \o back
  BY DEF field_encode, count_size
<1>2. /\ c \in Nat /\ n \in Nat /\ fi \in Nat
      /\ \A e \in Nat \ {0} : wire_size(v, f, val, e) \in Nat
  <2>1. Len(s) \in Nat
    BY DEF Encodable
  <2> QED
    BY <2>1, SizesAre
<1>3. /\ parts = [i \in 1..n |-> BitsOf(fi, i, wire_size(v, f, val, i))]
      /\ sizes = [i \in 1..n |-> wire_size(v, f, val, i)]
  BY DEF wire_sizes
<1> HIDE DEF parts, sizes, n, c, f, val
<1>4. \A i \in 1..n : /\ wire_size(v, f, val, i) \in Nat
                      /\ BitsOf(fi, i, wire_size(v, f, val, i)) \in Seq(Bit)
                      /\ Len(BitsOf(fi, i, wire_size(v, f, val, i))) = wire_size(v, f, val, i)
  <2>1. \A i \in 1..n : i \in Nat /\ i \in Nat \ {0}
    BY <1>2
  <2>2. \A i \in 1..n : wire_size(v, f, val, i) \in Nat
    BY <1>2, <2>1
  <2> QED
    BY <1>2, <2>1, <2>2, BitsOfIs
<1>5. parts \in Seq(Seq(Bit)) /\ Len(parts) = n
  BY <1>2, <1>3, <1>4
<1>6. \A i \in 1..n : /\ parts[i] = BitsOf(fi, i, wire_size(v, f, val, i))
                      /\ part_lengths(parts)[i] = sizes[i]
                      /\ sizes[i] \in Nat /\ parts[i] \in Seq(Bit)
  BY <1>3, <1>4, <1>5 DEF part_lengths
<1>7. \A m \in 0..n : total_to(part_lengths(parts), m) = total_to(sizes, m)
  <2> SUFFICES ASSUME NEW m \in 0..n
               PROVE  total_to(part_lengths(parts), m) = total_to(sizes, m)
    OBVIOUS
  <2>1. m \in Nat /\ \A i \in 1..m : part_lengths(parts)[i] = sizes[i]
    BY <1>2, <1>6
  <2> QED
    BY <2>1, SameTotals
<1>8. /\ back \in Seq(Bit)
      /\ Len(back) = total_to(part_lengths(parts), n)
      /\ \A i \in 1..n : At(back, total_to(part_lengths(parts), i - 1), parts[i])
  <2>1. /\ back \in Seq(Bit)
        /\ Len(back) = total_to(part_lengths(parts), Len(parts))
        /\ \A i \in 1..Len(parts) : At(back, total_to(part_lengths(parts), i - 1), parts[i])
    BY <1>5, FlattenHolds
  <2> QED
    BY <1>5, <2>1
<1>9. front \in Seq(Bit) /\ Len(front) = c
  BY <1>2, BitsOfIs
<1> HIDE DEF front, back, x
<1>10. /\ x \in Seq(Bit) /\ Len(x) = c + Len(back)
       /\ At(x, 0, front) /\ At(x, c, back)
  BY <1>1, <1>8, <1>9, AtBoth
<1>11. Len(x) = c + total_to(sizes, n)
  BY <1>2, <1>7, <1>8, <1>10
<1>12. ASSUME NEW e \in 1..n
       PROVE  At(x, c + total_to(sizes, e - 1), BitsOf(fi, e, wire_size(v, f, val, e)))
  <2>1. e - 1 \in 0..n
    BY <1>2
  <2>2. At(back, total_to(sizes, e - 1), parts[e])
    BY <1>7, <1>8, <2>1
  <2>3. At(x, c + total_to(sizes, e - 1), parts[e])
    BY <1>6, <1>8, <1>10, <2>2, AtPart
  <2> QED
    BY <1>6, <2>3
<1> QED
  BY <1>10, <1>11, <1>12 DEF front, n, c, f, val, x, sizes

\* The message on the wire: where its fields begin, and their elements.
LEMMA Layout ==
  ASSUME NEW v, NEW s, NEW vals, Encodable(v, s, vals)
  PROVE  /\ encode(v, s, vals) \in Seq(Bit) /\ Len(s) \in Nat
         /\ field_start(v, s, vals, 1) = 0
         /\ field_start(v, s, vals, Len(s) + 1) = Len(encode(v, s, vals))
         /\ \A fi \in 1..Len(s) :
              /\ field_start(v, s, vals, fi) \in Nat /\ field_start(v, s, vals, fi + 1) \in Nat
              /\ field_start(v, s, vals, fi + 1)
                   = field_start(v, s, vals, fi) + Len(field_encode(v, s, vals, fi))
              /\ field_start(v, s, vals, fi + 1) <= Len(encode(v, s, vals))
              /\ At(encode(v, s, vals), field_start(v, s, vals, fi), field_encode(v, s, vals, fi))
<1> DEFINE n == Len(s)
           w == encode(v, s, vals)
           parts == [fi \in 1..n |-> field_encode(v, s, vals, fi)]
           L == field_lengths(v, s, vals)
           st(fi) == field_start(v, s, vals, fi)
<1>1. n \in Nat
  BY DEF Encodable
<1>2. /\ parts = [fi \in 1..n |-> field_encode(v, s, vals, fi)]
      /\ L = [fi \in 1..n |-> Len(field_encode(v, s, vals, fi))]
      /\ w = FlattenSeq(parts)
      /\ \A fi : st(fi) = total_to(L, fi - 1)
  BY DEF field_lengths, encode, field_start
<1>3. \A fi \in 1..n : /\ field_encode(v, s, vals, fi) \in Seq(Bit)
                       /\ Len(field_encode(v, s, vals, fi)) \in Nat
  BY FieldBits
<1> HIDE DEF parts, L, w, n, st
<1>4. parts \in Seq(Seq(Bit)) /\ Len(parts) = n
  BY <1>1, <1>2, <1>3
<1>5. part_lengths(parts) = L /\ \A fi \in 1..n : L[fi] = Len(field_encode(v, s, vals, fi)) /\ L[fi] \in Nat
  BY <1>2, <1>3, <1>4 DEF part_lengths
<1>6. /\ w \in Seq(Bit) /\ Len(w) = total_to(L, n)
      /\ \A fi \in 1..n : At(w, total_to(L, fi - 1), parts[fi])
  <2>1. /\ FlattenSeq(parts) \in Seq(Bit)
        /\ Len(FlattenSeq(parts)) = total_to(part_lengths(parts), Len(parts))
        /\ \A i \in 1..Len(parts) : At(FlattenSeq(parts), total_to(part_lengths(parts), i - 1), parts[i])
    BY <1>4, FlattenHolds
  <2> QED
    BY <1>2, <1>4, <1>5, <2>1
<1>7. st(1) = 0
  <2>1. 1 - 1 = 0 /\ total_to(L, 0) = 0
    BY TotalGrows
  <2> QED
    BY <1>2, <2>1
<1>8. st(n + 1) = Len(w)
  <2>1. (n + 1) - 1 = n
    BY <1>1
  <2> QED
    BY <1>2, <1>6, <2>1
<1>9. ASSUME NEW fi \in 1..n
      PROVE  /\ st(fi) \in Nat /\ st(fi + 1) \in Nat
             /\ st(fi + 1) = st(fi) + Len(field_encode(v, s, vals, fi))
             /\ st(fi + 1) <= Len(w)
             /\ At(w, st(fi), field_encode(v, s, vals, fi))
  <2> DEFINE m == fi - 1
  <2>1. m \in Nat /\ m \in 0..n /\ fi \in 0..n /\ n \in 0..n /\ m + 1 = fi /\ (fi + 1) - 1 = fi /\ m <= fi /\ fi <= n
    BY <1>1
  <2>2. st(fi) = total_to(L, m) /\ st(fi + 1) = total_to(L, fi)
    BY <1>2, <2>1
  <2> HIDE DEF m
  <2>3. total_to(L, m + 1) = total_to(L, m) + L[m + 1]
    BY <2>1, TotalGrows
  <2>4. total_to(L, m) \in Nat /\ total_to(L, fi) \in Nat
    BY <1>1, <1>5, <2>1, TotalsGrow
  <2>5. total_to(L, fi) <= total_to(L, n)
    BY <1>1, <1>5, <2>1, TotalsGrow
  <2>6. At(w, total_to(L, m), parts[fi])
    BY <1>6 DEF m
  <2>7. parts[fi] = field_encode(v, s, vals, fi)
    BY <1>2
  <2> QED
    BY <1>5, <1>6, <2>1, <2>2, <2>3, <2>4, <2>5, <2>6, <2>7
<1> QED
  BY <1>1, <1>6, <1>7, <1>8, <1>9 DEF w, n, st

\* A field in the message: where its elements begin, each behind the one before.
LEMMA Elements ==
  ASSUME NEW v, NEW s, NEW vals, Encodable(v, s, vals), NEW fi \in 1..Len(s)
  PROVE  /\ wire_elements(v, s[fi], vals[fi]) \in Nat
         /\ At(encode(v, s, vals), field_start(v, s, vals, fi), BitsOf(fi, 0, count_size(v, s[fi])))
         /\ elem_start(v, s, vals, fi, 1) = field_start(v, s, vals, fi) + count_size(v, s[fi])
         /\ elem_start(v, s, vals, fi, wire_elements(v, s[fi], vals[fi]) + 1)
              = field_start(v, s, vals, fi + 1)
         /\ \A e \in 1..wire_elements(v, s[fi], vals[fi]) + 1 :
              /\ elem_start(v, s, vals, fi, e) \in Nat
              /\ elem_start(v, s, vals, fi, e) <= field_start(v, s, vals, fi + 1)
         /\ \A e \in 1..wire_elements(v, s[fi], vals[fi]) :
              /\ elem_start(v, s, vals, fi, e + 1)
                   = elem_start(v, s, vals, fi, e) + wire_size(v, s[fi], vals[fi], e)
              /\ At(encode(v, s, vals), elem_start(v, s, vals, fi, e),
                    BitsOf(fi, e, wire_size(v, s[fi], vals[fi], e)))
<1> DEFINE n == wire_elements(v, s[fi], vals[fi])
           w == encode(v, s, vals)
           x == field_encode(v, s, vals, fi)
           a == field_start(v, s, vals, fi)
           b == field_start(v, s, vals, fi + 1)
           c == count_size(v, s[fi])
           L == wire_sizes(v, s[fi], vals[fi])
           size(e) == wire_size(v, s[fi], vals[fi], e)
           st(e) == elem_start(v, s, vals, fi, e)
<1>1. /\ n \in Nat /\ c \in Nat /\ fi \in Nat /\ \A e \in Nat \ {0} : size(e) \in Nat
  <2>1. Len(s) \in Nat
    BY Layout
  <2> QED
    BY <2>1, SizesAre
<1>2. /\ w \in Seq(Bit) /\ a \in Nat /\ b \in Nat /\ b = a + Len(x) /\ At(w, a, x)
  BY Layout
<1>3. /\ x \in Seq(Bit) /\ Len(x) = c + total_to(L, n)
      /\ At(x, 0, BitsOf(fi, 0, c))
      /\ \A e \in 1..n : At(x, c + total_to(L, e - 1), BitsOf(fi, e, size(e)))
  BY FieldBits
<1>4. \A e \in 1..n : L[e] = size(e)
  BY DEF wire_sizes
<1>5. \A e : st(e) = a + c + total_to(L, e - 1)
  BY DEF elem_start
<1> HIDE DEF n, w, x, a, b, c, L, size, st
<1>6. \A e \in 1..n : L[e] \in Nat /\ size(e) \in Nat /\ e \in Nat
  <2>1. \A e \in 1..n : e \in Nat \ {0}
    BY <1>1
  <2> QED
    BY <1>1, <1>4, <2>1
<1>7. At(w, a, BitsOf(fi, 0, c))
  <2>1. BitsOf(fi, 0, c) \in Seq(Bit)
    BY <1>1, BitsOfIs
  <2>2. At(w, a + 0, BitsOf(fi, 0, c))
    BY <1>2, <1>3, <2>1, AtPart
  <2>3. a + 0 = a
    BY <1>2
  <2> QED
    BY <2>2, <2>3
<1>8. st(1) = a + c
  <2>1. 1 - 1 = 0 /\ total_to(L, 0) = 0
    BY TotalGrows
  <2> QED
    BY <1>1, <1>2, <1>5, <2>1
<1>9. st(n + 1) = b
  <2>1. (n + 1) - 1 = n
    BY <1>1
  <2>2. st(n + 1) = a + c + total_to(L, n) /\ b = a + (c + total_to(L, n))
    BY <1>2, <1>3, <1>5, <2>1
  <2>3. total_to(L, n) \in Nat
    <3>1. n \in 0..n /\ n <= n
      BY <1>1
    <3> QED
      BY <1>1, <1>6, <3>1, TotalsGrow
  <2> QED
    BY <1>1, <1>2, <2>2, <2>3
<1>10. ASSUME NEW e \in 1..n + 1
       PROVE  st(e) \in Nat /\ st(e) <= b
  <2> DEFINE m == e - 1
  <2>1. m \in 0..n /\ n \in 0..n /\ m <= n
    BY <1>1
  <2> HIDE DEF m
  <2>2. total_to(L, m) \in Nat /\ total_to(L, n) \in Nat /\ total_to(L, m) <= total_to(L, n)
    BY <1>1, <1>6, <2>1, TotalsGrow
  <2>3. st(e) = a + c + total_to(L, m) /\ b = a + (c + total_to(L, n))
    BY <1>2, <1>3, <1>5 DEF m
  <2>4. a \in Nat /\ c \in Nat
    BY <1>1, <1>2
  <2> QED
    BY <2>2, <2>3, <2>4
<1>11. ASSUME NEW e \in 1..n
       PROVE  st(e + 1) = st(e) + size(e) /\ At(w, st(e), BitsOf(fi, e, size(e)))
  <2> DEFINE m == e - 1
  <2>1. m \in Nat /\ m \in 0..n /\ n \in 0..n /\ m <= n /\ m + 1 = e /\ (e + 1) - 1 = m + 1 /\ e \in Nat
    BY <1>1
  <2>2. st(e) = a + c + total_to(L, m) /\ st(e + 1) = a + c + total_to(L, m + 1)
    BY <1>5, <2>1
  <2>3. At(x, c + total_to(L, m), BitsOf(fi, e, size(e)))
    BY <1>3
  <2> HIDE DEF m
  <2>4. total_to(L, m + 1) = total_to(L, m) + L[m + 1]
    BY <2>1, TotalGrows
  <2>5. total_to(L, m) \in Nat
    BY <1>1, <1>6, <2>1, TotalsGrow
  <2>6. L[m + 1] = size(e) /\ size(e) \in Nat
    BY <1>4, <1>6, <2>1
  <2>7. st(e + 1) = st(e) + size(e)
    BY <1>1, <1>2, <2>2, <2>4, <2>5, <2>6
  <2>8. BitsOf(fi, e, size(e)) \in Seq(Bit)
    BY <1>1, <2>1, <2>6, BitsOfIs
  <2>9. At(w, a + (c + total_to(L, m)), BitsOf(fi, e, size(e)))
    BY <1>2, <1>3, <2>3, <2>8, AtPart
  <2>10. a + (c + total_to(L, m)) = st(e)
    BY <1>1, <1>2, <2>2, <2>5
  <2> QED
    BY <2>7, <2>9, <2>10
<1> QED
  BY <1>1, <1>7, <1>8, <1>9, <1>10, <1>11 DEF n, w, a, b, c, size, st

\* A field that is not repeated has one element and no count.
LEMMA SingleIs ==
  ASSUME NEW v, NEW s, NEW vals, Encodable(v, s, vals), NEW fi \in 1..Len(s), ~s[fi].repeated
  PROVE  /\ wire_elements(v, s[fi], vals[fi]) = 1
         /\ elem_start(v, s, vals, fi, 1) = field_start(v, s, vals, fi)
         /\ field_start(v, s, vals, fi + 1)
              = field_start(v, s, vals, fi) + wire_size(v, s[fi], vals[fi], 1)
<1>1. wire_elements(v, s[fi], vals[fi]) = 1 /\ count_size(v, s[fi]) = 0
  BY DEF wire_elements, count_size
<1>2. field_start(v, s, vals, fi) \in Nat
  BY Layout
<1>3. elem_start(v, s, vals, fi, 1) = field_start(v, s, vals, fi) + 0
  BY <1>1, Elements
<1>4. elem_start(v, s, vals, fi, 1) = field_start(v, s, vals, fi)
  BY <1>2, <1>3
<1>5. elem_start(v, s, vals, fi, 1 + 1) = field_start(v, s, vals, fi + 1)
  BY <1>1, Elements
<1>6. elem_start(v, s, vals, fi, 1 + 1)
        = elem_start(v, s, vals, fi, 1) + wire_size(v, s[fi], vals[fi], 1)
  <2>1. 1 \in 1..wire_elements(v, s[fi], vals[fi])
    BY <1>1
  <2> QED
    BY <2>1, Elements
<1> QED
  BY <1>1, <1>4, <1>5, <1>6

-----------------------------------------------------------------------------
(* Smallest and largest sizes *)

\* One more of the same.
LEMMA OneMore ==
  \A m, k \in Nat : m * k \in Nat /\ m * (k + 1) = m * k + m /\ m * 0 = 0
OBVIOUS

\* More of the same is more.
LEMMA MoreOfThem ==
  ASSUME NEW m \in Nat, NEW j \in Nat, NEW k \in Nat, j <= k
  PROVE  m * j <= m * k
<1> DEFINE T == {i \in Nat : m * j <= m * (j + i)}
<1>1. 0 \in T
  <2>1. j + 0 = j /\ m * j \in Nat
    BY OneMore
  <2> QED
    BY <2>1
<1>2. \A i \in Nat : i \in T => i + 1 \in T
  <2> SUFFICES ASSUME NEW i \in Nat, i \in T PROVE m * j <= m * (j + (i + 1))
    OBVIOUS
  <2>1. j + (i + 1) = (j + i) + 1 /\ j + i \in Nat
    OBVIOUS
  <2>2. m * ((j + i) + 1) = m * (j + i) + m /\ m * (j + i) \in Nat /\ m * j \in Nat
    BY <2>1, OneMore
  <2>3. m * j <= m * (j + i)
    OBVIOUS
  <2> HIDE DEF T
  <2>4. m * j <= m * (j + i) + m
    BY <2>2, <2>3
  <2> QED
    BY <2>1, <2>2, <2>4
<1> HIDE DEF T
<1>3. k - j \in Nat /\ j + (k - j) = k
  OBVIOUS
<1>4. k - j \in T
  BY <1>1, <1>2, <1>3, NatSetInduction
<1> QED
  BY <1>3, <1>4 DEF T

\* The total of sizes between m and M.
LEMMA TotalBetween ==
  ASSUME NEW N \in Nat, NEW s, NEW m \in Nat, NEW M \in Nat,
         \A i \in 1..N : s[i] \in Nat /\ m <= s[i] /\ s[i] <= M
  PROVE  total_to(s, N) \in Nat /\ m * N <= total_to(s, N) /\ total_to(s, N) <= M * N
<1> DEFINE A(k) == total_to(s, k) \in Nat /\ m * k <= total_to(s, k) /\ total_to(s, k) <= M * k
           T == {k \in Nat : k <= N => A(k)}
<1>1. 0 \in T
  <2>1. total_to(s, 0) = 0 /\ m * 0 = 0 /\ M * 0 = 0
    BY TotalGrows, OneMore
  <2> QED
    BY <2>1
<1>2. \A k \in Nat : k \in T => k + 1 \in T
  <2> SUFFICES ASSUME NEW k \in Nat, k \in T, k + 1 <= N PROVE A(k + 1)
    OBVIOUS
  <2>1. A(k) /\ k + 1 \in 1..N
    OBVIOUS
  <2>2. total_to(s, k + 1) = total_to(s, k) + s[k + 1]
    BY TotalGrows
  <2>3. s[k + 1] \in Nat /\ m <= s[k + 1] /\ s[k + 1] <= M
    BY <2>1
  <2>4. /\ m * k \in Nat /\ m * (k + 1) = m * k + m
        /\ M * k \in Nat /\ M * (k + 1) = M * k + M
    BY OneMore
  <2> HIDE DEF T
  <2>5. total_to(s, k) \in Nat /\ m * k <= total_to(s, k) /\ total_to(s, k) <= M * k
    BY <2>1
  <2> DEFINE t == total_to(s, k)
             u == m * k
             U == M * k
  <2>6. t \in Nat /\ u \in Nat /\ U \in Nat /\ u <= t /\ t <= U
    BY <2>4, <2>5
  <2> HIDE DEF t, u, U
  <2>7. t + s[k + 1] \in Nat /\ u + m <= t + s[k + 1] /\ t + s[k + 1] <= U + M
    BY <2>3, <2>6
  <2> QED
    BY <2>2, <2>4, <2>7 DEF t, u, U
<1> HIDE DEF T, A
<1>3. N \in T
  BY <1>1, <1>2, NatSetInduction
<1> QED
  BY <1>3 DEF T, A

\* What is prefetched for a field of which nothing is omitted is no more than it
\* has.
LEMMA FieldMinimum ==
  ASSUME NEW v, NEW s, NEW vals, Encodable(v, s, vals), KeepsPrefetched(v, s),
         NEW fi \in 1..Len(s),
         s[fi].repeated \/ ~omitted(v, s[fi], vals[fi], 1)
  PROVE  /\ field_min_size(v, s[fi]) \in Nat
         /\ field_min_size(v, s[fi]) <= Len(field_encode(v, s, vals, fi))
<1> DEFINE f == s[fi]
           val == vals[fi]
           n == wire_elements(v, f, val)
           L == wire_sizes(v, f, val)
           c == count_size(v, f)
<1>1. /\ f \in FieldType /\ v \in {2, 3} /\ val.elems \in Seq(0..f.longest)
      /\ f.repeated => 1 <= f.max_repeat /\ f.min_repeat <= f.max_repeat
      /\ f.repeated /\ f.dynamic => v > 2 /\ f.min_repeat = 0
      /\ c \in Nat /\ n \in Nat
      /\ \A e \in Nat \ {0} :
           /\ element_size(f, val, e) \in Nat /\ f.min <= element_size(f, val, e)
           /\ wire_size(v, f, val, e) \in Nat /\ wire_size(v, f, val, e) <= f.min + f.longest
           /\ ~omitted(v, f, val, e) => wire_size(v, f, val, e) = element_size(f, val, e)
  <2>1. f.repeated /\ f.dynamic => v > 2 /\ f.min_repeat = 0
    BY DEF KeepsPrefetched
  <2>2. /\ f \in FieldType /\ v \in {2, 3} /\ val.elems \in Seq(0..f.longest)
        /\ f.repeated => 1 <= f.max_repeat /\ f.min_repeat <= f.max_repeat
        /\ c \in Nat /\ n \in Nat
    BY SizesAre
  <2>3. \A e \in Nat \ {0} :
          /\ element_size(f, val, e) \in Nat /\ f.min <= element_size(f, val, e)
          /\ wire_size(v, f, val, e) \in Nat /\ wire_size(v, f, val, e) <= f.min + f.longest
          /\ ~omitted(v, f, val, e) => wire_size(v, f, val, e) = element_size(f, val, e)
    BY SizesAre
  <2> QED
    BY <2>1, <2>2, <2>3
<1>2. Len(field_encode(v, s, vals, fi)) = c + total_to(L, n)
  BY FieldBits
<1>3. \A e \in 1..n : L[e] = wire_size(v, f, val, e) /\ e \in Nat \ {0}
  BY <1>1 DEF wire_sizes
<1>4. f.repeated \/ ~omitted(v, f, val, 1)
  OBVIOUS
<1> HIDE DEF f, val, n, L, c
<1>5. /\ f.repeated \in BOOLEAN /\ f.dynamic \in BOOLEAN /\ f.min \in Nat /\ f.longest \in Nat
      /\ f.min_repeat \in Nat /\ f.max_repeat \in Nat
  BY <1>1, FieldIs
<1>6. f.min + f.longest \in Nat /\ total_to(L, n) \in Nat
  <2>1. f.min + f.longest \in Nat
    BY <1>5
  <2>2. ASSUME NEW e \in 1..n
        PROVE  L[e] \in Nat /\ 0 <= L[e] /\ L[e] <= f.min + f.longest
    <3>1. L[e] = wire_size(v, f, val, e) /\ e \in Nat \ {0}
      BY <1>3
    <3>2. wire_size(v, f, val, e) \in Nat /\ wire_size(v, f, val, e) <= f.min + f.longest
      BY <1>1, <3>1
    <3> QED
      BY <3>1, <3>2
  <2> QED
    BY <1>1, <2>1, <2>2, TotalBetween
<1>7. (\A e \in 1..n : ~omitted(v, f, val, e)) => f.min * n <= total_to(L, n)
  <2> SUFFICES ASSUME \A e \in 1..n : ~omitted(v, f, val, e)
               PROVE  f.min * n <= total_to(L, n)
    OBVIOUS
  <2>1. ASSUME NEW e \in 1..n
        PROVE  L[e] \in Nat /\ f.min <= L[e] /\ L[e] <= f.min + f.longest
    <3>1. L[e] = wire_size(v, f, val, e) /\ e \in Nat \ {0}
      BY <1>3
    <3>2. /\ wire_size(v, f, val, e) \in Nat /\ wire_size(v, f, val, e) <= f.min + f.longest
          /\ f.min <= element_size(f, val, e)
          /\ wire_size(v, f, val, e) = element_size(f, val, e)
      BY <1>1, <3>1
    <3> QED
      BY <3>1, <3>2
  <2> QED
    BY <1>1, <1>5, <1>6, <2>1, TotalBetween
<1>8. CASE ~f.repeated
  <2>1. n = 1 /\ c = 0 /\ field_min_size(v, f) = f.min
    BY <1>8 DEF n, c, wire_elements, count_size, field_min_size, f, val
  <2>2. f.min * 1 <= total_to(L, n)
    <3>1. \A e \in 1..n : e = 1
      BY <2>1
    <3> QED
      BY <1>4, <1>7, <1>8, <2>1, <3>1
  <2>3. f.min * 1 = f.min /\ 0 + total_to(L, n) = total_to(L, n)
    BY <1>5, <1>6
  <2> QED
    BY <1>2, <1>5, <2>1, <2>2, <2>3 DEF f
<1>9. CASE f.repeated
  <2> DEFINE k == IF v > 2 THEN f.min_repeat ELSE f.max_repeat
  <2>1. k \in Nat
    BY <1>5
  <2>2. c = count_bits(v, f) /\ field_min_size(v, f) = c + f.min * k
    BY <1>9 DEF c, count_size, field_min_size, f
  <2>3. k <= n
    <3>1. n = wire_vector_size(v, f, Len(val.elems))
      BY <1>9 DEF n, wire_elements, f, val
    <3>2. Len(val.elems) \in Nat
      <4>1. \A S : \A q \in Seq(S) : Len(q) \in Nat
        OBVIOUS
      <4> QED
        BY <1>1, <4>1, Zenon
    <3>3. f.min_repeat \in Nat /\ f.max_repeat \in Nat /\ f.min_repeat <= f.max_repeat
      BY <1>1, <1>5, <1>9
    <3>4. CASE v > 2
      BY <3>1, <3>2, <3>3, <3>4 DEF wire_vector_size, at_least, at_most
    <3>5. CASE ~(v > 2)
      BY <3>1, <3>3, <3>5 DEF wire_vector_size
    <3> QED
      BY <3>4, <3>5
  <2>4. f.min * k \in Nat /\ f.min * k <= total_to(L, n)
    <3>1. CASE f.dynamic
      <4>1. k = 0
        BY <1>1, <1>9, <3>1
      <4>2. f.min * 0 = 0
        BY <1>5, OneMore
      <4> HIDE DEF k
      <4>3. f.min * k = 0
        BY <4>1, <4>2
      <4> QED
        BY <1>6, <4>3
    <3>2. CASE ~f.dynamic
      <4>1. \A e \in 1..n : ~omitted(v, f, val, e)
        BY <3>2 DEF omitted
      <4>2. f.min * n <= total_to(L, n)
        BY <1>7, <4>1
      <4> HIDE DEF k
      <4>3. f.min * k <= f.min * n
        BY <1>1, <1>5, <2>1, <2>3, MoreOfThem
      <4>4. f.min * k \in Nat /\ f.min * n \in Nat
        BY <1>1, <1>5, <2>1, OneMore
      <4> QED
        BY <1>6, <4>2, <4>3, <4>4
    <3> QED
      BY <1>5, <3>1, <3>2
  <2> DEFINE u == f.min * k
             t == total_to(L, n)
  <2>5. u \in Nat /\ t \in Nat /\ u <= t /\ c \in Nat
    BY <1>1, <1>6, <2>4
  <2> HIDE DEF k, u, t
  <2>6. c + u \in Nat /\ c + u <= c + t
    BY <2>5
  <2> QED
    BY <1>2, <2>2, <2>6 DEF f, u, t
<1> QED
  BY <1>5, <1>8, <1>9

\* A field is no longer than max_size() says.
LEMMA FieldMaximum ==
  ASSUME NEW v, NEW s, NEW vals, Encodable(v, s, vals), NEW fi \in 1..Len(s)
  PROVE  /\ field_max_size(v, s[fi]) \in Nat
         /\ Len(field_encode(v, s, vals, fi)) <= field_max_size(v, s[fi])
<1> DEFINE f == s[fi]
           val == vals[fi]
           n == wire_elements(v, f, val)
           L == wire_sizes(v, f, val)
           c == count_size(v, f)
           M == f.min + f.longest
<1>1. /\ f \in FieldType /\ v \in {2, 3} /\ val.elems \in Seq(0..f.longest)
      /\ f.repeated => 1 <= f.max_repeat /\ f.min_repeat <= f.max_repeat
      /\ c \in Nat /\ n \in Nat
  BY SizesAre
<1>2. \A e \in Nat \ {0} : wire_size(v, f, val, e) \in Nat /\ wire_size(v, f, val, e) <= M
  BY SizesAre
<1>3. Len(field_encode(v, s, vals, fi)) = c + total_to(L, n)
  BY FieldBits
<1>4. \A e \in 1..n : L[e] = wire_size(v, f, val, e) /\ e \in Nat \ {0}
  BY <1>1 DEF wire_sizes
<1> HIDE DEF f, val, n, L, c
<1>5. /\ f.repeated \in BOOLEAN /\ f.min \in Nat /\ f.longest \in Nat
      /\ f.min_repeat \in Nat /\ f.max_repeat \in Nat
  BY <1>1, FieldIs
<1>6. M \in Nat
  BY <1>5
<1> HIDE DEF M
<1>7. total_to(L, n) \in Nat /\ total_to(L, n) <= M * n
  <2>1. 0 \in Nat /\ \A e \in 1..n : L[e] \in Nat /\ 0 <= L[e] /\ L[e] <= M
    BY <1>2, <1>4
  <2> QED
    BY <1>1, <1>6, <2>1, TotalBetween
<1>8. CASE ~f.repeated
  <2>1. n = 1 /\ c = 0 /\ field_max_size(v, f) = M
    BY <1>8 DEF n, c, M, wire_elements, count_size, field_max_size, f, val
  <2>2. M * 1 = M
    BY <1>6
  <2>3. 0 + total_to(L, n) <= M
    BY <1>6, <1>7, <2>1, <2>2
  <2> QED
    BY <1>3, <1>6, <2>1, <2>3 DEF f
<1>9. CASE f.repeated
  <2>1. c = count_bits(v, f) /\ field_max_size(v, f) = c + M * f.max_repeat
    BY <1>9 DEF c, count_size, field_max_size, f, M
  <2>2. n <= f.max_repeat
    <3>1. n = wire_vector_size(v, f, Len(val.elems))
      BY <1>9 DEF n, wire_elements, f, val
    <3>2. Len(val.elems) \in Nat
      <4>1. \A S : \A q \in Seq(S) : Len(q) \in Nat
        OBVIOUS
      <4> QED
        BY <1>1, <4>1, Zenon
    <3>3. f.min_repeat \in Nat /\ f.max_repeat \in Nat /\ f.min_repeat <= f.max_repeat
      BY <1>1, <1>5, <1>9
    <3>4. CASE v > 2
      BY <3>1, <3>2, <3>3, <3>4 DEF wire_vector_size, at_least, at_most
    <3>5. CASE ~(v > 2)
      BY <3>1, <3>3, <3>5 DEF wire_vector_size
    <3> QED
      BY <3>4, <3>5
  <2>3. /\ M * n <= M * f.max_repeat /\ M * n \in Nat /\ M * f.max_repeat \in Nat
    BY <1>1, <1>5, <1>6, <2>2, MoreOfThem, OneMore
  <2> DEFINE u == M * f.max_repeat
             t == total_to(L, n)
             x == M * n
  <2>4. u \in Nat /\ t \in Nat /\ x \in Nat /\ t <= x /\ x <= u /\ c \in Nat
    BY <1>1, <1>7, <2>3
  <2> HIDE DEF u, t, x
  <2>5. c + u \in Nat /\ c + t <= c + u
    BY <2>4
  <2> QED
    BY <1>3, <2>1, <2>5 DEF f, u, t
<1> QED
  BY <1>5, <1>8, <1>9

\* size() is the length of a field on the wire, unless it is padded.
LEMMA FieldSize ==
  ASSUME NEW v, NEW s, NEW vals, Encodable(v, s, vals), NEW fi \in 1..Len(s),
         ~(v > 2 /\ s[fi].repeated /\ Len(vals[fi].elems) < s[fi].min_repeat)
  PROVE  field_size(v, s[fi], vals[fi]) = Len(field_encode(v, s, vals, fi))
<1> DEFINE f == s[fi]
           val == vals[fi]
           n == wire_elements(v, f, val)
           m == IF f.repeated THEN any_size_elements(v, f, Len(val.elems)) ELSE 1
           L == wire_sizes(v, f, val)
           c == count_size(v, f)
<1>1. /\ f \in FieldType /\ v \in {2, 3} /\ val.elems \in Seq(0..f.longest)
      /\ f.repeated => 1 <= f.max_repeat /\ f.min_repeat <= f.max_repeat
      /\ c \in Nat /\ n \in Nat
  BY SizesAre
<1>2. Len(field_encode(v, s, vals, fi)) = c + total_to(L, n)
  BY FieldBits
<1>3. field_size(v, f, val) = c + total([i \in 1..m |-> wire_size(v, f, val, i)])
  BY DEF field_size, count_size
<1>4. L = [i \in 1..n |-> wire_size(v, f, val, i)]
  BY DEF wire_sizes
<1>5. v > 2 /\ f.repeated => ~(Len(val.elems) < f.min_repeat)
  OBVIOUS
<1>6. n = m
  <2>1. CASE ~f.repeated
    BY <2>1 DEF wire_elements
  <2>2. CASE f.repeated
    <3>1. n = wire_vector_size(v, f, Len(val.elems)) /\ m = any_size_elements(v, f, Len(val.elems))
      BY <2>2 DEF wire_elements
    <3> HIDE DEF f, val, n, m
    <3>2. f.min_repeat \in Nat /\ f.max_repeat \in Nat
      BY <1>1, FieldIs
    <3>3. Len(val.elems) \in Nat
      <4>1. \A S : \A q \in Seq(S) : Len(q) \in Nat
        OBVIOUS
      <4> QED
        BY <1>1, <4>1, Zenon
    <3> QED
      BY <1>1, <1>5, <2>2, <3>1, <3>2, <3>3
         DEF wire_vector_size, any_size_elements, at_least, at_most
  <2>3. f.repeated \in BOOLEAN
    BY <1>1, FieldIs
  <2> QED
    BY <2>1, <2>2, <2>3
<1> HIDE DEF f, val, n, m, L, c
<1>7. total(L) = total_to(L, n)
  <2>1. [k \in 1..n |-> L[k]] = L
    BY <1>4
  <2> QED
    BY <2>1 DEF total_to
<1> QED
  BY <1>2, <1>3, <1>4, <1>6, <1>7 DEF f, val

\* g adds up s as far as N, and starts again at each in Z.
IsDeferredSum(N, s, Z, g) ==
  g = [i \in 0..N |-> IF i = 0 \/ i \in Z THEN 0 ELSE g[i - 1] + s[i]]

\* There is such a function.
LEMMA DeferredSumsExist ==
  ASSUME NEW N \in Nat, NEW s, NEW Z
  PROVE  \E g : IsDeferredSum(N, s, Z, g)
<1> DEFINE P(f, i) == IF i = 0 \/ i \in Z THEN 0 ELSE f[i - 1] + s[i]
           T == {n \in Nat : \E g : g = [i \in 0..n |-> P(g, i)]}
<1>1. 0 \in T
  <2> DEFINE g == [i \in 0..0 |-> 0]
  <2>1. g = [i \in 0..0 |-> P(g, i)]
    OBVIOUS
  <2> QED
    BY <2>1
<1>2. \A n \in Nat : n \in T => n + 1 \in T
  <2> SUFFICES ASSUME NEW n \in Nat, n \in T PROVE n + 1 \in T
    OBVIOUS
  <2>1. PICK g : g = [i \in 0..n |-> P(g, i)]
    OBVIOUS
  <2>2. \A i \in 0..n : g[i] = P(g, i)
    BY <2>1
  <2> DEFINE x == IF n + 1 \in Z THEN 0 ELSE g[n] + s[n + 1]
             f == [i \in 0..n + 1 |-> IF i = n + 1 THEN x ELSE g[i]]
  <2>3. \A i \in 0..n + 1 : f[i] = IF i = n + 1 THEN x ELSE g[i]
    OBVIOUS
  <2>4. f = [i \in 0..n + 1 |-> f[i]]
    OBVIOUS
  <2> HIDE DEF f
  <2>5. \A i \in 0..n + 1 : f[i] = P(f, i)
    <3> SUFFICES ASSUME NEW i \in 0..n + 1 PROVE f[i] = P(f, i)
      OBVIOUS
    <3>1. CASE i = n + 1
      <4>1. i # 0 /\ i - 1 = n /\ n \in 0..n + 1 /\ n # n + 1
        BY <3>1
      <4>2. f[i] = x /\ f[i - 1] = g[n]
        BY <2>3, <3>1, <4>1
      <4> QED
        BY <3>1, <4>1, <4>2
    <3>2. CASE i # n + 1
      <4>1. i \in 0..n /\ f[i] = g[i]
        BY <2>3, <3>2
      <4>2. i # 0 => i - 1 \in 0..n + 1 /\ i - 1 # n + 1
        BY <4>1
      <4>3. i # 0 => f[i - 1] = g[i - 1]
        BY <2>3, <4>2
      <4> QED
        BY <2>2, <4>1, <4>3
    <3> QED
      BY <3>1, <3>2
  <2>6. f = [i \in 0..n + 1 |-> P(f, i)]
    BY <2>4, <2>5
  <2> QED
    BY <2>6
<1> HIDE DEF T
<1>3. N \in T
  BY <1>1, <1>2, NatSetInduction
<1> QED
  BY <1>3 DEF T, IsDeferredSum

\* What min_size() adds up.
LEMMA MinimumIs ==
  ASSUME NEW v, NEW s, Len(s) \in Nat
  PROVE  \E g : /\ message_min_size(v, s) = g[Len(s)]
                /\ \A i \in 0..Len(s) :
                     g[i] = IF i = 0 \/ (v > 2 /\ s[i].dynamic) THEN 0
                            ELSE g[i - 1] + field_min_size(v, s[i])
<1> DEFINE N == Len(s)
           Z == {i \in 1..N : v > 2 /\ s[i].dynamic}
           L == [i \in 1..N |-> field_min_size(v, s[i])]
           E(g, i) == IF i = 0 \/ (v > 2 /\ s[i].dynamic) THEN 0
                      ELSE g[i - 1] + field_min_size(v, s[i])
           P(g) == g = [i \in 0..N |-> E(g, i)]
           c == CHOOSE g : P(g)
<1>1. PICK g : IsDeferredSum(N, L, Z, g)
  <2> HIDE DEF Z, L
  <2> QED
    BY DeferredSumsExist
<1>2. \A i \in 0..N : (IF i = 0 \/ i \in Z THEN 0 ELSE g[i - 1] + L[i]) = E(g, i)
  <2> SUFFICES ASSUME NEW i \in 0..N
               PROVE  (IF i = 0 \/ i \in Z THEN 0 ELSE g[i - 1] + L[i]) = E(g, i)
    OBVIOUS
  <2>1. i # 0 => i \in 1..N
    OBVIOUS
  <2>2. i # 0 => L[i] = field_min_size(v, s[i])
    BY <2>1
  <2>3. i # 0 => (i \in Z <=> v > 2 /\ s[i].dynamic)
    BY <2>1
  <2> HIDE DEF Z, L
  <2> QED
    BY <2>2, <2>3
<1>3. P(g)
  <2> HIDE DEF Z, L, E
  <2> QED
    BY <1>1, <1>2 DEF IsDeferredSum
<1>4. P(c)
  <2> HIDE DEF P
  <2> QED
    BY <1>3
<1>5. message_min_size(v, s) = c[N]
  BY DEF message_min_size
<1> HIDE DEF c, E
<1>6. \A i \in 0..N : c[i] = E(c, i)
  BY <1>4
<1> QED
  BY <1>5, <1>6 DEF E

\* No message is shorter than its minimum, and none longer than its maximum.
LEMMA MessageBounds ==
  ASSUME NEW v, NEW s, NEW vals, Encodable(v, s, vals)
  PROVE  /\ KeepsPrefetched(v, s) =>
              /\ message_min_size(v, s) \in Nat
              /\ message_min_size(v, s) <= Len(encode(v, s, vals))
         /\ Len(encode(v, s, vals)) <= message_max_size(v, s)
         /\ (\A fi \in 1..Len(s) : ~(v > 2 /\ s[fi].repeated /\ Len(vals[fi].elems) < s[fi].min_repeat))
              => message_size(v, s, vals) = Len(encode(v, s, vals))
<1> DEFINE n == Len(s)
           w == encode(v, s, vals)
           L == field_lengths(v, s, vals)
           st(fi) == field_start(v, s, vals, fi)
           len(fi) == Len(field_encode(v, s, vals, fi))
<1>1. n \in Nat /\ w \in Seq(Bit)
  BY Layout
<1>2. /\ L = [fi \in 1..n |-> len(fi)] /\ \A fi \in 1..n : L[fi] = len(fi)
      /\ Len(w) = total_to(L, n)
  <2>1. st(n + 1) = Len(w)
    BY Layout
  <2>2. (n + 1) - 1 = n
    BY <1>1
  <2>3. st(n + 1) = total_to(L, n)
    BY <2>2 DEF field_start
  <2> QED
    BY <2>1, <2>3 DEF field_lengths
<1>3. /\ st(1) = 0 /\ st(n + 1) = Len(w)
      /\ \A fi \in 1..n : /\ st(fi) \in Nat /\ st(fi + 1) \in Nat
                          /\ st(fi + 1) = st(fi) + len(fi)
  BY Layout
<1>4. \A fi \in 1..n : len(fi) \in Nat
  <2>1. \A fi \in 1..n : field_encode(v, s, vals, fi) \in Seq(Bit)
    BY FieldBits
  <2> QED
    BY <2>1
<1>5. ASSUME KeepsPrefetched(v, s)
      PROVE  message_min_size(v, s) \in Nat /\ message_min_size(v, s) <= Len(w)
  <2>1. PICK g : /\ message_min_size(v, s) = g[n]
                 /\ \A i \in 0..n :
                      g[i] = IF i = 0 \/ (v > 2 /\ s[i].dynamic) THEN 0
                             ELSE g[i - 1] + field_min_size(v, s[i])
    BY <1>1, MinimumIs
  <2>2. ASSUME NEW fi \in 1..n, ~(v > 2 /\ s[fi].dynamic)
        PROVE  field_min_size(v, s[fi]) \in Nat /\ field_min_size(v, s[fi]) <= len(fi)
    <3>1. s[fi] \in FieldType
      BY SizesAre
    <3>2. s[fi].repeated \/ ~omitted(v, s[fi], vals[fi], 1)
      BY <2>2, <3>1, FieldIs DEF omitted
    <3> QED
      BY <1>5, <3>2, FieldMinimum
  <2> DEFINE A(i) == g[i] \in Nat /\ g[i] <= st(i + 1) /\ st(i + 1) \in Nat
             T == {i \in Nat : i <= n => A(i)}
  <2> HIDE DEF n, st, len
  <2>3. 0 \in T
    <3>1. 0 + 1 = 1 /\ 0 \in 0..n
      BY <1>1
    <3>2. g[0] = 0
      BY <2>1, <3>1
    <3> QED
      BY <1>3, <3>1, <3>2
  <2>4. \A i \in Nat : i \in T => i + 1 \in T
    <3> SUFFICES ASSUME NEW i \in Nat, i \in T, i + 1 <= n PROVE A(i + 1)
      OBVIOUS
    <3>1. A(i) /\ i + 1 \in 1..n /\ i + 1 \in 0..n /\ (i + 1) - 1 = i /\ i + 1 # 0
      BY <1>1
    <3> DEFINE fi == i + 1
    <3> HIDE DEF T
    <3>2. st(fi + 1) = st(fi) + len(fi) /\ st(fi + 1) \in Nat /\ st(fi) \in Nat /\ len(fi) \in Nat
      BY <1>3, <1>4, <3>1
    <3>3. CASE v > 2 /\ s[fi].dynamic
      <4>1. g[fi] = 0
        BY <2>1, <3>1, <3>3
      <4> QED
        BY <3>2, <4>1
    <3>4. CASE ~(v > 2 /\ s[fi].dynamic)
      <4>1. g[fi] = g[i] + field_min_size(v, s[fi])
        BY <2>1, <3>1, <3>4
      <4>2. field_min_size(v, s[fi]) \in Nat /\ field_min_size(v, s[fi]) <= len(fi)
        BY <2>2, <3>1, <3>4
      <4>3. g[i] \in Nat /\ g[i] <= st(fi)
        BY <3>1
      <4> QED
        BY <3>2, <4>1, <4>2, <4>3
    <3> QED
      BY <3>3, <3>4
  <2> HIDE DEF T, A
  <2>5. n \in T
    BY <1>1, <2>3, <2>4, NatSetInduction
  <2>6. A(n)
    BY <1>1, <2>5 DEF T
  <2> QED
    BY <1>3, <2>1, <2>6 DEF A
<1>6. Len(w) <= message_max_size(v, s)
  <2> DEFINE M == [fi \in 1..n |-> field_max_size(v, s[fi])]
  <2>1. \A fi \in 1..n : field_max_size(v, s[fi]) \in Nat /\ len(fi) <= field_max_size(v, s[fi])
    BY FieldMaximum
  <2>2. \A fi \in 1..n : M[fi] = field_max_size(v, s[fi])
    OBVIOUS
  <2>3. message_max_size(v, s) = total(M)
    BY DEF message_max_size
  <2>4. M = [fi \in 1..n |-> M[fi]]
    OBVIOUS
  <2> HIDE DEF M, n, len, L
  <2>5. total(M) = total_to(M, n)
    BY <2>4 DEF total_to
  <2>6. \A fi \in 1..n : L[fi] \in Nat /\ M[fi] \in Nat /\ L[fi] <= M[fi]
    BY <1>2, <1>4, <2>1, <2>2
  <2>7. total_to(L, n) <= total_to(M, n)
    BY <1>1, <2>6, TotalsCompare
  <2> QED
    BY <1>2, <2>3, <2>5, <2>7
<1>7. ASSUME \A fi \in 1..n : ~(v > 2 /\ s[fi].repeated /\ Len(vals[fi].elems) < s[fi].min_repeat)
      PROVE  message_size(v, s, vals) = Len(w)
  <2>1. \A fi \in 1..n : field_size(v, s[fi], vals[fi]) = len(fi)
    BY <1>7, FieldSize
  <2>2. [fi \in 1..n |-> field_size(v, s[fi], vals[fi])] = L
    <3> HIDE DEF n, len, L
    <3> QED
      BY <1>2, <2>1
  <2>3. message_size(v, s, vals) = total(L)
    BY <2>2 DEF message_size
  <2>4. L = [fi \in 1..n |-> L[fi]]
    BY <1>2
  <2> HIDE DEF n, len, L
  <2>5. total(L) = total_to(L, n)
    BY <2>4 DEF total_to
  <2> QED
    BY <1>2, <2>3, <2>5
<1> QED
  BY <1>5, <1>6, <1>7

-----------------------------------------------------------------------------
(* The steps *)

\* Fewer bits of an element are the first of it.
LEMMA FewerBits ==
  ASSUME NEW w, NEW a, NEW fi \in Nat, NEW e \in Nat, NEW n \in Nat, NEW m \in Nat, m <= n,
         Len(w) \in Nat, At(w, a, BitsOf(fi, e, n))
  PROVE  At(w, a, BitsOf(fi, e, m))
<1>1. Len(BitsOf(fi, e, n)) = n /\ Len(BitsOf(fi, e, m)) = m
  BY BitsOfIs
<1>2. /\ \A b \in 1..n : BitsOf(fi, e, n)[b] = <<fi, e, b>>
      /\ \A b \in 1..m : BitsOf(fi, e, m)[b] = <<fi, e, b>>
  BY DEF BitsOf
<1>3. a \in Nat /\ a + n <= Len(w) /\ \A b \in 1..n : w[a + b] = BitsOf(fi, e, n)[b]
  BY <1>1 DEF At
<1>4. \A b \in 1..m : b \in 1..n
  OBVIOUS
<1>5. \A b \in 1..m : w[a + b] = BitsOf(fi, e, m)[b]
  BY <1>2, <1>3, <1>4
<1>6. a + m <= Len(w)
  BY <1>3
<1> QED
  BY <1>1, <1>3, <1>5, <1>6 DEF At

\* The bits in the last pool follow those that were taken.
LEMMA TakeLast ==
  ASSUME NEW w \in Seq(Bit), NEW p, NEW c, Cut(w, p, c), Len(p) >= 1,
         NEW t, Taken(w, t, c, Len(p))
  PROVE  /\ Last(p) \in Seq(Bit) /\ At(w, c[Len(p)], Last(p))
         /\ c[Len(p)] + Len(Last(p)) = c[Len(p) - 1]
         /\ Taken(w, t \o Last(p), [j \in 0..Len(p) - 1 |-> c[j]], Len(p) - 1)
<1> DEFINE K == Len(p)
           x == Last(p)
           d == [j \in 0..K - 1 |-> c[j]]
<1>1. K \in Nat /\ K >= 1
  BY CutIs
<1> HIDE DEF K
<1>2. K \in 1..K /\ K - 1 \in 0..K - 1
  BY <1>1
<1>3. /\ p[K] \in Seq(Bit) /\ Len(p[K]) \in Nat /\ c[K] \in Nat /\ c[K - 1] \in Nat
      /\ c[K] + Len(p[K]) = c[K - 1] /\ At(w, c[K], p[K])
  <2>1. \A j \in 1..Len(p) : /\ p[j] \in Seq(Bit) /\ Len(p[j]) \in Nat
                             /\ c[j] \in Nat /\ c[j - 1] \in Nat
                             /\ c[j] + Len(p[j]) = c[j - 1] /\ At(w, c[j], p[j])
    BY CutIs
  <2> QED
    BY <1>2, <2>1 DEF K
<1>4. x = p[K]
  BY DEF Last, K
<1>5. t \in Seq(Bit) /\ Len(t) = c[K] /\ At(w, 0, t)
  BY DEF Taken, K
<1> HIDE DEF x
<1>6. t \o x \in Seq(Bit) /\ Len(t \o x) = Len(t) + Len(x)
  BY <1>3, <1>4, <1>5, ConcatIs
<1>7. At(w, 0, t \o x)
  <2>1. 0 + Len(t) = c[K]
    BY <1>3, <1>5
  <2>2. At(w, 0 + Len(t), x)
    BY <1>3, <1>4, <2>1
  <2> QED
    BY <1>3, <1>4, <1>5, <2>2, AtJoin
<1>8. d[K - 1] = c[K - 1]
  BY <1>2
<1> HIDE DEF d
<1>9. Taken(w, t \o x, d, K - 1)
  BY <1>3, <1>4, <1>5, <1>6, <1>7, <1>8 DEF Taken
<1> QED
  BY <1>3, <1>4, <1>9 DEF x, d, K

\* What is assumed of the schemas and their messages, of one of them.
LEMMA SchemaIs ==
  ASSUME NEW v, NEW s, NEW vals,
         \E d \in Schemas : v = d.version /\ s = d.fields /\ vals \in ValuesOf(s)
  PROVE  /\ Encodable(v, s, vals)
         /\ encode(v, s, vals) \in Seq(Bit)
         /\ Len(encode(v, s, vals)) \in Nat /\ Len(s) \in Nat
         /\ OmitsNothingPrefetched => KeepsPrefetched(v, s)
<1>1. PICK d \in Schemas : v = d.version /\ s = d.fields /\ vals \in ValuesOf(s)
  OBVIOUS
<1>2. /\ v \in {2, 3} /\ s \in Seq(FieldType)
      /\ \A i \in 1..Len(s) :
           s[i].repeated => 1 <= s[i].max_repeat /\ s[i].min_repeat <= s[i].max_repeat
  BY <1>1, FieldAssumption
<1>3. \A i \in 1..Len(s) : vals[i].elems \in Seq(0..s[i].longest)
  BY <1>1, ValuesAssumption
<1>4. Encodable(v, s, vals)
  BY <1>2, <1>3 DEF Encodable
<1>5. encode(v, s, vals) \in Seq(Bit) /\ Len(s) \in Nat
  BY <1>4, Layout
<1>6. Len(encode(v, s, vals)) \in Nat
  BY <1>5
<1>7. OmitsNothingPrefetched => KeepsPrefetched(v, s)
  BY <1>1 DEF OmitsNothingPrefetched, KeepsPrefetched
<1> QED
  BY <1>4, <1>5, <1>6, <1>7

\* So of the one that is decoded.
LEMMA MessageIs ==
  ASSUME FieldInv
  PROVE  /\ Encodable(version, schema, value)
         /\ encode(version, schema, value) \in Seq(Bit)
         /\ Len(encode(version, schema, value)) \in Nat /\ Len(schema) \in Nat
         /\ OmitsNothingPrefetched => KeepsPrefetched(version, schema)
BY SchemaIs DEF FieldInv

\* What a step of the decoder has to show: the message stays, and the pools
\* are cut where the decoder then is.
LEMMA StepKeepsInv ==
  ASSUME FieldInv, UNCHANGED input,
         field' \in 1..Len(schema) + 1, elem' \in Nat, count' \in Nat,
         given' \in Seq(Gift), ElementsGetTheirBits',
         NEW d, Cut(encode(version, schema, value), pools', d),
         Taken(encode(version, schema, value), taken', d, Len(pools')),
         Standing(version, schema, value, Len(pools'), d, pc', field', elem', count')
  PROVE  FieldInv'
<1>1. version' = version /\ schema' = schema /\ value' = value
  BY DEF input
<1>2. \E s \in Schemas : version' = s.version /\ schema' = s.fields /\ value' \in ValuesOf(schema')
  BY <1>1 DEF FieldInv
<1>3. \E c : /\ Cut(encode(version', schema', value'), pools', c)
             /\ Taken(encode(version', schema', value'), taken', c, Len(pools'))
             /\ Standing(version', schema', value', Len(pools'), c, pc', field', elem', count')
  BY <1>1
<1>4. field' \in 1..Len(schema') + 1
  BY <1>1
<1> QED
  BY <1>2, <1>3, <1>4 DEF FieldInv

\* What was decoded stays decoded.
LEMMA GivenStays ==
  ASSUME FieldInv, UNCHANGED input, given' = given
  PROVE  given' \in Seq(Gift) /\ ElementsGetTheirBits'
<1>1. version' = version /\ schema' = schema /\ value' = value
  BY DEF input
<1> QED
  BY <1>1 DEF FieldInv, ElementsGetTheirBits

\* The Bitset of the message gets its minimum, which the message has.
LEMMA BaseDecodeStep ==
  ASSUME OmitsNothingPrefetched, FieldInv, base_decode
  PROVE  FieldInv'
<1> DEFINE w == encode(version, schema, value)
           n == message_min_size(version, schema)
<1>1. PICK c : /\ Cut(w, pools, c) /\ Taken(w, taken, c, Len(pools))
               /\ Standing(version, schema, value, Len(pools), c, pc, field, elem, count)
  BY DEF FieldInv
<1>2. /\ pc = "message" /\ Open(n, "field") /\ UNCHANGED <<input, field, elem, count, taken, given>>
  BY DEF base_decode
<1>3. Len(pools) = 1 /\ field = 1 /\ c[1] = 0
  BY <1>1, <1>2 DEF Standing
<1>4. /\ Encodable(version, schema, value) /\ KeepsPrefetched(version, schema)
      /\ w \in Seq(Bit) /\ Len(w) \in Nat /\ Len(schema) \in Nat
  BY MessageIs
<1>5. n \in Nat /\ n <= Len(w)
  BY <1>4, MessageBounds
<1> HIDE DEF w, n
<1> DEFINE d == opened(c, 1, n)
<1>6. /\ open_child(pools, n).ok = TRUE
      /\ Len(open_child(pools, n).p) = 1 + 1
      /\ Cut(w, open_child(pools, n).p, d)
  <2>1. Len(pools) >= 1 /\ c[Len(pools)] + n <= Len(w)
    BY <1>3, <1>5
  <2>2. /\ open_child(pools, n).ok = TRUE
        /\ Len(open_child(pools, n).p) = Len(pools) + 1
        /\ Cut(w, open_child(pools, n).p, opened(c, Len(pools), n))
    BY <1>1, <1>4, <1>5, <2>1, OpenChild
  <2> QED
    BY <1>3, <2>2
<1>7. pools' = open_child(pools, n).p /\ pc' = "field" /\ Len(pools') = 2
  BY <1>2, <1>6 DEF Open
<1>8. d[2] = 0
  BY <1>3 DEF opened
<1> HIDE DEF d
<1>9. Taken(w, taken', d, Len(pools'))
  BY <1>1, <1>2, <1>3, <1>7, <1>8 DEF Taken
<1>10. Standing(version, schema, value, Len(pools'), d, pc', field', elem', count')
  <2>1. field_start(version, schema, value, 1) = 0
    BY <1>4, Layout
  <2> QED
    BY <1>2, <1>3, <1>7, <1>8, <2>1 DEF Standing
<1>11. field' \in 1..Len(schema) + 1 /\ elem' \in Nat /\ count' \in Nat
  BY <1>2 DEF FieldInv
<1>12. UNCHANGED input /\ given' \in Seq(Gift) /\ ElementsGetTheirBits'
  BY <1>2, GivenStays
<1> QED
  BY <1>6, <1>7, <1>9, <1>10, <1>11, <1>12, StepKeepsInv DEF w

\* A field that is omitted has no bits.
LEMMA SkipFieldStep ==
  ASSUME FieldInv, SkipField
  PROVE  FieldInv'
<1> DEFINE w == encode(version, schema, value)
<1>1. PICK c : /\ Cut(w, pools, c) /\ Taken(w, taken, c, Len(pools))
               /\ Standing(version, schema, value, Len(pools), c, pc, field, elem, count)
  BY DEF FieldInv
<1>2. /\ pc = "field" /\ field <= Len(schema) /\ ~schema[field].repeated
      /\ omitted(version, schema[field], value[field], 1)
      /\ field' = field + 1 /\ UNCHANGED <<input, pools, pc, elem, count, taken, given>>
  BY DEF SkipField, this_field, this_value
<1>3. Len(pools) = 2 /\ c[2] = field_start(version, schema, value, field)
  BY <1>1, <1>2 DEF Standing
<1>4. Encodable(version, schema, value) /\ Len(schema) \in Nat
  BY MessageIs
<1>5. field \in 1..Len(schema) + 1 /\ elem \in Nat /\ count \in Nat
  BY DEF FieldInv
<1>6. field \in 1..Len(schema) /\ field' \in 1..Len(schema) + 1
  BY <1>2, <1>4, <1>5
<1>7. c[2] = field_start(version, schema, value, field')
  <2>1. wire_size(version, schema[field], value[field], 1) = 0
    BY <1>2 DEF wire_size
  <2>2. field_start(version, schema, value, field + 1)
          = field_start(version, schema, value, field) + 0
    BY <1>2, <1>4, <1>6, <2>1, SingleIs
  <2>3. field_start(version, schema, value, field) \in Nat
    BY <1>4, <1>6, Layout
  <2> QED
    BY <1>2, <1>3, <2>2, <2>3
<1>8. Standing(version, schema, value, Len(pools'), c, pc', field', elem', count')
  BY <1>2, <1>3, <1>7 DEF Standing
<1>9. Cut(w, pools', c) /\ Taken(w, taken', c, Len(pools'))
  BY <1>1, <1>2
<1>10. UNCHANGED input /\ given' \in Seq(Gift) /\ ElementsGetTheirBits'
  BY <1>2, GivenStays
<1>11. elem' \in Nat /\ count' \in Nat
  BY <1>2, <1>5
<1> QED
  BY <1>6, <1>8, <1>9, <1>10, <1>11, StepKeepsInv DEF w

\* The codec of a single field gets its minimum.
LEMMA FieldDecodeStep ==
  ASSUME FieldInv, field_decode
  PROVE  FieldInv'
<1> DEFINE w == encode(version, schema, value)
           f == schema[field]
           val == value[field]
           n == f.min
           a == field_start(version, schema, value, field)
           b == field_start(version, schema, value, field + 1)
<1>1. PICK c : /\ Cut(w, pools, c) /\ Taken(w, taken, c, Len(pools))
               /\ Standing(version, schema, value, Len(pools), c, pc, field, elem, count)
  BY DEF FieldInv
<1>2. /\ pc = "field" /\ field <= Len(schema) /\ ~f.repeated
      /\ ~omitted(version, f, val, 1)
      /\ Open(n, "element") /\ elem' = 1
      /\ UNCHANGED <<input, field, count, taken, given>>
  BY DEF field_decode, this_field, this_value, field_min_size
<1>3. Len(pools) = 2 /\ c[2] = a
  BY <1>1, <1>2 DEF Standing
<1>4. /\ Encodable(version, schema, value)
      /\ w \in Seq(Bit) /\ Len(w) \in Nat /\ Len(schema) \in Nat
  BY MessageIs
<1>5. field \in 1..Len(schema) + 1 /\ count \in Nat
  BY DEF FieldInv
<1>6. field \in 1..Len(schema)
  BY <1>2, <1>4, <1>5
<1>7. /\ n \in Nat /\ a \in Nat /\ b <= Len(w) /\ b \in Nat
      /\ b = a + wire_size(version, f, val, 1) /\ n <= wire_size(version, f, val, 1)
      /\ wire_size(version, f, val, 1) \in Nat
  <2>1. a \in Nat /\ b \in Nat /\ b <= Len(w)
    BY <1>4, <1>6, Layout
  <2>2. b = a + wire_size(version, f, val, 1)
    BY <1>2, <1>4, <1>6, SingleIs
  <2>3. 1 \in Nat \ {0}
    OBVIOUS
  <2>4. /\ f \in FieldType /\ wire_size(version, f, val, 1) \in Nat
        /\ wire_size(version, f, val, 1) = element_size(f, val, 1)
        /\ n <= element_size(f, val, 1)
    BY <1>2, <1>4, <1>6, <2>3, SizesAre
  <2>5. n \in Nat
    BY <2>4, FieldIs
  <2> QED
    BY <2>1, <2>2, <2>4, <2>5
<1> HIDE DEF w, n, a, b, f, val
<1> DEFINE d == opened(c, 2, n)
<1>8. a + n <= Len(w)
  BY <1>4, <1>7
<1>9. /\ open_child(pools, n).ok = TRUE
      /\ Len(open_child(pools, n).p) = 2 + 1
      /\ Cut(w, open_child(pools, n).p, d)
  <2>1. Len(pools) >= 1 /\ c[Len(pools)] + n <= Len(w)
    BY <1>3, <1>8
  <2>2. /\ open_child(pools, n).ok = TRUE
        /\ Len(open_child(pools, n).p) = Len(pools) + 1
        /\ Cut(w, open_child(pools, n).p, opened(c, Len(pools), n))
    BY <1>1, <1>4, <1>7, <2>1, OpenChild
  <2> QED
    BY <1>3, <2>2
<1>10. pools' = open_child(pools, n).p /\ pc' = "element" /\ Len(pools') = 3
  BY <1>2, <1>9 DEF Open
<1>11. d[3] = a /\ d[2] = a + n
  <2>1. 3 = 2 + 1 /\ 2 \in 0..2 + 1 /\ 3 \in 0..2 + 1 /\ 2 # 2 + 1
    OBVIOUS
  <2>2. d[3] = c[2] /\ d[2] = at_least(c[2], c[2] + n)
    BY <2>1 DEF opened
  <2> QED
    BY <1>3, <1>7, <2>2 DEF at_least
<1> HIDE DEF d
<1>12. Taken(w, taken', d, Len(pools'))
  BY <1>1, <1>2, <1>3, <1>10, <1>11 DEF Taken
<1>13. Standing(version, schema, value, Len(pools'), d, pc', field', elem', count')
  <2>1. /\ pc' = "element" /\ Len(pools') = 3 /\ field' = field /\ field <= Len(schema)
        /\ ~schema[field].repeated /\ elem' = 1 /\ ~omitted(version, schema[field], value[field], 1)
        /\ d[3] = field_start(version, schema, value, field) /\ d[2] = d[3] + schema[field].min
    BY <1>2, <1>10, <1>11 DEF f, val, n, a
  <2> QED
    BY <2>1 DEF Standing
<1>14. field' \in 1..Len(schema) + 1 /\ elem' \in Nat /\ count' \in Nat
  BY <1>2, <1>5
<1>15. UNCHANGED input /\ given' \in Seq(Gift) /\ ElementsGetTheirBits'
  BY <1>2, GivenStays
<1> QED
  BY <1>9, <1>10, <1>12, <1>13, <1>14, <1>15, StepKeepsInv DEF w

\* What is prefetched for a repeated field belongs to it.
LEMMA FieldDecodeRepeatedStep ==
  ASSUME OmitsNothingPrefetched, FieldInv, field_decode_repeated
  PROVE  FieldInv'
<1> DEFINE w == encode(version, schema, value)
           f == schema[field]
           n == field_min_size(version, f)
           a == field_start(version, schema, value, field)
           b == field_start(version, schema, value, field + 1)
<1>1. PICK c : /\ Cut(w, pools, c) /\ Taken(w, taken, c, Len(pools))
               /\ Standing(version, schema, value, Len(pools), c, pc, field, elem, count)
  BY DEF FieldInv
<1>2. /\ pc = "field" /\ field <= Len(schema) /\ f.repeated
      /\ Open(n, "count") /\ elem' = 1
      /\ UNCHANGED <<input, field, count, taken, given>>
  BY DEF field_decode_repeated, this_field
<1>3. Len(pools) = 2 /\ c[2] = a
  BY <1>1, <1>2 DEF Standing
<1>4. /\ Encodable(version, schema, value) /\ KeepsPrefetched(version, schema)
      /\ w \in Seq(Bit) /\ Len(w) \in Nat /\ Len(schema) \in Nat
  BY MessageIs
<1>5. field \in 1..Len(schema) + 1 /\ count \in Nat
  BY DEF FieldInv
<1>6. field \in 1..Len(schema)
  BY <1>2, <1>4, <1>5
<1>7. n \in Nat /\ a \in Nat /\ b \in Nat /\ b <= Len(w) /\ a + n <= b
  <2> DEFINE l == Len(field_encode(version, schema, value, field))
  <2>1. a \in Nat /\ b \in Nat /\ b <= Len(w) /\ b = a + l
    BY <1>4, <1>6, Layout
  <2>2. n \in Nat /\ n <= l
    BY <1>2, <1>4, <1>6, FieldMinimum
  <2>3. l \in Nat
    <3>1. field_encode(version, schema, value, field) \in Seq(Bit)
      BY <1>4, <1>6, FieldBits
    <3> QED
      BY <3>1
  <2> HIDE DEF l, n, a, b
  <2> QED
    BY <2>1, <2>2, <2>3
<1> HIDE DEF w, n, a, b, f
<1> DEFINE d == opened(c, 2, n)
<1>8. /\ open_child(pools, n).ok = TRUE
      /\ Len(open_child(pools, n).p) = 2 + 1
      /\ Cut(w, open_child(pools, n).p, d)
  <2>1. Len(pools) >= 1 /\ c[Len(pools)] + n <= Len(w)
    BY <1>3, <1>4, <1>7
  <2>2. /\ open_child(pools, n).ok = TRUE
        /\ Len(open_child(pools, n).p) = Len(pools) + 1
        /\ Cut(w, open_child(pools, n).p, opened(c, Len(pools), n))
    BY <1>1, <1>4, <1>7, <2>1, OpenChild
  <2> QED
    BY <1>3, <2>2
<1>9. pools' = open_child(pools, n).p /\ pc' = "count" /\ Len(pools') = 3
  BY <1>2, <1>8 DEF Open
<1>10. d[3] = a /\ d[2] = a + n
  <2>1. 3 = 2 + 1 /\ 2 \in 0..2 + 1 /\ 3 \in 0..2 + 1 /\ 2 # 2 + 1
    OBVIOUS
  <2>2. d[3] = c[2] /\ d[2] = at_least(c[2], c[2] + n)
    BY <2>1 DEF opened
  <2> QED
    BY <1>3, <1>7, <2>2 DEF at_least
<1> HIDE DEF d
<1>11. Taken(w, taken', d, Len(pools'))
  BY <1>1, <1>2, <1>3, <1>9, <1>10 DEF Taken
<1>12. Standing(version, schema, value, Len(pools'), d, pc', field', elem', count')
  <2>1. /\ pc' = "count" /\ Len(pools') = 3 /\ field' = field /\ field <= Len(schema)
        /\ schema[field].repeated /\ elem' = 1
        /\ d[3] = field_start(version, schema, value, field)
        /\ d[2] <= field_start(version, schema, value, field + 1)
    BY <1>2, <1>7, <1>9, <1>10 DEF f, a, b
  <2> QED
    BY <2>1 DEF Standing
<1>13. field' \in 1..Len(schema) + 1 /\ elem' \in Nat /\ count' \in Nat
  BY <1>2, <1>5
<1>14. UNCHANGED input /\ given' \in Seq(Gift) /\ ElementsGetTheirBits'
  BY <1>2, GivenStays
<1> QED
  BY <1>8, <1>9, <1>11, <1>12, <1>13, <1>14, StepKeepsInv DEF w

\* The count of a repeated field is read where it was written.
LEMMA DecodeCountStep ==
  ASSUME FieldInv, DecodeCount
  PROVE  FieldInv' /\ \E x \in Seq(Bit) : taken' = taken \o x
<1> DEFINE w == encode(version, schema, value)
           f == schema[field]
           val == value[field]
           n == count_bits(version, f)
           m == wire_elements(version, f, val)
           a == field_start(version, schema, value, field)
           b == field_start(version, schema, value, field + 1)
           a1 == elem_start(version, schema, value, field, 1)
           r == open_child(pools, n)
           bits == Last(r.p)
<1>1. PICK c : /\ Cut(w, pools, c) /\ Taken(w, taken, c, Len(pools))
               /\ Standing(version, schema, value, Len(pools), c, pc, field, elem, count)
  BY DEF FieldInv
<1>2. /\ pc = "count" /\ pools' = Front(r.p)
      /\ IF r.ok
           THEN /\ taken' = taken \o bits
                /\ pc' = IF bits = BitsOf(field, 0, Len(bits)) THEN "elements" ELSE "misread"
                /\ count' = wire_vector_size(version, f, Len(val.elems))
           ELSE pc' = "thrown" /\ UNCHANGED <<taken, count>>
      /\ UNCHANGED <<input, field, elem, given>>
  BY DEF DecodeCount, this_field, this_value
<1>3. /\ Len(pools) = 3 /\ field <= Len(schema) /\ f.repeated /\ elem = 1
      /\ c[3] = a /\ c[2] <= b
  BY <1>1, <1>2 DEF Standing
<1>4. /\ Encodable(version, schema, value)
      /\ w \in Seq(Bit) /\ Len(w) \in Nat /\ Len(schema) \in Nat
  BY MessageIs
<1>5. field \in 1..Len(schema) + 1
  BY DEF FieldInv
<1>6. field \in 1..Len(schema) /\ field \in Nat
  BY <1>3, <1>4, <1>5
<1>7. /\ n \in Nat /\ n = count_size(version, f) /\ m \in Nat
      /\ a \in Nat /\ b \in Nat /\ b <= Len(w) /\ a1 = a + n /\ a1 <= b
      /\ At(w, a, BitsOf(field, 0, n))
  <2>1. a \in Nat /\ b \in Nat /\ b <= Len(w)
    BY <1>4, <1>6, Layout
  <2>2. n \in Nat /\ n = count_size(version, f)
    BY <1>3, <1>4, <1>6, SizesAre DEF count_size
  <2>3. /\ m \in Nat /\ At(w, a, BitsOf(field, 0, count_size(version, f)))
        /\ a1 = a + count_size(version, f)
        /\ \A e \in 1..m + 1 : elem_start(version, schema, value, field, e) <= b
    BY <1>4, <1>6, Elements
  <2>4. 1 \in 1..m + 1
    BY <2>3
  <2> QED
    BY <2>1, <2>2, <2>3, <2>4
<1>8. m = wire_vector_size(version, f, Len(val.elems))
  BY <1>3 DEF wire_elements
<1> HIDE DEF w, n, m, a, b, a1, f, val, r, bits
<1> DEFINE d == opened(c, 3, n)
<1>9. r.ok = TRUE /\ Len(r.p) = 4 /\ Cut(w, r.p, d)
  <2>1. Len(pools) >= 1 /\ c[Len(pools)] + n <= Len(w)
    BY <1>3, <1>4, <1>7
  <2>2. r.ok = TRUE /\ Len(r.p) = Len(pools) + 1 /\ Cut(w, r.p, opened(c, Len(pools), n))
    BY <1>1, <1>4, <1>7, <2>1, OpenChild DEF r
  <2> QED
    BY <1>3, <2>2
<1>10. c[2] \in Nat
  <2>1. 2 \in 0..Len(pools)
    BY <1>3
  <2> QED
    BY <1>1, <1>4, <2>1, CutIs
<1>11. d[4] = a /\ d[3] = a + n /\ d[2] = at_least(c[2], a + n)
  <2>1. 4 = 3 + 1 /\ 2 \in 0..3 + 1 /\ 3 \in 0..3 + 1 /\ 4 \in 0..3 + 1 /\ 2 # 3 + 1 /\ 3 # 3 + 1
    OBVIOUS
  <2>2. d[4] = c[3] /\ d[3] = at_least(c[3], c[3] + n) /\ d[2] = at_least(c[2], c[3] + n)
    BY <2>1 DEF opened
  <2>3. at_least(a, a + n) = a + n
    BY <1>7 DEF at_least
  <2> QED
    BY <1>3, <2>2, <2>3
<1> HIDE DEF d
<1> DEFINE e == [j \in 0..3 |-> d[j]]
<1>12. /\ bits \in Seq(Bit) /\ At(w, a, bits) /\ a + Len(bits) = a + n
       /\ Taken(w, taken \o bits, e, 3)
       /\ Len(Front(r.p)) = 3 /\ Cut(w, Front(r.p), e)
  <2>1. Taken(w, taken, d, Len(r.p)) /\ Len(r.p) >= 1
    BY <1>1, <1>3, <1>9, <1>11 DEF Taken
  <2>2. /\ Last(r.p) \in Seq(Bit) /\ At(w, d[Len(r.p)], Last(r.p))
        /\ d[Len(r.p)] + Len(Last(r.p)) = d[Len(r.p) - 1]
        /\ Taken(w, taken \o Last(r.p), [j \in 0..Len(r.p) - 1 |-> d[j]], Len(r.p) - 1)
    BY <1>4, <1>9, <2>1, TakeLast
  <2>3. /\ Len(Front(r.p)) = Len(r.p) - 1
        /\ Cut(w, Front(r.p), [j \in 0..Len(r.p) - 1 |-> d[j]])
    BY <1>4, <1>9, <2>1, FrontKeepsCuts
  <2>4. Len(r.p) - 1 = 3
    BY <1>9
  <2> QED
    BY <1>9, <1>11, <2>2, <2>3, <2>4 DEF bits
<1>13. bits = BitsOf(field, 0, Len(bits))
  <2>1. Len(bits) = n
    <3>1. Len(bits) \in Nat
      BY <1>12
    <3> QED
      BY <1>7, <1>12, <3>1
  <2>2. BitsOf(field, 0, n) \in Seq(Bit) /\ Len(BitsOf(field, 0, n)) = n
    BY <1>6, <1>7, BitsOfIs
  <2>3. bits = BitsOf(field, 0, n)
    BY <1>4, <1>7, <1>12, <2>1, <2>2, AtSame
  <2> QED
    BY <2>1, <2>3
<1>14. taken' = taken \o bits /\ pc' = "elements" /\ count' = m
  BY <1>2, <1>8, <1>9, <1>13
<1>15. e[3] = a1 /\ e[2] <= b
  <2>1. e[3] = d[3] /\ e[2] = d[2]
    OBVIOUS
  <2>2. at_least(c[2], a + n) <= b
    BY <1>3, <1>7, <1>10 DEF at_least
  <2> QED
    BY <1>7, <1>11, <2>1, <2>2
<1> HIDE DEF e
<1>16. Standing(version, schema, value, Len(pools'), e, pc', field', elem', count')
  <2>1. /\ pc' = "elements" /\ Len(pools') = 3 /\ field' = field /\ field <= Len(schema)
        /\ schema[field].repeated /\ elem' = 1 /\ 1 \in 1..m + 1
        /\ count' = wire_elements(version, schema[field], value[field])
        /\ m = wire_elements(version, schema[field], value[field])
        /\ e[3] = elem_start(version, schema, value, field, 1)
        /\ e[2] <= field_start(version, schema, value, field + 1)
    <3>1. 1 \in 1..m + 1
      BY <1>7
    <3> QED
      BY <1>2, <1>3, <1>12, <1>14, <1>15, <3>1 DEF f, val, b, a1, m
  <2> QED
    BY <2>1 DEF Standing
<1>17. field' \in 1..Len(schema) + 1 /\ elem' \in Nat /\ count' \in Nat
  BY <1>2, <1>3, <1>5, <1>7, <1>14
<1>18. UNCHANGED input /\ given' \in Seq(Gift) /\ ElementsGetTheirBits'
  BY <1>2, GivenStays
<1>19. Cut(w, pools', e) /\ Taken(w, taken', e, Len(pools'))
  BY <1>2, <1>12, <1>14
<1>20. FieldInv'
  BY <1>16, <1>17, <1>18, <1>19, StepKeepsInv DEF w
<1> QED
  BY <1>12, <1>14, <1>20

\* An element that is omitted has no bits.
LEMMA SkipElementStep ==
  ASSUME FieldInv, SkipElement
  PROVE  FieldInv'
<1> DEFINE w == encode(version, schema, value)
           f == schema[field]
           val == value[field]
           m == wire_elements(version, f, val)
           st(i) == elem_start(version, schema, value, field, i)
<1>1. PICK c : /\ Cut(w, pools, c) /\ Taken(w, taken, c, Len(pools))
               /\ Standing(version, schema, value, Len(pools), c, pc, field, elem, count)
  BY DEF FieldInv
<1>2. /\ pc = "elements" /\ elem <= count /\ omitted(version, f, val, elem)
      /\ elem' = elem + 1 /\ UNCHANGED <<input, pools, pc, field, count, taken, given>>
  BY DEF SkipElement, this_field, this_value
<1>3. /\ Len(pools) = 3 /\ field <= Len(schema) /\ f.repeated
      /\ count = m /\ elem \in 1..m + 1
      /\ c[3] = st(elem) /\ c[2] <= field_start(version, schema, value, field + 1)
  BY <1>1, <1>2 DEF Standing
<1>4. Encodable(version, schema, value) /\ Len(schema) \in Nat
  BY MessageIs
<1>5. field \in 1..Len(schema) + 1 /\ count \in Nat
  BY DEF FieldInv
<1>6. field \in 1..Len(schema)
  BY <1>3, <1>4, <1>5
<1>7. elem \in 1..m /\ elem + 1 \in 1..m + 1 /\ elem + 1 \in Nat
  <2> HIDE DEF m
  <2>1. m \in Nat
    BY <1>3, <1>5
  <2> QED
    BY <1>2, <1>3, <2>1
<1>8. c[3] = st(elem + 1)
  <2>1. wire_size(version, f, val, elem) = 0
    BY <1>2 DEF wire_size
  <2>2. st(elem + 1) = st(elem) + wire_size(version, f, val, elem)
    BY <1>4, <1>6, <1>7, Elements
  <2>3. st(elem) \in Nat
    BY <1>3, <1>4, <1>6, Elements
  <2> HIDE DEF st
  <2> QED
    BY <1>3, <2>1, <2>2, <2>3
<1>9. Standing(version, schema, value, Len(pools'), c, pc', field', elem', count')
  BY <1>2, <1>3, <1>7, <1>8 DEF Standing
<1>10. Cut(w, pools', c) /\ Taken(w, taken', c, Len(pools'))
  BY <1>1, <1>2
<1>11. UNCHANGED input /\ given' \in Seq(Gift) /\ ElementsGetTheirBits'
  BY <1>2, GivenStays
<1>12. field' \in 1..Len(schema) + 1 /\ elem' \in Nat /\ count' \in Nat
  BY <1>2, <1>5, <1>7
<1> QED
  BY <1>9, <1>10, <1>11, <1>12, StepKeepsInv DEF w

\* An element of a repeated field gets the minimum of its codec.
LEMMA NextElementStep ==
  ASSUME FieldInv, NextElement
  PROVE  FieldInv'
<1> DEFINE w == encode(version, schema, value)
           f == schema[field]
           val == value[field]
           m == wire_elements(version, f, val)
           n == f.min
           b == field_start(version, schema, value, field + 1)
           st(i) == elem_start(version, schema, value, field, i)
           a == st(elem)
<1>1. PICK c : /\ Cut(w, pools, c) /\ Taken(w, taken, c, Len(pools))
               /\ Standing(version, schema, value, Len(pools), c, pc, field, elem, count)
  BY DEF FieldInv
<1>2. /\ pc = "elements" /\ elem <= count /\ ~omitted(version, f, val, elem)
      /\ Open(n, "element") /\ UNCHANGED <<input, field, elem, count, taken, given>>
  BY DEF NextElement, this_field, this_value
<1>3. /\ Len(pools) = 3 /\ field <= Len(schema) /\ f.repeated
      /\ count = m /\ elem \in 1..m + 1 /\ c[3] = a /\ c[2] <= b
  BY <1>1, <1>2 DEF Standing
<1>4. /\ Encodable(version, schema, value)
      /\ w \in Seq(Bit) /\ Len(w) \in Nat /\ Len(schema) \in Nat
  BY MessageIs
<1>5. field \in 1..Len(schema) + 1 /\ count \in Nat /\ elem \in Nat
  BY DEF FieldInv
<1>6. field \in 1..Len(schema)
  BY <1>3, <1>4, <1>5
<1>7. elem \in 1..m /\ elem + 1 \in 1..m + 1 /\ elem \in Nat \ {0}
  <2> HIDE DEF m
  <2>1. m \in Nat
    BY <1>3, <1>5
  <2> QED
    BY <1>2, <1>3, <2>1
<1>8. n \in Nat /\ a \in Nat /\ b \in Nat /\ b <= Len(w) /\ a + n <= b
  <2> DEFINE size == wire_size(version, f, val, elem)
  <2>1. b \in Nat /\ b <= Len(w)
    BY <1>4, <1>6, Layout
  <2>2. a \in Nat /\ st(elem + 1) = a + size /\ st(elem + 1) <= b
    BY <1>3, <1>4, <1>6, <1>7, Elements
  <2>3. f \in FieldType /\ size \in Nat /\ n <= size
    <3>1. f \in FieldType
      BY <1>4, <1>6, SizesAre
    <3>2. size \in Nat
      BY <1>4, <1>6, <1>7, SizesAre
    <3>3. n <= element_size(f, val, elem)
      BY <1>4, <1>6, <1>7, SizesAre
    <3>4. size = element_size(f, val, elem)
      BY <1>2 DEF wire_size
    <3> HIDE DEF size, n, f, val
    <3> QED
      BY <3>1, <3>2, <3>3, <3>4
  <2>4. n \in Nat
    BY <2>3, FieldIs
  <2> HIDE DEF size, n, a, b, st
  <2> QED
    BY <2>1, <2>2, <2>3, <2>4
<1> HIDE DEF w, n, m, a, b, f, val, st
<1> DEFINE d == opened(c, 3, n)
<1>9. /\ open_child(pools, n).ok = TRUE
      /\ Len(open_child(pools, n).p) = 3 + 1
      /\ Cut(w, open_child(pools, n).p, d)
  <2>1. Len(pools) >= 1 /\ c[Len(pools)] + n <= Len(w)
    BY <1>3, <1>4, <1>8
  <2>2. /\ open_child(pools, n).ok = TRUE
        /\ Len(open_child(pools, n).p) = Len(pools) + 1
        /\ Cut(w, open_child(pools, n).p, opened(c, Len(pools), n))
    BY <1>1, <1>4, <1>8, <2>1, OpenChild
  <2> QED
    BY <1>3, <2>2
<1>10. pools' = open_child(pools, n).p /\ pc' = "element" /\ Len(pools') = 4
  BY <1>2, <1>9 DEF Open
<1>11. c[2] \in Nat
  <2>1. 2 \in 0..Len(pools)
    BY <1>3
  <2> QED
    BY <1>1, <1>4, <2>1, CutIs
<1>12. d[4] = a /\ d[3] = a + n /\ d[2] <= b
  <2>1. 4 = 3 + 1 /\ 2 \in 0..3 + 1 /\ 3 \in 0..3 + 1 /\ 4 \in 0..3 + 1 /\ 2 # 3 + 1 /\ 3 # 3 + 1
    OBVIOUS
  <2>2. d[4] = c[3] /\ d[3] = at_least(c[3], c[3] + n) /\ d[2] = at_least(c[2], c[3] + n)
    BY <2>1 DEF opened
  <2>3. at_least(a, a + n) = a + n /\ at_least(c[2], a + n) <= b
    BY <1>3, <1>8, <1>11 DEF at_least
  <2> QED
    BY <1>3, <2>2, <2>3
<1> HIDE DEF d
<1>13. Taken(w, taken', d, Len(pools'))
  BY <1>1, <1>2, <1>3, <1>10, <1>12 DEF Taken
<1>14. Standing(version, schema, value, Len(pools'), d, pc', field', elem', count')
  <2>1. /\ pc' = "element" /\ Len(pools') = 4 /\ field' = field /\ field <= Len(schema)
        /\ schema[field].repeated /\ elem' = elem
        /\ count' = wire_elements(version, schema[field], value[field])
        /\ elem \in 1..wire_elements(version, schema[field], value[field])
        /\ ~omitted(version, schema[field], value[field], elem)
        /\ d[4] = elem_start(version, schema, value, field, elem)
        /\ d[3] = d[4] + schema[field].min
        /\ d[2] <= field_start(version, schema, value, field + 1)
    BY <1>2, <1>3, <1>7, <1>10, <1>12 DEF f, val, m, n, a, b, st
  <2> QED
    BY <2>1 DEF Standing
<1>15. field' \in 1..Len(schema) + 1 /\ elem' \in Nat /\ count' \in Nat
  BY <1>2, <1>5
<1>16. UNCHANGED input /\ given' \in Seq(Gift) /\ ElementsGetTheirBits'
  BY <1>2, GivenStays
<1> QED
  BY <1>9, <1>10, <1>13, <1>14, <1>15, <1>16, StepKeepsInv DEF w

\* field_decode_repeated() has used all that was prefetched.
LEMMA EndRepeatedStep ==
  ASSUME FieldInv, EndRepeated
  PROVE  FieldInv'
<1> DEFINE w == encode(version, schema, value)
           m == wire_elements(version, schema[field], value[field])
           b == field_start(version, schema, value, field + 1)
<1>1. PICK c : /\ Cut(w, pools, c) /\ Taken(w, taken, c, Len(pools))
               /\ Standing(version, schema, value, Len(pools), c, pc, field, elem, count)
  BY DEF FieldInv
<1>2. /\ pc = "elements" /\ elem > count /\ pools' = Front(pools)
      /\ field' = field + 1 /\ pc' = "field" /\ UNCHANGED <<input, elem, count, taken, given>>
  BY DEF EndRepeated
<1>3. /\ Len(pools) = 3 /\ field <= Len(schema) /\ count = m /\ elem \in 1..m + 1
      /\ c[3] = elem_start(version, schema, value, field, elem) /\ c[2] <= b
  BY <1>1, <1>2 DEF Standing
<1>4. /\ Encodable(version, schema, value)
      /\ w \in Seq(Bit) /\ Len(w) \in Nat /\ Len(schema) \in Nat
  BY MessageIs
<1>5. field \in 1..Len(schema) + 1 /\ count \in Nat /\ elem \in Nat
  BY DEF FieldInv
<1>6. field \in 1..Len(schema) /\ field' \in 1..Len(schema) + 1
  BY <1>2, <1>3, <1>4, <1>5
<1>7. elem = m + 1
  <2> HIDE DEF m
  <2>1. m \in Nat
    BY <1>3, <1>5
  <2> QED
    BY <1>2, <1>3, <2>1
<1>8. c[3] = b
  BY <1>3, <1>4, <1>6, <1>7, Elements
<1>9. c[2] \in Nat /\ c[3] \in Nat /\ c[3] <= c[2]
  <2>1. 2 \in 0..Len(pools) /\ 3 \in 2..Len(pools)
    BY <1>3
  <2> QED
    BY <1>1, <1>4, <2>1, CutsFall
<1> HIDE DEF w, m, b
<1>10. c[2] = b
  BY <1>3, <1>8, <1>9
<1> DEFINE e == [j \in 0..2 |-> c[j]]
<1>11. Len(pools') = 2 /\ Cut(w, pools', e)
  <2>1. Len(pools) >= 1 /\ Len(pools) - 1 = 2
    BY <1>3
  <2>2. /\ Len(Front(pools)) = Len(pools) - 1
        /\ Cut(w, Front(pools), [j \in 0..Len(pools) - 1 |-> c[j]])
    BY <1>1, <1>4, <2>1, FrontKeepsCuts
  <2> QED
    BY <1>2, <2>1, <2>2
<1>12. e[2] = b
  BY <1>10
<1> HIDE DEF e
<1>13. Taken(w, taken', e, Len(pools'))
  BY <1>1, <1>2, <1>3, <1>8, <1>11, <1>12 DEF Taken
<1>14. Standing(version, schema, value, Len(pools'), e, pc', field', elem', count')
  BY <1>2, <1>11, <1>12 DEF Standing, b
<1>15. UNCHANGED input /\ given' \in Seq(Gift) /\ ElementsGetTheirBits'
  BY <1>2, GivenStays
<1>16. elem' \in Nat /\ count' \in Nat
  BY <1>2, <1>5
<1> QED
  BY <1>6, <1>11, <1>13, <1>14, <1>15, <1>16, StepKeepsInv DEF w

\* At the end of the message nothing is left.
LEMMA EndMessageStep ==
  ASSUME FieldInv, EndMessage
  PROVE  FieldInv'
<1> DEFINE w == encode(version, schema, value)
<1>1. PICK c : /\ Cut(w, pools, c) /\ Taken(w, taken, c, Len(pools))
               /\ Standing(version, schema, value, Len(pools), c, pc, field, elem, count)
  BY DEF FieldInv
<1>2. /\ pc = "field" /\ field > Len(schema) /\ pools' = Front(pools) /\ pc' = "done"
      /\ UNCHANGED <<input, field, elem, count, taken, given>>
  BY DEF EndMessage
<1>3. Len(pools) = 2 /\ c[2] = field_start(version, schema, value, field)
  BY <1>1, <1>2 DEF Standing
<1>4. /\ Encodable(version, schema, value)
      /\ w \in Seq(Bit) /\ Len(w) \in Nat /\ Len(schema) \in Nat
  BY MessageIs
<1>5. field \in 1..Len(schema) + 1 /\ count \in Nat /\ elem \in Nat
  BY DEF FieldInv
<1>6. field = Len(schema) + 1
  BY <1>2, <1>4, <1>5
<1>7. c[2] = Len(w)
  BY <1>3, <1>4, <1>6, Layout
<1>8. c[1] \in Nat /\ c[2] <= c[1] /\ c[1] <= Len(w)
  <2>1. 1 \in 0..Len(pools) /\ 2 \in 1..Len(pools)
    BY <1>3
  <2> QED
    BY <1>1, <1>4, <2>1, CutsFall
<1> HIDE DEF w
<1>9. c[1] = Len(w)
  BY <1>4, <1>7, <1>8
<1> DEFINE e == [j \in 0..1 |-> c[j]]
<1>10. Len(pools') = 1 /\ Cut(w, pools', e)
  <2>1. Len(pools) >= 1 /\ Len(pools) - 1 = 1
    BY <1>3
  <2>2. /\ Len(Front(pools)) = Len(pools) - 1
        /\ Cut(w, Front(pools), [j \in 0..Len(pools) - 1 |-> c[j]])
    BY <1>1, <1>4, <2>1, FrontKeepsCuts
  <2> QED
    BY <1>2, <2>1, <2>2
<1>11. e[1] = Len(w)
  BY <1>9
<1> HIDE DEF e
<1>12. Taken(w, taken', e, Len(pools'))
  BY <1>1, <1>2, <1>3, <1>7, <1>10, <1>11 DEF Taken
<1>13. Standing(version, schema, value, Len(pools'), e, pc', field', elem', count')
  BY <1>2, <1>6, <1>10, <1>11 DEF Standing, w
<1>14. UNCHANGED input /\ given' \in Seq(Gift) /\ ElementsGetTheirBits'
  BY <1>2, GivenStays
<1>15. field' \in 1..Len(schema) + 1 /\ elem' \in Nat /\ count' \in Nat
  BY <1>2, <1>5
<1> QED
  BY <1>10, <1>12, <1>13, <1>14, <1>15, StepKeepsInv DEF w

\* From K pools p, cut at c, element e of field fi is taken, behind what was
\* taken before, t.
Takes(w, p, c, K, t, fi, e, min, size) ==
  LET r == get_more_bits(p, size - min) IN
    /\ Last(p) = BitsOf(fi, e, Len(Last(p)))
    /\ r.ok = TRUE
    /\ Last(r.p) = BitsOf(fi, e, size)
    /\ Len(Front(r.p)) = K - 1
    /\ \E d : /\ Cut(w, Front(r.p), d)
              /\ Taken(w, t \o BitsOf(fi, e, size), d, K - 1)
              /\ d[K - 1] = c[K] + size
              /\ \A j \in 1..K - 2 : d[j] = at_least(c[j], c[K] + size)

\* The codec of an element, whose minimum is in the last of the pools p and its
\* parent behind it, takes the whole element.
LEMMA ElementTakes ==
  ASSUME NEW w \in Seq(Bit), NEW p, NEW c, Cut(w, p, c), NEW K \in Nat, Len(p) = K, K >= 2,
         NEW t, Taken(w, t, c, K),
         NEW fi \in Nat, NEW e \in Nat, NEW min \in Nat, NEW size \in Nat, min <= size,
         c[K - 1] = c[K] + min, c[K] + size <= Len(w), At(w, c[K], BitsOf(fi, e, size))
  PROVE  Takes(w, p, c, K, t, fi, e, min, size)
<1> DEFINE n == size - min
           q == get_more_bits(p, n).p
           x == Last(p)
           y == Last(q)
           d == pulled(c, K, n)
           z == [j \in 0..K - 1 |-> d[j]]
<1>1. Len(w) \in Nat /\ n \in Nat /\ K \in 1..K /\ K \in 0..K /\ K - 1 \in 0..K
  <2>1. Len(w) \in Nat
    OBVIOUS
  <2> QED
    BY <2>1
<1>2. c[K] \in Nat /\ c[K - 1] \in Nat
  BY <1>1, CutIs
<1>3. /\ x \in Seq(Bit) /\ At(w, c[K], x) /\ c[K] + Len(x) = c[K - 1]
  <2>1. Taken(w, t, c, Len(p)) /\ Len(p) >= 1
    OBVIOUS
  <2>2. /\ x \in Seq(Bit) /\ At(w, c[Len(p)], x) /\ c[Len(p)] + Len(x) = c[Len(p) - 1]
    BY <2>1, TakeLast
  <2> QED
    BY <2>2
<1> HIDE DEF x
<1>4. x = BitsOf(fi, e, Len(x))
  <2>1. Len(x) \in Nat
    BY <1>3
  <2>2. Len(x) = min
    BY <1>2, <1>3, <2>1
  <2>3. At(w, c[K], BitsOf(fi, e, min))
    BY <1>1, FewerBits
  <2>4. BitsOf(fi, e, min) \in Seq(Bit) /\ Len(BitsOf(fi, e, min)) = min
    BY BitsOfIs
  <2>5. x = BitsOf(fi, e, min)
    BY <1>3, <2>2, <2>3, <2>4, AtSame
  <2> QED
    BY <2>2, <2>5
<1>5. c[K - 1] + n = c[K] + size
  BY <1>2
<1>6. get_more_bits(p, n).ok = TRUE /\ Len(q) = K /\ Cut(w, q, d)
  <2>1. c[Len(p) - 1] + n <= Len(w)
    <3> HIDE DEF n
    <3> QED
      BY <1>5
  <2>2. Len(p) >= 2 /\ n \in Nat
    BY <1>1
  <2> HIDE DEF n
  <2>3. /\ get_more_bits(p, n).ok = TRUE
        /\ Len(get_more_bits(p, n).p) = Len(p)
        /\ Cut(w, get_more_bits(p, n).p, pulled(c, Len(p), n))
    BY <2>1, <2>2, GetMoreBits
  <2> QED
    BY <2>3
<1>7. /\ d[K] = c[K] /\ d[K - 1] = c[K] + size
      /\ \A j \in 1..K - 2 : d[j] = at_least(c[j], c[K] + size)
  <2> HIDE DEF n
  <2>1. \A j \in 0..K : d[j] = IF j = K THEN c[K] ELSE at_least(c[j], c[K] + size)
    BY <1>5 DEF pulled
  <2>2. K - 1 # K /\ \A j \in 1..K - 2 : j \in 0..K /\ j # K
    OBVIOUS
  <2>3. at_least(c[K - 1], c[K] + size) = c[K] + size
    BY <1>2 DEF at_least
  <2> QED
    BY <1>1, <2>1, <2>2, <2>3
<1> HIDE DEF q, d, n
<1>8. Taken(w, t, d, Len(q)) /\ Len(q) >= 1
  BY <1>6, <1>7 DEF Taken
<1>9. /\ y \in Seq(Bit) /\ At(w, d[K], y) /\ d[K] + Len(y) = d[K - 1]
      /\ Taken(w, t \o y, z, K - 1)
  BY <1>6, <1>8, TakeLast
<1>10. Len(Front(q)) = K - 1 /\ Cut(w, Front(q), z)
  BY <1>6, <1>8, FrontKeepsCuts
<1> HIDE DEF y
<1>11. y = BitsOf(fi, e, size)
  <2>1. Len(y) \in Nat
    BY <1>9
  <2>2. Len(y) = size
    BY <1>2, <1>7, <1>9, <2>1
  <2>3. BitsOf(fi, e, size) \in Seq(Bit) /\ Len(BitsOf(fi, e, size)) = size
    BY BitsOfIs
  <2> QED
    BY <1>7, <1>9, <2>2, <2>3, AtSame
<1>12. z[K - 1] = c[K] + size /\ \A j \in 1..K - 2 : z[j] = at_least(c[j], c[K] + size)
  <2>1. K - 1 \in 0..K - 1 /\ \A j \in 1..K - 2 : j \in 0..K - 1
    OBVIOUS
  <2>2. \A j \in 0..K - 1 : z[j] = d[j]
    OBVIOUS
  <2> HIDE DEF z
  <2> QED
    BY <1>7, <2>1, <2>2
<1> HIDE DEF z
<1>13. Taken(w, t \o BitsOf(fi, e, size), z, K - 1)
  BY <1>9, <1>11
<1> QED
  BY <1>4, <1>6, <1>10, <1>11, <1>12, <1>13 DEF n, q, x, y, Takes

\* What an element was decoded from is added to what is known.
LEMMA GivenGrows ==
  ASSUME FieldInv, UNCHANGED input,
         NEW fi \in Nat, NEW e \in Nat, NEW bits \in Seq(Bit),
         bits = BitsOf(fi, e, element_size(schema[fi], value[fi], e)),
         given' = Append(given, [field |-> fi, elem |-> e, bits |-> bits])
  PROVE  given' \in Seq(Gift) /\ ElementsGetTheirBits'
<1> DEFINE g == [field |-> fi, elem |-> e, bits |-> bits]
<1>1. version' = version /\ schema' = schema /\ value' = value
  BY DEF input
<1>2. g \in Gift /\ given \in Seq(Gift) /\ ElementsGetTheirBits
  BY DEF Gift, FieldInv
<1>3. g.field = fi /\ g.elem = e /\ g.bits = bits
  OBVIOUS
<1> HIDE DEF g
<1>4. /\ given' \in Seq(Gift) /\ Len(given') = Len(given) + 1 /\ Len(given) \in Nat
      /\ given'[Len(given) + 1] = g /\ \A i \in 1..Len(given) : given'[i] = given[i]
  BY <1>2 DEF g
<1>5. ASSUME NEW i \in 1..Len(given')
      PROVE  given'[i].bits = BitsOf(given'[i].field, given'[i].elem,
                                     element_size(schema[given'[i].field], value[given'[i].field],
                                                  given'[i].elem))
  <2>1. CASE i = Len(given) + 1
    BY <1>3, <1>4, <2>1
  <2>2. CASE i # Len(given) + 1
    <3>1. i \in 1..Len(given)
      BY <1>4, <2>2
    <3>2. given'[i] = given[i]
      BY <1>4, <3>1
    <3> QED
      BY <1>2, <3>1, <3>2 DEF ElementsGetTheirBits
  <2> QED
    BY <2>1, <2>2
<1> QED
  BY <1>1, <1>4, <1>5 DEF ElementsGetTheirBits

\* The codec of an element takes the element, in a repeated field and out of one.
LEMMA AnyDecodeStep ==
  ASSUME FieldInv, any_decode
  PROVE  FieldInv' /\ \E x \in Seq(Bit) : taken' = taken \o x
<1> DEFINE w == encode(version, schema, value)
           f == schema[field]
           val == value[field]
           m == wire_elements(version, f, val)
           min == f.min
           size == element_size(f, val, elem)
           b == field_start(version, schema, value, field + 1)
           st(i) == elem_start(version, schema, value, field, i)
           a == st(elem)
           K == Len(pools)
           own == Last(pools) = BitsOf(field, elem, Len(Last(pools)))
           r == get_more_bits(pools, size - min)
           bits == BitsOf(field, elem, size)
<1>1. PICK c : /\ Cut(w, pools, c) /\ Taken(w, taken, c, Len(pools))
               /\ Standing(version, schema, value, Len(pools), c, pc, field, elem, count)
  BY DEF FieldInv
<1>2. pc = "element"
  BY DEF any_decode
<1>3. /\ field <= Len(schema) /\ elem \in 1..m /\ ~omitted(version, f, val, elem)
      /\ c[K] = a /\ c[K - 1] = a + min /\ K \in {3, 4}
      /\ f.repeated => K = 4 /\ count = m /\ c[2] <= b
      /\ ~f.repeated => K = 3
  <2>1. CASE /\ K = 4 /\ field <= Len(schema) /\ f.repeated
             /\ count = m /\ elem \in 1..m /\ ~omitted(version, f, val, elem)
             /\ c[4] = a /\ c[3] = c[4] + min /\ c[2] <= b
    BY <2>1
  <2>2. CASE /\ K = 3 /\ field <= Len(schema) /\ ~f.repeated
             /\ elem = 1 /\ ~omitted(version, f, val, 1)
             /\ c[3] = field_start(version, schema, value, field) /\ c[2] = c[3] + min
    <3>1. Encodable(version, schema, value) /\ Len(schema) \in Nat /\ field \in 1..Len(schema) + 1
      BY MessageIs DEF FieldInv
    <3>2. field \in 1..Len(schema)
      BY <2>2, <3>1
    <3>3. m = 1 /\ st(1) = field_start(version, schema, value, field)
      BY <2>2, <3>1, <3>2, SingleIs
    <3> HIDE DEF m, st
    <3> QED
      BY <2>2, <3>3
  <2> QED
    BY <1>1, <1>2, <2>1, <2>2 DEF Standing
<1>4. /\ Encodable(version, schema, value)
      /\ w \in Seq(Bit) /\ Len(w) \in Nat /\ Len(schema) \in Nat
  BY MessageIs
<1>5. field \in 1..Len(schema) + 1 /\ count \in Nat /\ elem \in Nat
  BY DEF FieldInv
<1>6. field \in 1..Len(schema) /\ field \in Nat /\ field + 1 \in 1..Len(schema) + 1
  BY <1>3, <1>4, <1>5
<1>7. /\ f \in FieldType /\ min \in Nat /\ size \in Nat /\ min <= size /\ m \in Nat
      /\ wire_size(version, f, val, elem) = size
  <2>1. m \in Nat /\ f \in FieldType
    BY <1>4, <1>6, SizesAre
  <2>2. elem \in Nat \ {0}
    <3> HIDE DEF m
    <3> QED
      BY <1>3, <2>1
  <2>3. /\ size \in Nat /\ min <= size
        /\ ~omitted(version, f, val, elem) => wire_size(version, f, val, elem) = size
    BY <1>4, <1>6, <2>2, SizesAre
  <2>4. min \in Nat
    BY <2>1, FieldIs
  <2> HIDE DEF m, f, val, min, size
  <2> QED
    BY <1>3, <2>1, <2>3, <2>4
<1>8. /\ a \in Nat /\ b \in Nat /\ b <= Len(w) /\ st(elem + 1) = a + size /\ a + size <= b
      /\ st(m + 1) = b /\ elem + 1 \in 1..m + 1
      /\ At(w, a, bits)
  <2>1. b \in Nat /\ b <= Len(w)
    BY <1>4, <1>6, Layout
  <2>2. elem \in 1..m + 1 /\ elem + 1 \in 1..m + 1
    <3> HIDE DEF m
    <3> QED
      BY <1>3, <1>7
  <2>3. /\ st(m + 1) = b
        /\ \A i \in 1..m + 1 : st(i) \in Nat /\ st(i) <= b
        /\ \A i \in 1..m : /\ st(i + 1) = st(i) + wire_size(version, f, val, i)
                           /\ At(w, st(i), BitsOf(field, i, wire_size(version, f, val, i)))
    BY <1>4, <1>6, Elements
  <2> HIDE DEF m, f, val, size, b, st, w
  <2> QED
    BY <1>3, <1>7, <2>1, <2>2, <2>3
<1>9. /\ LET more == IF own THEN size - min ELSE 0
             rr   == get_more_bits(pools, more)
             last == Last(rr.p)
         IN /\ pools' = Front(rr.p)
            /\ IF rr.ok
                 THEN /\ taken' = taken \o last
                      /\ given' = Append(given, [field |-> field, elem |-> elem, bits |-> last])
                 ELSE UNCHANGED <<taken, given>>
            /\ pc' = IF ~rr.ok THEN "thrown"
                     ELSE IF ~own THEN "misread"
                     ELSE IF f.repeated THEN "elements" ELSE "field"
            /\ field' = IF f.repeated THEN field ELSE field + 1
            /\ elem' = elem + 1
      /\ UNCHANGED <<input, count>>
  BY DEF any_decode, these_bits, this_field, this_value
<1> HIDE DEF w, f, val, m, min, size, b, st, a, K, bits
<1>10. /\ own /\ r.ok = TRUE /\ Last(r.p) = bits
       /\ Len(Front(r.p)) = K - 1
       /\ \E d : /\ Cut(w, Front(r.p), d)
                 /\ Taken(w, taken \o bits, d, K - 1)
                 /\ d[K - 1] = a + size
                 /\ \A j \in 1..K - 2 : d[j] = at_least(c[j], a + size)
  <2>1. /\ K \in Nat /\ Len(pools) = K /\ K >= 2
        /\ Taken(w, taken, c, K)
        /\ c[K - 1] = c[K] + min /\ c[K] + size <= Len(w)
        /\ At(w, c[K], BitsOf(field, elem, size))
    <3>1. a + size <= Len(w)
      BY <1>4, <1>7, <1>8
    <3>2. K \in Nat /\ K >= 2
      BY <1>3
    <3>3. Len(pools) = K /\ Taken(w, taken, c, K)
      BY <1>1 DEF K
    <3>4. c[K - 1] = c[K] + min /\ c[K] + size <= Len(w)
      BY <1>3, <3>1
    <3>5. At(w, c[K], BitsOf(field, elem, size))
      BY <1>3, <1>8 DEF bits
    <3> QED
      BY <3>2, <3>3, <3>4, <3>5
  <2> HIDE DEF own, r
  <2>2. /\ w \in Seq(Bit) /\ Cut(w, pools, c) /\ field \in Nat /\ elem \in Nat
        /\ min \in Nat /\ size \in Nat /\ min <= size
    BY <1>1, <1>4, <1>5, <1>6, <1>7
  <2>3. Takes(w, pools, c, K, taken, field, elem, min, size)
    BY <2>1, <2>2, ElementTakes
  <2>4. c[K] = a
    BY <1>3
  <2> QED
    BY <2>3, <2>4 DEF own, r, bits, Takes
<1> HIDE DEF own, r
<1>11. /\ pools' = Front(r.p) /\ taken' = taken \o bits
       /\ given' = Append(given, [field |-> field, elem |-> elem, bits |-> bits])
       /\ pc' = IF f.repeated THEN "elements" ELSE "field"
       /\ field' = IF f.repeated THEN field ELSE field + 1
       /\ elem' = elem + 1 /\ UNCHANGED <<input, count>>
  <2>1. (IF own THEN size - min ELSE 0) = size - min
    BY <1>10
  <2> QED
    BY <1>9, <1>10, <2>1 DEF r
<1>12. PICK d : /\ Cut(w, Front(r.p), d)
                /\ Taken(w, taken \o bits, d, K - 1)
                /\ d[K - 1] = a + size
                /\ \A j \in 1..K - 2 : d[j] = at_least(c[j], a + size)
  BY <1>10
<1>13. Len(pools') = K - 1 /\ Cut(w, pools', d) /\ Taken(w, taken', d, Len(pools'))
  BY <1>10, <1>11, <1>12
<1>14. Standing(version, schema, value, Len(pools'), d, pc', field', elem', count')
  <2>1. CASE f.repeated
    <3>1. K = 4 /\ K - 1 = 3 /\ count = m /\ c[2] <= b /\ 2 \in 1..K - 2
      BY <1>3, <2>1
    <3>2. d[3] = st(elem + 1) /\ d[2] = at_least(c[2], a + size)
      BY <1>8, <1>12, <3>1
    <3>3. d[2] <= b
      BY <1>8, <3>1, <3>2 DEF at_least
    <3>4. /\ pc' = "elements" /\ Len(pools') = 3 /\ field' = field /\ field <= Len(schema)
          /\ schema[field].repeated /\ elem' = elem + 1
          /\ count' = wire_elements(version, schema[field], value[field])
          /\ elem + 1 \in 1..wire_elements(version, schema[field], value[field]) + 1
          /\ d[3] = elem_start(version, schema, value, field, elem + 1)
          /\ d[2] <= field_start(version, schema, value, field + 1)
      BY <1>3, <1>8, <1>11, <1>13, <2>1, <3>1, <3>2, <3>3 DEF f, val, m, b, st
    <3> QED
      BY <3>4 DEF Standing
  <2>2. CASE ~f.repeated
    <3>1. K = 3 /\ K - 1 = 2
      BY <1>3, <2>2
    <3>2. m = 1
      BY <1>4, <1>6, <2>2, SingleIs DEF m, f, val
    <3>3. elem = 1
      BY <1>3, <3>2
    <3>4. d[2] = b
      BY <1>8, <1>12, <3>1, <3>2, <3>3
    <3>5. pc' = "field" /\ Len(pools') = 2 /\ field' = field + 1
      BY <1>11, <1>13, <2>2, <3>1
    <3> QED
      BY <3>4, <3>5 DEF Standing, b
  <2>3. f.repeated \in BOOLEAN
    BY <1>7, FieldIs
  <2> QED
    BY <2>1, <2>2, <2>3
<1>15. field' \in 1..Len(schema) + 1 /\ elem' \in Nat /\ count' \in Nat
  <2>1. field' = field \/ field' = field + 1
    BY <1>11
  <2>2. elem + 1 \in Nat
    BY <1>5
  <2> QED
    BY <1>5, <1>6, <1>11, <2>1, <2>2
<1>16. /\ bits \in Seq(Bit)
       /\ bits = BitsOf(field, elem, element_size(schema[field], value[field], elem))
  BY <1>5, <1>6, <1>7, BitsOfIs DEF bits, size, f, val
<1>17. given' \in Seq(Gift) /\ ElementsGetTheirBits'
  BY <1>5, <1>6, <1>11, <1>16, GivenGrows
<1>18. FieldInv'
  BY <1>11, <1>13, <1>14, <1>15, <1>17, StepKeepsInv DEF w
<1> QED
  BY <1>11, <1>16, <1>18

-----------------------------------------------------------------------------
(* The theorems *)

\* Before decode() begins all bits are in one pool.
LEMMA InitHolds == Init => FieldInv
<1> SUFFICES ASSUME Init PROVE FieldInv
  OBVIOUS
<1> DEFINE w == encode(version, schema, value)
           c == [j \in 0..1 |-> IF j = 0 THEN Len(w) ELSE 0]
<1>1. /\ \E s \in Schemas : version = s.version /\ schema = s.fields /\ value \in ValuesOf(schema)
      /\ pools = <<w>> /\ pc = "message" /\ field = 1 /\ elem = 1 /\ count = 0
      /\ taken = << >> /\ given = << >>
  BY DEF Init
<1>2. w \in Seq(Bit) /\ Len(w) \in Nat /\ Len(schema) \in Nat
  BY <1>1, SchemaIs
<1> HIDE DEF w
<1>3. c[0] = Len(w) /\ c[1] = 0 /\ c \in [0..1 -> Nat]
  BY <1>2
<1> HIDE DEF c
<1>4. /\ pools \in Seq(Seq(Bit)) /\ Len(pools) = 1 /\ pools[1] = w
      /\ \A k \in 1..1 : k = 1
  BY <1>1, <1>2
<1>5. At(w, 0, w) /\ At(w, 0, << >>)
  BY <1>2, AtEnds
<1>6. Cut(w, pools, c)
  BY <1>2, <1>3, <1>4, <1>5 DEF Cut
<1>7. Taken(w, taken, c, Len(pools))
  BY <1>1, <1>3, <1>4, <1>5 DEF Taken
<1>8. Standing(version, schema, value, Len(pools), c, pc, field, elem, count)
  BY <1>1, <1>3, <1>4 DEF Standing
<1>9. field \in 1..Len(schema) + 1 /\ elem \in Nat /\ count \in Nat
  BY <1>1, <1>2
<1>10. given \in Seq(Gift) /\ ElementsGetTheirBits
  BY <1>1 DEF ElementsGetTheirBits
<1> QED
  BY <1>1, <1>6, <1>7, <1>8, <1>9, <1>10 DEF FieldInv, w

\* Every step keeps the invariant, and only appends to what was taken.
LEMMA NextKeepsInv ==
  ASSUME OmitsNothingPrefetched, FieldInv, [Next]_vars
  PROVE  FieldInv' /\ (UNCHANGED taken \/ \E x \in Seq(Bit) : taken' = taken \o x)
<1>1. CASE base_decode
  BY <1>1, BaseDecodeStep DEF base_decode
<1>2. CASE SkipField
  BY <1>2, SkipFieldStep DEF SkipField
<1>3. CASE field_decode
  BY <1>3, FieldDecodeStep DEF field_decode
<1>4. CASE field_decode_repeated
  BY <1>4, FieldDecodeRepeatedStep DEF field_decode_repeated
<1>5. CASE DecodeCount
  BY <1>5, DecodeCountStep
<1>6. CASE SkipElement
  BY <1>6, SkipElementStep DEF SkipElement
<1>7. CASE NextElement
  BY <1>7, NextElementStep DEF NextElement
<1>8. CASE any_decode
  BY <1>8, AnyDecodeStep
<1>9. CASE EndRepeated
  BY <1>9, EndRepeatedStep DEF EndRepeated
<1>10. CASE EndMessage
  BY <1>10, EndMessageStep DEF EndMessage
<1>11. CASE UNCHANGED vars
  BY <1>11 DEF FieldInv, ElementsGetTheirBits, vars, input
<1> QED
  BY <1>1, <1>2, <1>3, <1>4, <1>5, <1>6, <1>7, <1>8, <1>9, <1>10, <1>11 DEF Next

\* No repeated field with a dynamic condition has bits prefetched for its
\* elements: then the pools always hold the end of the message, cut where the
\* decoder is.
LEMMA FieldInvariant ==
  ASSUME OmitsNothingPrefetched
  PROVE  Spec => []FieldInv
<1>1. FieldInv /\ [Next]_vars => FieldInv'
  BY NextKeepsInv
<1> QED
  BY <1>1, InitHolds, PTL DEF Spec

\* What is taken and what is left are the message.
LEMMA RestIs ==
  ASSUME NEW w \in Seq(Bit), NEW p, NEW c, NEW t, Cut(w, p, c), Len(p) >= 1, Taken(w, t, c, Len(p))
  PROVE  /\ t \in Seq(Bit) /\ At(w, 0, t)
         /\ remaining_bits(p) \in Seq(Bit) /\ At(w, Len(t), remaining_bits(p))
         /\ Len(t) + Len(remaining_bits(p)) = Len(w)
<1>1. t \in Seq(Bit) /\ Len(t) = c[Len(p)] /\ At(w, 0, t)
  BY DEF Taken
<1>2. /\ remaining_bits(p) \in Seq(Bit)
      /\ c[Len(p)] + Len(remaining_bits(p)) = Len(w)
      /\ At(w, c[Len(p)], remaining_bits(p))
  BY RemainingBits
<1> HIDE DEF remaining_bits
<1> QED
  BY <1>1, <1>2

\* There is always a pool.
LEMMA SomePool ==
  ASSUME NEW v, NEW s, NEW vals, NEW k, NEW c, NEW at, NEW fi, NEW e, NEW n,
         Standing(v, s, vals, k, c, at, fi, e, n)
  PROVE  k >= 1
BY DEF Standing

\* So in every state.
LEMMA StateIs ==
  ASSUME FieldInv
  PROVE  LET w == encode(version, schema, value)
             s == remaining_bits(pools)
         IN /\ w \in Seq(Bit) /\ Len(w) \in Nat
            /\ taken \in Seq(Bit) /\ At(w, 0, taken)
            /\ s \in Seq(Bit) /\ At(w, Len(taken), s) /\ Len(taken) + Len(s) = Len(w)
<1>1. PICK c : /\ Cut(encode(version, schema, value), pools, c)
               /\ Taken(encode(version, schema, value), taken, c, Len(pools))
               /\ Standing(version, schema, value, Len(pools), c, pc, field, elem, count)
  BY DEF FieldInv
<1>2. Len(pools) >= 1
  BY <1>1, SomePool
<1>3. /\ encode(version, schema, value) \in Seq(Bit)
      /\ Len(encode(version, schema, value)) \in Nat
  BY MessageIs
<1> QED
  BY <1>1, <1>2, <1>3, RestIs

\* What a step takes is the beginning of what was left.
LEMMA TakesTheNext ==
  ASSUME NEW w \in Seq(Bit), NEW t \in Seq(Bit), NEW s \in Seq(Bit),
         At(w, Len(t), s), Len(t) + Len(s) = Len(w),
         NEW x \in Seq(Bit), NEW u \in Seq(Bit),
         At(w, 0, t \o x), At(w, Len(t \o x), u), Len(t \o x) + Len(u) = Len(w)
  PROVE  \/ Len(x) = 0 /\ u = s /\ t \o x = t
         \/ /\ Len(x) \in 1..Len(s)
            /\ x = SubSeq(s, 1, Len(x)) /\ u = SubSeq(s, Len(x) + 1, Len(s))
<1> DEFINE n == Len(x)
           a == Len(t)
<1>1. n \in Nat /\ a \in Nat /\ Len(s) \in Nat /\ Len(u) \in Nat
  OBVIOUS
<1>2. t \o x \in Seq(Bit) /\ Len(t \o x) = a + n /\ At(t \o x, a, x)
  BY AtBoth
<1>3. At(w, 0 + a, x)
  BY <1>2, AtPart
<1> HIDE DEF n, a
<1>4. At(w, a, x) /\ At(w, a, s) /\ At(w, a + n, u) /\ a + n + Len(u) = a + Len(s)
  <2>1. 0 + a = a
    BY <1>1
  <2>2. At(w, a, x)
    BY <1>3, <2>1
  <2>3. At(w, a, s) /\ a + Len(s) = Len(w)
    BY DEF a
  <2>4. At(w, a + n, u) /\ a + n + Len(u) = Len(w)
    BY <1>2
  <2> QED
    BY <2>2, <2>3, <2>4
<1>5. n \in 0..Len(s) /\ Len(u) = Len(s) - n
  BY <1>1, <1>4
<1>6. /\ SubSeq(s, 1, n) \in Seq(Bit) /\ Len(SubSeq(s, 1, n)) = n
      /\ At(w, a, SubSeq(s, 1, n))
      /\ SubSeq(s, n + 1, Len(s)) \in Seq(Bit)
      /\ Len(SubSeq(s, n + 1, Len(s))) = Len(s) - n
      /\ At(w, a + n, SubSeq(s, n + 1, Len(s)))
  BY <1>4, <1>5, AtCut
<1>7. x = SubSeq(s, 1, n)
  BY <1>4, <1>6, AtSame DEF n
<1>8. u = SubSeq(s, n + 1, Len(s))
  <2> DEFINE y == SubSeq(s, n + 1, Len(s))
  <2>1. y \in Seq(Bit) /\ Len(u) = Len(y) /\ At(w, a + n, y)
    BY <1>5, <1>6
  <2> HIDE DEF y
  <2>2. u = y
    BY <1>4, <2>1, AtSame
  <2> QED
    BY <2>2 DEF y
<1>9. CASE n = 0
  <2>1. t \o x = t
    BY <1>9 DEF n
  <2>2. At(w, a, u) /\ Len(u) = Len(s)
    BY <1>1, <1>4, <1>5, <1>9
  <2>3. u = s
    BY <1>4, <2>2, AtSame
  <2> QED
    BY <1>9, <2>1, <2>3 DEF n
<1>10. CASE n # 0
  <2>1. n \in 1..Len(s)
    BY <1>1, <1>5, <1>10
  <2> QED
    BY <1>7, <1>8, <2>1 DEF n
<1> QED
  BY <1>9, <1>10

\* The bits of a message reach its codecs in order, each once, and none is lost
\* with a Bitset: decoding through the pools is the stream that BitStream
\* promises, each step taking from it or leaving it alone.
THEOREM PoolsAreAStream ==
  ASSUME OmitsNothingPrefetched
  PROVE  Spec => StreamSpec
<1>1. Init => Stream!Init
  <2> SUFFICES ASSUME Init PROVE Stream!Init
    OBVIOUS
  <2>1. remaining_bits(pools) \in Seq(Bit)
    BY InitHolds, StateIs
  <2> QED
    BY <2>1 DEF Init, Stream!Init
<1>2. FieldInv /\ [Next]_vars => [Stream!Next]_(Stream!vars)
  <2> SUFFICES ASSUME FieldInv, [Next]_vars PROVE [Stream!Next]_(Stream!vars)
    OBVIOUS
  <2> DEFINE w == encode(version, schema, value)
             s == remaining_bits(pools)
             u == remaining_bits(pools)'
  <2>1. /\ w \in Seq(Bit) /\ taken \in Seq(Bit) /\ At(w, 0, taken)
        /\ s \in Seq(Bit) /\ At(w, Len(taken), s) /\ Len(taken) + Len(s) = Len(w)
    BY StateIs
  <2>2. FieldInv' /\ (UNCHANGED taken \/ \E x \in Seq(Bit) : taken' = taken \o x)
    BY NextKeepsInv
  <2>3. UNCHANGED input
    BY DEF Next, vars, input, base_decode, SkipField, field_decode, field_decode_repeated,
           DecodeCount, SkipElement, NextElement, any_decode, EndRepeated, EndMessage
  <2>4. /\ taken' \in Seq(Bit) /\ At(w, 0, taken')
        /\ u \in Seq(Bit) /\ At(w, Len(taken'), u) /\ Len(taken') + Len(u) = Len(w)
    <3>1. version' = version /\ schema' = schema /\ value' = value
      BY <2>3 DEF input
    <3>2. PICK c : /\ Cut(w, pools', c) /\ Taken(w, taken', c, Len(pools'))
                   /\ Standing(version, schema, value, Len(pools'), c, pc', field', elem', count')
      BY <2>2, <3>1 DEF FieldInv
    <3>3. Len(pools') >= 1
      BY <3>2, SomePool
    <3>4. u = remaining_bits(pools')
      OBVIOUS
    <3> HIDE DEF w, u
    <3> QED
      BY <2>1, <3>2, <3>3, <3>4, RestIs
  <2> HIDE DEF w, s, u
  <2>5. PICK x \in Seq(Bit) : taken' = taken \o x
    <3>1. << >> \in Seq(Bit) /\ taken \o << >> = taken
      BY <2>1
    <3> QED
      BY <2>2, <3>1
  <2>6. \/ Len(x) = 0 /\ u = s /\ taken' = taken
        \/ /\ Len(x) \in 1..Len(s)
           /\ x = SubSeq(s, 1, Len(x)) /\ u = SubSeq(s, Len(x) + 1, Len(s))
    BY <2>1, <2>4, <2>5, TakesTheNext
  <2>7. CASE u = s /\ taken' = taken
    BY <2>7 DEF s, u, Stream!vars
  <2>8. CASE /\ Len(x) \in 1..Len(s)
             /\ x = SubSeq(s, 1, Len(x)) /\ u = SubSeq(s, Len(x) + 1, Len(s))
    <3>1. Stream!Take(Len(x))
      BY <2>5, <2>8 DEF s, u, Stream!Take
    <3> QED
      BY <2>8, <3>1 DEF s, Stream!Next
  <2> QED
    BY <2>6, <2>7, <2>8
<1> QED
  BY <1>1, <1>2, FieldInvariant, PTL DEF Spec, StreamSpec, Stream!Spec

\* The chain of pools has the depth of decode(), field and element.
THEOREM FieldTypes ==
  ASSUME OmitsNothingPrefetched
  PROVE  Spec => []TypeOK
<1>1. FieldInv => TypeOK
  <2> SUFFICES ASSUME FieldInv PROVE TypeOK
    OBVIOUS
  <2>1. PICK c : /\ Cut(encode(version, schema, value), pools, c)
                 /\ Taken(encode(version, schema, value), taken, c, Len(pools))
                 /\ Standing(version, schema, value, Len(pools), c, pc, field, elem, count)
    BY DEF FieldInv
  <2>2. pools \in Seq(Seq(Bit)) /\ taken \in Seq(Bit)
    BY <2>1 DEF Cut, Taken
  <2>3. /\ Len(pools) \in 1..4
        /\ pc \in {"message", "field", "count", "elements", "element", "misread", "thrown", "done"}
    BY <2>1 DEF Standing
  <2> QED
    BY <2>2, <2>3 DEF FieldInv, TypeOK
<1> QED
  BY <1>1, FieldInvariant, PTL

\* Every element is decoded from exactly the bits it was encoded to, for any
\* schema, any values and however long the codecs find their elements to be.
THEOREM EveryElementItsBits ==
  ASSUME OmitsNothingPrefetched
  PROVE  Spec => []ElementsGetTheirBits
<1>1. FieldInv => ElementsGetTheirBits
  BY DEF FieldInv
<1> QED
  BY <1>1, FieldInvariant, PTL

\* min_size() and max_size() bound every encoding of a message, and size() is
\* its length unless a vector is padded.
THEOREM SizesBoundTheMessage ==
  ASSUME OmitsNothingPrefetched
  PROVE  Spec => []SizeWithinBounds
<1>1. FieldInv => SizeWithinBounds
  <2> SUFFICES ASSUME FieldInv PROVE SizeWithinBounds
    OBVIOUS
  <2>1. Encodable(version, schema, value) /\ KeepsPrefetched(version, schema)
    BY MessageIs
  <2>2. /\ message_min_size(version, schema) <= Len(encode(version, schema, value))
        /\ Len(encode(version, schema, value)) <= message_max_size(version, schema)
        /\ (\A fi \in 1..Len(schema) :
              ~(version > 2 /\ schema[fi].repeated
                  /\ Len(value[fi].elems) < schema[fi].min_repeat))
             => message_size(version, schema, value) = Len(encode(version, schema, value))
    BY <2>1, MessageBounds
  <2>3. (\A i \in 1..Len(schema) : ~padded(schema[i], value[i]))
          => \A fi \in 1..Len(schema) :
               ~(version > 2 /\ schema[fi].repeated
                   /\ Len(value[fi].elems) < schema[fi].min_repeat)
    BY DEF padded
  <2> QED
    BY <2>2, <2>3 DEF SizeWithinBounds
<1> QED
  BY <1>1, FieldInvariant, PTL

\* decode() never asks for a bit that is not there, and at its end no bit is
\* left.
THEOREM DecoderConsumesAll ==
  ASSUME OmitsNothingPrefetched
  PROVE  Spec => []ConsumesWhatWasProduced
<1>1. FieldInv => ConsumesWhatWasProduced
  <2> SUFFICES ASSUME FieldInv PROVE ConsumesWhatWasProduced
    OBVIOUS
  <2> DEFINE w == encode(version, schema, value)
             s == remaining_bits(pools)
  <2>1. PICK c : /\ Cut(w, pools, c) /\ Taken(w, taken, c, Len(pools))
                 /\ Standing(version, schema, value, Len(pools), c, pc, field, elem, count)
    BY DEF FieldInv
  <2>2. pc \notin {"thrown", "misread"}
    BY <2>1 DEF Standing
  <2>3. ASSUME pc = "done" PROVE s = << >>
    <3>1. /\ s \in Seq(Bit) /\ Len(w) \in Nat /\ Len(taken) + Len(s) = Len(w)
      BY StateIs
    <3>2. Len(taken) = Len(w)
      BY <2>1, <2>3 DEF Standing, Taken
    <3> HIDE DEF w, s
    <3>3. Len(s) = 0
      <4>1. Len(s) \in Nat
        BY <3>1
      <4> QED
        BY <3>1, <3>2, <4>1
    <3> QED
      BY <3>1, <3>3
  <2> QED
    BY <2>2, <2>3 DEF ConsumesWhatWasProduced
<1> QED
  BY <1>1, FieldInvariant, PTL
=============================================================================
