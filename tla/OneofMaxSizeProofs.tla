------------------------- MODULE OneofMaxSizeProofs -------------------------
(***************************************************************************)
(* However many threads race, and however often: the map holds for each    *)
(* oneof 0 or the size of one of its fields.  Inductive because a thread   *)
(* on its way to store a value holds such a size already.                  *)
(*                                                                         *)
(* And a call that nothing disturbs returns the right size.  The map may   *)
(* begin it with anything a race has left: what the fields add, as         *)
(* unsigned differences, is modulo Unsigned the map's sum now minus its    *)
(* sum at the beginning, and the map's sum at the beginning is where the   *)
(* traversal of the oneofs started from (SumSoFar).                        *)
(***************************************************************************)
EXTENDS OneofMaxSize, SequenceTheorems, FiniteSetTheorems, WellFoundedInduction, TLAPS

\* What a thread between its first access and its last is about to store.
AboutToStore ==
  \A t \in Threads :
    pc[t] \in {"add", "store"} =>
      /\ at[t] \in 1..Len(Fields) /\ this_oneof(t) \in 1..Oneofs
      /\ new_max_size[t] \in sizes(this_oneof(t))

\* Every thread adds bits of a case, and the sum stays below 2^32.
IInv == TypeOK /\ MapHoldsAFieldSize /\ AboutToStore

\* The fields are numbered, sized and each in a oneof or in none; its size is one of the
\* sizes of its oneof.
LEMMA FieldTypes ==
  /\ Oneofs \in Nat /\ Unsigned \in Nat \ {0}
  /\ \A i \in 1..Len(Fields) :
       Fields[i].oneof \in 1..Oneofs \cup {Plain} /\ Fields[i].size \in 0..Unsigned - 1
  /\ \A o : sizes(o) \subseteq Nat /\ 0 \in sizes(o)
  /\ \A i \in 1..Len(Fields) : Fields[i].size \in sizes(Fields[i].oneof)
<1>1. \A i \in 1..Len(Fields) :
        Fields[i].oneof \in 1..Oneofs \cup {Plain} /\ Fields[i].size \in 0..Unsigned - 1
  <2> DEFINE FieldSet == [oneof: 1..Oneofs \cup {Plain}, size: 0..Unsigned - 1]
  <2> SUFFICES ASSUME NEW i \in 1..Len(Fields) PROVE Fields[i] \in FieldSet
    OBVIOUS
  <2> HIDE DEF FieldSet
  <2>1. Fields \in Seq(FieldSet)
    BY OneofAssumption DEF FieldSet
  <2> QED
    BY <2>1, ElementOfSeq
<1>2. \A i \in 1..Len(Fields) : Fields[i].size \in Nat
  BY <1>1, OneofAssumption
<1>3. \A o : sizes(o) \subseteq Nat /\ 0 \in sizes(o)
  BY <1>2 DEF sizes
<1> QED
  BY <1>1, <1>3, OneofAssumption DEF sizes

\* Arithmetic on unsigned values stays in their range.
LEMMA PlusIsUnsigned ==
  ASSUME NEW x \in Int, NEW y \in Int
  PROVE  Plus(x, y) \in 0..Unsigned - 1
BY OneofAssumption DEF Plus

\* The bits of a case are a count.
LEMMA CaseBitsType == \A o : case_bits(o) \in Nat
<1> SUFFICES ASSUME NEW o PROVE case_bits(o) \in Nat
  OBVIOUS
<1> DEFINE S == {i \in 1..Len(Fields) : Fields[i].oneof = o}
           n == Cardinality(S) + 1
           B == {b \in 0..n : 2^b < n}
<1>1. Len(Fields) \in Nat
  BY OneofAssumption
<1>2. IsFiniteSet(S) /\ Cardinality(S) \in Nat
  <2>1. IsFiniteSet(1..Len(Fields)) /\ S \subseteq 1..Len(Fields)
    BY <1>1, FS_Interval
  <2> QED
    BY <2>1, FS_Subset, FS_CardinalityType
<1>3. IsFiniteSet(B) /\ Cardinality(B) \in Nat
  <2>1. B \subseteq 0..n
    OBVIOUS
  <2>2. n \in Int
    BY <1>2
  <2>3. IsFiniteSet(0..n)
    BY <2>2, FS_Interval
  <2> HIDE DEF B
  <2> QED
    BY <2>1, <2>3, FS_Subset, FS_CardinalityType
<1> QED
  BY <1>3 DEF case_bits

\* A step that adds x to what thread t returns.
LEMMA AddTyped ==
  ASSUME NEW t \in Threads, NEW x \in Int,
         return_value \in [Threads -> 0..Unsigned - 1],
         return_value' = [return_value EXCEPT ![t] = Plus(@, x)]
  PROVE  return_value' \in [Threads -> 0..Unsigned - 1]
<1>1. return_value[t] \in Int
  BY OneofAssumption
<1>2. Plus(return_value[t], x) \in 0..Unsigned - 1
  BY <1>1, PlusIsUnsigned
<1> QED
  BY <1>2

\* An empty map holds no size, and no thread is in the traversal.
LEMMA InitIInv == Init => IInv
BY FieldTypes DEF Init, IInv, TypeOK, MapHoldsAFieldSize, AboutToStore

\* What a thread stores it found among the sizes of the oneof.
LEMMA NextIInv == IInv /\ [Next]_vars => IInv'
<1> SUFFICES ASSUME IInv, [Next]_vars PROVE IInv'
  OBVIOUS
<1> USE DEF IInv, TypeOK
<1>1. ASSUME NEW t \in Threads, Call(t) PROVE IInv'
  <2>1. \A u \in Threads :
          (IF u = t THEN Others(t) # {} ELSE disturbed[u] \/ u \in Others(t)) \in BOOLEAN
    OBVIOUS
  <2>2. disturbed' \in [Threads -> BOOLEAN]
    BY <1>1, <2>1, Zenon DEF Call
  <2>3. 0 \in 0..Unsigned - 1
    BY OneofAssumption
  <2>4. TypeOK'
    BY <1>1, <2>2, <2>3 DEF Call
  <2> QED
    BY <1>1, <2>4 DEF Call, MapHoldsAFieldSize, AboutToStore, this_oneof
<1>2. ASSUME NEW t \in Threads, oneof(t) PROVE IInv'
  <2>1. return_value' \in [Threads -> 0..Unsigned - 1]
    <3>1. case_bits(at[t]) \in Int /\ oneofs_max_size[at[t]] \in Int
      BY <1>2, CaseBitsType DEF oneof
    <3>2. return_value[t] \in Int
      BY OneofAssumption
    <3>3. Plus(return_value[t], case_bits(at[t])) \in Int
      BY <3>1, <3>2, PlusIsUnsigned, OneofAssumption
    <3>4. Plus(Plus(return_value[t], case_bits(at[t])), oneofs_max_size[at[t]])
            \in 0..Unsigned - 1
      BY <3>1, <3>3, PlusIsUnsigned
    <3> QED
      BY <1>2, <3>4 DEF oneof
  <2> QED
    BY <1>2, <2>1 DEF oneof, history, MapHoldsAFieldSize, AboutToStore, this_oneof
<1>3. ASSUME NEW t \in Threads, OneofsDone(t) PROVE IInv'
  BY <1>3 DEF OneofsDone, history, MapHoldsAFieldSize, AboutToStore, this_oneof
<1>4. ASSUME NEW t \in Threads, PlainField(t) PROVE IInv'
  <2>1. return_value' \in [Threads -> 0..Unsigned - 1]
    <3>1. this_size(t) \in Int
      BY <1>4, FieldTypes DEF PlainField, this_size
    <3> QED
      BY <1>4, <3>1, AddTyped DEF PlainField
  <2> QED
    BY <1>4, <2>1 DEF PlainField, history, MapHoldsAFieldSize, AboutToStore, this_oneof
<1>5. ASSUME NEW t \in Threads, FindMax(t) PROVE IInv'
  <2>1. at[t] \in 1..Len(Fields) /\ this_oneof(t) \in 1..Oneofs
    BY <1>5, FieldTypes, OneofAssumption DEF FindMax, this_oneof
  <2>2. new_max_size'[t] \in sizes(this_oneof(t))
    BY <1>5, <2>1, FieldTypes DEF FindMax, this_oneof, this_size, MapHoldsAFieldSize
  <2>3. AboutToStore'
    BY <1>5, <2>1, <2>2 DEF FindMax, AboutToStore, this_oneof
  <2>4. new_max_size' \in [Threads -> Nat]
    BY <1>5, <2>2, FieldTypes DEF FindMax
  <2> QED
    BY <1>5, <2>3, <2>4 DEF FindMax, history, MapHoldsAFieldSize
<1>6. ASSUME NEW t \in Threads, AddDifference(t) PROVE IInv'
  <2>1. new_max_size[t] - oneofs_max_size[this_oneof(t)] \in Int
    BY <1>6 DEF AddDifference, AboutToStore
  <2>2. return_value' \in [Threads -> 0..Unsigned - 1]
    BY <1>6, <2>1, AddTyped DEF AddDifference
  <2> QED
    BY <1>6, <2>2 DEF AddDifference, history, MapHoldsAFieldSize, AboutToStore, this_oneof
<1>7. ASSUME NEW t \in Threads, Store(t) PROVE IInv'
  <2>1. /\ this_oneof(t) \in 1..Oneofs
        /\ new_max_size[t] \in sizes(this_oneof(t)) /\ new_max_size[t] \in Nat
    BY <1>7 DEF Store, AboutToStore
  <2>2. oneofs_max_size' \in [1..Oneofs -> Nat] /\ MapHoldsAFieldSize'
    BY <1>7, <2>1 DEF Store, MapHoldsAFieldSize
  <2>3. AboutToStore'
    BY <1>7 DEF Store, AboutToStore, this_oneof
  <2> QED
    BY <1>7, <2>2, <2>3 DEF Store, history
<1>8. ASSUME NEW t \in Threads, Done(t) PROVE IInv'
  BY <1>8 DEF Done, MapHoldsAFieldSize, AboutToStore, this_oneof
<1>9. CASE UNCHANGED vars
  BY <1>9 DEF vars, locals, history, MapHoldsAFieldSize, AboutToStore, this_oneof
<1> QED
  BY <1>1, <1>2, <1>3, <1>4, <1>5, <1>6, <1>7, <1>8, <1>9 DEF Next

\* For any number of threads and calls, any fields: no race leaves in the map
\* a value that is not the size of a field of that oneof
\* (codecs4/field_codec_default_message.h:158).
THEOREM MapHolds == Spec => []MapHoldsAFieldSize
<1>1. Init => IInv
  BY InitIInv
<1>2. IInv /\ [Next]_vars => IInv'
  BY NextIInv
<1>3. IInv => MapHoldsAFieldSize
  BY DEF IInv
<1> QED
  BY <1>1, <1>2, <1>3, PTL DEF Spec

\* The sums stay unsigned, the program counters where the code has labels.
THEOREM OneofTypeCorrect == Spec => []TypeOK
<1>1. IInv => TypeOK
  BY DEF IInv
<1> QED
  BY <1>1, InitIInv, NextIInv, PTL DEF Spec

-----------------------------------------------------------------------------
(* A call that nothing disturbs *)

\* The sums of h, from none of its elements to all of the first N.
total(h, N) ==
  LET s[i \in 0..N] == IF i = 0 THEN 0 ELSE s[i - 1] + h[i]
  IN s

\* What the oneofs count for with the sizes that the map m has, and the fields
\* that are in none.
counted(m) == [o \in 1..Oneofs |-> case_bits(o) + m[o]]
plain == [i \in 1..Len(Fields) |-> IF Fields[i].oneof = Plain THEN Fields[i].size ELSE 0]

of_oneofs(m) == total(counted(m), Oneofs)
of_fields == total(plain, Len(Fields))

Congruent(x, y) == \E k \in Int : x = y + k * Unsigned

\* The map has seen the fields before the one at a.
Seen(m, a) ==
  \A i \in 1..Len(Fields) :
    i < a /\ Fields[i].oneof # Plain => Fields[i].size <= m[Fields[i].oneof]

\* The sum r of a thread at p and a is that of the sizes now in the map, and of
\* the difference to the new one n between the two accesses that follow.
SumSoFar(p, a, r, n, m) ==
  /\ p = "oneofs" => a \in 1..Oneofs + 1 /\ Congruent(r, of_oneofs(m)[a - 1])
  /\ p \in {"fields", "add", "store"} => a \in 1..Len(Fields) + 1 /\ Seen(m, a)
  /\ p \in {"fields", "add"} => Congruent(r, of_oneofs(m)[Oneofs] + of_fields[a - 1])
  /\ p \in {"add", "store"} =>
       LET o == Fields[a].oneof
       IN n = IF Fields[a].size > m[o] THEN Fields[a].size ELSE m[o]
  /\ p = "store" =>
       Congruent(r, of_oneofs(m)[Oneofs] + of_fields[a - 1] + n - m[Fields[a].oneof])

\* A thread that nothing disturbs is the only one in max_size().
Alone ==
  \A t \in Threads :
    pc[t] # "idle" /\ ~disturbed[t] =>
      /\ \A u \in Threads \ {t} : pc[u] = "idle"
      /\ SumSoFar(pc[t], at[t], return_value[t], new_max_size[t], oneofs_max_size)

AInv ==
  /\ IInv /\ Alone /\ AloneIsRight
  /\ last \in [Threads -> {<< >>} \cup ((0..Unsigned - 1) \X BOOLEAN)]

\* What holds of 0, and of n + 1 if of n, holds of every natural number.
LEMMA NatSetInduction ==
  ASSUME NEW T, 0 \in T, \A n \in Nat : n \in T => n + 1 \in T
  PROVE  Nat \subseteq T
<1> SUFFICES ASSUME NEW b \in Nat, b \notin T PROVE FALSE
  OBVIOUS
<1> DEFINE R == OpToRel(<, Nat)
           B == Nat \ T
<1>1. IsWellFoundedOn(R, Nat)
  BY NatLessThanWellFounded
<1>2. B \subseteq Nat /\ B # {}
  OBVIOUS
<1>3. \A x, y \in Nat : x < y => <<x, y>> \in R
  BY DEF OpToRel
<1> HIDE DEF R, B
<1>4. PICK x \in B : \A y \in B : ~ (<<y, x>> \in R)
  BY <1>1, <1>2, WFMin
<1>5. x \in Nat /\ x # 0 /\ x - 1 \in Nat /\ x - 1 < x
  BY <1>4 DEF B
<1>6. x - 1 \notin B
  BY <1>3, <1>4, <1>5
<1> QED
  BY <1>4, <1>5, <1>6 DEF B

-----------------------------------------------------------------------------
(* Sums *)

\* There is a function that adds up h as far as n.
LEMMA SumExists ==
  ASSUME NEW N \in Nat, NEW h
  PROVE  \E g : g = [i \in 0..N |-> IF i = 0 THEN 0 ELSE g[i - 1] + h[i]]
<1> DEFINE T == {n \in Nat : \E g : g = [i \in 0..n |-> IF i = 0 THEN 0 ELSE g[i - 1] + h[i]]}
<1>1. 0 \in T
  <2> DEFINE g == [i \in 0..0 |-> 0]
  <2>1. g = [i \in 0..0 |-> IF i = 0 THEN 0 ELSE g[i - 1] + h[i]]
    OBVIOUS
  <2> QED
    BY <2>1
<1>2. \A n \in Nat : n \in T => n + 1 \in T
  <2> SUFFICES ASSUME NEW n \in Nat, n \in T PROVE n + 1 \in T
    OBVIOUS
  <2>1. PICK g : g = [i \in 0..n |-> IF i = 0 THEN 0 ELSE g[i - 1] + h[i]]
    OBVIOUS
  <2>2. \A i \in 0..n : g[i] = IF i = 0 THEN 0 ELSE g[i - 1] + h[i]
    BY <2>1
  <2> DEFINE f == [i \in 0..n + 1 |-> IF i = n + 1 THEN g[n] + h[n + 1] ELSE g[i]]
  <2>3. \A i \in 0..n + 1 : f[i] = IF i = n + 1 THEN g[n] + h[n + 1] ELSE g[i]
    OBVIOUS
  <2>4. f = [i \in 0..n + 1 |-> f[i]]
    OBVIOUS
  <2> HIDE DEF f
  <2>5. \A i \in 0..n + 1 : f[i] = IF i = 0 THEN 0 ELSE f[i - 1] + h[i]
    <3> SUFFICES ASSUME NEW i \in 0..n + 1 PROVE f[i] = IF i = 0 THEN 0 ELSE f[i - 1] + h[i]
      OBVIOUS
    <3>1. CASE i = n + 1
      <4>1. i # 0 /\ i - 1 = n /\ n \in 0..n + 1 /\ n # n + 1
        BY <3>1
      <4>2. f[i] = g[n] + h[i] /\ f[i - 1] = g[n]
        BY <2>3, <3>1, <4>1
      <4> QED
        BY <4>1, <4>2
    <3>2. CASE i # n + 1
      <4>1. i \in 0..n /\ f[i] = g[i]
        BY <2>3, <3>2
      <4>2. i # 0 => i - 1 \in 0..n + 1 /\ i - 1 # n + 1
        OBVIOUS
      <4>3. i # 0 => f[i - 1] = g[i - 1]
        BY <2>3, <4>2
      <4> QED
        BY <2>2, <4>1, <4>3
    <3> QED
      BY <3>1, <3>2
  <2>6. f = [i \in 0..n + 1 |-> IF i = 0 THEN 0 ELSE f[i - 1] + h[i]]
    BY <2>4, <2>5
  <2> QED
    BY <2>6
<1>3. N \in T
  BY <1>1, <1>2, NatSetInduction
<1> QED
  BY <1>3

\* total() adds up one element after the other.
LEMMA TotalIs ==
  ASSUME NEW N \in Nat, NEW h, \A i \in 1..N : h[i] \in Int
  PROVE  /\ total(h, N) = [i \in 0..N |-> total(h, N)[i]]
         /\ total(h, N)[0] = 0
         /\ \A i \in 0..N : total(h, N)[i] \in Int
         /\ \A i \in 1..N : total(h, N)[i] = total(h, N)[i - 1] + h[i]
<1> DEFINE s == total(h, N)
<1>1. s = [i \in 0..N |-> IF i = 0 THEN 0 ELSE s[i - 1] + h[i]]
  BY SumExists DEF total
<1> HIDE DEF s
<1>2. \A i \in 0..N : s[i] = IF i = 0 THEN 0 ELSE s[i - 1] + h[i]
  BY <1>1
<1>3. s = [i \in 0..N |-> s[i]]
  BY <1>1
<1> DEFINE T == {n \in Nat : n <= N => s[n] \in Int}
<1>4. 0 \in T
  BY <1>2
<1>5. \A n \in Nat : n \in T => n + 1 \in T
  <2> SUFFICES ASSUME NEW n \in Nat, n \in T, n + 1 <= N PROVE s[n + 1] \in Int
    OBVIOUS
  <2>1. PICK k \in 0..N : k = n + 1 /\ k # 0 /\ k - 1 = n /\ k \in 1..N /\ n <= N
    OBVIOUS
  <2>2. s[k] = s[n] + h[k] /\ s[n] \in Int /\ h[k] \in Int
    BY <1>2, <2>1
  <2> QED
    BY <2>1, <2>2
<1>6. \A n \in 0..N : s[n] \in Int
  <2> HIDE DEF T
  <2>1. Nat \subseteq T
    BY <1>4, <1>5, NatSetInduction
  <2>2. \A n \in 0..N : n \in T /\ n <= N
    BY <2>1
  <2> QED
    BY <2>2 DEF T
<1>7. \A i \in 1..N : s[i] = s[i - 1] + h[i]
  BY <1>2
<1>8. s[0] = 0
  BY <1>2
<1> QED
  BY <1>3, <1>6, <1>7, <1>8, Zenon DEF s

\* One element more or less changes the sum by that.
LEMMA TotalChanged ==
  ASSUME NEW N \in Nat, NEW h, \A i \in 1..N : h[i] \in Int,
         NEW g, \A i \in 1..N : g[i] \in Int,
         NEW k \in 1..N, \A i \in 1..N \ {k} : g[i] = h[i]
  PROVE  total(g, N)[N] = total(h, N)[N] + g[k] - h[k]
<1> DEFINE s == total(h, N)
           r == total(g, N)
<1>1. /\ s[0] = 0 /\ \A i \in 0..N : s[i] \in Int
      /\ \A i \in 1..N : s[i] = s[i - 1] + h[i]
  BY TotalIs
<1>2. /\ r[0] = 0 /\ \A i \in 0..N : r[i] \in Int
      /\ \A i \in 1..N : r[i] = r[i - 1] + g[i]
  BY TotalIs
<1> HIDE DEF s, r
<1> DEFINE T == {n \in Nat : n <= N => r[n] = s[n] + (IF n >= k THEN g[k] - h[k] ELSE 0)}
<1>3. 0 \in T
  BY <1>1, <1>2
<1>4. \A n \in Nat : n \in T => n + 1 \in T
  <2> SUFFICES ASSUME NEW n \in Nat, n \in T, n + 1 <= N
               PROVE  r[n + 1] = s[n + 1] + (IF n + 1 >= k THEN g[k] - h[k] ELSE 0)
    OBVIOUS
  <2>1. PICK j \in 1..N : j = n + 1 /\ j - 1 = n
    OBVIOUS
  <2>2. /\ r[j] = r[n] + g[j] /\ s[j] = s[n] + h[j] /\ g[j] \in Int /\ h[j] \in Int
        /\ s[n] \in Int /\ r[n] \in Int /\ g[k] \in Int /\ h[k] \in Int
        /\ r[n] = s[n] + (IF n >= k THEN g[k] - h[k] ELSE 0)
    BY <1>1, <1>2, <2>1
  <2>3. j # k => g[j] = h[j]
    OBVIOUS
  <2>4. r[j] = s[j] + (IF j >= k THEN g[k] - h[k] ELSE 0)
    BY <2>1, <2>2, <2>3
  <2> QED
    BY <2>1, <2>4
<1>5. N \in T
  BY <1>3, <1>4, NatSetInduction
<1>6. s[N] \in Int /\ g[k] \in Int /\ h[k] \in Int
  BY <1>1
<1> QED
  BY <1>5, <1>6 DEF s, r

-----------------------------------------------------------------------------
(* Unsigned sums *)

\* Division with remainder.
LEMMA Remainder ==
  ASSUME NEW x \in Int, NEW u \in Nat \ {0}
  PROVE  /\ x \div u \in Int /\ x % u \in 0..u - 1 /\ x % u \in Int
         /\ x = (x % u) + (x \div u) * u
OBVIOUS

\* Two values of an unsigned type that are congruent are equal.
LEMMA FewMultiples ==
  ASSUME NEW a, NEW b, NEW u \in Nat \ {0}, a \in 0..u - 1, b \in 0..u - 1,
         NEW k \in Int, a = b + k * u
  PROVE  a = b
<1>1. CASE k = 0
  BY <1>1
<1>2. CASE k >= 1
  <2>1. k * u >= u
    BY <1>2
  <2> QED
    BY <2>1
<1>3. CASE k <= -1
  <2>1. k * u <= -u
    BY <1>3
  <2> QED
    BY <2>1
<1> QED
  BY <1>1, <1>2, <1>3

\* Adding to both sides of a congruence, on one of them with the wrap.
LEMMA CongruentPlus ==
  ASSUME NEW x \in Int, NEW y \in Int, NEW z \in Int, Congruent(x, y)
  PROVE  Plus(x, z) \in Int /\ Congruent(Plus(x, z), y + z)
<1>1. PICK k \in Int : x = y + k * Unsigned
  BY DEF Congruent
<1> DEFINE u == Unsigned
           p == (x + z) % u
           q == (x + z) \div u
<1>2. u \in Nat \ {0} /\ x + z \in Int
  BY OneofAssumption
<1> HIDE DEF u
<1>3. p \in Int /\ q \in Int /\ x + z = p + q * u
  BY <1>2, Remainder
<1> HIDE DEF p, q
<1>4. p = y + z + (k - q) * u
  <2>1. PICK a \in Int, b \in Int : a = k * u /\ b = q * u /\ (k - q) * u = a - b
    BY <1>2, <1>3
  <2>2. x = y + a /\ x + z = p + b
    BY <1>1, <1>3, <2>1 DEF u
  <2>3. p = y + z + (a - b)
    BY <1>3, <2>2
  <2> QED
    BY <2>1, <2>3
<1>5. k - q \in Int /\ Plus(x, z) = p
  BY <1>3 DEF Plus, p, u
<1> QED
  BY <1>3, <1>4, <1>5 DEF Congruent, u

\* An unsigned value congruent to y is y's remainder.
LEMMA CongruentIs ==
  ASSUME NEW r \in 0..Unsigned - 1, NEW y \in Int, Congruent(r, y)
  PROVE  r = y % Unsigned
<1>1. PICK k \in Int : r = y + k * Unsigned
  BY DEF Congruent
<1> DEFINE u == Unsigned
           p == y % u
           q == y \div u
<1>2. u \in Nat \ {0} /\ r \in 0..u - 1 /\ r = y + k * u
  BY <1>1, OneofAssumption
<1> HIDE DEF u
<1>3. p \in 0..u - 1 /\ p \in Int /\ q \in Int /\ y = p + q * u
  BY <1>2, Remainder
<1> HIDE DEF p, q
<1>4. r = p + (k + q) * u /\ k + q \in Int
  <2>1. (k + q) * u = k * u + q * u /\ k * u \in Int /\ q * u \in Int
    BY <1>2, <1>3
  <2> QED
    BY <1>2, <1>3, <2>1
<1>5. r = p
  BY <1>2, <1>3, <1>4, FewMultiples
<1> QED
  BY <1>5 DEF p, u

-----------------------------------------------------------------------------
(* The sum in every step *)

\* The message has a number of fields.
LEMMA FieldsCount == Len(Fields) \in Nat
BY OneofAssumption

\* What the oneofs and the fields add.
LEMMA Added ==
  ASSUME NEW m \in [1..Oneofs -> Nat]
  PROVE  /\ \A o \in 1..Oneofs : counted(m)[o] \in Int /\ counted(m)[o] = case_bits(o) + m[o]
         /\ \A i \in 1..Len(Fields) :
              /\ plain[i] \in Int
              /\ plain[i] = IF Fields[i].oneof = Plain THEN Fields[i].size ELSE 0
         /\ of_oneofs(m)[0] = 0
         /\ \A o \in 0..Oneofs : of_oneofs(m)[o] \in Int
         /\ \A o \in 1..Oneofs : of_oneofs(m)[o] = of_oneofs(m)[o - 1] + case_bits(o) + m[o]
         /\ of_fields[0] = 0
         /\ \A i \in 0..Len(Fields) : of_fields[i] \in Int
         /\ \A i \in 1..Len(Fields) :
              of_fields[i] = of_fields[i - 1]
                               + (IF Fields[i].oneof = Plain THEN Fields[i].size ELSE 0)
<1>1. \A o \in 1..Oneofs : case_bits(o) \in Int /\ m[o] \in Int
  BY CaseBitsType
<1>2. \A o \in 1..Oneofs : counted(m)[o] \in Int /\ counted(m)[o] = case_bits(o) + m[o]
  BY <1>1 DEF counted
<1>3. \A i \in 1..Len(Fields) :
        /\ plain[i] \in Int
        /\ plain[i] = IF Fields[i].oneof = Plain THEN Fields[i].size ELSE 0
  BY FieldTypes DEF plain
<1>4. /\ of_oneofs(m)[0] = 0
      /\ \A o \in 0..Oneofs : of_oneofs(m)[o] \in Int
      /\ \A o \in 1..Oneofs : of_oneofs(m)[o] = of_oneofs(m)[o - 1] + counted(m)[o]
  BY <1>2, FieldTypes, TotalIs DEF of_oneofs
<1>5. /\ of_fields[0] = 0
      /\ \A i \in 0..Len(Fields) : of_fields[i] \in Int
      /\ \A i \in 1..Len(Fields) : of_fields[i] = of_fields[i - 1] + plain[i]
  BY <1>3, FieldsCount, TotalIs DEF of_fields
<1>6. \A o \in 1..Oneofs : of_oneofs(m)[o] = of_oneofs(m)[o - 1] + case_bits(o) + m[o]
  <2> SUFFICES ASSUME NEW o \in 1..Oneofs
               PROVE  of_oneofs(m)[o] = of_oneofs(m)[o - 1] + case_bits(o) + m[o]
    OBVIOUS
  <2>1. o - 1 \in 0..Oneofs
    BY FieldTypes
  <2>2. of_oneofs(m)[o - 1] \in Int /\ case_bits(o) \in Int /\ m[o] \in Int
    BY <1>1, <1>4, <2>1
  <2>3. of_oneofs(m)[o] = of_oneofs(m)[o - 1] + (case_bits(o) + m[o])
    BY <1>2, <1>4
  <2> QED
    BY <2>2, <2>3
<1> QED
  BY <1>2, <1>3, <1>4, <1>5, <1>6

\* A oneof whose size in the map changes.
LEMMA OneofChanged ==
  ASSUME NEW m \in [1..Oneofs -> Nat], NEW o \in 1..Oneofs, NEW n \in Nat
  PROVE  of_oneofs([m EXCEPT ![o] = n])[Oneofs] = of_oneofs(m)[Oneofs] + n - m[o]
<1> DEFINE k == [m EXCEPT ![o] = n]
<1>1. k \in [1..Oneofs -> Nat] /\ k[o] = n /\ \A i \in 1..Oneofs \ {o} : k[i] = m[i]
  OBVIOUS
<1> HIDE DEF k
<1>2. /\ \A i \in 1..Oneofs : counted(m)[i] \in Int /\ counted(m)[i] = case_bits(i) + m[i]
      /\ of_oneofs(m)[Oneofs] \in Int
  BY Added, FieldTypes
<1>3. \A i \in 1..Oneofs : counted(k)[i] \in Int /\ counted(k)[i] = case_bits(i) + k[i]
  BY <1>1, Added
<1>4. \A i \in 1..Oneofs \ {o} : counted(k)[i] = counted(m)[i]
  BY <1>1, <1>2, <1>3
<1>5. of_oneofs(k)[Oneofs] = of_oneofs(m)[Oneofs] + counted(k)[o] - counted(m)[o]
  <2>1. Oneofs \in Nat
    BY FieldTypes
  <2>2. PICK g, h : g = counted(k) /\ h = counted(m)
    OBVIOUS
  <2>3. /\ \A i \in 1..Oneofs : g[i] \in Int /\ h[i] \in Int
        /\ \A i \in 1..Oneofs \ {o} : g[i] = h[i]
    BY <1>2, <1>3, <1>4, <2>2
  <2>4. total(g, Oneofs)[Oneofs] = total(h, Oneofs)[Oneofs] + g[o] - h[o]
    BY <2>1, <2>3, TotalChanged
  <2> QED
    BY <2>2, <2>4 DEF of_oneofs
<1>6. case_bits(o) \in Nat /\ m[o] \in Nat
  BY CaseBitsType
<1>7. counted(k)[o] = case_bits(o) + n /\ counted(m)[o] = case_bits(o) + m[o]
  BY <1>1, <1>2, <1>3
<1>8. of_oneofs(k)[Oneofs] = of_oneofs(m)[Oneofs] + n - m[o]
  BY <1>2, <1>5, <1>6, <1>7
<1> QED
  BY <1>8 DEF k

\* The steps of one thread, with what it reads as parameters: r and n are its
\* sum and new maximum, m the map.
LEMMA SumOfOneof ==
  ASSUME NEW a, NEW r \in Int, NEW n, NEW m \in [1..Oneofs -> Nat],
         SumSoFar("oneofs", a, r, n, m), a <= Oneofs
  PROVE  SumSoFar("oneofs", a + 1, Plus(Plus(r, case_bits(a)), m[a]), n, m)
<1>1. a \in 1..Oneofs + 1 /\ Congruent(r, of_oneofs(m)[a - 1])
  BY DEF SumSoFar
<1>2. Oneofs \in Nat /\ a \in 1..Oneofs /\ a - 1 \in 0..Oneofs /\ a + 1 \in 1..Oneofs + 1
      /\ a + 1 - 1 = a
  BY <1>1, FieldTypes
<1>3. /\ of_oneofs(m)[a - 1] \in Int /\ case_bits(a) \in Int /\ m[a] \in Int
      /\ of_oneofs(m)[a] = of_oneofs(m)[a - 1] + case_bits(a) + m[a]
  BY <1>2, Added, CaseBitsType
<1>4. /\ Plus(r, case_bits(a)) \in Int
      /\ Congruent(Plus(r, case_bits(a)), of_oneofs(m)[a - 1] + case_bits(a))
  BY <1>1, <1>3, CongruentPlus
<1>5. of_oneofs(m)[a - 1] + case_bits(a) \in Int
  BY <1>3
<1>6. Congruent(Plus(Plus(r, case_bits(a)), m[a]), of_oneofs(m)[a - 1] + case_bits(a) + m[a])
  BY <1>3, <1>4, <1>5, CongruentPlus
<1>7. Congruent(Plus(Plus(r, case_bits(a)), m[a]), of_oneofs(m)[a + 1 - 1])
  BY <1>2, <1>3, <1>6
<1> QED
  BY <1>2, <1>7 DEF SumSoFar

\* After the last oneof the traversal turns to the fields.
LEMMA SumOfAllOneofs ==
  ASSUME NEW a, NEW r \in Int, NEW n, NEW m \in [1..Oneofs -> Nat],
         SumSoFar("oneofs", a, r, n, m), a > Oneofs
  PROVE  SumSoFar("fields", 1, r, n, m)
<1>1. a \in 1..Oneofs + 1 /\ Congruent(r, of_oneofs(m)[a - 1])
  BY DEF SumSoFar
<1>2. a - 1 = Oneofs /\ Oneofs \in 0..Oneofs /\ 1 \in 1..Len(Fields) + 1
  BY <1>1, FieldTypes, FieldsCount
<1>3. of_oneofs(m)[Oneofs] \in Int /\ of_fields[0] = 0
  BY <1>2, Added
<1>4. of_oneofs(m)[Oneofs] + of_fields[1 - 1] = of_oneofs(m)[Oneofs]
  BY <1>3
<1>5. Congruent(r, of_oneofs(m)[Oneofs] + of_fields[1 - 1])
  BY <1>1, <1>2, <1>4
<1>6. Seen(m, 1)
  BY FieldsCount DEF Seen
<1> QED
  BY <1>2, <1>5, <1>6 DEF SumSoFar

\* A field that is in no oneof adds its size.
LEMMA SumOfPlain ==
  ASSUME NEW a, NEW r \in Int, NEW n, NEW m \in [1..Oneofs -> Nat],
         SumSoFar("fields", a, r, n, m), a <= Len(Fields), Fields[a].oneof = Plain
  PROVE  SumSoFar("fields", a + 1, Plus(r, Fields[a].size), n, m)
<1>1. /\ a \in 1..Len(Fields) + 1 /\ Seen(m, a)
      /\ Congruent(r, of_oneofs(m)[Oneofs] + of_fields[a - 1])
  BY DEF SumSoFar
<1>2. /\ Oneofs \in 0..Oneofs /\ a \in 1..Len(Fields) /\ a - 1 \in 0..Len(Fields)
      /\ a + 1 \in 1..Len(Fields) + 1 /\ a + 1 - 1 = a
  BY <1>1, FieldTypes, FieldsCount
<1>3. /\ of_oneofs(m)[Oneofs] \in Int /\ of_fields[a - 1] \in Int /\ Fields[a].size \in Int
      /\ of_fields[a] = of_fields[a - 1] + Fields[a].size
  BY <1>2, Added, FieldTypes
<1>4. of_oneofs(m)[Oneofs] + of_fields[a - 1] \in Int
  BY <1>3
<1>5. Congruent(Plus(r, Fields[a].size), of_oneofs(m)[Oneofs] + of_fields[a - 1] + Fields[a].size)
  BY <1>1, <1>3, <1>4, CongruentPlus
<1>6. of_oneofs(m)[Oneofs] + of_fields[a - 1] + Fields[a].size
        = of_oneofs(m)[Oneofs] + of_fields[a + 1 - 1]
  BY <1>2, <1>3
<1>7. Seen(m, a + 1)
  BY <1>1, <1>2 DEF Seen
<1> QED
  BY <1>2, <1>5, <1>6, <1>7 DEF SumSoFar

\* The size compared with the map's is the larger of the two.
LEMMA SumOfMax ==
  ASSUME NEW a, NEW r, NEW n, NEW m, SumSoFar("fields", a, r, n, m)
  PROVE  SumSoFar("add", a, r,
           IF Fields[a].size > m[Fields[a].oneof] THEN Fields[a].size ELSE m[Fields[a].oneof], m)
BY DEF SumSoFar

\* What a field of a oneof adds, though unsigned: how much it is larger than the map.
LEMMA SumOfDifference ==
  ASSUME NEW a \in 1..Len(Fields), NEW r \in Int, NEW n \in Nat, NEW m \in [1..Oneofs -> Nat],
         Fields[a].oneof \in 1..Oneofs, SumSoFar("add", a, r, n, m)
  PROVE  SumSoFar("store", a, Plus(r, n - m[Fields[a].oneof]), n, m)
<1> DEFINE d == n - m[Fields[a].oneof]
<1>1. /\ Seen(m, a) /\ Congruent(r, of_oneofs(m)[Oneofs] + of_fields[a - 1])
      /\ n = IF Fields[a].size > m[Fields[a].oneof] THEN Fields[a].size ELSE m[Fields[a].oneof]
  BY DEF SumSoFar
<1>2. Oneofs \in 0..Oneofs /\ a - 1 \in 0..Len(Fields) /\ a \in 1..Len(Fields) + 1
  BY FieldTypes, FieldsCount
<1>3. of_oneofs(m)[Oneofs] \in Int /\ of_fields[a - 1] \in Int /\ m[Fields[a].oneof] \in Int
      /\ d \in Int
  BY <1>2, Added
<1>4. of_oneofs(m)[Oneofs] + of_fields[a - 1] \in Int
  BY <1>3
<1>5. Congruent(Plus(r, d), of_oneofs(m)[Oneofs] + of_fields[a - 1] + d)
  BY <1>1, <1>3, <1>4, CongruentPlus
<1>6. of_oneofs(m)[Oneofs] + of_fields[a - 1] + d
        = of_oneofs(m)[Oneofs] + of_fields[a - 1] + n - m[Fields[a].oneof]
  BY <1>3
<1> QED
  BY <1>1, <1>2, <1>5, <1>6 DEF SumSoFar

\* Storing that size in the map makes the difference part of the map's sum.
LEMMA SumOfStore ==
  ASSUME NEW a \in 1..Len(Fields), NEW r \in Int, NEW n \in Nat, NEW m \in [1..Oneofs -> Nat],
         Fields[a].oneof \in 1..Oneofs, SumSoFar("store", a, r, n, m)
  PROVE  SumSoFar("fields", a + 1, r, n, [m EXCEPT ![Fields[a].oneof] = n])
<1> DEFINE o == Fields[a].oneof
           k == [m EXCEPT ![o] = n]
<1>1. /\ Seen(m, a) /\ Congruent(r, of_oneofs(m)[Oneofs] + of_fields[a - 1] + n - m[o])
      /\ n = IF Fields[a].size > m[o] THEN Fields[a].size ELSE m[o]
  BY DEF SumSoFar
<1>2. /\ Oneofs \in 0..Oneofs /\ a - 1 \in 0..Len(Fields) /\ a + 1 \in 1..Len(Fields) + 1
      /\ a + 1 - 1 = a
  BY FieldTypes, FieldsCount
<1>3. o # Plain /\ Fields[a].size \in Nat
  BY FieldTypes, OneofAssumption
<1>4. /\ of_oneofs(m)[Oneofs] \in Int /\ of_fields[a - 1] \in Int /\ m[o] \in Nat
      /\ of_fields[a] = of_fields[a - 1] + 0
  BY <1>2, <1>3, Added
<1>5. of_oneofs(k)[Oneofs] = of_oneofs(m)[Oneofs] + n - m[o]
  BY OneofChanged
<1>6. Seen(k, a + 1)
  <2> SUFFICES ASSUME NEW i \in 1..Len(Fields), i < a + 1, Fields[i].oneof # Plain
               PROVE  Fields[i].size <= k[Fields[i].oneof]
    BY DEF Seen
  <2>1. Fields[i].oneof \in 1..Oneofs /\ Fields[i].size \in Nat
    BY FieldTypes
  <2>2. k[Fields[i].oneof] = IF Fields[i].oneof = o THEN n ELSE m[Fields[i].oneof]
    BY <2>1
  <2>3. m[o] <= n /\ Fields[a].size <= n /\ m[Fields[i].oneof] \in Nat
    <3>1. Fields[a].size \in Nat /\ m[o] \in Nat
      BY <1>3, <1>4, FieldTypes
    <3> DEFINE x == Fields[a].size
               y == m[o]
    <3>2. x \in Nat /\ y \in Nat /\ n = IF x > y THEN x ELSE y
      BY <1>1, <3>1
    <3> HIDE DEF x, y
    <3>3. y <= n /\ x <= n
      BY <3>2
    <3>4. m[Fields[i].oneof] \in Nat
      BY <2>1
    <3> QED
      BY <3>3, <3>4 DEF x, y
  <2>4. i = a \/ Fields[i].size <= m[Fields[i].oneof]
    <3>1. i = a \/ i < a
      BY FieldsCount
    <3> QED
      BY <1>1, <3>1 DEF Seen
  <2> HIDE DEF k
  <2> QED
    BY <1>3, <1>4, <2>1, <2>2, <2>3, <2>4
<1> HIDE DEF k, o
<1>7. of_oneofs(k)[Oneofs] + of_fields[a + 1 - 1]
        = of_oneofs(m)[Oneofs] + of_fields[a - 1] + n - m[o]
  BY <1>2, <1>4, <1>5
<1>8. Congruent(r, of_oneofs(k)[Oneofs] + of_fields[a + 1 - 1])
  BY <1>1, <1>7
<1> QED
  BY <1>2, <1>6, <1>8 DEF SumSoFar, k, o

\* When all oneofs and fields are through, the sum is what it should be.
LEMMA SumIsTrue ==
  ASSUME NEW a, NEW r \in 0..Unsigned - 1, NEW n, NEW m \in [1..Oneofs -> Nat],
         \A o \in 1..Oneofs : m[o] \in sizes(o),
         SumSoFar("fields", a, r, n, m), a > Len(Fields)
  PROVE  r = TrueMaxSize
<1> DEFINE largest(o) == CHOOSE x \in sizes(o) : \A y \in sizes(o) : y <= x
           X == CHOOSE g : g = [o \in 0..Oneofs |->
                  IF o = 0 THEN 0 ELSE g[o - 1] + case_bits(o) + largest(o)]
           Y == CHOOSE g : g = [i \in 0..Len(Fields) |->
                  IF i = 0 THEN 0
                  ELSE g[i - 1] + (IF Fields[i].oneof = Plain THEN Fields[i].size ELSE 0)]
           S == of_oneofs(m)
           P == of_fields
<1>1. /\ a = Len(Fields) + 1 /\ a - 1 = Len(Fields) /\ Seen(m, a)
      /\ Congruent(r, S[Oneofs] + P[a - 1])
  BY FieldsCount DEF SumSoFar
<1>2. \A o \in 1..Oneofs : largest(o) = m[o]
  <2> SUFFICES ASSUME NEW o \in 1..Oneofs PROVE largest(o) = m[o]
    OBVIOUS
  <2>1. \A i \in 1..Len(Fields) : Fields[i].oneof = o => Fields[i].size <= m[o]
    <3> SUFFICES ASSUME NEW i \in 1..Len(Fields), Fields[i].oneof = o
                 PROVE  Fields[i].size <= m[o]
      OBVIOUS
    <3>1. i < a /\ Fields[i].oneof # Plain
      BY <1>1, FieldsCount, OneofAssumption
    <3> QED
      BY <1>1, <3>1 DEF Seen
  <2>2. \A y \in sizes(o) : y <= m[o]
    BY <2>1 DEF sizes
  <2>3. m[o] \in sizes(o) /\ sizes(o) \subseteq Nat
    BY FieldTypes
  <2>4. \A x \in sizes(o) : (\A y \in sizes(o) : y <= x) => x = m[o]
    BY <2>2, <2>3
  <2> QED
    BY <2>2, <2>3, <2>4
<1>3. /\ S = [o \in 0..Oneofs |-> S[o]] /\ S[0] = 0
      /\ \A o \in 0..Oneofs : S[o] \in Int
      /\ \A o \in 1..Oneofs : S[o] = S[o - 1] + case_bits(o) + largest(o)
  <2>1. \A o \in 1..Oneofs : counted(m)[o] \in Int
    BY Added
  <2>2. S = [o \in 0..Oneofs |-> S[o]]
    BY <2>1, FieldTypes, TotalIs DEF of_oneofs
  <2> QED
    BY <1>2, <2>2, Added
<1>4. /\ P = [i \in 0..Len(Fields) |-> P[i]] /\ P[0] = 0
      /\ \A i \in 0..Len(Fields) : P[i] \in Int
      /\ \A i \in 1..Len(Fields) :
           P[i] = P[i - 1] + (IF Fields[i].oneof = Plain THEN Fields[i].size ELSE 0)
  <2>1. \A i \in 1..Len(Fields) : plain[i] \in Int
    BY Added
  <2>2. P = [i \in 0..Len(Fields) |-> P[i]]
    BY <2>1, FieldsCount, TotalIs DEF of_fields
  <2> QED
    BY <2>2, Added
<1> HIDE DEF S, P, largest
<1>5. X[Oneofs] = S[Oneofs]
  <2>1. S = [o \in 0..Oneofs |-> IF o = 0 THEN 0 ELSE S[o - 1] + case_bits(o) + largest(o)]
    <3>1. ASSUME NEW o \in 0..Oneofs
          PROVE  S[o] = IF o = 0 THEN 0 ELSE S[o - 1] + case_bits(o) + largest(o)
      <4>1. CASE o = 0
        BY <1>3, <4>1
      <4>2. CASE o # 0
        <5>1. o \in 1..Oneofs
          BY <4>2
        <5> QED
          BY <1>3, <4>2, <5>1
      <4> QED
        BY <4>1, <4>2
    <3> QED
      BY <1>3, <3>1
  <2>2. X = [o \in 0..Oneofs |-> IF o = 0 THEN 0 ELSE X[o - 1] + case_bits(o) + largest(o)]
    BY <2>1
  <2> HIDE DEF X
  <2>3. \A o \in 0..Oneofs : X[o] = IF o = 0 THEN 0 ELSE X[o - 1] + case_bits(o) + largest(o)
    BY <2>2
  <2> DEFINE T == {k \in Nat : k <= Oneofs => X[k] = S[k]}
  <2>4. 0 \in T
    BY <1>3, <2>3, FieldTypes
  <2>5. \A k \in Nat : k \in T => k + 1 \in T
    <3> SUFFICES ASSUME NEW k \in Nat, k \in T, k + 1 <= Oneofs PROVE X[k + 1] = S[k + 1]
      OBVIOUS
    <3>1. PICK j \in 1..Oneofs : j = k + 1 /\ j - 1 = k /\ j # 0 /\ j \in 0..Oneofs
      BY FieldTypes
    <3>2. X[k] = S[k]
      BY <3>1, FieldTypes
    <3>3. X[j] = X[j - 1] + case_bits(j) + largest(j)
      BY <2>3, <3>1
    <3>4. S[j] = S[j - 1] + case_bits(j) + largest(j)
      BY <1>3, <3>1
    <3> QED
      BY <3>1, <3>2, <3>3, <3>4
  <2>6. Oneofs \in T
    BY <2>4, <2>5, NatSetInduction, FieldTypes
  <2> QED
    BY <2>6, FieldTypes
<1>6. Y[Len(Fields)] = P[Len(Fields)]
  <2> DEFINE N == Len(Fields)
             h(i) == IF Fields[i].oneof = Plain THEN Fields[i].size ELSE 0
  <2>1. P = [i \in 0..N |-> IF i = 0 THEN 0 ELSE P[i - 1] + h(i)]
    <3>1. ASSUME NEW i \in 0..N PROVE P[i] = IF i = 0 THEN 0 ELSE P[i - 1] + h(i)
      <4>1. CASE i = 0
        BY <1>4, <4>1
      <4>2. CASE i # 0
        <5>1. i \in 1..N
          BY <4>2, FieldsCount
        <5> QED
          BY <1>4, <4>2, <5>1
      <4> QED
        BY <4>1, <4>2
    <3> QED
      BY <1>4, <3>1
  <2>2. Y = [i \in 0..N |-> IF i = 0 THEN 0 ELSE Y[i - 1] + h(i)]
    BY <2>1
  <2> HIDE DEF Y, h
  <2>3. \A i \in 0..N : Y[i] = IF i = 0 THEN 0 ELSE Y[i - 1] + h(i)
    BY <2>2
  <2>7. \A i \in 1..N : P[i] = P[i - 1] + h(i)
    BY <1>4 DEF h
  <2>8. N \in Nat
    BY FieldsCount
  <2> HIDE DEF N
  <2> DEFINE T == {k \in Nat : k <= N => Y[k] = P[k]}
  <2>4. 0 \in T
    BY <1>4, <2>3, <2>8
  <2>5. \A k \in Nat : k \in T => k + 1 \in T
    <3> SUFFICES ASSUME NEW k \in Nat, k \in T, k + 1 <= N PROVE Y[k + 1] = P[k + 1]
      OBVIOUS
    <3>1. PICK j \in 1..N : j = k + 1 /\ j - 1 = k /\ j # 0 /\ j \in 0..N
      BY <2>8
    <3>2. Y[k] = P[k]
      BY <2>8, <3>1
    <3> QED
      BY <2>3, <2>7, <3>1, <3>2
  <2>6. N \in T
    BY <2>4, <2>5, <2>8, NatSetInduction
  <2> QED
    BY <2>6, <2>8 DEF N
<1>7. TrueMaxSize = (X[Oneofs] + Y[Len(Fields)]) % Unsigned
  BY DEF TrueMaxSize, largest
<1>8. S[Oneofs] + P[Len(Fields)] \in Int
  BY <1>3, <1>4, FieldTypes, FieldsCount
<1>9. r = (S[Oneofs] + P[Len(Fields)]) % Unsigned
  BY <1>1, <1>8, CongruentIs
<1> QED
  BY <1>5, <1>6, <1>7, <1>9

-----------------------------------------------------------------------------
(* Every step keeps it *)

\* The first call starts from an empty map.
LEMMA InitAInv == Init => AInv
<1> SUFFICES ASSUME Init PROVE AInv
  OBVIOUS
<1>1. IInv
  BY InitIInv
<1>2. Alone
  BY DEF Init, Alone
<1>3. last \in [Threads -> {<< >>} \cup ((0..Unsigned - 1) \X BOOLEAN)] /\ AloneIsRight
  BY DEF Init, AloneIsRight
<1> QED
  BY <1>1, <1>2, <1>3 DEF AInv

\* A step of a thread within max_size() that leaves its call's disturbance and
\* the results of all calls alone.
LEMMA StepAlone ==
  ASSUME AInv, NEW t \in Threads, pc[t] # "idle",
         disturbed' = disturbed, last' = last, IInv',
         NEW q, pc' = [pc EXCEPT ![t] = q],
         ~disturbed[t] => SumSoFar(q, at'[t], return_value'[t], new_max_size'[t], oneofs_max_size')
  PROVE  AInv'
<1>1. pc \in [Threads -> {"idle", "oneofs", "fields", "add", "store"}]
  BY DEF AInv, IInv, TypeOK
<1>2. Alone'
  <2> SUFFICES ASSUME NEW u \in Threads, pc'[u] # "idle", ~disturbed[u]
               PROVE  /\ \A v \in Threads \ {u} : pc'[v] = "idle"
                      /\ SumSoFar(pc'[u], at'[u], return_value'[u], new_max_size'[u],
                                  oneofs_max_size')
    BY DEF Alone
  <2>1. u = t
    <3> SUFFICES ASSUME u # t PROVE FALSE
      OBVIOUS
    <3>1. pc[u] # "idle"
      BY <1>1
    <3> QED
      BY <3>1 DEF AInv, Alone
  <2>2. \A v \in Threads \ {t} : pc[v] = "idle"
    BY <2>1 DEF AInv, Alone
  <2>3. pc'[t] = q /\ \A v \in Threads \ {t} : pc'[v] = pc[v]
    BY <1>1
  <2> QED
    BY <2>1, <2>2, <2>3
<1>3. last' \in [Threads -> {<< >>} \cup ((0..Unsigned - 1) \X BOOLEAN)] /\ AloneIsRight'
  BY DEF AInv, AloneIsRight, TrueMaxSize
<1> QED
  BY <1>2, <1>3 DEF AInv

\* A step of an undisturbed call keeps its sum; a step of another thread disturbs the call.
LEMMA NextAInv == AInv /\ [Next]_vars => AInv'
<1> SUFFICES ASSUME AInv, [Next]_vars PROVE AInv'
  OBVIOUS
<1>1. IInv'
  BY NextIInv DEF AInv
<1>2. /\ pc \in [Threads -> {"idle", "oneofs", "fields", "add", "store"}]
      /\ at \in [Threads -> Nat \ {0}]
      /\ return_value \in [Threads -> 0..Unsigned - 1]
      /\ new_max_size \in [Threads -> Nat]
      /\ oneofs_max_size \in [1..Oneofs -> Nat]
      /\ disturbed \in [Threads -> BOOLEAN]
      /\ last \in [Threads -> {<< >>} \cup ((0..Unsigned - 1) \X BOOLEAN)]
      /\ MapHoldsAFieldSize
  BY DEF AInv, IInv, TypeOK
<1>3. \A t \in Threads : return_value[t] \in Int
  BY <1>2, OneofAssumption
<1>4. ASSUME NEW t \in Threads, pc[t] # "idle", ~disturbed[t]
      PROVE  SumSoFar(pc[t], at[t], return_value[t], new_max_size[t], oneofs_max_size)
  BY <1>4 DEF AInv, Alone
<1>5. ASSUME NEW t \in Threads, Call(t) PROVE AInv'
  <2>1. /\ pc[t] = "idle" /\ pc' = [pc EXCEPT ![t] = "oneofs"]
        /\ at' = [at EXCEPT ![t] = 1] /\ return_value' = [return_value EXCEPT ![t] = 0]
        /\ disturbed' = [u \in Threads |->
             IF u = t THEN Others(t) # {} ELSE disturbed[u] \/ u \in Others(t)]
        /\ oneofs_max_size' = oneofs_max_size /\ new_max_size' = new_max_size /\ last' = last
    BY <1>5 DEF Call
  <2>2. ASSUME NEW u \in Threads, pc'[u] # "idle", ~disturbed'[u]
        PROVE  u = t /\ Others(t) = {}
    <3>1. CASE u = t
      BY <2>1, <2>2, <3>1
    <3>2. CASE u # t
      <4>1. pc[u] # "idle"
        BY <1>2, <2>1, <2>2, <3>2
      <4>2. u \in Others(t)
        BY <3>2, <4>1 DEF Others
      <4> QED
        BY <2>1, <2>2, <3>2, <4>2
    <3> QED
      BY <3>1, <3>2
  <2>3. SumSoFar("oneofs", 1, 0, new_max_size[t], oneofs_max_size)
    <3>1. of_oneofs(oneofs_max_size)[0] = 0
      BY <1>2, Added
    <3>2. 1 \in 1..Oneofs + 1 /\ 0 = of_oneofs(oneofs_max_size)[1 - 1] + 0 * Unsigned
      BY <3>1, FieldTypes
    <3>3. Congruent(0, of_oneofs(oneofs_max_size)[1 - 1])
      BY <3>2 DEF Congruent
    <3> QED
      BY <3>2, <3>3 DEF SumSoFar
  <2>4. Alone'
    <3> SUFFICES ASSUME NEW u \in Threads, pc'[u] # "idle", ~disturbed'[u]
                 PROVE  /\ \A v \in Threads \ {u} : pc'[v] = "idle"
                        /\ SumSoFar(pc'[u], at'[u], return_value'[u], new_max_size'[u],
                                    oneofs_max_size')
      BY DEF Alone
    <3>1. u = t /\ Others(t) = {}
      BY <2>2
    <3>2. \A v \in Threads \ {t} : pc'[v] = "idle"
      BY <1>2, <2>1, <3>1 DEF Others
    <3>3. pc'[t] = "oneofs" /\ at'[t] = 1 /\ return_value'[t] = 0
          /\ new_max_size'[t] = new_max_size[t]
      BY <1>2, <2>1
    <3> QED
      BY <2>1, <2>3, <3>1, <3>2, <3>3
  <2>5. AloneIsRight'
    BY <2>1 DEF AInv, AloneIsRight, TrueMaxSize
  <2> QED
    BY <1>1, <1>2, <2>1, <2>4, <2>5 DEF AInv
<1>6. ASSUME NEW t \in Threads, oneof(t) PROVE AInv'
  <2> DEFINE r == return_value[t]
             a == at[t]
             m == oneofs_max_size
  <2>1. /\ pc[t] = "oneofs" /\ a <= Oneofs /\ at' = [at EXCEPT ![t] = a + 1]
        /\ return_value' = [return_value EXCEPT ![t] = Plus(Plus(r, case_bits(a)), m[a])]
        /\ m' = m /\ pc' = pc /\ new_max_size' = new_max_size
        /\ disturbed' = disturbed /\ last' = last
    BY <1>6 DEF oneof, history
  <2>2. /\ at'[t] = a + 1 /\ return_value'[t] = Plus(Plus(r, case_bits(a)), m[a])
        /\ pc' = [pc EXCEPT ![t] = "oneofs"]
    BY <1>2, <2>1
  <2>3. ~disturbed[t] => SumSoFar("oneofs", a, r, new_max_size[t], m)
    BY <1>4, <2>1
  <2> HIDE DEF a, r, m
  <2>4. r \in Int /\ m \in [1..Oneofs -> Nat]
    BY <1>2, <1>3 DEF r, m
  <2>5. ~disturbed[t] => SumSoFar("oneofs", a + 1, Plus(Plus(r, case_bits(a)), m[a]),
                                  new_max_size[t], m)
    BY <2>1, <2>3, <2>4, SumOfOneof
  <2> QED
    BY <1>1, <2>1, <2>2, <2>5, StepAlone DEF m
<1>7. ASSUME NEW t \in Threads, OneofsDone(t) PROVE AInv'
  <2> DEFINE r == return_value[t]
             a == at[t]
             m == oneofs_max_size
  <2>1. /\ pc[t] = "oneofs" /\ a > Oneofs /\ at' = [at EXCEPT ![t] = 1]
        /\ m' = m /\ pc' = [pc EXCEPT ![t] = "fields"] /\ new_max_size' = new_max_size
        /\ return_value' = return_value /\ disturbed' = disturbed /\ last' = last
    BY <1>7 DEF OneofsDone, history
  <2>2. at'[t] = 1
    BY <1>2, <2>1
  <2>3. ~disturbed[t] => SumSoFar("oneofs", a, r, new_max_size[t], m)
    BY <1>4, <2>1
  <2>4. r \in Int /\ m \in [1..Oneofs -> Nat]
    BY <1>2, <1>3
  <2>5. ~disturbed[t] => SumSoFar("fields", 1, r, new_max_size[t], m)
    BY <2>1, <2>3, <2>4, SumOfAllOneofs
  <2> QED
    BY <1>1, <2>1, <2>2, <2>5, StepAlone
<1>8. ASSUME NEW t \in Threads, PlainField(t) PROVE AInv'
  <2> DEFINE r == return_value[t]
             a == at[t]
             m == oneofs_max_size
  <2>1. /\ pc[t] = "fields" /\ a <= Len(Fields) /\ Fields[a].oneof = Plain
        /\ at' = [at EXCEPT ![t] = a + 1]
        /\ return_value' = [return_value EXCEPT ![t] = Plus(r, Fields[a].size)]
        /\ m' = m /\ pc' = pc /\ new_max_size' = new_max_size
        /\ disturbed' = disturbed /\ last' = last
    BY <1>8 DEF PlainField, history, this_oneof, this_size
  <2>2. /\ at'[t] = a + 1 /\ return_value'[t] = Plus(r, Fields[a].size)
        /\ pc' = [pc EXCEPT ![t] = "fields"]
    BY <1>2, <2>1
  <2>3. ~disturbed[t] => SumSoFar("fields", a, r, new_max_size[t], m)
    BY <1>4, <2>1
  <2> HIDE DEF a, r, m
  <2>4. r \in Int /\ m \in [1..Oneofs -> Nat]
    BY <1>2, <1>3 DEF r, m
  <2>5. ~disturbed[t] => SumSoFar("fields", a + 1, Plus(r, Fields[a].size), new_max_size[t], m)
    BY <2>1, <2>3, <2>4, SumOfPlain
  <2> QED
    BY <1>1, <2>1, <2>2, <2>5, StepAlone DEF m
<1>9. ASSUME NEW t \in Threads, FindMax(t) PROVE AInv'
  <2> DEFINE r == return_value[t]
             a == at[t]
             m == oneofs_max_size
             n == IF Fields[a].size > m[Fields[a].oneof] THEN Fields[a].size
                  ELSE m[Fields[a].oneof]
  <2>1. /\ pc[t] = "fields" /\ new_max_size' = [new_max_size EXCEPT ![t] = n]
        /\ m' = m /\ pc' = [pc EXCEPT ![t] = "add"] /\ at' = at
        /\ return_value' = return_value /\ disturbed' = disturbed /\ last' = last
    BY <1>9 DEF FindMax, history, this_oneof, this_size
  <2>2. new_max_size'[t] = n
    BY <1>2, <2>1
  <2>3. ~disturbed[t] => SumSoFar("fields", a, r, new_max_size[t], m)
    BY <1>4, <2>1
  <2>5. ~disturbed[t] => SumSoFar("add", a, r, n, m)
    BY <2>3, SumOfMax
  <2> HIDE DEF n
  <2> QED
    BY <1>1, <2>1, <2>2, <2>5, StepAlone
<1>10. ASSUME NEW t \in Threads, AddDifference(t) PROVE AInv'
  <2> DEFINE r == return_value[t]
             a == at[t]
             m == oneofs_max_size
             n == new_max_size[t]
  <2>1. /\ pc[t] = "add" /\ m' = m /\ pc' = [pc EXCEPT ![t] = "store"] /\ at' = at
        /\ return_value' = [return_value EXCEPT ![t] = Plus(r, n - m[Fields[a].oneof])]
        /\ new_max_size' = new_max_size /\ disturbed' = disturbed /\ last' = last
    BY <1>10 DEF AddDifference, history, this_oneof
  <2>2. return_value'[t] = Plus(r, n - m[Fields[a].oneof])
    BY <1>2, <2>1
  <2>3. ~disturbed[t] => SumSoFar("add", a, r, n, m)
    BY <1>4, <2>1
  <2>4. r \in Int /\ m \in [1..Oneofs -> Nat] /\ n \in Nat
    BY <1>2, <1>3
  <2>6. a \in 1..Len(Fields) /\ Fields[a].oneof \in 1..Oneofs
    BY <2>1 DEF AInv, IInv, AboutToStore, this_oneof
  <2> HIDE DEF a, r, m, n
  <2>5. ~disturbed[t] => SumSoFar("store", a, Plus(r, n - m[Fields[a].oneof]), n, m)
    BY <2>3, <2>4, <2>6, SumOfDifference
  <2> QED
    BY <1>1, <2>1, <2>2, <2>5, StepAlone DEF m, a, n
<1>11. ASSUME NEW t \in Threads, Store(t) PROVE AInv'
  <2> DEFINE r == return_value[t]
             a == at[t]
             m == oneofs_max_size
             n == new_max_size[t]
  <2>1. /\ pc[t] = "store" /\ m' = [m EXCEPT ![Fields[a].oneof] = n]
        /\ pc' = [pc EXCEPT ![t] = "fields"] /\ at' = [at EXCEPT ![t] = a + 1]
        /\ return_value' = return_value
        /\ new_max_size' = new_max_size /\ disturbed' = disturbed /\ last' = last
    BY <1>11 DEF Store, history, this_oneof
  <2>2. at'[t] = a + 1
    BY <1>2, <2>1
  <2>3. ~disturbed[t] => SumSoFar("store", a, r, n, m)
    BY <1>4, <2>1
  <2>4. r \in Int /\ m \in [1..Oneofs -> Nat] /\ n \in Nat
    BY <1>2, <1>3
  <2>6. a \in 1..Len(Fields) /\ Fields[a].oneof \in 1..Oneofs
    BY <2>1 DEF AInv, IInv, AboutToStore, this_oneof
  <2> HIDE DEF a, r, m, n
  <2>5. ~disturbed[t] => SumSoFar("fields", a + 1, r, n, [m EXCEPT ![Fields[a].oneof] = n])
    BY <2>3, <2>4, <2>6, SumOfStore
  <2> QED
    BY <1>1, <2>1, <2>2, <2>5, StepAlone DEF m, r, n
<1>12. ASSUME NEW t \in Threads, Done(t) PROVE AInv'
  <2> DEFINE r == return_value[t]
             a == at[t]
             m == oneofs_max_size
  <2>1. /\ pc[t] = "fields" /\ a > Len(Fields) /\ pc' = [pc EXCEPT ![t] = "idle"]
        /\ last' = [last EXCEPT ![t] = <<r, disturbed[t]>>]
        /\ m' = m /\ at' = at /\ return_value' = return_value
        /\ new_max_size' = new_max_size /\ disturbed' = disturbed
    BY <1>12 DEF Done
  <2>2. ~disturbed[t] => r = TrueMaxSize
    <3> SUFFICES ASSUME ~disturbed[t] PROVE r = TrueMaxSize
      OBVIOUS
    <3>1. SumSoFar("fields", a, r, new_max_size[t], m)
      BY <1>4, <2>1
    <3>2. r \in 0..Unsigned - 1 /\ m \in [1..Oneofs -> Nat] /\ \A o \in 1..Oneofs : m[o] \in sizes(o)
      BY <1>2 DEF MapHoldsAFieldSize
    <3> QED
      BY <2>1, <3>1, <3>2, SumIsTrue
  <2>3. last' \in [Threads -> {<< >>} \cup ((0..Unsigned - 1) \X BOOLEAN)]
    <3>1. <<r, disturbed[t]>> \in (0..Unsigned - 1) \X BOOLEAN
      <4>1. r \in 0..Unsigned - 1
        BY <1>2
      <4>2. disturbed[t] \in BOOLEAN
        BY <1>2, Zenon
      <4> QED
        BY <4>1, <4>2, Zenon
    <3> QED
      BY <1>2, <2>1, <3>1
  <2>4. AloneIsRight'
    <3> SUFFICES ASSUME NEW u \in Threads, last'[u] # << >>, ~last'[u][2]
                 PROVE  last'[u][1] = TrueMaxSize
      BY DEF AloneIsRight, TrueMaxSize
    <3>1. CASE u = t
      <4>1. last'[t] = <<r, disturbed[t]>>
        BY <1>2, <2>1
      <4> QED
        BY <2>2, <3>1, <4>1
    <3>2. CASE u # t
      <4>1. last'[u] = last[u]
        BY <1>2, <2>1, <3>2
      <4> QED
        BY <4>1 DEF AInv, AloneIsRight
    <3> QED
      BY <3>1, <3>2
  <2>5. Alone'
    <3> SUFFICES ASSUME NEW u \in Threads, pc'[u] # "idle", ~disturbed[u]
                 PROVE  /\ \A v \in Threads \ {u} : pc'[v] = "idle"
                        /\ SumSoFar(pc'[u], at[u], return_value[u], new_max_size[u], m)
      BY <2>1 DEF Alone
    <3>1. u # t /\ pc[u] # "idle"
      BY <1>2, <2>1
    <3>2. pc[t] = "idle"
      BY <3>1 DEF AInv, Alone
    <3> QED
      BY <2>1, <3>2
  <2> QED
    BY <1>1, <2>3, <2>4, <2>5 DEF AInv
<1>13. CASE UNCHANGED vars
  BY <1>1, <1>13 DEF AInv, Alone, AloneIsRight, TrueMaxSize, vars, locals, history
<1> QED
  BY <1>5, <1>6, <1>7, <1>8, <1>9, <1>10, <1>11, <1>12, <1>13 DEF Next

\* For any number of threads and calls, any fields, and whatever earlier calls
\* have done to the map or to one another: a max_size() that no other
\* interferes with is right (codecs4/field_codec_default_message.h:158).
THEOREM AloneAlwaysRight == Spec => []AloneIsRight
<1>1. AInv => AloneIsRight
  BY DEF AInv
<1> QED
  BY <1>1, InitAInv, NextAInv, PTL DEF Spec
=============================================================================
