-------------------------- MODULE TypedCodecsProofs --------------------------
(***************************************************************************)
(* What the codecs of single values do, for all bounds, resolutions,       *)
(* lengths and widths that validate() lets through: first a number and a   *)
(* time by themselves, then bits and bytes, then each codec (Contract),    *)
(* and last two fields one behind the other.                               *)
(***************************************************************************)
EXTENDS TypedCodecs, WellFoundedInduction, FiniteSetTheorems, SequenceTheorems, TLAPS

\* A field of any bounds and any resolution, of any type and label.
Bounded(f) ==
  /\ f.min \in Int /\ f.max \in Int /\ f.res \in Int
  /\ f.unit \in Nat /\ f.required \in BOOLEAN

-----------------------------------------------------------------------------
(* Multiples of the resolution *)

\* Dividing a multiple takes the factor back.
LEMMA MultipleDiv ==
  ASSUME NEW k \in Int, NEW r \in Nat \ {0}
  PROVE  (k * r) \div r = k /\ (k * r) % r = 0
OBVIOUS

\* A number is its quotient times the divisor and a remainder below it.
LEMMA DivMod ==
  ASSUME NEW v \in Int, NEW r \in Nat \ {0}
  PROVE  /\ v \div r \in Int
         /\ v % r \in 0..(r - 1)
         /\ v = (v \div r) * r + (v % r)
OBVIOUS

\* The next multiple up and the multiple on the other side of zero are multiples.
LEMMA NextMultiple ==
  ASSUME NEW k \in Int, NEW r \in Nat \ {0}
  PROVE  k * r + r = (k + 1) * r /\ -(k * r) = (-k) * r /\ k * r \in Int
OBVIOUS

\* A number less a multiple of the same is a multiple.
LEMMA MultipleDifference ==
  ASSUME NEW k \in Int, NEW m \in Int, NEW r \in Nat \ {0}
  PROVE  k * r - m * r = (k - m) * r /\ k * r + m * r = (k + m) * r
OBVIOUS

\* In the order of the multiples.
LEMMA MultipleOrder ==
  ASSUME NEW k \in Int, NEW m \in Int, NEW r \in Nat \ {0}
  PROVE  (k * r <= m * r) <=> (k <= m)
OBVIOUS

\* How often a divisor fits in a number, and in one that is not less.
LEMMA FloorBetween ==
  ASSUME NEW r \in Nat \ {0}, NEW x \in Nat, NEW y \in Nat, x <= y
  PROVE  LET n == x \div r
             m == y \div r
         IN /\ n \in Nat /\ m \in Int /\ n <= m
            /\ n * r \in Nat /\ n * r <= x /\ x < n * r + r
<1> DEFINE n == x \div r
           m == y \div r
<1>1. n \in Int /\ x % r \in 0..(r - 1) /\ x = n * r + (x % r)
  BY DivMod
<1>2. m \in Int /\ y % r \in 0..(r - 1) /\ y = m * r + (y % r)
  BY DivMod
<1> HIDE DEF n, m
<1>3. n * r \in Int /\ n * r <= x /\ x < n * r + r /\ y < m * r + r /\ m * r \in Int
  BY <1>1, <1>2
<1>4. n >= 0
  <2> SUFFICES ASSUME n + 1 <= 0 PROVE FALSE
    BY <1>1
  <2>1. (n + 1) * r <= 0 * r /\ (n + 1) * r = n * r + r
    BY <1>1, MultipleOrder, NextMultiple
  <2> QED BY <1>3, <2>1
<1>5. n <= m
  <2> SUFFICES ASSUME m + 1 <= n PROVE FALSE
    BY <1>1, <1>2
  <2>1. (m + 1) * r <= n * r /\ (m + 1) * r = m * r + r
    BY <1>1, <1>2, MultipleOrder, NextMultiple
  <2> QED BY <1>3, <2>1
<1>6. n * r \in Nat
  BY <1>1, <1>4
<1> QED BY <1>1, <1>2, <1>3, <1>4, <1>5, <1>6 DEF n, m

\* An integer less its remainder, as C++ takes it, is a multiple at most one
\* resolution away and on the side of zero.
LEMMA RemainderLeavesMultiple ==
  ASSUME NEW v \in Int, NEW r \in Nat \ {0}
  PROVE  /\ remainder(v, r) \in (1 - r)..(r - 1)
         /\ v >= 0 => remainder(v, r) >= 0
         /\ v < 0 => remainder(v, r) <= 0
         /\ \E k \in Int : v - remainder(v, r) = k * r
<1>1. CASE v >= 0
  <2>1. v % r \in 0..(r - 1) /\ v - (v % r) = (v \div r) * r /\ v \div r \in Int
    BY DivMod, NextMultiple
  <2> QED BY <1>1, <2>1 DEF remainder
<1>2. CASE v < 0
  <2> DEFINE u == -v
  <2>1. u \in Int /\ v = -u
    OBVIOUS
  <2> HIDE DEF u
  <2>2. u % r \in 0..(r - 1) /\ u = (u \div r) * r + (u % r) /\ u \div r \in Int
    BY <2>1, DivMod
  <2>3. remainder(v, r) = -(u % r)
    BY <1>2, <2>1 DEF remainder, u
  <2>4. -(u \div r) \in Int /\ v + (u % r) = (-(u \div r)) * r
    BY <2>1, <2>2, NextMultiple
  <2>5. \E k \in Int : v - remainder(v, r) = k * r
    <3> DEFINE k == -(u \div r)
    <3>1. k \in Int /\ v + (u % r) = k * r
      BY <2>4
    <3> HIDE DEF k
    <3>2. v - remainder(v, r) = v + (u % r)
      BY <2>1, <2>2, <2>3
    <3> QED BY <3>1, <3>2
  <2>6. remainder(v, r) \in (1 - r)..(r - 1) /\ remainder(v, r) <= 0
    BY <2>2, <2>3
  <2> QED BY <1>2, <2>5, <2>6
<1> QED BY <1>1, <1>2

\* Rounding gives a multiple of the resolution, less than one resolution
\* away: at most half of one, unless an integer is negative.
LEMMA RoundedNearest ==
  ASSUME NEW whole \in BOOLEAN, NEW v \in Int, NEW r \in Nat \ {0}
  PROVE  LET q == rounded(whole, v, r)
         IN /\ q \in Int
            /\ \E k \in Int : q = k * r
            /\ q - v < r /\ v - q < r
            /\ ~whole \/ v >= 0 => 2 * (q - v) <= r /\ 2 * (v - q) <= r
<1>1. CASE whole
  <2> DEFINE rem == remainder(v, r)
  <2>1. /\ rem \in (1 - r)..(r - 1) /\ (v >= 0 => rem >= 0) /\ (v < 0 => rem <= 0)
        /\ \E k \in Int : v - rem = k * r
    BY RemainderLeavesMultiple
  <2>2. PICK k \in Int : v - rem = k * r
    BY <2>1
  <2>3. rounded(whole, v, r) = IF 2 * rem >= r THEN (k + 1) * r ELSE k * r
    BY <1>1, <2>1, <2>2, NextMultiple DEF rounded
  <2>4. rounded(whole, v, r) = v - rem + (IF 2 * rem >= r THEN r ELSE 0)
    BY <1>1 DEF rounded
  <2>5. k + 1 \in Int /\ \E m \in Int : rounded(whole, v, r) = m * r
    BY <2>3
  <2> HIDE DEF rem
  <2> DEFINE q == rounded(whole, v, r)
  <2>6. q = v - rem + (IF 2 * rem >= r THEN r ELSE 0)
    BY <2>4
  <2>7. \E m \in Int : q = m * r
    BY <2>5
  <2> HIDE DEF q
  <2>8. q \in Int /\ q - v < r /\ v - q < r
    BY <2>1, <2>6
  <2>9. v >= 0 => 2 * (q - v) <= r /\ 2 * (v - q) <= r
    BY <2>1, <2>6
  <2> QED BY <1>1, <2>7, <2>8, <2>9 DEF q
<1>2. CASE ~whole
  <2> DEFINE x == 2 * v + r
             y == 2 * r
             k == x \div y
             m == x % y
  <2>1. x \in Int /\ y \in Nat \ {0} /\ x = 2 * v + r /\ y = 2 * r
    OBVIOUS
  <2>2. rounded(whole, v, r) = k * r
    BY <1>2 DEF rounded
  <2> HIDE DEF x, y
  <2>3. k \in Int /\ m \in 0..(y - 1) /\ x = k * y + m
    BY <2>1, DivMod
  <2> HIDE DEF k, m
  <2>4. k * y = 2 * (k * r) /\ k * r \in Int
    BY <2>1, <2>3
  <2> DEFINE q == k * r
  <2>5. q \in Int /\ 2 * v + r = 2 * q + m /\ m \in 0..(2 * r - 1)
    BY <2>1, <2>3, <2>4
  <2> HIDE DEF q
  <2>6. q - v < r /\ v - q < r /\ 2 * (q - v) <= r /\ 2 * (v - q) <= r
    BY <2>5
  <2> QED BY <1>2, <2>2, <2>3, <2>5, <2>6 DEF q
<1> QED BY <1>1, <1>2

\* Rounding leaves what already is a multiple of the resolution alone.
LEMMA RoundedKeepsMultiples ==
  ASSUME NEW whole \in BOOLEAN, NEW k \in Int, NEW r \in Nat \ {0}
  PROVE  rounded(whole, k * r, r) = k * r
<1> DEFINE v == k * r
           q == rounded(whole, v, r)
<1>1. v \in Int
  OBVIOUS
<1>2. PICK m \in Int : q = m * r
  BY <1>1, RoundedNearest
<1>3. q - v < r /\ v - q < r
  BY <1>1, RoundedNearest
<1>4. m * r - k * r = (m - k) * r /\ k * r - m * r = (k - m) * r
  BY MultipleDifference
<1>5. m - k < 1 /\ k - m < 1
  <2>1. r = 1 * r
    OBVIOUS
  <2>2. ~(1 * r <= (m - k) * r) /\ ~(1 * r <= (k - m) * r)
    BY <1>1, <1>2, <1>3, <1>4, <2>1
  <2> QED BY <2>2, MultipleOrder
<1>6. m = k
  BY <1>5
<1> QED BY <1>2, <1>6

\* quantize() leaves an integer at a resolution that is none alone; any other
\* number goes to a multiple of the resolution, less than one resolution away:
\* at most half of one, unless an integer is negative.
THEOREM QuantizeNearest ==
  ASSUME NEW unit \in Nat, NEW v \in Int, NEW r \in Nat \ {0}
  PROVE  LET q == quantize(unit, v, r)
         IN /\ q \in Int
            /\ fractional(unit, r) => q = v
            /\ ~fractional(unit, r) =>
                 /\ \E k \in Int : q = k * r
                 /\ q - v < r /\ v - q < r
                 /\ unit = 0 \/ v >= 0 => 2 * (q - v) <= r /\ 2 * (v - q) <= r
<1> DEFINE q == quantize(unit, v, r)
           whole == unit > 0
<1>1. CASE fractional(unit, r)
  BY <1>1 DEF quantize
<1>2. CASE ~fractional(unit, r)
  <2>1. whole \in BOOLEAN /\ q = rounded(whole, v, r)
    BY <1>2 DEF quantize
  <2>2. unit = 0 => ~whole
    OBVIOUS
  <2> HIDE DEF q, whole
  <2>3. /\ q \in Int /\ \E k \in Int : q = k * r
        /\ q - v < r /\ v - q < r
        /\ ~whole \/ v >= 0 => 2 * (q - v) <= r /\ 2 * (v - q) <= r
    BY <2>1, RoundedNearest
  <2> QED BY <1>2, <2>2, <2>3 DEF q
<1> QED BY <1>1, <1>2

\* quantize() leaves what already is a multiple of the resolution alone.
THEOREM QuantizeKeepsMultiples ==
  ASSUME NEW unit \in Nat, NEW k \in Int, NEW r \in Nat \ {0}
  PROVE  quantize(unit, k * r, r) = k * r
<1> DEFINE whole == unit > 0
<1>1. whole \in BOOLEAN
  OBVIOUS
<1>2. rounded(whole, k * r, r) = k * r
  <2> HIDE DEF whole
  <2> QED BY <1>1, RoundedKeepsMultiples
<1> QED BY <1>2 DEF quantize

\* What a cast leaves of a number that is not negative.
LEMMA WholePartBelow ==
  ASSUME NEW unit \in Nat, NEW v \in Nat
  PROVE  LET w == whole_part(unit, v)
         IN /\ w \in Nat /\ w <= v /\ (unit > 0 => v - w < unit /\ \E k \in Nat : w = k * unit)
            /\ unit = 0 => w = v
<1>1. CASE unit = 0
  BY <1>1 DEF whole_part
<1>2. CASE unit > 0
  <2> DEFINE k == v \div unit
             m == v % unit
  <2>1. k \in Int /\ m \in 0..(unit - 1) /\ v = k * unit + m
    BY <1>2, DivMod
  <2>2. whole_part(unit, v) = v - m
    BY <1>2 DEF whole_part, remainder
  <2> HIDE DEF k, m
  <2>3. k >= 0
    <3> SUFFICES ASSUME k <= -1 PROVE FALSE
      BY <2>1
    <3>1. k * unit <= (-1) * unit
      BY <1>2, <2>1, MultipleOrder
    <3> QED BY <1>2, <2>1, <3>1
  <2>4. v - m = k * unit /\ k \in Nat
    BY <1>2, <2>1, <2>3, NextMultiple
  <2>5. v - m \in Nat
    BY <1>2, <2>4
  <2> QED BY <1>2, <2>1, <2>2, <2>4, <2>5
<1> QED BY <1>1, <1>2

\* A cast leaves a multiple of the unit alone.
LEMMA WholePartOfMultiple ==
  ASSUME NEW unit \in Nat \ {0}, NEW v \in Int, v % unit = 0
  PROVE  whole_part(unit, v) = v
<1>1. CASE v >= 0
  BY <1>1 DEF whole_part, remainder
<1>2. CASE v < 0
  <2> DEFINE u == v \div unit
  <2>1. u \in Int /\ v = u * unit
    BY DivMod
  <2> HIDE DEF u
  <2>2. -v = (-u) * unit /\ -u \in Int
    BY <2>1
  <2>3. (-v) % unit = 0
    BY <2>2, MultipleDiv
  <2> QED BY <1>2, <2>3 DEF whole_part, remainder
<1> QED BY <1>1, <1>2

\* A number of resolutions that are of whole units is cut nowhere.
LEMMA WholeResolutions ==
  ASSUME NEW unit \in Nat, NEW r \in Nat \ {0}, ~fractional(unit, r), NEW k \in Int
  PROVE  whole_part(unit, k * r) = k * r
<1>1. CASE unit = 0
  BY <1>1 DEF whole_part
<1>2. CASE unit > 0
  <2>1. r % unit = 0 /\ unit \in Nat \ {0}
    BY <1>2 DEF fractional
  <2> DEFINE m == r \div unit
  <2>2. m \in Int /\ r = m * unit
    BY <2>1, DivMod
  <2> HIDE DEF m
  <2>3. k * r = (k * m) * unit /\ k * m \in Int
    BY <2>1, <2>2
  <2>4. (k * r) % unit = 0 /\ k * r \in Int
    BY <2>1, <2>3, MultipleDiv
  <2> QED BY <2>1, <2>4, WholePartOfMultiple
<1> QED BY <1>1, <1>2

-----------------------------------------------------------------------------
(* On the wire and back *)

\* What validate() checks: the minimum and the maximum are multiples.
LEMMA BoundsAreMultiples ==
  ASSUME NEW f, Bounded(f), valid(f)
  PROVE  /\ f.res \in Nat \ {0}
         /\ \E a \in Int, b \in Int : f.min = a * f.res /\ f.max = b * f.res /\ a <= b
<1>1. f.res \in Nat \ {0} /\ f.min \in Int /\ f.max \in Int /\ f.unit \in Nat
  BY DEF Bounded, valid
<1>m. quantize(0, f.min, f.res) = f.min /\ quantize(0, f.max, f.res) = f.max
  BY DEF valid
<1> DEFINE qmin == quantize(0, f.min, f.res)
           qmax == quantize(0, f.max, f.res)
<1>n. (\E k \in Int : qmin = k * f.res) /\ (\E k \in Int : qmax = k * f.res)
  <2>1. ~fractional(0, f.res) /\ 0 \in Nat
    BY DEF fractional
  <2> QED BY <1>1, <2>1, QuantizeNearest
<1> HIDE DEF qmin, qmax
<1>2. PICK a \in Int : f.min = a * f.res
  BY <1>m, <1>n DEF qmin
<1>3. PICK b \in Int : f.max = b * f.res
  BY <1>m, <1>n DEF qmax
<1>4. a <= b
  BY <1>1, <1>2, <1>3, MultipleOrder DEF valid
<1> QED BY <1>1, <1>2, <1>3, <1>4

\* At a resolution that is not fractional the count of resolutions of a value in
\* bounds is the quantile's, and what is read back from it is the quantile.
LEMMA RoundedRoundTrip ==
  ASSUME NEW f, Bounded(f), valid(f), NEW v \in Int, in_bounds(f, v),
         ~fractional(f.unit, f.res)
  PROVE  /\ to_wire(f, v) \in null_values(f)..(wire_values(f) - 1)
         /\ from_wire(f, to_wire(f, v)) = quantize(f.unit, v, f.res)
<1> DEFINE r == f.res
           q == quantize(f.unit, v, r)
           none == null_values(f)
<1>1. r \in Nat \ {0} /\ f.unit \in Nat /\ f.required \in BOOLEAN
  BY BoundsAreMultiples DEF Bounded
<1>2. PICK a \in Int, b \in Int : f.min = a * r /\ f.max = b * r /\ a <= b
  BY BoundsAreMultiples
<1>3. PICK k \in Int : q = k * r
  BY <1>1, QuantizeNearest
<1>4. a <= k /\ k <= b
  BY <1>1, <1>2, <1>3, MultipleOrder DEF in_bounds
<1>5. none \in {0, 1} /\ (none = 0 <=> f.required)
  BY <1>1 DEF null_values
<1>6. to_wire(f, v) = k - a + none
  <2>1. to_wire(f, v) = (q - f.min) \div r + none
    BY NullAssumption DEF to_wire
  <2>2. q - f.min = (k - a) * r
    BY <1>1, <1>2, <1>3, MultipleDifference
  <2>3. ((k - a) * r) \div r = k - a
    BY <1>1, MultipleDiv
  <2> QED BY <2>1, <2>2, <2>3
<1>7. wire_values(f) = b - a + 1 + none
  <2>1. f.max - f.min = (b - a) * r
    BY <1>1, <1>2, MultipleDifference
  <2>2. ((b - a) * r) \div r = b - a
    BY <1>1, MultipleDiv
  <2> QED BY <2>1, <2>2 DEF wire_values
<1>8. from_wire(f, k - a + none) = q
  <2>1. ~(~f.required /\ k - a + none = 0)
    <3>1. CASE f.required
      BY <3>1
    <3>2. CASE ~f.required
      <4>1. none = 1
        BY <1>5, <3>2
      <4> HIDE DEF none
      <4>2. k - a + none > 0
        BY <1>4, <4>1
      <4> QED BY <4>2
    <3> QED BY <3>1, <3>2
  <2> DEFINE n == k - a + none
  <2>2. n - none = k - a /\ ~(~f.required /\ n = 0)
    BY <1>5, <2>1
  <2> HIDE DEF n
  <2>3. from_wire(f, n) = quantize(f.unit, whole_part(f.unit, (n - none) * r) + f.min, r)
    BY <2>2 DEF from_wire
  <2>w. whole_part(f.unit, (k - a) * r) = (k - a) * r
    BY <1>1, WholeResolutions
  <2>4. (k - a) * r + a * r = (k - a + a) * r /\ k - a + a = k
    BY <1>1, MultipleDifference
  <2>5. quantize(f.unit, k * r, r) = k * r
    BY <1>1, QuantizeKeepsMultiples
  <2>6. from_wire(f, n) = q
    BY <1>2, <1>3, <2>2, <2>3, <2>4, <2>5, <2>w
  <2> QED BY <2>6 DEF n
<1> HIDE DEF r, q, none
<1>9. k - a + none \in none..(b - a + 1 + none - 1)
  BY <1>4, <1>5
<1>10. to_wire(f, v) \in none..(wire_values(f) - 1)
  <2>1. none \in Int
    BY <1>5
  <2>2. wire_values(f) - 1 = b - a + 1 + none - 1
    BY <1>7, <2>1
  <2> QED BY <1>6, <1>9, <2>1, <2>2
<1>11. from_wire(f, to_wire(f, v)) = q
  BY <1>6, <1>8
<1> QED BY <1>10, <1>11 DEF r, q, none

\* At one that is fractional the count is what fits below the value, and as much
\* as that is read, cut to the type.
LEMMA FractionalRoundTrip ==
  ASSUME NEW f, Bounded(f), valid(f), NEW v \in Int, in_bounds(f, v),
         fractional(f.unit, f.res)
  PROVE  LET r == from_wire(f, to_wire(f, v))
         IN /\ to_wire(f, v) \in null_values(f)..(wire_values(f) - 1)
            /\ r \in Int /\ f.min <= r /\ r <= v /\ v - r < f.res + f.unit
<1> DEFINE res == f.res
           none == null_values(f)
           x == v - f.min
           n == x \div res
           span == f.max - f.min
           room == span \div res
           w == whole_part(f.unit, n * res)
<1>1. /\ res \in Nat \ {0} /\ f.unit \in Nat \ {0} /\ f.required \in BOOLEAN
      /\ f.min \in Int /\ f.max \in Int
  BY BoundsAreMultiples DEF Bounded, fractional
<1>2. quantize(f.unit, v, res) = v
  BY DEF quantize
<1>3. f.min <= v /\ v <= f.max
  BY <1>2 DEF in_bounds
<1>4. none \in {0, 1} /\ (none = 0 <=> f.required)
  BY <1>1 DEF null_values
<1>5. x \in Nat /\ span \in Nat /\ x <= span
  BY <1>1, <1>3
<1>6. to_wire(f, v) = n + none /\ wire_values(f) = room + 1 + none
  BY <1>2, NullAssumption DEF to_wire, wire_values
<1>7. n \in Nat /\ n <= room /\ room \in Int /\ n * res \in Nat /\ n * res <= x /\ x < n * res + res
  <2> HIDE DEF x, span
  <2> QED BY <1>1, <1>5, FloorBetween
<1>8. w \in Nat /\ w <= n * res /\ n * res - w < f.unit
  <2> DEFINE x1 == n * res
  <2>1. x1 \in Nat /\ f.unit \in Nat /\ f.unit > 0
    BY <1>1, <1>7
  <2> HIDE DEF n, x1
  <2>2. /\ whole_part(f.unit, x1) \in Nat /\ whole_part(f.unit, x1) <= x1
        /\ x1 - whole_part(f.unit, x1) < f.unit
    BY <2>1, WholePartBelow
  <2> QED BY <2>2 DEF x1
<1> HIDE DEF none, n, room, w
<1>9. from_wire(f, n + none) = w + f.min
  <2> DEFINE c == n + none
  <2>1. c - none = n /\ ~(~f.required /\ c = 0)
    BY <1>4, <1>7
  <2> HIDE DEF c
  <2>2. from_wire(f, c) = quantize(f.unit, whole_part(f.unit, (c - none) * res) + f.min, res)
    BY <2>1 DEF from_wire, none
  <2>3. from_wire(f, c) = w + f.min
    BY <2>1, <2>2 DEF quantize, w
  <2> QED BY <2>3 DEF c
<1>10. to_wire(f, v) \in none..(wire_values(f) - 1)
  BY <1>4, <1>6, <1>7
<1>11. w + f.min \in Int /\ f.min <= w + f.min /\ w + f.min <= v /\ v - (w + f.min) < res + f.unit
  BY <1>1, <1>7, <1>8
<1> QED BY <1>6, <1>9, <1>10, <1>11 DEF none

\* The count of resolutions of a value in bounds is at least none and less
\* than what the size makes room for: Bitset(size(), value) loses nothing.
\* What is read back from that count is the quantile; at a fractional resolution
\* of an integer it is less than a resolution and a unit below the value.
THEOREM InBoundsRoundTrip ==
  ASSUME NEW f, Bounded(f), valid(f), NEW v \in Int, in_bounds(f, v)
  PROVE  LET r == from_wire(f, to_wire(f, v))
         IN /\ to_wire(f, v) \in null_values(f)..(wire_values(f) - 1)
            /\ ~fractional(f.unit, f.res) => r = quantize(f.unit, v, f.res)
            /\ fractional(f.unit, f.res) =>
                 r \in Int /\ f.min <= r /\ r <= v /\ v - r < f.res + f.unit
BY RoundedRoundTrip, FractionalRoundTrip

\* Where a field may be absent, nothing reads as nothing, and so does a value
\* out of bounds: no value in bounds is mistaken for it.
THEOREM NothingReadsAsNothing ==
  ASSUME NEW f, Bounded(f), valid(f), ~f.required, NEW v \in Int \cup {Null}
  PROVE  (from_wire(f, to_wire(f, v)) = Null) <=> (v = Null \/ ~in_bounds(f, v))
<1>1. CASE v = Null \/ ~in_bounds(f, v)
  BY <1>1 DEF to_wire, from_wire
<1>2. CASE v \in Int /\ in_bounds(f, v)
  <2>1. f.unit \in Nat /\ f.res \in Nat \ {0}
    BY BoundsAreMultiples DEF Bounded
  <2>2. quantize(f.unit, v, f.res) \in Int
    BY <1>2, <2>1, QuantizeNearest
  <2>3. from_wire(f, to_wire(f, v)) \in Int
    BY <1>2, <2>2, InBoundsRoundTrip
  <2> QED BY <1>2, <2>3, NullAssumption
<1> QED BY <1>1, <1>2

-----------------------------------------------------------------------------
(* Times of day *)

\* A term moved to the other side.
LEMMA TakenAway ==
  ASSUME NEW a \in Int, NEW b \in Int, NEW c \in Int, NEW e \in Int, NEW q \in Int,
         a - b + e = q + c
  PROVE  (a - b - c) + e = q
OBVIOUS

\* A span added or taken away, and nothing else, comes of half a span.
LEMMA WithinHalfASpan ==
  ASSUME NEW span \in Nat \ {0}, NEW d \in Int, 2 * d < span, -2 * d < span,
         NEW n \in Int, NEW x \in Int, x = d + n * span, -span < x, x <= span
  PROVE  /\ x > span \div 2 => n = 1
         /\ -x > span \div 2 => n = -1
         /\ ~(x > span \div 2) /\ ~(-x > span \div 2) => n = 0
<1> DEFINE half == span \div 2
<1>1. half \in Int /\ 2 * half <= span /\ span < 2 * half + 2
  OBVIOUS
<1> HIDE DEF half
<1>2. CASE n >= 2
  <2>1. n * span >= 2 * span
    BY <1>2
  <2> QED BY <2>1
<1>3. CASE n <= -2
  <2>1. n * span <= -2 * span
    BY <1>3
  <2> QED BY <2>1
<1>4. CASE n = 1
  <2>1. x = d + span
    BY <1>4
  <2> QED BY <1>1, <1>4, <2>1 DEF half
<1>5. CASE n = -1
  <2>1. x = d - span
    BY <1>5
  <2> QED BY <1>1, <1>5, <2>1 DEF half
<1>6. CASE n = 0
  <2>1. x = d
    BY <1>6
  <2> QED BY <1>1, <1>6, <2>1 DEF half
<1>7. n >= 2 \/ n <= -2 \/ n = 1 \/ n = -1 \/ n = 0
  OBVIOUS
<1> QED BY <1>2, <1>3, <1>4, <1>5, <1>6, <1>7

\* day() of a span and of seconds.
SpanBegin(span, seconds, e) ==
  LET today == seconds % span
  IN IF e - today > span \div 2 THEN seconds - today - span
     ELSE IF today - e > span \div 2 THEN seconds - today + span
     ELSE seconds - today

\* The beginning of the span that e belongs to: today, a span less or a span
\* more.
LEMMA SpanOfTime ==
  ASSUME NEW span \in Nat \ {0}, NEW seconds \in Int, NEW q \in Int, NEW e \in 0..span,
         NEW m \in Int, q = m * span + e,
         2 * (q - seconds) < span, 2 * (seconds - q) < span
  PROVE  SpanBegin(span, seconds, e) + e = q
<1> DEFINE today == seconds % span
           c == seconds \div span
           begin == SpanBegin(span, seconds, e)
<1>5. c \in Int /\ today \in 0..(span - 1) /\ seconds = c * span + today
  BY DivMod
<1>4. begin = IF e - today > span \div 2 THEN seconds - today - span
              ELSE IF today - e > span \div 2 THEN seconds - today + span
              ELSE seconds - today
  BY DEF SpanBegin
<1> SUFFICES begin + e = q
  OBVIOUS
<1> HIDE DEF c, today, begin
<1> DEFINE d == q - seconds
           n == c - m
           x == e - today
<1>7. /\ d \in Int /\ n \in Int /\ x \in Int
      /\ 2 * d < span /\ -2 * d < span /\ -span < x /\ x <= span
  BY <1>5
<1>8. c * span - m * span = n * span /\ c * span \in Int /\ m * span \in Int
  BY <1>5, MultipleDifference
<1>9. x = d + n * span
  BY <1>5, <1>8
<1>10. seconds - today + e = q + n * span
  BY <1>5, <1>8
<1> HIDE DEF d, n, x
<1>11. /\ x > span \div 2 => n = 1
       /\ -x > span \div 2 => n = -1
       /\ ~(x > span \div 2) /\ ~(-x > span \div 2) => n = 0
  BY <1>7, <1>9, WithinHalfASpan
<1>12. x = e - today /\ -x = today - e
  BY <1>5 DEF x
<1> DEFINE half == span \div 2
<1>13. half \in Int
  OBVIOUS
<1> HIDE DEF half
<1>14. CASE x > half
  <2>1. n = 1 /\ n * span = span /\ q + n * span = q + span
    BY <1>11, <1>14 DEF half
  <2>2. begin = seconds - today - span
    BY <1>4, <1>12, <1>14 DEF half
  <2>3. e \in Int /\ q \in Int /\ seconds \in Int /\ today \in Int /\ span \in Int
    BY <1>5
  <2>4. seconds - today + e = q + span
    BY <1>10, <2>1, <2>3
  <2>5. (seconds - today - span) + e = q
    BY <2>3, <2>4, TakenAway
  <2> QED BY <2>2, <2>3, <2>5
<1>15. CASE -x > half /\ ~(x > half)
  <2>1. n = -1 /\ n * span = -span /\ q + n * span = q + (-span)
    BY <1>11, <1>15 DEF half
  <2>2. begin = seconds - today + span
    BY <1>4, <1>12, <1>15 DEF half
  <2>3. e \in Int /\ q \in Int /\ seconds \in Int /\ today \in Int /\ span \in Int
    BY <1>5
  <2>4. seconds - today + e = q - span
    BY <1>10, <2>1, <2>3
  <2>5. (seconds - today + span) + e = q
    BY <2>3, <2>4
  <2> QED BY <2>2, <2>3, <2>5
<1>16. CASE ~(x > half) /\ ~(-x > half)
  <2>1. n = 0 /\ n * span = 0 /\ q + n * span = q + (0)
    BY <1>11, <1>16 DEF half
  <2>2. begin = seconds - today
    BY <1>4, <1>12, <1>16 DEF half
  <2>3. e \in Int /\ q \in Int /\ seconds \in Int /\ today \in Int /\ span \in Int
    BY <1>5
  <2>4. seconds - today + e = q
    BY <1>10, <2>1, <2>3
  <2>5. (seconds - today) + e = q
    BY <2>3, <2>4
  <2> QED BY <2>2, <2>3, <2>5
<1> QED BY <1>14, <1>15, <1>16

\* A time q that went on the wire as e, which is q less some spans, reads as q
\* by every clock less than half a span away from it.
THEOREM TimeReadsNearest ==
  ASSUME NEW f, f.max \in Nat \ {0}, f.second \in Nat \ {0},
         NEW clock \in Int, NEW q \in Int, NEW e \in 0..f.max,
         \E m \in Int : q = m * f.max + e,
         2 * (q - (clock - (clock % f.second))) < f.max,
         2 * ((clock - (clock % f.second)) - q) < f.max
  PROVE  day(f, e, clock) + e = q
<1> DEFINE second == f.second
           seconds == clock - (clock % second)
<1>1. second \in Nat \ {0}
  OBVIOUS
<1>2. PICK m \in Int : q = m * f.max + e
  OBVIOUS
<1>3. 2 * (q - seconds) < f.max /\ 2 * (seconds - q) < f.max
  OBVIOUS
<1>4. day(f, e, clock) = SpanBegin(f.max, seconds, e)
  BY DEF day, SpanBegin
<1> HIDE DEF second
<1>5. seconds \in Int
  BY <1>1, DivMod
<1> HIDE DEF seconds
<1>6. SpanBegin(f.max, seconds, e) + e = q
  BY <1>2, <1>3, <1>5, SpanOfTime
<1> QED BY <1>4, <1>6

\* Induction over the natural numbers, for sets.
LEMMA NatSetInduction ==
  ASSUME NEW T, 0 \in T, \A n \in Nat : n \in T => n + 1 \in T
  PROVE  Nat \subseteq T
<1> SUFFICES ASSUME NEW b \in Nat, b \notin T PROVE FALSE
  OBVIOUS
<1> DEFINE R == OpToRel(<, Nat)
           B == Nat \ T
<1>1. IsWellFoundedOn(R, Nat)
  BY NatLessThanWellFounded
<1>2. B \subseteq Nat /\ B # {}
  OBVIOUS
<1>3. \A x, y \in Nat : x < y => <<x, y>> \in R
  BY DEF OpToRel
<1> HIDE DEF R, B
<1>4. PICK x \in B : \A y \in B : ~ (<<y, x>> \in R)
  BY <1>1, <1>2, WFMin
<1>5. x \in Nat /\ x # 0 /\ x - 1 \in Nat /\ x - 1 < x
  BY <1>4 DEF B
<1>6. x - 1 \notin B
  BY <1>3, <1>4, <1>5
<1> QED
  BY <1>4, <1>5, <1>6 DEF B

\* There is a function that doubles as far as n.
LEMMA PowersExist ==
  ASSUME NEW N \in Nat
  PROVE  \E g : g = [i \in 0..N |-> IF i = 0 THEN 1 ELSE 2 * g[i - 1]]
<1> DEFINE T == {n \in Nat : \E g : g = [i \in 0..n |-> IF i = 0 THEN 1 ELSE 2 * g[i - 1]]}
<1>1. 0 \in T
  <2> DEFINE g == [i \in 0..0 |-> 1]
  <2>1. g = [i \in 0..0 |-> IF i = 0 THEN 1 ELSE 2 * g[i - 1]]
    OBVIOUS
  <2> QED
    BY <2>1
<1>2. \A n \in Nat : n \in T => n + 1 \in T
  <2> SUFFICES ASSUME NEW n \in Nat, n \in T PROVE n + 1 \in T
    OBVIOUS
  <2>1. PICK g : g = [i \in 0..n |-> IF i = 0 THEN 1 ELSE 2 * g[i - 1]]
    OBVIOUS
  <2>2. \A i \in 0..n : g[i] = IF i = 0 THEN 1 ELSE 2 * g[i - 1]
    BY <2>1
  <2> DEFINE f == [i \in 0..n + 1 |-> IF i = n + 1 THEN 2 * g[n] ELSE g[i]]
  <2>3. \A i \in 0..n + 1 : f[i] = IF i = n + 1 THEN 2 * g[n] ELSE g[i]
    OBVIOUS
  <2>4. f = [i \in 0..n + 1 |-> f[i]]
    OBVIOUS
  <2> HIDE DEF f
  <2>5. \A i \in 0..n + 1 : f[i] = IF i = 0 THEN 1 ELSE 2 * f[i - 1]
    <3> SUFFICES ASSUME NEW i \in 0..n + 1 PROVE f[i] = IF i = 0 THEN 1 ELSE 2 * f[i - 1]
      OBVIOUS
    <3>1. CASE i = n + 1
      <4>1. i # 0 /\ i - 1 = n /\ n \in 0..n + 1 /\ n # n + 1
        BY <3>1
      <4>2. f[i] = 2 * g[n] /\ f[i - 1] = g[n]
        BY <2>3, <3>1, <4>1
      <4> QED
        BY <4>1, <4>2
    <3>2. CASE i # n + 1
      <4>1. i \in 0..n /\ f[i] = g[i]
        BY <2>3, <3>2
      <4>2. i # 0 => i - 1 \in 0..n + 1 /\ i - 1 # n + 1
        BY <4>1
      <4>3. i # 0 => f[i - 1] = g[i - 1]
        BY <2>3, <4>2
      <4> QED
        BY <2>2, <4>1, <4>3
    <3> QED
      BY <3>1, <3>2
  <2>6. f = [i \in 0..n + 1 |-> IF i = 0 THEN 1 ELSE 2 * f[i - 1]]
    BY <2>4, <2>5
  <2> QED
    BY <2>6
<1> HIDE DEF T
<1>3. N \in T
  BY <1>1, <1>2, NatSetInduction
<1> QED
  BY <1>3 DEF T

\* The functions that double up to some n and to a greater one agree.
LEMMA PowersAgree ==
  ASSUME NEW N \in Nat, NEW g, NEW h,
         \A i \in 0..N : g[i] = IF i = 0 THEN 1 ELSE 2 * g[i - 1],
         \A i \in 0..N : h[i] = IF i = 0 THEN 1 ELSE 2 * h[i - 1]
  PROVE  \A n \in 0..N : g[n] = h[n] /\ g[n] \in Nat \ {0}
<1> DEFINE T == {n \in Nat : n <= N => g[n] = h[n] /\ g[n] \in Nat \ {0}}
<1>1. 0 \in T
  OBVIOUS
<1>2. \A n \in Nat : n \in T => n + 1 \in T
  <2> SUFFICES ASSUME NEW n \in Nat, n \in T, n + 1 <= N
               PROVE  g[n + 1] = h[n + 1] /\ g[n + 1] \in Nat \ {0}
    OBVIOUS
  <2>1. g[n] = h[n] /\ g[n] \in Nat \ {0}
    OBVIOUS
  <2>2. n + 1 \in 0..N /\ n + 1 # 0 /\ (n + 1) - 1 = n
    OBVIOUS
  <2>3. g[n + 1] = 2 * g[n] /\ h[n + 1] = 2 * h[n]
    BY <2>2
  <2> QED
    BY <2>1, <2>3
<1> HIDE DEF T
<1>3. Nat \subseteq T
  BY <1>1, <1>2, NatSetInduction
<1> QED
  BY <1>3 DEF T

\* What pow2() is built from.
LEMMA Pow2Is ==
  /\ pow2(0) = 1
  /\ \A n \in Nat : pow2(n) \in Nat \ {0} /\ pow2(n + 1) = 2 * pow2(n)
<1> DEFINE P(n, g) == g = [i \in 0..n |-> IF i = 0 THEN 1 ELSE 2 * g[i - 1]]
<1>1. ASSUME NEW n \in Nat
      PROVE  \E g : P(n, g) /\ pow2(n) = g[n]
  <2> DEFINE c == CHOOSE g : P(n, g)
  <2>1. P(n, c)
    BY PowersExist
  <2>2. pow2(n) = c[n]
    BY DEF pow2
  <2> QED
    BY <2>1, <2>2
<1>2. ASSUME NEW n \in Nat, NEW g, P(n, g)
      PROVE  \A i \in 0..n : g[i] = IF i = 0 THEN 1 ELSE 2 * g[i - 1]
  BY <1>2
<1> HIDE DEF P
<1>3. pow2(0) = 1
  <2>1. PICK g : P(0, g) /\ pow2(0) = g[0]
    BY <1>1
  <2> QED
    BY <1>2, <2>1
<1>4. ASSUME NEW n \in Nat
      PROVE  pow2(n) \in Nat \ {0} /\ pow2(n + 1) = 2 * pow2(n)
  <2>1. PICK g : P(n, g) /\ pow2(n) = g[n]
    BY <1>1
  <2>2. PICK h : P(n + 1, h) /\ pow2(n + 1) = h[n + 1]
    BY <1>1
  <2>3. \A i \in 0..n : g[i] = IF i = 0 THEN 1 ELSE 2 * g[i - 1]
    BY <1>2, <2>1
  <2>4. \A i \in 0..n + 1 : h[i] = IF i = 0 THEN 1 ELSE 2 * h[i - 1]
    BY <1>2, <2>2
  <2>5. \A i \in 0..n : h[i] = IF i = 0 THEN 1 ELSE 2 * h[i - 1]
    BY <2>4
  <2>6. g[n] = h[n] /\ g[n] \in Nat \ {0}
    <3>1. \A i \in 0..n : g[i] = h[i] /\ g[i] \in Nat \ {0}
      BY <2>3, <2>5, PowersAgree
    <3> QED
      BY <3>1
  <2>7. n + 1 \in 0..n + 1 /\ n + 1 # 0 /\ (n + 1) - 1 = n
    OBVIOUS
  <2>8. h[n + 1] = 2 * h[n]
    BY <2>4, <2>7
  <2> QED
    BY <2>1, <2>2, <2>6, <2>8
<1> QED
  BY <1>3, <1>4

\* Powers add up.
LEMMA Pow2Plus ==
  ASSUME NEW a \in Nat, NEW b \in Nat
  PROVE  pow2(a + b) = pow2(a) * pow2(b)
<1> DEFINE T == {n \in Nat : pow2(a + n) = pow2(a) * pow2(n)}
<1>1. pow2(a) \in Nat \ {0} /\ pow2(0) = 1 /\ a + 0 = a
  BY Pow2Is
<1>2. 0 \in T
  BY <1>1
<1>3. \A n \in Nat : n \in T => n + 1 \in T
  <2> SUFFICES ASSUME NEW n \in Nat, n \in T
               PROVE  pow2(a + (n + 1)) = pow2(a) * pow2(n + 1)
    OBVIOUS
  <2>1. a + n \in Nat /\ a + (n + 1) = (a + n) + 1
    OBVIOUS
  <2>2. pow2((a + n) + 1) = 2 * pow2(a + n) /\ pow2(n + 1) = 2 * pow2(n) /\ pow2(n) \in Nat
    BY <2>1, Pow2Is
  <2>3. pow2(a + n) = pow2(a) * pow2(n)
    OBVIOUS
  <2>4. 2 * (pow2(a) * pow2(n)) = pow2(a) * (2 * pow2(n))
    BY <1>1, <2>2
  <2> QED
    BY <2>1, <2>2, <2>3, <2>4
<1> HIDE DEF T
<1>4. b \in T
  BY <1>2, <1>3, NatSetInduction
<1> QED
  BY <1>4 DEF T
\* A greater power is not smaller.
LEMMA Pow2Order ==
  ASSUME NEW a \in Nat, NEW b \in Nat, a <= b
  PROVE  pow2(a) <= pow2(b) /\ pow2(b) = pow2(a) * pow2(b - a)
<1>1. PICK d \in Nat : d = b - a /\ b = a + d
  OBVIOUS
<1>2. pow2(b) = pow2(a) * pow2(d)
  BY <1>1, Pow2Plus
<1> DEFINE x == pow2(a)
           y == pow2(d)
<1>3. x \in Nat \ {0} /\ y \in Nat \ {0}
  BY <1>1, Pow2Is
<1> HIDE DEF x, y
<1>4. x <= x * y
  BY <1>3
<1> QED
  BY <1>1, <1>2, <1>4 DEF x, y

\* There is a function that adds up the bits of bs as far as N.
LEMMA SumsExist ==
  ASSUME NEW N \in Nat, NEW bs
  PROVE  \E g : g = [i \in 0..N |-> IF i = 0 THEN 0 ELSE g[i - 1] + bs[i] * pow2(i - 1)]
<1> DEFINE W(i) == bs[i] * pow2(i - 1)
<1> HIDE DEF W
<1> DEFINE T == {n \in Nat : \E g : g = [i \in 0..n |-> IF i = 0 THEN 0 ELSE g[i - 1] + W(i)]}
<1>1. 0 \in T
  <2> DEFINE g == [i \in 0..0 |-> 0]
  <2>1. g = [i \in 0..0 |-> IF i = 0 THEN 0 ELSE g[i - 1] + W(i)]
    OBVIOUS
  <2> QED
    BY <2>1
<1>2. \A n \in Nat : n \in T => n + 1 \in T
  <2> SUFFICES ASSUME NEW n \in Nat, n \in T PROVE n + 1 \in T
    OBVIOUS
  <2>1. PICK g : g = [i \in 0..n |-> IF i = 0 THEN 0 ELSE g[i - 1] + W(i)]
    OBVIOUS
  <2>2. \A i \in 0..n : g[i] = IF i = 0 THEN 0 ELSE g[i - 1] + W(i)
    BY <2>1
  <2> DEFINE f == [i \in 0..n + 1 |-> IF i = n + 1 THEN g[n] + W(n + 1) ELSE g[i]]
  <2>3. \A i \in 0..n + 1 : f[i] = IF i = n + 1 THEN g[n] + W(n + 1) ELSE g[i]
    OBVIOUS
  <2>4. f = [i \in 0..n + 1 |-> f[i]]
    OBVIOUS
  <2> HIDE DEF f
  <2>5. \A i \in 0..n + 1 : f[i] = IF i = 0 THEN 0 ELSE f[i - 1] + W(i)
    <3> SUFFICES ASSUME NEW i \in 0..n + 1 PROVE f[i] = IF i = 0 THEN 0 ELSE f[i - 1] + W(i)
      OBVIOUS
    <3>1. CASE i = n + 1
      <4>1. i # 0 /\ i - 1 = n /\ n \in 0..n + 1 /\ n # n + 1
        BY <3>1
      <4>2. f[i] = g[n] + W(i) /\ f[i - 1] = g[n]
        BY <2>3, <3>1, <4>1
      <4> QED
        BY <4>1, <4>2
    <3>2. CASE i # n + 1
      <4>1. i \in 0..n /\ f[i] = g[i]
        BY <2>3, <3>2
      <4>2. i # 0 => i - 1 \in 0..n + 1 /\ i - 1 # n + 1
        BY <4>1
      <4>3. i # 0 => f[i - 1] = g[i - 1]
        BY <2>3, <4>2
      <4> QED
        BY <2>2, <4>1, <4>3
    <3> QED
      BY <3>1, <3>2
  <2>6. f = [i \in 0..n + 1 |-> IF i = 0 THEN 0 ELSE f[i - 1] + W(i)]
    BY <2>4, <2>5
  <2> QED
    BY <2>6
<1> HIDE DEF T
<1>3. N \in T
  BY <1>1, <1>2, NatSetInduction
<1> QED
  BY <1>3 DEF T, W

\* ulong() adds up bits by what they are worth.
LEMMA UlongIs ==
  ASSUME NEW bs, Len(bs) \in Nat
  PROVE  \E first : /\ first[0] = 0
                    /\ \A i \in 1..Len(bs) : first[i] = first[i - 1] + bs[i] * pow2(i - 1)
                    /\ ulong(bs) = first[Len(bs)]
<1> DEFINE N == Len(bs)
           W(i) == bs[i] * pow2(i - 1)
           P(g) == g = [i \in 0..N |-> IF i = 0 THEN 0 ELSE g[i - 1] + W(i)]
           c == CHOOSE g : P(g)
<1>1. P(c)
  BY SumsExist
<1>2. ulong(bs) = c[N]
  BY DEF ulong
<1> HIDE DEF W, c
<1>3. \A i \in 0..N : c[i] = IF i = 0 THEN 0 ELSE c[i - 1] + W(i)
  BY <1>1
<1>4. c[0] = 0 /\ \A i \in 1..N : c[i] = c[i - 1] + W(i)
  BY <1>3
<1> QED
  BY <1>2, <1>4 DEF W

\* The only quotient and remainder there are.
LEMMA DivUnique ==
  ASSUME NEW n \in Int, NEW r \in Nat \ {0}, NEW q \in Int, NEW m \in 0..r - 1, n = q * r + m
  PROVE  n \div r = q /\ n % r = m
<1> DEFINE k == n \div r
           e == n % r
<1>1. k \in Int /\ e \in 0..r - 1 /\ n = k * r + e
  BY DivMod
<1> HIDE DEF k, e
<1>2. k * r - q * r = (k - q) * r /\ q * r - k * r = (q - k) * r
  BY <1>1, MultipleDifference
<1>3. (k - q) * r = m - e /\ (q - k) * r = e - m
  <2>1. k * r \in Int /\ q * r \in Int
    BY <1>1
  <2> QED
    BY <1>1, <1>2, <2>1
<1>4. ~(1 * r <= (k - q) * r) /\ ~(1 * r <= (q - k) * r)
  <2>1. m - e < r /\ e - m < r /\ 1 * r = r
    BY <1>1
  <2> QED
    BY <1>1, <1>3, <2>1
<1>5. ~(1 <= k - q) /\ ~(1 <= q - k)
  BY <1>1, <1>4, MultipleOrder
<1>6. k = q
  BY <1>1, <1>5
<1>7. e = m
  <2>1. q * r \in Int
    OBVIOUS
  <2> QED
    BY <1>1, <1>6, <2>1
<1> QED
  BY <1>6, <1>7 DEF k, e

\* Dividing twice is dividing by the product.
LEMMA DivTwice ==
  ASSUME NEW n \in Nat, NEW p \in Nat \ {0}, NEW q \in Nat \ {0}
  PROVE  (n \div p) \div q = n \div (p * q) /\ n \div p \in Nat
<1> DEFINE k == n \div p
           a == n % p
           j == k \div q
           b == k % q
<1>1. k \in Int /\ a \in 0..p - 1 /\ n = k * p + a
  BY DivMod
<1> HIDE DEF k, a
<1>2. j \in Int /\ b \in 0..q - 1 /\ k = j * q + b
  BY <1>1, DivMod
<1> HIDE DEF j, b
<1>3. n = j * (p * q) + (b * p + a)
  <2>1. (j * q + b) * p = j * (p * q) + b * p
    BY <1>2
  <2>2. b * p \in Int /\ j * (p * q) \in Int
    BY <1>2
  <2> QED
    BY <1>1, <1>2, <2>1, <2>2
<1>4. p * q \in Nat \ {0} /\ b * p + a \in 0..(p * q) - 1
  <2>1. p * q \in Nat \ {0} /\ b * p \in Nat
    BY <1>2
  <2>2. (b + 1) * p <= q * p
    BY <1>2, MultipleOrder
  <2>3. (b + 1) * p = b * p + p /\ q * p = p * q
    BY <1>2
  <2> QED
    BY <1>1, <2>1, <2>2, <2>3
<1>5. n \div (p * q) = j
  BY <1>2, <1>3, <1>4, DivUnique
<1>6. k \in Nat
  <2>1. CASE k <= -1
    <3>1. k * p <= (-1) * p
      BY <1>1, <2>1, MultipleOrder
    <3>2. k * p \in Int /\ (-1) * p = -p
      BY <1>1
    <3> QED
      BY <1>1, <3>1, <3>2
  <2> QED
    BY <1>1, <2>1
<1> QED
  BY <1>5, <1>6 DEF j, k

-----------------------------------------------------------------------------
(* Numbers as bits *)

Bit == {0, 1}

\* bits() makes as many bits as it is asked for.
LEMMA BitsIs ==
  ASSUME NEW n \in Nat, NEW length \in Nat
  PROVE  /\ bits(n, length) \in Seq(Bit) /\ Len(bits(n, length)) = length
         /\ \A b \in 1..length : bits(n, length)[b] = (n \div pow2(b - 1)) % 2
<1>1. ASSUME NEW b \in 1..length PROVE (n \div pow2(b - 1)) % 2 \in Bit
  <2>1. b - 1 \in Nat /\ pow2(b - 1) \in Nat \ {0}
    BY Pow2Is
  <2> DEFINE k == n \div pow2(b - 1)
  <2>2. k \in Int
    BY <2>1, DivMod
  <2> HIDE DEF k
  <2>3. k % 2 \in 0..1
    BY <2>2
  <2> QED
    BY <2>3 DEF k, Bit
<1>2. bits(n, length) = [b \in 1..length |-> (n \div pow2(b - 1)) % 2]
  BY DEF bits
<1> DEFINE V(b) == (n \div pow2(b - 1)) % 2
<1>3. \A b \in 1..length : V(b) \in Bit
  BY <1>1
<1>4. bits(n, length) = [b \in 1..length |-> V(b)]
  BY <1>2
<1> HIDE DEF V
<1>5. /\ bits(n, length) \in Seq(Bit) /\ Len(bits(n, length)) = length
      /\ \A b \in 1..length : bits(n, length)[b] = V(b)
  BY <1>3, <1>4
<1> QED
  BY <1>5 DEF V

\* ulong() takes back what bits() did to a number that has room.
LEMMA UlongOfBits ==
  ASSUME NEW n \in Nat, NEW length \in Nat, n < pow2(length)
  PROVE  ulong(bits(n, length)) = n
<1> DEFINE bs == bits(n, length)
<1>1. Len(bs) = length /\ \A b \in 1..length : bs[b] = (n \div pow2(b - 1)) % 2
  BY BitsIs
<1> HIDE DEF bs
<1>2. PICK s : /\ s[0] = 0
               /\ \A i \in 1..length : s[i] = s[i - 1] + bs[i] * pow2(i - 1)
               /\ ulong(bs) = s[length]
  BY <1>1, UlongIs
<1> DEFINE T == {i \in Nat : i <= length => s[i] \in Int /\ n = (n \div pow2(i)) * pow2(i) + s[i]}
<1>3. 0 \in T
  <2>1. pow2(0) = 1 /\ n \div 1 = n /\ n * 1 + 0 = n
    BY Pow2Is
  <2> QED
    BY <1>2, <2>1
<1>4. \A i \in Nat : i \in T => i + 1 \in T
  <2> SUFFICES ASSUME NEW i \in Nat, i \in T, i + 1 <= length
               PROVE  s[i + 1] \in Int /\ n = (n \div pow2(i + 1)) * pow2(i + 1) + s[i + 1]
    OBVIOUS
  <2>1. i <= length /\ i + 1 \in 1..length /\ (i + 1) - 1 = i
    OBVIOUS
  <2> DEFINE p == pow2(i)
             k == n \div p
             j == k \div 2
             b == k % 2
  <2>2. s[i] \in Int /\ n = k * p + s[i]
    BY <2>1
  <2>3. p \in Nat \ {0} /\ pow2(i + 1) = 2 * p
    BY Pow2Is
  <2>4. s[i + 1] = s[i] + b * p
    BY <1>1, <1>2, <2>1
  <2>5. n \div (p * 2) = j /\ k \in Nat
    <3> HIDE DEF p
    <3>1. 2 \in Nat \ {0}
      OBVIOUS
    <3>2. (n \div p) \div 2 = n \div (p * 2) /\ n \div p \in Nat
      BY <2>3, <3>1, DivTwice
    <3> QED
      BY <3>2
  <2>6. p * 2 = 2 * p
    BY <2>3
  <2> HIDE DEF p, k
  <2>7. j \in Int /\ b \in 0..1 /\ k = j * 2 + b
    BY <2>5, DivMod
  <2> HIDE DEF j, b
  <2>8. k * p = j * (2 * p) + b * p /\ b * p \in Int /\ j * (2 * p) \in Int
    BY <2>3, <2>7
  <2>9. s[i + 1] \in Int
    BY <2>2, <2>4, <2>8
  <2>10. n = j * (2 * p) + s[i + 1]
    BY <2>2, <2>4, <2>8
  <2>11. n \div pow2(i + 1) = j
    BY <2>3, <2>5, <2>6
  <2> QED
    BY <2>3, <2>9, <2>10, <2>11
<1> HIDE DEF T
<1>5. length \in T
  BY <1>3, <1>4, NatSetInduction
<1>6. s[length] \in Int /\ n = (n \div pow2(length)) * pow2(length) + s[length]
  BY <1>5 DEF T
<1>7. n \div pow2(length) = 0
  <2>1. pow2(length) \in Nat \ {0}
    BY Pow2Is
  <2> DEFINE p == pow2(length)
  <2> HIDE DEF p
  <2>2. 0 * p + n = n /\ n \in 0..p - 1
    BY <2>1 DEF p
  <2>3. n \div p = 0
    BY <2>1, <2>2, DivUnique DEF p
  <2> QED
    BY <2>3 DEF p
<1>8. 0 * pow2(length) = 0
  BY Pow2Is
<1> QED
  BY <1>2, <1>6, <1>7, <1>8 DEF bs

\* Every number has a power of two above it.
LEMMA Pow2Above ==
  ASSUME NEW n \in Nat
  PROVE  n < pow2(n)
<1> DEFINE T == {m \in Nat : m < pow2(m)}
<1>1. 0 \in T
  BY Pow2Is
<1>2. \A m \in Nat : m \in T => m + 1 \in T
  BY Pow2Is
<1> HIDE DEF T
<1>3. n \in T
  BY <1>1, <1>2, NatSetInduction
<1> QED
  BY <1>3 DEF T

\* A set of natural numbers has a least one.
LEMMA LeastIn ==
  ASSUME NEW S, S \subseteq Nat, NEW n \in S
  PROVE  \E k \in S : \A m \in S : k <= m
<1> SUFFICES ASSUME \A k \in S : \E m \in S : ~(k <= m)
             PROVE  FALSE
  OBVIOUS
<1> DEFINE T == {i \in Nat : \A m \in S : i <= m}
<1>1. 0 \in T
  OBVIOUS
<1>2. \A i \in Nat : i \in T => i + 1 \in T
  <2> SUFFICES ASSUME NEW i \in Nat, i \in T, NEW m \in S PROVE i + 1 <= m
    OBVIOUS
  <2>1. i <= m /\ m \in Nat
    OBVIOUS
  <2>2. i # m
    <3> SUFFICES ASSUME i = m PROVE FALSE
      OBVIOUS
    <3>1. PICK l \in S : ~(m <= l)
      OBVIOUS
    <3>2. i <= l
      OBVIOUS
    <3> QED
      BY <3>1, <3>2
  <2> QED
    BY <2>1, <2>2
<1> HIDE DEF T
<1>3. n + 1 \in T
  BY <1>1, <1>2, NatSetInduction
<1> QED
  BY <1>3 DEF T

\* ceil_log2() is the least number of bits that has room for n values.
LEMMA CeilLog2Is ==
  ASSUME NEW n \in Nat \ {0}
  PROVE  ceil_log2(n) \in Nat /\ n <= pow2(ceil_log2(n))
<1> DEFINE S == {k \in Nat : n <= pow2(k)}
<1>1. n \in S
  BY Pow2Above, Pow2Is
<1>2. PICK k \in S : \A m \in S : k <= m
  <2>1. S \subseteq Nat
    OBVIOUS
  <2> HIDE DEF S
  <2> QED
    BY <1>1, <2>1, LeastIn
<1>3. k \in Nat /\ k <= n
  BY <1>1, <1>2
<1>4. ASSUME NEW b \in Nat
      PROVE  pow2(b) < n <=> b <= k - 1
  <2>1. pow2(b) \in Nat /\ pow2(k) \in Nat /\ n <= pow2(k)
    BY <1>2, Pow2Is
  <2>2. CASE b <= k - 1
    <3>1. b \notin S
      BY <1>2, <1>3, <2>2
    <3> QED
      BY <2>1, <2>2, <3>1
  <2>3. CASE k <= b
    <3>1. pow2(k) <= pow2(b)
      BY <1>3, <2>3, Pow2Order
    <3>2. ~(b <= k - 1)
      BY <1>3, <2>3
    <3> QED
      BY <2>1, <3>1, <3>2
  <2> QED
    BY <1>3, <2>2, <2>3
<1>5. {b \in 0..n : pow2(b) < n} = 0..(k - 1)
  BY <1>3, <1>4
<1>6. Cardinality(0..(k - 1)) = k
  <2>1. k - 1 \in Int /\ 0 \in Int
    BY <1>3
  <2>2. Cardinality(0..(k - 1)) = IF 0 > k - 1 THEN 0 ELSE (k - 1) - 0 + 1
    BY <2>1, FS_Interval
  <2> QED
    BY <1>3, <2>2
<1>7. ceil_log2(n) = k
  BY <1>5, <1>6 DEF ceil_log2
<1> QED
  BY <1>2, <1>7

-----------------------------------------------------------------------------
(* Bits behind one another *)

\* Two sequences behind one another.
LEMMA ConcatIs ==
  ASSUME NEW S, NEW a \in Seq(S), NEW b \in Seq(S)
  PROVE  /\ a \o b \in Seq(S) /\ Len(a \o b) = Len(a) + Len(b)
         /\ Len(a) \in Nat /\ Len(b) \in Nat
         /\ \A i \in 1..Len(a) : (a \o b)[i] = a[i]
         /\ \A i \in 1..Len(b) : (a \o b)[Len(a) + i] = b[i]
OBVIOUS

\* The bits in front are taken, those behind them stay.
LEMMA TakeFront ==
  ASSUME NEW a \in Seq(Bit), NEW rest \in Seq(Bit)
  PROVE  /\ more(a \o rest, 0, Len(a)) = a
         /\ SubSeq(a \o rest, Len(a) + 1, Len(a \o rest)) = rest
         /\ a \o rest \in Seq(Bit) /\ Len(a \o rest) = Len(a) + Len(rest)
<1> DEFINE w == a \o rest
           n == Len(a)
           m == Len(rest)
<1>1. /\ n \in Nat /\ m \in Nat /\ w \in Seq(Bit) /\ Len(w) = n + m
      /\ \A i \in 1..n : w[i] = a[i]
      /\ \A i \in 1..m : w[n + i] = rest[i]
      /\ a = [i \in 1..n |-> a[i]] /\ rest = [i \in 1..m |-> rest[i]]
  OBVIOUS
<1> HIDE DEF w, n, m
<1>2. more(w, 0, n) = [i \in 1..n |-> a[i]]
  <2>1. \A i \in 1..n : (IF 0 + i <= Len(w) THEN w[0 + i] ELSE 0) = a[i]
    BY <1>1
  <2>2. more(w, 0, n) = [i \in 1..n |-> IF 0 + i <= Len(w) THEN w[0 + i] ELSE 0]
    BY DEF more
  <2> QED
    BY <2>1, <2>2
<1>3. SubSeq(w, n + 1, Len(w)) = [i \in 1..m |-> rest[i]]
  <2>1. SubSeq(w, n + 1, n + m) = [i \in 1..((n + m) - (n + 1) + 1) |-> w[(n + 1) + i - 1]]
    BY <1>1
  <2>2. (n + m) - (n + 1) + 1 = m /\ \A i \in 1..m : (n + 1) + i - 1 = n + i
    BY <1>1
  <2>3. \A i \in 1..m : w[(n + 1) + i - 1] = rest[i]
    BY <1>1, <2>2
  <2> QED
    BY <1>1, <2>1, <2>2, <2>3
<1> QED
  BY <1>1, <1>2, <1>3 DEF w, n, m

\* What comes behind the first bits is taken from there.
LEMMA TakeNext ==
  ASSUME NEW a \in Seq(Bit), NEW b \in Seq(Bit), NEW rest \in Seq(Bit)
  PROVE  /\ more((a \o b) \o rest, 0, Len(a)) = a
         /\ more((a \o b) \o rest, Len(a), Len(b)) = b
<1> DEFINE w == (a \o b) \o rest
           n == Len(a)
           m == Len(b)
<1>1. /\ n \in Nat /\ m \in Nat /\ Len(w) \in Nat /\ Len(w) >= n + m
      /\ \A i \in 1..n : w[i] = a[i]
      /\ \A i \in 1..m : w[n + i] = b[i]
      /\ a = [i \in 1..n |-> a[i]] /\ b = [i \in 1..m |-> b[i]]
  <2> DEFINE u == a \o b
  <2>1. /\ u \in Seq(Bit) /\ Len(u) = n + m /\ n \in Nat /\ m \in Nat
        /\ \A i \in 1..n : u[i] = a[i]
        /\ \A i \in 1..m : u[n + i] = b[i]
        /\ a = [i \in 1..n |-> a[i]] /\ b = [i \in 1..m |-> b[i]]
    OBVIOUS
  <2> HIDE DEF u
  <2>0. u \in Seq(Bit)
    BY <2>1
  <2>2. /\ Len(u \o rest) = Len(u) + Len(rest)
        /\ \A i \in 1..Len(u) : (u \o rest)[i] = u[i]
    <3>1. Len(u \o rest) = Len(u) + Len(rest)
      BY <2>0, ConcatIs
    <3>2. \A i \in 1..Len(u) : (u \o rest)[i] = u[i]
      BY <2>0, ConcatIs
    <3> QED
      BY <3>1, <3>2
  <2>3. Len(rest) \in Nat
    OBVIOUS
  <2> HIDE DEF n, m
  <2>4. \A i \in 1..n : i \in 1..Len(u)
    BY <2>1
  <2>5. \A i \in 1..m : n + i \in 1..Len(u)
    BY <2>1
  <2> QED
    BY <2>1, <2>2, <2>3, <2>4, <2>5 DEF u
<1> HIDE DEF w, n, m
<1>2. more(w, 0, n) = [i \in 1..n |-> a[i]]
  <2>1. \A i \in 1..n : (IF 0 + i <= Len(w) THEN w[0 + i] ELSE 0) = a[i]
    BY <1>1
  <2>2. more(w, 0, n) = [i \in 1..n |-> IF 0 + i <= Len(w) THEN w[0 + i] ELSE 0]
    BY DEF more
  <2> QED
    BY <2>1, <2>2
<1>3. more(w, n, m) = [i \in 1..m |-> b[i]]
  <2>1. \A i \in 1..m : (IF n + i <= Len(w) THEN w[n + i] ELSE 0) = b[i]
    BY <1>1
  <2>2. more(w, n, m) = [i \in 1..m |-> IF n + i <= Len(w) THEN w[n + i] ELSE 0]
    BY DEF more
  <2> QED
    BY <2>1, <2>2
<1> QED
  BY <1>1, <1>2, <1>3 DEF w, n, m

\* There is a function that puts sequences behind one another as far as N.
LEMMA FlattenExists ==
  ASSUME NEW N \in Nat, NEW s
  PROVE  \E g : g = [i \in 1..N |-> IF i = 1 THEN s[i] ELSE g[i - 1] \o s[i]]
<1> DEFINE C(a, i) == a \o s[i]
<1> HIDE DEF C
<1> DEFINE T == {n \in Nat : \E g : g = [i \in 1..n |-> IF i = 1 THEN s[i] ELSE C(g[i - 1], i)]}
<1>1. 0 \in T
  <2> DEFINE g == [i \in 1..0 |-> 0]
  <2>1. g = [i \in 1..0 |-> IF i = 1 THEN s[i] ELSE C(g[i - 1], i)]
    OBVIOUS
  <2> QED
    BY <2>1
<1>2. \A n \in Nat : n \in T => n + 1 \in T
  <2> SUFFICES ASSUME NEW n \in Nat, n \in T PROVE n + 1 \in T
    OBVIOUS
  <2>1. PICK g : g = [i \in 1..n |-> IF i = 1 THEN s[i] ELSE C(g[i - 1], i)]
    OBVIOUS
  <2>2. \A i \in 1..n : g[i] = IF i = 1 THEN s[i] ELSE C(g[i - 1], i)
    BY <2>1
  <2> DEFINE x == IF n = 0 THEN s[1] ELSE C(g[n], n + 1)
             f == [i \in 1..n + 1 |-> IF i = n + 1 THEN x ELSE g[i]]
  <2>3. \A i \in 1..n + 1 : f[i] = IF i = n + 1 THEN x ELSE g[i]
    OBVIOUS
  <2>4. f = [i \in 1..n + 1 |-> f[i]]
    OBVIOUS
  <2> HIDE DEF f
  <2>5. \A i \in 1..n + 1 : f[i] = IF i = 1 THEN s[i] ELSE C(f[i - 1], i)
    <3> SUFFICES ASSUME NEW i \in 1..n + 1 PROVE f[i] = IF i = 1 THEN s[i] ELSE C(f[i - 1], i)
      OBVIOUS
    <3>1. CASE i = n + 1 /\ i = 1
      <4>1. n = 0 /\ f[i] = x
        BY <2>3, <3>1
      <4> QED
        BY <3>1, <4>1
    <3>2. CASE i = n + 1 /\ i # 1
      <4>1. i - 1 = n /\ n \in 1..n + 1 /\ n # n + 1 /\ n # 0
        BY <3>2
      <4>2. f[i] = x /\ f[i - 1] = g[n]
        BY <2>3, <3>2, <4>1
      <4>3. x = C(g[n], i)
        BY <3>2, <4>1
      <4> HIDE DEF x
      <4> QED
        BY <3>2, <4>2, <4>3
    <3>3. CASE i # n + 1
      <4> HIDE DEF x
      <4>1. i \in 1..n /\ f[i] = g[i]
        BY <2>3, <3>3
      <4>2. i # 1 => i - 1 \in 1..n + 1 /\ i - 1 # n + 1
        BY <4>1
      <4>3. i # 1 => f[i - 1] = g[i - 1]
        BY <2>3, <4>2
      <4> QED
        BY <2>2, <4>1, <4>3
    <3> QED
      BY <3>1, <3>2, <3>3
  <2>6. f = [i \in 1..n + 1 |-> IF i = 1 THEN s[i] ELSE C(f[i - 1], i)]
    BY <2>4, <2>5
  <2> QED
    BY <2>6
<1> HIDE DEF T
<1>3. N \in T
  BY <1>1, <1>2, NatSetInduction
<1> QED
  BY <1>3 DEF T, C

\* FlattenSeq() puts the parts behind one another.
LEMMA FlattenIs ==
  ASSUME NEW s, Len(s) \in Nat \ {0}
  PROVE  \E g : /\ g[1] = s[1]
                /\ \A i \in 2..Len(s) : g[i] = g[i - 1] \o s[i]
                /\ FlattenSeq(s) = g[Len(s)]
<1> DEFINE n == Len(s)
           C(a, i) == a \o s[i]
           P(g) == g = [i \in 1..n |-> IF i = 1 THEN s[i] ELSE C(g[i - 1], i)]
           c == CHOOSE g : P(g)
<1>1. P(c)
  BY FlattenExists
<1>2. FlattenSeq(s) = c[n]
  BY DEF FlattenSeq
<1> HIDE DEF c, C
<1>3. \A i \in 1..n : c[i] = IF i = 1 THEN s[i] ELSE C(c[i - 1], i)
  BY <1>1
<1> HIDE DEF n
<1>4. c[1] = s[1] /\ \A i \in 2..n : c[i] = C(c[i - 1], i)
  BY <1>3 DEF n
<1> QED
  BY <1>2, <1>4 DEF C, n

\* None, one and two parts.
LEMMA FlattenFew ==
  /\ FlattenSeq(<< >>) = << >>
  /\ \A a : FlattenSeq(<<a>>) = a
  /\ \A a, b : FlattenSeq(<<a, b>>) = a \o b
<1>1. FlattenSeq(<< >>) = << >>
  BY DEF FlattenSeq
<1>2. ASSUME NEW a PROVE FlattenSeq(<<a>>) = a
  <2> DEFINE s == <<a>>
  <2>1. Len(s) = 1 /\ s[1] = a
    OBVIOUS
  <2> HIDE DEF s
  <2>2. Len(s) \in Nat \ {0}
    BY <2>1
  <2>3. PICK g : /\ g[1] = s[1] /\ \A i \in 2..Len(s) : g[i] = g[i - 1] \o s[i]
                 /\ FlattenSeq(s) = g[Len(s)]
    BY <2>2, FlattenIs
  <2> QED
    BY <2>1, <2>3 DEF s
<1>3. ASSUME NEW a, NEW b PROVE FlattenSeq(<<a, b>>) = a \o b
  <2> DEFINE s == <<a, b>>
  <2>1. Len(s) = 2 /\ s[1] = a /\ s[2] = b
    OBVIOUS
  <2> HIDE DEF s
  <2>0. Len(s) \in Nat \ {0}
    BY <2>1
  <2>2. PICK g : /\ g[1] = s[1] /\ \A i \in 2..Len(s) : g[i] = g[i - 1] \o s[i]
                 /\ FlattenSeq(s) = g[Len(s)]
    BY <2>0, FlattenIs
  <2>3. 2 \in 2..Len(s) /\ 2 - 1 = 1
    BY <2>1
  <2>4. g[2] = g[1] \o s[2]
    BY <2>2, <2>3
  <2> QED
    BY <2>1, <2>2, <2>4 DEF s
<1> QED
  BY <1>1, <1>2, <1>3

\* Where bit j of part i is, if all parts have length k.
Place(i, j, k) == (i - 1) * k + j

\* Every bit is in some part.
LEMMA InSomePart ==
  ASSUME NEW n \in Nat, NEW k \in Nat, NEW b \in 1..n * k
  PROVE  \E i \in 1..n : \E j \in 1..k : b = Place(i, j, k)
<1>1. k # 0 /\ n * k \in Nat
  OBVIOUS
<1> DEFINE q == (b - 1) \div k
           m == (b - 1) % k
<1>2. q \in Int /\ m \in 0..k - 1 /\ b - 1 = q * k + m
  BY <1>1, DivMod
<1> HIDE DEF q, m
<1>3. q <= n - 1
  <2> SUFFICES ASSUME n <= q PROVE FALSE
    BY <1>2
  <2>1. n * k <= q * k
    BY <1>1, <1>2, MultipleOrder
  <2>2. q * k \in Int
    BY <1>2
  <2> QED
    BY <1>1, <1>2, <2>1, <2>2
<1>4. 0 <= q
  <2> SUFFICES ASSUME q + 1 <= 0 PROVE FALSE
    BY <1>2
  <2>1. (q + 1) * k <= 0 * k
    BY <1>1, <1>2, MultipleOrder
  <2>2. q * k \in Int /\ (q + 1) * k = q * k + k /\ 0 * k = 0
    BY <1>2
  <2> QED
    BY <1>1, <1>2, <2>1, <2>2
<1>5. q + 1 \in 1..n /\ m + 1 \in 1..k /\ b = Place(q + 1, m + 1, k)
  <2>1. (q + 1) - 1 = q /\ q * k \in Int
    BY <1>2
  <2> QED
    BY <1>2, <1>3, <1>4, <2>1 DEF Place
<1> QED
  BY <1>5

\* The parts are within the whole.
LEMMA PlaceWithin ==
  ASSUME NEW n \in Nat, NEW k \in Nat, NEW i \in 1..n, NEW j \in 1..k
  PROVE  Place(i, j, k) \in 1..n * k /\ (i - 1) * k \in Nat /\ n * k \in Nat
<1>1. k \in Nat \ {0} /\ (i - 1) * k + k = i * k /\ (i - 1) * k \in Nat /\ n * k \in Nat
  OBVIOUS
<1>2. i * k <= n * k
  BY <1>1, MultipleOrder
<1> QED
  BY <1>1, <1>2 DEF Place

\* f is made of the parts s, each of length k.
MadeOf(f, s, S, k) ==
  /\ f \in Seq(S) /\ Len(f) = Len(s) * k
  /\ \A i \in 1..Len(s) : \A j \in 1..k : f[Place(i, j, k)] = s[i][j]

\* Parts of the same length.
LEMMA FlattenParts ==
  ASSUME NEW S, NEW k \in Nat, NEW s \in Seq(Seq(S)), \A i \in 1..Len(s) : Len(s[i]) = k
  PROVE  MadeOf(FlattenSeq(s), s, S, k)
<1> DEFINE n == Len(s)
<1>0. n \in Nat /\ Len(s) = n /\ \A i \in 1..n : Len(s[i]) = k /\ s[i] \in Seq(S)
  OBVIOUS
<1> HIDE DEF n
<1> SUFFICES /\ FlattenSeq(s) \in Seq(S) /\ Len(FlattenSeq(s)) = n * k
             /\ \A i \in 1..n : \A j \in 1..k : FlattenSeq(s)[Place(i, j, k)] = s[i][j]
  BY <1>0 DEF MadeOf
<1>1. CASE n = 0
  <2>1. s = << >> /\ 0 * k = 0
    BY <1>0, <1>1
  <2>2. FlattenSeq(s) = << >>
    BY <2>1, FlattenFew
  <2> QED
    <3>1. << >> \in Seq(S) /\ Len(<< >>) = 0 /\ 1..0 = {}
      OBVIOUS
    <3> QED
      BY <1>1, <2>1, <2>2, <3>1
<1>2. CASE n # 0
  <2>1. PICK g : g[1] = s[1] /\ (\A i \in 2..n : g[i] = g[i - 1] \o s[i]) /\ FlattenSeq(s) = g[n]
    <3>1. Len(s) \in Nat \ {0}
      BY <1>0, <1>2
    <3> QED
      BY <1>0, <3>1, FlattenIs
  <2>2. \A i \in 1..n : s[i] \in Seq(S) /\ Len(s[i]) = k
    BY <1>0
  <2> DEFINE A(m) == /\ g[m] \in Seq(S) /\ Len(g[m]) = m * k
                     /\ \A i \in 1..m : \A j \in 1..k : g[m][Place(i, j, k)] = s[i][j]
             T == {m \in Nat : m + 1 <= n => A(m + 1)}
  <2>3. A(1)
    <3>1. 1 \in 1..n /\ 1 * k = k
      BY <1>0, <1>2
    <3>2. g[1] \in Seq(S) /\ Len(g[1]) = 1 * k
      BY <2>1, <2>2, <3>1
    <3>3. ASSUME NEW i \in 1..1, NEW j \in 1..k PROVE g[1][Place(i, j, k)] = s[i][j]
      <4>1. i = 1 /\ (1 - 1) * k + j = j
        OBVIOUS
      <4> QED
        BY <2>1, <4>1 DEF Place
    <3> QED
      BY <3>2, <3>3
  <2>4. ASSUME NEW m \in 1..n - 1, A(m) PROVE A(m + 1)
    <3>1. m \in Nat /\ m + 1 \in 2..n /\ (m + 1) - 1 = m /\ m + 1 \in 1..n
      BY <1>0
    <3> DEFINE a == g[m]
               b == s[m + 1]
    <3>2. g[m + 1] = a \o b
      BY <2>1, <3>1
    <3>3. a \in Seq(S) /\ Len(a) = m * k
      BY <2>4
    <3>4. b \in Seq(S) /\ Len(b) = k
      BY <2>2, <3>1
    <3>5. \A i \in 1..m : \A j \in 1..k : a[Place(i, j, k)] = s[i][j]
      BY <2>4
    <3> HIDE DEF A, a
    <3>6. m * k \in Nat /\ (m + 1) * k = m * k + k
      BY <3>1
    <3>9. a \o b \in Seq(S) /\ Len(a \o b) = Len(a) + Len(b)
      BY <3>3, <3>4, ConcatIs
    <3>7. a \o b \in Seq(S) /\ Len(a \o b) = (m + 1) * k
      BY <3>3, <3>4, <3>6, <3>9
    <3>8. ASSUME NEW i \in 1..m + 1, NEW j \in 1..k PROVE (a \o b)[Place(i, j, k)] = s[i][j]
      <4>1. CASE i = m + 1
        <5>1. Place(i, j, k) = m * k + j
          BY <4>1, <3>1 DEF Place
        <5>2. (a \o b)[Len(a) + j] = b[j]
          BY <3>3, <3>4, ConcatIs
        <5> QED
          BY <3>3, <4>1, <5>1, <5>2
      <4>2. CASE i # m + 1
        <5>1. i \in 1..m
          BY <3>1, <4>2
        <5>2. Place(i, j, k) \in 1..Len(a)
          BY <3>1, <3>3, <5>1, PlaceWithin
        <5>3. (a \o b)[Place(i, j, k)] = a[Place(i, j, k)]
          BY <3>3, <3>4, <5>2, ConcatIs
        <5> QED
          BY <3>5, <5>1, <5>3
      <4> QED
        BY <4>1, <4>2
    <3> QED
      BY <3>2, <3>7, <3>8 DEF A
  <2> HIDE DEF A
  <2>5. 0 \in T
    BY <2>3
  <2>6. \A m \in Nat : m \in T => m + 1 \in T
    <3> SUFFICES ASSUME NEW m \in Nat, m \in T, (m + 1) + 1 <= n PROVE A((m + 1) + 1)
      OBVIOUS
    <3>1. m + 1 \in 1..n - 1 /\ A(m + 1)
      <4>1. (m + 1) + 1 <= n /\ m + 1 <= n
        BY <1>0
      <4> QED
        BY <1>0, <4>1
    <3> QED
      BY <2>4, <3>1
  <2> HIDE DEF T
  <2>7. Nat \subseteq T
    BY <2>5, <2>6, NatSetInduction
  <2>8. A(n)
    <3>1. n - 1 \in T /\ (n - 1) + 1 = n /\ n <= n
      BY <1>0, <1>2, <2>7
    <3> QED
      BY <3>1 DEF T
  <2> QED
    BY <2>1, <2>8 DEF A
<1> QED
  BY <1>1, <1>2

-----------------------------------------------------------------------------
(* Bytes as bits *)

\* Sequences with the same elements are the same.
LEMMA SameSequence ==
  ASSUME NEW S, NEW a \in Seq(S), NEW b \in Seq(S), Len(a) = Len(b),
         \A i \in 1..Len(a) : a[i] = b[i]
  PROVE  a = b
OBVIOUS

\* A piece of a sequence.
LEMMA SubSeqIs ==
  ASSUME NEW S, NEW w \in Seq(S), NEW from \in Nat, NEW k \in Nat, from + k <= Len(w)
  PROVE  SubSeq(w, from + 1, from + k) = [j \in 1..k |-> w[from + j]]
<1>1. SubSeq(w, from + 1, from + k)
        = [j \in 1..((from + k) - (from + 1) + 1) |-> w[(from + 1) + j - 1]]
  OBVIOUS
<1>2. (from + k) - (from + 1) + 1 = k /\ \A j \in 1..k : (from + 1) + j - 1 = from + j
  OBVIOUS
<1> QED
  BY <1>1, <1>2

\* A byte is a number below a power of two.
LEMMA ByteIs ==
  /\ BITS_IN_BYTE \in Nat \ {0, 1} /\ pow2(BITS_IN_BYTE) \in Nat \ {0} /\ 0 \in Byte
  /\ \A c \in Byte : c \in Nat /\ c < pow2(BITS_IN_BYTE)
<1>1. BITS_IN_BYTE \in Nat \ {0, 1}
  BY SizesAssumption
<1>2. pow2(BITS_IN_BYTE) \in Nat \ {0}
  BY <1>1, Pow2Is
<1> QED
  BY <1>1, <1>2 DEF Byte

\* A byte behind the other, each as its bits.
LEMMA ByteBitsIs ==
  ASSUME NEW s \in Seq(Byte)
  PROVE  /\ byte_bits(s) \in Seq(Bit) /\ Len(byte_bits(s)) = Len(s) * BITS_IN_BYTE
         /\ \A i \in 1..Len(s) : \A j \in 1..BITS_IN_BYTE :
              byte_bits(s)[Place(i, j, BITS_IN_BYTE)] = bits(s[i], BITS_IN_BYTE)[j]
<1> DEFINE n == Len(s)
           k == BITS_IN_BYTE
           p == [i \in 1..n |-> bits(s[i], k)]
<1>1. k \in Nat /\ n \in Nat /\ \A i \in 1..n : s[i] \in Byte
  BY SizesAssumption
<1>2. \A i \in 1..n : s[i] \in Nat
  BY <1>1, ByteIs
<1>3. \A i \in 1..n : bits(s[i], k) \in Seq(Bit) /\ Len(bits(s[i], k)) = k
  BY <1>1, <1>2, BitsIs
<1>4. p \in Seq(Seq(Bit)) /\ Len(p) = n /\ \A i \in 1..n : p[i] = bits(s[i], k)
  <2> DEFINE V(i) == bits(s[i], k)
  <2>1. \A i \in 1..n : V(i) \in Seq(Bit)
    BY <1>3
  <2>2. p = [i \in 1..n |-> V(i)]
    OBVIOUS
  <2> HIDE DEF V, p, n
  <2>3. p \in Seq(Seq(Bit)) /\ Len(p) = n /\ \A i \in 1..n : p[i] = V(i)
    BY <1>1, <2>1, <2>2
  <2> QED
    BY <2>3 DEF V
<1>5. byte_bits(s) = FlattenSeq(p)
  BY DEF byte_bits
<1> HIDE DEF n, k, p
<1>6. \A i \in 1..n : Len(p[i]) = k
  BY <1>3, <1>4
<1>7. p \in Seq(Seq(Bit)) /\ Len(p) = n
  BY <1>4
<1>8. /\ FlattenSeq(p) \in Seq(Bit) /\ Len(FlattenSeq(p)) = n * k
      /\ \A i \in 1..n : \A j \in 1..k : FlattenSeq(p)[Place(i, j, k)] = p[i][j]
  <2>1. \A i \in 1..Len(p) : Len(p[i]) = k
    BY <1>6, <1>7
  <2>2. MadeOf(FlattenSeq(p), p, Bit, k)
    BY <1>1, <1>7, <2>1, FlattenParts
  <2> QED
    BY <1>7, <2>2 DEF MadeOf
<1>9. \A i \in 1..n : \A j \in 1..k : FlattenSeq(p)[Place(i, j, k)] = bits(s[i], k)[j]
  BY <1>4, <1>8
<1> QED
  BY <1>5, <1>8, <1>9 DEF n, k

\* The bytes are read as they were written.
LEMMA BytesBack ==
  ASSUME NEW s \in Seq(Byte)
  PROVE  bytes_of(byte_bits(s)) = s
<1> DEFINE n == Len(s)
           k == BITS_IN_BYTE
           bs == byte_bits(s)
<1>1. k \in Nat \ {0} /\ n \in Nat
  BY SizesAssumption
<1>2. /\ bs \in Seq(Bit) /\ Len(bs) = n * k
      /\ \A i \in 1..n : \A j \in 1..k : bs[Place(i, j, k)] = bits(s[i], k)[j]
  BY ByteBitsIs
<1>3. bytes_of(bs) = [i \in 1..(Len(bs) \div k) |-> ulong(SubSeq(bs, (i - 1) * k + 1, i * k))]
  BY DEF bytes_of
<1>4. s = [i \in 1..n |-> s[i]] /\ \A i \in 1..n : s[i] \in Nat /\ s[i] < pow2(k)
  <2>1. s = [i \in 1..n |-> s[i]] /\ \A i \in 1..n : s[i] \in Byte
    OBVIOUS
  <2> QED
    BY <2>1, ByteIs
<1> HIDE DEF n, k, bs
<1>5. Len(bs) \div k = n
  BY <1>1, <1>2, MultipleDiv
<1>6. ASSUME NEW i \in 1..n PROVE ulong(SubSeq(bs, (i - 1) * k + 1, i * k)) = s[i]
  <2> DEFINE from == (i - 1) * k
             b == bits(s[i], k)
  <2>1. pow2(k) \in Nat \ {0}
    BY <1>1, Pow2Is
  <2>2. s[i] \in Nat /\ s[i] < pow2(k)
    BY <1>4, <2>1
  <2>3. b = [j \in 1..k |-> b[j]]
    <3>1. k \in Nat /\ s[i] \in Nat
      BY <1>1, <2>2
    <3>2. b \in Seq(Bit) /\ Len(b) = k
      BY <3>1, BitsIs
    <3> HIDE DEF b
    <3> QED
      BY <3>2
  <2>4. from \in Nat /\ i * k = from + k /\ from + k <= Len(bs) /\ Len(bs) \in Nat
    <3>1. i * k = from + k /\ from \in Nat /\ i * k \in Nat
      BY <1>1
    <3>2. i * k <= n * k
      BY <1>1, MultipleOrder
    <3> QED
      BY <1>2, <3>1, <3>2
  <2>5. \A j \in 1..k : bs[from + j] = b[j]
    BY <1>2 DEF Place
  <2> HIDE DEF b, from
  <2>6. k \in Nat
    BY <1>1
  <2>7. SubSeq(bs, from + 1, from + k) = [j \in 1..k |-> bs[from + j]]
    BY <1>2, <2>4, <2>6, SubSeqIs
  <2>8. SubSeq(bs, from + 1, from + k) = [j \in 1..k |-> b[j]]
    BY <2>5, <2>7
  <2>9. ulong(b) = s[i]
    BY <1>1, <2>2, UlongOfBits DEF b
  <2> QED
    BY <2>3, <2>4, <2>8, <2>9 DEF from
<1> QED
  BY <1>3, <1>4, <1>5, <1>6 DEF bs

\* A string of m bytes, the missing ones 0.
padded(v, m) == [i \in 1..m |-> IF i <= Len(v) THEN v[i] ELSE 0]

\* Bits of a string that are cut or filled with zeros are those of the string
\* that is.
LEMMA PaddedBits ==
  ASSUME NEW v \in Seq(Byte), NEW m \in Nat
  PROVE  /\ padded(v, m) \in Seq(Byte) /\ Len(padded(v, m)) = m
         /\ more(byte_bits(v), 0, m * BITS_IN_BYTE) = byte_bits(padded(v, m))
<1> DEFINE k == BITS_IN_BYTE
           n == Len(v)
           p == padded(v, m)
           x == byte_bits(v)
           y == byte_bits(p)
           z == more(x, 0, m * k)
<1>1. k \in Nat \ {0} /\ n \in Nat /\ m * k \in Nat /\ n * k \in Nat
  BY SizesAssumption
<1>2. 0 \in Byte
  BY ByteIs
<1>3. p \in Seq(Byte) /\ Len(p) = m /\ \A i \in 1..m : p[i] = IF i <= n THEN v[i] ELSE 0
  <2> DEFINE V(i) == IF i <= n THEN v[i] ELSE 0
  <2>1. \A i \in 1..m : V(i) \in Byte
    BY <1>2
  <2>2. p = [i \in 1..m |-> V(i)]
    BY DEF padded
  <2> HIDE DEF V, p, n
  <2>3. p \in Seq(Byte) /\ Len(p) = m /\ \A i \in 1..m : p[i] = V(i)
    BY <2>1, <2>2
  <2> QED
    BY <2>3 DEF V
<1>4. /\ x \in Seq(Bit) /\ Len(x) = n * k
      /\ \A i \in 1..n : \A j \in 1..k : x[Place(i, j, k)] = bits(v[i], k)[j]
  BY ByteBitsIs
<1> HIDE DEF p, x, n
<1>5. /\ y \in Seq(Bit) /\ Len(y) = m * k
      /\ \A i \in 1..m : \A j \in 1..k : y[Place(i, j, k)] = bits(p[i], k)[j]
  <2>1. /\ y \in Seq(Bit) /\ Len(y) = Len(p) * k
        /\ \A i \in 1..Len(p) : \A j \in 1..k : y[Place(i, j, k)] = bits(p[i], k)[j]
    BY <1>3, ByteBitsIs
  <2> QED
    BY <1>3, <2>1
<1> HIDE DEF y, k
<1>6. \A b \in 1..m * k : y[b] = IF b <= n * k THEN x[b] ELSE 0
  <2> SUFFICES ASSUME NEW b \in 1..m * k PROVE y[b] = IF b <= n * k THEN x[b] ELSE 0
    OBVIOUS
  <2>1. PICK i \in 1..m, j \in 1..k : b = Place(i, j, k)
    BY <1>1, InSomePart
  <2>2. y[b] = bits(p[i], k)[j]
    BY <1>5, <2>1
  <2>3. CASE i <= n
    <3>1. i \in 1..n /\ b \in 1..n * k
      <4>1. i \in 1..n
        BY <2>3
      <4> QED
        BY <1>1, <2>1, <4>1, PlaceWithin
    <3>2. x[b] = bits(v[i], k)[j] /\ p[i] = v[i]
      BY <1>3, <1>4, <2>1, <3>1
    <3> QED
      BY <2>2, <3>1, <3>2
  <2>4. CASE i > n
    <3>1. p[i] = 0
      BY <1>1, <1>3, <2>4
    <3>2. bits(0, k)[j] = (0 \div pow2(j - 1)) % 2
      BY <1>1, BitsIs
    <3>3. (0 \div pow2(j - 1)) % 2 = 0
      <4> DEFINE h == j - 1
                 r == pow2(h)
      <4>0. h \in Nat
        BY <1>1
      <4> HIDE DEF h
      <4>1. r \in Nat \ {0}
        BY <4>0, Pow2Is
      <4> HIDE DEF r
      <4>2. 0 * r + 0 = 0 /\ 0 \in 0..r - 1
        BY <4>1
      <4>3. 0 \div r = 0
        BY <4>1, <4>2, DivUnique
      <4> QED
        BY <4>3 DEF r, h
    <3>4. ~(b <= n * k)
      <4>1. n * k <= (i - 1) * k
        BY <1>1, <2>4, MultipleOrder
      <4>2. (i - 1) * k \in Int
        BY <1>1
      <4> QED
        BY <1>1, <2>1, <4>1, <4>2 DEF Place
    <3> QED
      BY <2>2, <3>1, <3>2, <3>3, <3>4
  <2> QED
    BY <1>1, <2>3, <2>4
<1>7. z = y
  <2>1. z = [b \in 1..m * k |-> IF 0 + b <= Len(x) THEN x[0 + b] ELSE 0]
    BY DEF more
  <2>2. \A b \in 1..m * k : (IF 0 + b <= Len(x) THEN x[0 + b] ELSE 0) = y[b]
    BY <1>1, <1>4, <1>6
  <2>3. y = [b \in 1..m * k |-> y[b]]
    BY <1>5
  <2> HIDE DEF z
  <2> QED
    BY <2>1, <2>2, <2>3
<1> QED
  BY <1>3, <1>7 DEF p, x, y, k

-----------------------------------------------------------------------------
(* What is asked of a codec *)

\* v is encoded, with the rest of the message behind it, and decoded.
Contract(f, v, rest, clock) ==
  LET e == encode(f, v)
      d == decode(f, e \o rest, clock)
  IN /\ e \in Seq(Bit) /\ Len(e) = size(f, v)
     /\ min_size(f) \in Nat /\ min_size(f) <= Len(e) /\ Len(e) <= max_size(f)
     /\ d.used = Len(e) /\ ReadFor(f, v, d.value)

\* w begins with three pieces.
ThreePieces(a, b, c, w) ==
  /\ (a \o b) \o c \in Seq(Bit) /\ Len((a \o b) \o c) = Len(a) + Len(b) + Len(c)
  /\ more(w, 0, Len(a)) = a
  /\ more(w, Len(a), Len(b)) = b
  /\ more(w, Len(a) + Len(b), Len(c)) = c

\* Taking three pieces one after the other.
LEMMA TakeThree ==
  ASSUME NEW a \in Seq(Bit), NEW b \in Seq(Bit), NEW c \in Seq(Bit), NEW rest \in Seq(Bit)
  PROVE  ThreePieces(a, b, c, ((a \o b) \o c) \o rest)
<1> DEFINE w == ((a \o b) \o c) \o rest
<1> DEFINE ab == a \o b
           cr == c \o rest
<1>1. ab \in Seq(Bit) /\ Len(ab) = Len(a) + Len(b)
  BY ConcatIs
<1>2. cr \in Seq(Bit)
  BY ConcatIs
<1> HIDE DEF ab
<1>0. ab \in Seq(Bit)
  BY <1>1
<1>3. (ab \o c) \o rest = ab \o (c \o rest)
  <2>1. ASSUME NEW x \in Seq(Bit) PROVE (x \o c) \o rest = x \o (c \o rest)
    OBVIOUS
  <2> QED
    BY <1>0, <2>1
<1>4. w = ab \o cr
  BY <1>3 DEF ab
<1> HIDE DEF cr
<1>5. more(ab \o cr, 0, Len(a)) = a /\ more(ab \o cr, Len(a), Len(b)) = b
  BY <1>2, TakeNext DEF ab
<1>6. more((ab \o c) \o rest, Len(ab), Len(c)) = c
  BY <1>1, TakeNext
<1>7. w = (ab \o c) \o rest
  BY DEF ab
<1>8. ab \o c \in Seq(Bit) /\ Len(ab \o c) = Len(ab) + Len(c)
  BY <1>1, ConcatIs
<1>9. more(w, Len(a) + Len(b), Len(c)) = c
  BY <1>1, <1>6, <1>7
<1>10. more(w, 0, Len(a)) = a /\ more(w, Len(a), Len(b)) = b
  BY <1>4, <1>5
<1>11. Len(ab \o c) = Len(a) + Len(b) + Len(c)
  BY <1>1, <1>8
<1> QED
  BY <1>8, <1>9, <1>10, <1>11 DEF ab, ThreePieces

\* The bit in front of a field that may be absent.
LEMMA PresenceIs ==
  ASSUME NEW f
  PROVE  /\ presence_size(f) = IF use_required(f) THEN 0 ELSE 1
         /\ bits(1, presence_size(f)) = IF use_required(f) THEN << >> ELSE <<1>>
         /\ bits(0, 1) = <<0>>
         /\ bits(1, presence_size(f)) \in Seq(Bit)
         /\ Len(bits(1, presence_size(f))) = presence_size(f)
         /\ <<0>> # <<1>>
<1>1. bits(1, 0) = << >>
  BY DEF bits
<1>2. bits(1, 1) = <<1>> /\ bits(0, 1) = <<0>>
  <2>1. 1..1 = {1} /\ 1 - 1 = 0 /\ pow2(0) = 1 /\ (1 \div 1) % 2 = 1 /\ (0 \div 1) % 2 = 0
    BY Pow2Is
  <2>2. \A n : bits(n, 1) = [b \in {1} |-> (n \div pow2(b - 1)) % 2]
    BY <2>1 DEF bits
  <2>3. bits(1, 1) = [b \in {1} |-> 1]
    BY <2>1, <2>2
  <2>4. bits(0, 1) = [b \in {1} |-> 0]
    BY <2>1, <2>2
  <2>5. <<1>> = [b \in 1..1 |-> 1] /\ <<0>> = [b \in 1..1 |-> 0]
    OBVIOUS
  <2> QED
    BY <2>1, <2>3, <2>4, <2>5
<1>3. presence_size(f) = IF use_required(f) THEN 0 ELSE 1
  BY DEF presence_size
<1>4. << >> \in Seq(Bit) /\ <<1>> \in Seq(Bit) /\ Len(<< >>) = 0 /\ Len(<<1>>) = 1
      /\ <<0>> # <<1>>
  BY DEF Bit
<1> QED
  BY <1>1, <1>2, <1>3, <1>4

\* What is left of a string that is too long.
LEMMA CutIs ==
  ASSUME NEW f, f.max_length \in Nat, NEW v \in Seq(Byte)
  PROVE  /\ cut(f, v) \in Seq(Byte) /\ Len(cut(f, v)) \in Nat
         /\ Len(cut(f, v)) <= f.max_length
<1>1. CASE Len(v) > f.max_length
  <2>1. SubSeq(v, 1, f.max_length) \in Seq(Byte) /\ Len(SubSeq(v, 1, f.max_length)) = f.max_length
    BY <1>1
  <2> QED
    BY <1>1, <2>1 DEF cut
<1>2. CASE ~(Len(v) > f.max_length)
  BY <1>2 DEF cut
<1> QED
  BY <1>1, <1>2

\* The count in front of a string has room for as many bytes as are left.
LEMMA PrefixIs ==
  ASSUME NEW f, validate(f), f.codec \in {"string", "var_bytes"}
  PROVE  /\ prefix_size(f) \in Nat /\ f.max_length \in Nat
         /\ \A n \in Nat : n <= f.max_length => n < pow2(prefix_size(f))
<1>1. f.max_length \in Nat /\ (f.codec = "string" /\ f.version = 2 => f.max_length <= MAX_STRING_LENGTH)
  BY DEF validate
<1> DEFINE m == IF f.codec = "string" /\ f.version = 2 THEN MAX_STRING_LENGTH ELSE f.max_length
<1>2. m \in Nat /\ f.max_length <= m
  BY <1>1, SizesAssumption
<1>3. prefix_size(f) = ceil_log2(1 + m)
  BY DEF prefix_size
<1> HIDE DEF m
<1>4. prefix_size(f) \in Nat /\ 1 + m <= pow2(prefix_size(f))
  <2>1. 1 + m \in Nat \ {0}
    BY <1>2
  <2> QED
    BY <1>3, <2>1, CeilLog2Is
<1>5. pow2(prefix_size(f)) \in Nat
  BY <1>4, Pow2Is
<1> QED
  BY <1>1, <1>2, <1>4, <1>5

-----------------------------------------------------------------------------
(* Strings and bytes *)

\* Nothing behind a piece.
LEMMA NothingBehind ==
  ASSUME NEW a \in Seq(Bit)
  PROVE  a \o << >> = a
OBVIOUS

\* One piece behind the other.
LEMMA TwoPieces ==
  ASSUME NEW a \in Seq(Bit), NEW b \in Seq(Bit)
  PROVE  a \o b \in Seq(Bit) /\ Len(a \o b) = Len(a) + Len(b)
OBVIOUS

\* A count of bits is none only if the count of bytes is.
LEMMA NoBytes ==
  ASSUME NEW n \in Nat
  PROVE  /\ n * BITS_IN_BYTE \in Nat
         /\ (n * BITS_IN_BYTE = 0) <=> (n = 0)
  BY SizesAssumption

\* A static field is not on the wire.
LEMMA StaticContract ==
  ASSUME NEW f, f.codec = "static", NEW v, NEW rest \in Seq(Bit), NEW clock
  PROVE  Contract(f, v, rest, clock)
<1>1. encode(f, v) = << >> /\ size(f, v) = 0 /\ min_size(f) = 0 /\ max_size(f) = 0
  BY DEF encode, size, min_size, max_size
<1>2. decode(f, << >> \o rest, clock) = [value |-> f.static_value, used |-> 0]
  BY DEF decode, decoded
<1>3. << >> \in Seq(Bit) /\ Len(<< >>) = 0 /\ 0 \in Nat /\ 0 <= 0
  OBVIOUS
<1>4. ReadFor(f, v, f.static_value)
  BY DEF ReadFor
<1> QED
  BY <1>1, <1>2, <1>3, <1>4 DEF Contract

\* The bytes behind their count, and nothing where there is none.
LEMMA StringContract ==
  ASSUME NEW f, validate(f), f.codec = "string", NEW v, encodable(f, v),
         NEW rest \in Seq(Bit), NEW clock
  PROVE  Contract(f, v, rest, clock)
<1> DEFINE p == prefix_size(f)
           m == f.max_length
           k == BITS_IN_BYTE
           c == cut(f, v)
           L == Len(c)
           x == byte_bits(c)
           e == encode(f, v)
           d == decode(f, e \o rest, clock)
<1>1. p \in Nat /\ m \in Nat /\ \A n \in Nat : n <= m => n < pow2(p)
  BY PrefixIs
<1>2. /\ e = string_encode(f, v) /\ d = string_decode(f, e \o rest)
      /\ min_size(f) = p /\ max_size(f) = p + m * k
      /\ size(f, v) = p + (IF v = Null THEN 0 ELSE L * k)
      /\ \A r : ReadFor(f, v, r) <=> r = IF v = Null \/ c = << >> THEN Null ELSE c
  BY DEF encode, decode, min_size, max_size, size, ReadFor
<1>3. v # Null => v \in Seq(Byte)
  BY DEF encodable
<1>4. v # Null => c \in Seq(Byte) /\ L \in Nat /\ L <= m
  BY <1>1, <1>3, CutIs
<1>5. m * k \in Nat
  BY <1>1, NoBytes
<1>6. CASE v = Null \/ L = 0
  <2>1. v # Null => c = << >>
    BY <1>4, <1>6
  <2>2. e = bits(0, p)
    <3>1. CASE v = Null
      BY <1>2, <3>1 DEF string_encode
    <3>2. CASE v # Null
      <4>1. c = << >> /\ L = 0
        BY <2>1, <3>2
      <4>2. x = << >>
        BY <4>1, FlattenFew DEF byte_bits
      <4>3. e = bits(0, p) \o << >>
        BY <1>2, <3>2, <4>1, <4>2 DEF string_encode
      <4>4. bits(0, p) \in Seq(Bit)
        BY <1>1, BitsIs
      <4> QED
        BY <4>3, <4>4, NothingBehind
    <3> QED
      BY <3>1, <3>2
  <2>3. bits(0, p) \in Seq(Bit) /\ Len(bits(0, p)) = p /\ ulong(bits(0, p)) = 0
    <3>1. 0 \in Nat /\ 0 < pow2(p)
      BY <1>1
    <3> QED
      BY <1>1, <3>1, BitsIs, UlongOfBits
  <2> HIDE DEF e, d
  <2>4. more(e \o rest, 0, p) = bits(0, p)
    BY <2>2, <2>3, TakeFront
  <2>5. d = decoded(Null, p)
    <3>1. ulong(more(e \o rest, 0, p)) * k = 0
      BY <2>3, <2>4, SizesAssumption
    <3> QED
      BY <1>2, <3>1 DEF string_decode
  <2>6. size(f, v) = p
    BY <1>1, <1>2, <1>6, SizesAssumption
  <2>7. d.used = p /\ d.value = Null
    BY <2>5 DEF decoded
  <2>8. ReadFor(f, v, Null)
    BY <1>2, <2>1
  <2>9. p <= p /\ p <= p + m * k
    BY <1>1, <1>5
  <2> QED
    BY <1>1, <1>2, <2>2, <2>3, <2>6, <2>7, <2>8, <2>9 DEF Contract, e, d
<1>7. CASE v # Null /\ L # 0
  <2> DEFINE a == bits(L, p)
  <2>1. c \in Seq(Byte) /\ L \in Nat /\ L <= m /\ L < pow2(p)
    BY <1>1, <1>4, <1>7
  <2>2. e = a \o x
    BY <1>2, <1>7 DEF string_encode
  <2>3. x \in Seq(Bit) /\ Len(x) = L * k /\ bytes_of(x) = c
    BY <2>1, ByteBitsIs, BytesBack
  <2>4. a \in Seq(Bit) /\ Len(a) = p /\ ulong(a) = L
    BY <1>1, <2>1, BitsIs, UlongOfBits
  <2> HIDE DEF a, e, d
  <2>5. e \in Seq(Bit) /\ Len(e) = p + L * k
    <3> HIDE DEF x
    <3>1. a \in Seq(Bit) /\ x \in Seq(Bit)
      BY <2>3, <2>4
    <3>2. a \o x \in Seq(Bit) /\ Len(a \o x) = Len(a) + Len(x)
      BY <3>1, TwoPieces
    <3> QED
      BY <2>2, <2>3, <2>4, <3>2
  <2>6. more(e \o rest, 0, p) = a /\ more(e \o rest, p, L * k) = x
    BY <2>2, <2>3, <2>4, TakeNext
  <2>7. L * k \in Nat /\ L * k # 0 /\ L * k <= m * k
    <3>1. k \in Nat \ {0} /\ L * k \in Nat /\ L * k # 0
      BY <1>7, <2>1, NoBytes, SizesAssumption
    <3>2. L * k <= m * k
      BY <1>1, <2>1, <3>1, MultipleOrder
    <3> QED
      BY <3>1, <3>2
  <2>8. d = decoded(c, p + L * k)
    <3>1. ulong(more(e \o rest, 0, p)) * k = L * k
      BY <2>4, <2>6
    <3>2. d = IF L * k = 0 THEN decoded(Null, p)
              ELSE decoded(bytes_of(more(e \o rest, p, L * k)), p + L * k)
      BY <1>2, <3>1 DEF string_decode
    <3> QED
      BY <2>3, <2>6, <2>7, <3>2
  <2>9. size(f, v) = p + L * k
    BY <1>2, <1>7
  <2>10. d.used = p + L * k /\ d.value = c
    BY <2>8 DEF decoded
  <2>11. ReadFor(f, v, c)
    <3>1. c # << >>
      BY <1>7
    <3> QED
      BY <1>2, <1>7, <3>1
  <2>12. p <= p + L * k /\ p + L * k <= p + m * k
    BY <1>1, <1>5, <2>7
  <2> QED
    BY <1>1, <1>2, <2>5, <2>9, <2>10, <2>11, <2>12 DEF Contract, e, d
<1> QED
  BY <1>6, <1>7

\* A field that may be absent, and is.
LEMMA AbsentIsRead ==
  ASSUME NEW f, ~use_required(f), NEW rest \in Seq(Bit)
  PROVE  /\ presence_size(f) = 1
         /\ <<0>> \in Seq(Bit) /\ Len(<<0>>) = 1 /\ more(<<0>> \o rest, 0, 1) = <<0>>
<1>1. <<0>> \in Seq(Bit) /\ Len(<<0>>) = 1
  BY DEF Bit
<1>2. more(<<0>> \o rest, 0, Len(<<0>>)) = <<0>>
  BY <1>1, TakeFront
<1> QED
  BY <1>1, <1>2, PresenceIs

\* A field that is there is not taken for one that is not.
LEMMA PresentIsRead ==
  ASSUME NEW f, NEW w, more(w, 0, presence_size(f)) = bits(1, presence_size(f))
  PROVE  ~(~use_required(f) /\ more(w, 0, 1) = <<0>>)
<1> SUFFICES ASSUME ~use_required(f) PROVE more(w, 0, 1) # <<0>>
  OBVIOUS
<1>1. presence_size(f) = 1 /\ bits(1, presence_size(f)) = <<1>> /\ <<0>> # <<1>>
  BY PresenceIs
<1> QED
  BY <1>1

\* Any bytes, none of them too, are told from no value.
LEMMA VarBytesContract ==
  ASSUME NEW f, validate(f), f.codec = "var_bytes", NEW v, encodable(f, v),
         NEW rest \in Seq(Bit), NEW clock
  PROVE  Contract(f, v, rest, clock)
<1> DEFINE p == prefix_size(f)
           s == presence_size(f)
           m == f.max_length
           k == BITS_IN_BYTE
           c == cut(f, v)
           L == Len(c)
           x == byte_bits(c)
           e == encode(f, v)
           d == decode(f, e \o rest, clock)
<1>1. p \in Nat /\ m \in Nat /\ \A n \in Nat : n <= m => n < pow2(p)
  BY PrefixIs
<1>2. /\ e = var_bytes_encode(f, v) /\ d = var_bytes_decode(f, e \o rest)
      /\ min_size(f) = (IF use_required(f) THEN p ELSE 1) /\ max_size(f) = s + m * k + p
      /\ size(f, v) = IF v = Null THEN min_size(f) ELSE s + p + L * k
      /\ \A r : ReadFor(f, v, r) <=> r = IF v = Null THEN Null ELSE c
  BY DEF encode, decode, min_size, max_size, size, ReadFor
<1>3. m * k \in Nat
  BY <1>1, NoBytes
<1>4. s = IF use_required(f) THEN 0 ELSE 1
  BY PresenceIs
<1>6. CASE v = Null
  <2>1. ~use_required(f)
    BY <1>6 DEF encodable
  <2>2. s = 1 /\ bits(0, 1) = <<0>>
    BY <2>1, PresenceIs
  <2>3. e = <<0>>
    BY <1>2, <1>6, <2>1, <2>2 DEF var_bytes_encode
  <2>4. <<0>> \in Seq(Bit) /\ Len(<<0>>) = 1 /\ more(<<0>> \o rest, 0, 1) = <<0>>
    BY <2>1, AbsentIsRead
  <2> HIDE DEF e, d
  <2>5. d = decoded(Null, 1)
    BY <1>2, <2>1, <2>3, <2>4 DEF var_bytes_decode
  <2>6. d.used = 1 /\ d.value = Null
    BY <2>5 DEF decoded
  <2>7. size(f, v) = 1 /\ min_size(f) = 1 /\ ReadFor(f, v, Null)
    BY <1>2, <1>6, <2>1
  <2>8. 1 \in Nat /\ 1 <= 1 /\ 1 <= 1 + m * k + p
    BY <1>1, <1>3
  <2> QED
    BY <1>2, <2>2, <2>3, <2>4, <2>6, <2>7, <2>8 DEF Contract, e, d
<1>7. CASE v # Null
  <2> DEFINE a == bits(1, s)
             b == bits(L, p)
  <2>1. c \in Seq(Byte) /\ L \in Nat /\ L <= m /\ L < pow2(p)
    <3>1. v \in Seq(Byte)
      BY <1>7 DEF encodable
    <3> QED
      BY <1>1, <3>1, CutIs
  <2>2. e = (a \o b) \o x
    BY <1>2, <1>7 DEF var_bytes_encode
  <2>3. x \in Seq(Bit) /\ Len(x) = L * k /\ bytes_of(x) = c
    BY <2>1, ByteBitsIs, BytesBack
  <2>4. b \in Seq(Bit) /\ Len(b) = p /\ ulong(b) = L
    BY <1>1, <2>1, BitsIs, UlongOfBits
  <2>5. a \in Seq(Bit) /\ Len(a) = s
    BY PresenceIs
  <2> DEFINE w == e \o rest
  <2> HIDE DEF a, b, e, d, x
  <2>6. /\ e \in Seq(Bit) /\ Len(e) = s + p + L * k
        /\ more(w, 0, s) = a /\ more(w, s, p) = b /\ more(w, s + p, L * k) = x
    <3>1. a \in Seq(Bit) /\ b \in Seq(Bit) /\ x \in Seq(Bit) /\ w = ((a \o b) \o x) \o rest
      BY <2>2, <2>3, <2>4, <2>5
    <3> HIDE DEF w
    <3>2. ThreePieces(a, b, x, w)
      BY <3>1, TakeThree
    <3> QED
      BY <2>2, <2>3, <2>4, <2>5, <3>2 DEF ThreePieces
  <2>7. L * k \in Nat /\ L * k <= m * k
    <3>1. k \in Nat \ {0} /\ L * k \in Nat
      BY <2>1, NoBytes, SizesAssumption
    <3>2. L * k <= m * k
      BY <1>1, <2>1, <3>1, MultipleOrder
    <3> QED
      BY <3>1, <3>2
  <2>8. d = decoded(c, s + p + L * k)
    <3>1. ulong(more(w, s, p)) * k = L * k
      BY <2>4, <2>6
    <3>2. ~(~use_required(f) /\ more(w, 0, 1) = <<0>>)
      <4>1. more(w, 0, s) = bits(1, s)
        BY <2>6 DEF a
      <4> HIDE DEF w
      <4> QED
        BY <4>1, PresentIsRead
    <3>3. d = decoded(bytes_of(more(w, s + p, L * k)), s + p + L * k)
      BY <1>2, <3>1, <3>2 DEF var_bytes_decode
    <3> QED
      BY <2>3, <2>6, <3>3
  <2>9. size(f, v) = s + p + L * k
    BY <1>2, <1>7
  <2>10. d.used = s + p + L * k /\ d.value = c
    BY <2>8 DEF decoded
  <2>11. ReadFor(f, v, c)
    BY <1>2, <1>7
  <2>12. min_size(f) \in Nat /\ min_size(f) <= s + p + L * k /\ s + p + L * k <= s + m * k + p
    BY <1>1, <1>2, <1>3, <1>4, <2>7
  <2> QED
    BY <1>2, <2>6, <2>9, <2>10, <2>11, <2>12 DEF Contract, e, d
<1> QED
  BY <1>6, <1>7

\* As many bytes as the field has, those that are missing 0.
LEMMA BytesContract ==
  ASSUME NEW f, validate(f), f.codec = "bytes", NEW v, encodable(f, v),
         NEW rest \in Seq(Bit), NEW clock
  PROVE  Contract(f, v, rest, clock)
<1> DEFINE s == presence_size(f)
           m == f.max_length
           k == BITS_IN_BYTE
           e == encode(f, v)
           d == decode(f, e \o rest, clock)
<1>1. m \in Nat
  BY DEF validate
<1>2. /\ e = bytes_encode(f, v) /\ d = bytes_decode(f, e \o rest)
      /\ min_size(f) = (IF use_required(f) THEN m * k ELSE 1) /\ max_size(f) = s + m * k
      /\ size(f, v) = IF v = Null THEN min_size(f) ELSE s + m * k
  <2>1. max_size(f) = s + m * k + 0
    BY DEF max_size
  <2>2. s \in Nat
    BY DEF presence_size
  <2>3. m * k \in Nat
    BY <1>1, NoBytes
  <2>4. max_size(f) = s + m * k
    BY <2>1, <2>2, <2>3
  <2> QED
    BY <2>4 DEF encode, decode, min_size, size
<1>3. m * k \in Nat
  BY <1>1, NoBytes
<1>4. s = IF use_required(f) THEN 0 ELSE 1
  BY PresenceIs
<1>6. CASE v = Null
  <2>1. ~use_required(f)
    BY <1>6 DEF encodable
  <2>2. s = 1 /\ bits(0, 1) = <<0>>
    BY <2>1, PresenceIs
  <2>3. e = <<0>>
    BY <1>2, <1>6, <2>1, <2>2 DEF bytes_encode
  <2>4. <<0>> \in Seq(Bit) /\ Len(<<0>>) = 1 /\ more(<<0>> \o rest, 0, 1) = <<0>>
    BY <2>1, AbsentIsRead
  <2> HIDE DEF e, d
  <2>5. d = decoded(Null, 1)
    BY <1>2, <2>1, <2>3, <2>4 DEF bytes_decode
  <2>6. d.used = 1 /\ d.value = Null
    BY <2>5 DEF decoded
  <2>7. size(f, v) = 1 /\ min_size(f) = 1
    BY <1>2, <1>6, <2>1
  <2>9. ReadFor(f, v, Null)
    BY <1>6 DEF ReadFor
  <2>8. 1 \in Nat /\ 1 <= 1 /\ 1 <= 1 + m * k
    BY <1>1, <1>3
  <2> QED
    BY <1>2, <2>2, <2>3, <2>4, <2>6, <2>7, <2>8, <2>9 DEF Contract, e, d
<1>7. CASE v # Null
  <2> DEFINE a == bits(1, s)
             c == padded(v, m)
             x == byte_bits(c)
  <2>1. v \in Seq(Byte)
    BY <1>7 DEF encodable
  <2>2. c \in Seq(Byte) /\ Len(c) = m /\ more(byte_bits(v), 0, m * k) = x
    BY <1>1, <2>1, PaddedBits
  <2>3. e = a \o x
    BY <1>2, <1>7, <2>2 DEF bytes_encode
  <2>4. x \in Seq(Bit) /\ Len(x) = m * k /\ bytes_of(x) = c
    BY <2>2, ByteBitsIs, BytesBack
  <2>5. a \in Seq(Bit) /\ Len(a) = s
    BY PresenceIs
  <2> DEFINE w == e \o rest
  <2> HIDE DEF a, e, d, x
  <2>6. /\ e \in Seq(Bit) /\ Len(e) = s + m * k
        /\ more(w, 0, s) = a /\ more(w, s, m * k) = x
    <3>1. a \in Seq(Bit) /\ x \in Seq(Bit)
      BY <2>4, <2>5
    <3>2. a \o x \in Seq(Bit) /\ Len(a \o x) = Len(a) + Len(x)
      BY <3>1, TwoPieces
    <3>3. more((a \o x) \o rest, 0, Len(a)) = a /\ more((a \o x) \o rest, Len(a), Len(x)) = x
      BY <3>1, TakeNext
    <3> QED
      BY <2>3, <2>4, <2>5, <3>2, <3>3
  <2>7. d = decoded(c, s + m * k)
    <3>1. ~(~use_required(f) /\ more(w, 0, 1) = <<0>>)
      <4>1. more(w, 0, s) = bits(1, s)
        BY <2>6 DEF a
      <4> HIDE DEF w
      <4> QED
        BY <4>1, PresentIsRead
    <3>2. d = decoded(bytes_of(more(w, s, m * k)), s + m * k)
      BY <1>2, <3>1 DEF bytes_decode
    <3> QED
      BY <2>4, <2>6, <3>2
  <2>8. size(f, v) = s + m * k
    BY <1>2, <1>7
  <2>9. d.used = s + m * k /\ d.value = c
    BY <2>7 DEF decoded
  <2>10. ReadFor(f, v, c)
    <3>1. \A i \in 1..m : c[i] = IF i <= Len(v) THEN v[i] ELSE 0
      BY DEF padded
    <3> HIDE DEF c
    <3> QED
      BY <1>7, <2>2, <3>1 DEF ReadFor
  <2>11. min_size(f) \in Nat /\ min_size(f) <= s + m * k
    BY <1>1, <1>2, <1>3, <1>4
  <2> QED
    BY <1>2, <1>3, <1>4, <2>6, <2>8, <2>9, <2>10, <2>11 DEF Contract, e, d
<1> QED
  BY <1>6, <1>7

-----------------------------------------------------------------------------
(* Codecs whose values all take the same room *)

\* The codecs with bounds.
BoundedCodecs == {"bool", "enum", "numeric", "time"}

\* The number that stands for v on the wire.
OnWire(f, required, v) == to_wire(number(f, required), pre_encode(f, v))

\* What is read of it.
FixedReads(f, required, v, clock) ==
  post_decode(f, from_wire(number(f, required), OnWire(f, required, v)), clock)

\* What number() hands to the numeric codec.
LEMMA NumberIs ==
  ASSUME NEW f, NEW required
  PROVE  LET n == number(f, required)
         IN /\ n.min = bounds(f).min /\ n.max = bounds(f).max /\ n.res = bounds(f).res
            /\ n.required = required
            /\ f.codec = "numeric" => n.unit = f.unit
            /\ f.codec = "time" => n.unit = 0
            /\ f.codec \in {"bool", "enum"} => n.unit = 1
  BY DEF number

\* Truth values and enumerations are counted in ones.
LEMMA OnesAreWhole ==
  ASSUME NEW v \in Int
  PROVE  ~fractional(1, 1) /\ quantize(1, v, 1) = v
<1>1. ~fractional(1, 1)
  BY DEF fractional
<1>2. v * 1 = v /\ 1 \in Nat \ {0} /\ 1 \in Nat
  OBVIOUS
<1> QED
  BY <1>1, <1>2, QuantizeKeepsMultiples

\* An index of a value, and its least and largest.
LEMMA RangeIs ==
  ASSUME NEW s \in Seq(Int), s # << >>
  PROVE  /\ Len(s) \in Nat \ {0} /\ Range(s) \subseteq Int
         /\ \A v : v \in Range(s) <=> \E i \in 1..Len(s) : v = s[i]
         /\ \E v : v \in Range(s)
  BY DEF Range

\* A sequence of integers has a least and a largest one.
LEMMA LeastAndLargest ==
  ASSUME NEW s \in Seq(Int), s # << >>
  PROVE  /\ Min(Range(s)) \in Range(s) /\ Max(Range(s)) \in Range(s)
         /\ \A v \in Range(s) : Min(Range(s)) <= v /\ v <= Max(Range(s))
<1> DEFINE R == Range(s)
           N == Len(s)
           Least(n) == \E i \in 1..n : \A j \in 1..n : s[i] <= s[j]
           Largest(n) == \E i \in 1..n : \A j \in 1..n : s[j] <= s[i]
           T == {n \in Nat : n + 1 <= N => Least(n + 1) /\ Largest(n + 1)}
<1>1. N \in Nat \ {0} /\ \A i \in 1..N : s[i] \in Int
  OBVIOUS
<1> HIDE DEF N
<1>2. 0 \in T
  <2>1. 1..1 = {1} /\ s[1] <= s[1]
    BY <1>1
  <2>2. Least(1) /\ Largest(1)
    BY <2>1
  <2> HIDE DEF Least, Largest
  <2> QED
    BY <2>2
<1>3. ASSUME NEW n \in Nat, n \in T, (n + 1) + 1 <= N
      PROVE  Least((n + 1) + 1) /\ Largest((n + 1) + 1)
  <2> DEFINE m == n + 1
  <2>0. Least(m) /\ Largest(m) /\ m \in Nat /\ m + 1 <= N
    <3> HIDE DEF Least, Largest
    <3> QED
      BY <1>1, <1>3
  <2> HIDE DEF m, T
  <2>1. s[m + 1] \in Int /\ \A j \in 1..m : s[j] \in Int
    BY <1>1, <2>0
  <2>2. PICK a \in 1..m : \A j \in 1..m : s[a] <= s[j]
    BY <2>0
  <2>3. PICK b \in 1..m : \A j \in 1..m : s[j] <= s[b]
    BY <2>0
  <2>4. a \in 1..m + 1 /\ b \in 1..m + 1 /\ m + 1 \in 1..m + 1
        /\ \A j \in 1..m + 1 : j \in 1..m \/ j = m + 1
    BY <2>0
  <2>5. s[a] \in Int /\ s[b] \in Int
    BY <2>1
  <2>6. Least(m + 1)
    <3>1. CASE s[a] <= s[m + 1]
      <4>1. \A j \in 1..m + 1 : s[a] <= s[j]
        BY <2>2, <2>4, <3>1
      <4> QED
        BY <2>4, <4>1
    <3>2. CASE ~(s[a] <= s[m + 1])
      <4>1. \A j \in 1..m + 1 : s[m + 1] <= s[j]
        <5>1. \A j \in 1..m : s[m + 1] <= s[j]
          BY <2>1, <2>2, <2>5, <3>2
        <5>2. s[m + 1] <= s[m + 1]
          BY <2>1
        <5> QED
          BY <2>4, <5>1, <5>2
      <4> QED
        BY <2>4, <4>1
    <3> QED
      BY <3>1, <3>2
  <2>7. Largest(m + 1)
    <3>1. CASE s[m + 1] <= s[b]
      <4>1. \A j \in 1..m + 1 : s[j] <= s[b]
        BY <2>3, <2>4, <3>1
      <4> QED
        BY <2>4, <4>1
    <3>2. CASE ~(s[m + 1] <= s[b])
      <4>1. \A j \in 1..m + 1 : s[j] <= s[m + 1]
        <5>1. \A j \in 1..m : s[j] <= s[m + 1]
          BY <2>1, <2>3, <2>5, <3>2
        <5>2. s[m + 1] <= s[m + 1]
          BY <2>1
        <5> QED
          BY <2>4, <5>1, <5>2
      <4> QED
        BY <2>4, <4>1
    <3> QED
      BY <3>1, <3>2
  <2> HIDE DEF Least, Largest
  <2> QED
    BY <2>6, <2>7 DEF m
<1> HIDE DEF Least, Largest
<1>9. \A n \in Nat : n \in T => n + 1 \in T
  BY <1>3
<1> HIDE DEF T
<1>4. Least(N) /\ Largest(N)
  <2>1. Nat \subseteq T
    BY <1>2, <1>9, NatSetInduction
  <2>2. N - 1 \in T /\ (N - 1) + 1 = N /\ N <= N
    BY <1>1, <2>1
  <2> QED
    BY <2>2 DEF T
<1>a. PICK a \in 1..N : \A j \in 1..N : s[a] <= s[j]
  BY <1>4 DEF Least
<1>b. PICK b \in 1..N : \A j \in 1..N : s[j] <= s[b]
  BY <1>4 DEF Largest
<1>5. \A j \in 1..N : s[a] <= s[j] /\ s[j] <= s[b]
  BY <1>a, <1>b
<1>6. \A v : v \in R <=> \E i \in 1..N : v = s[i]
  BY RangeIs DEF N
<1> HIDE DEF R, N
<1>7. s[a] \in R /\ s[b] \in R /\ \A v \in R : s[a] <= v /\ v <= s[b]
  BY <1>5, <1>6
<1>8. Min(R) \in R /\ \A v \in R : Min(R) <= v
  <2>1. \E x \in R : \A y \in R : x <= y
    BY <1>7
  <2> QED
    BY <2>1 DEF Min
<1>10. Max(R) \in R /\ \A v \in R : v <= Max(R)
  <2>1. \E x \in R : \A y \in R : x >= y
    <3>1. \A v \in R : v \in Int /\ s[b] \in Int
      BY <1>1, <1>5, <1>6
    <3>2. \A v \in R : s[b] >= v
      BY <1>7, <3>1
    <3> QED
      BY <1>7, <3>2
  <2>2. Max(R) \in R /\ \A v \in R : Max(R) >= v
    BY <2>1 DEF Max
  <2>3. \A v \in R : v \in Int
    BY <1>1, <1>6
  <2> QED
    BY <2>2, <2>3
<1> QED
  BY <1>8, <1>10 DEF R

\* What validate() lets through has bounds that are multiples.
LEMMA NumberIsValid ==
  ASSUME NEW f, validate(f), f.codec \in BoundedCodecs, NEW required \in BOOLEAN
  PROVE  Bounded(number(f, required)) /\ valid(number(f, required))
<1> DEFINE n == number(f, required)
           b == bounds(f)
<1>1. n.min = b.min /\ n.max = b.max /\ n.res = b.res /\ n.required = required
  BY NumberIs
<1>2. n.unit \in Nat /\ n.required \in BOOLEAN
  <2>1. CASE f.codec = "numeric"
    <3>1. f.unit \in Nat
      BY <2>1 DEF validate
    <3> QED
      BY <1>1, <2>1, <3>1, NumberIs
  <2>2. CASE f.codec = "time"
    BY <1>1, <2>2, NumberIs
  <2>3. CASE f.codec \in {"bool", "enum"}
    BY <1>1, <2>3, NumberIs
  <2> QED
    BY <2>1, <2>2, <2>3 DEF BoundedCodecs
<1>3. CASE f.codec \in {"numeric", "time"}
  <2>1. b.min \in Int /\ b.max \in Int /\ b.res \in Int
    <3>1. CASE f.codec = "numeric"
      <4>1. f.min \in Int /\ f.max \in Int /\ f.res \in Int
        BY <3>1 DEF validate
      <4>2. b.min = f.min /\ b.max = f.max /\ b.res = f.res
        BY <3>1 DEF bounds
      <4> QED
        BY <4>1, <4>2
    <3>2. CASE f.codec = "time"
      <4>1. f.max \in Nat \ {0} /\ f.res \in Nat
        BY <3>2 DEF validate
      <4>2. b.min = 0 /\ b.max = f.max /\ b.res = f.res
        BY <3>2 DEF bounds
      <4> HIDE DEF b
      <4> QED
        BY <4>1, <4>2
    <3> QED
      BY <1>3, <3>1, <3>2
  <2>3. valid(number(f, TRUE))
    BY <1>3 DEF validate
  <2>2. valid(n)
    <3> DEFINE t == number(f, TRUE)
    <3>1. n.min = t.min /\ n.max = t.max /\ n.res = t.res
      BY DEF number
    <3> HIDE DEF n, t
    <3> QED
      BY <2>3, <3>1 DEF valid, t
  <2> QED
    BY <1>1, <1>2, <2>1, <2>2 DEF Bounded
<1>4. CASE f.codec \in {"bool", "enum"}
  <2>1. b.min \in Int /\ b.max \in Int /\ b.res = 1 /\ b.min <= b.max
    <3>1. CASE f.codec = "bool"
      BY <3>1 DEF bounds
    <3>2. CASE f.codec = "enum"
      <4>1. f.numbers \in Seq(Int) /\ f.numbers # << >>
        BY <3>2 DEF validate
      <4> DEFINE R == Range(f.numbers)
      <4>2. /\ Len(f.numbers) \in Nat \ {0} /\ R \subseteq Int
            /\ Min(R) \in R /\ Max(R) \in R /\ Min(R) <= Max(R)
        BY <4>1, RangeIs, LeastAndLargest
      <4>3. b = IF by_index(f) THEN [min |-> 0, max |-> Len(f.numbers) - 1, res |-> 1]
                ELSE [min |-> Min(R), max |-> Max(R), res |-> 1]
        BY <3>2 DEF bounds
      <4> HIDE DEF b, R
      <4>4. CASE by_index(f)
        <5>1. b.min = 0 /\ b.max = Len(f.numbers) - 1 /\ b.res = 1
          BY <4>3, <4>4
        <5> QED
          BY <4>2, <5>1
      <4>5. CASE ~by_index(f)
        <5>1. b.min = Min(R) /\ b.max = Max(R) /\ b.res = 1
          BY <4>3, <4>5
        <5> QED
          BY <4>2, <5>1
      <4> QED
        BY <4>4, <4>5
    <3> QED
      BY <1>4, <3>1, <3>2
  <2>2. ASSUME NEW v \in Int PROVE quantize(0, v, 1) = v
    <3>1. v * 1 = v /\ 1 \in Nat \ {0} /\ 0 \in Nat
      OBVIOUS
    <3> QED
      BY <3>1, QuantizeKeepsMultiples
  <2>3. quantize(0, n.min, n.res) = n.min /\ quantize(0, n.max, n.res) = n.max
    BY <1>1, <2>1, <2>2
  <2>4. n.res > 0 /\ n.min <= n.max
    BY <1>1, <2>1
  <2>5. n.min \in Int /\ n.max \in Int /\ n.res \in Int
    BY <1>1, <2>1
  <2>6. Bounded(n)
    BY <1>2, <2>5 DEF Bounded
  <2>7. valid(n)
    BY <2>3, <2>4 DEF valid
  <2> QED
    BY <2>6, <2>7
<1> QED
  BY <1>3, <1>4 DEF BoundedCodecs

\* The bits of a number, and the number they are read as.
LEMMA FixedBits ==
  ASSUME NEW f, validate(f), f.codec \in BoundedCodecs, NEW required \in BOOLEAN,
         NEW v, pre_encode(f, v) \in Int \cup {Null}, NEW clock
  PROVE  LET e == fixed_encode(f, required, v)
         IN /\ fixed_size(f, required) \in Nat
            /\ e \in Seq(Bit) /\ Len(e) = fixed_size(f, required)
            /\ fixed_decode(f, required, e, clock) = FixedReads(f, required, v, clock)
<1> DEFINE n == number(f, required)
           x == pre_encode(f, v)
           u == to_wire(n, x)
           k == fixed_size(f, required)
           e == fixed_encode(f, required, v)
<1>1. Bounded(n) /\ valid(n)
  BY NumberIsValid
<1>2. x \in Int \cup {Null}
  OBVIOUS
<1>3. k = ceil_log2(wire_values(n)) /\ e = bits(u, k)
  BY DEF fixed_size, fixed_encode
<1>4. fixed_decode(f, required, e, clock) = post_decode(f, from_wire(n, ulong(e)), clock)
  BY DEF fixed_decode
<1>5. FixedReads(f, required, v, clock) = post_decode(f, from_wire(n, u), clock)
  BY DEF FixedReads, OnWire
<1> HIDE DEF n, x, u, k, e
<1>6. wire_values(n) \in Nat \ {0}
  <2>1. PICK a \in Int, b \in Int : n.min = a * n.res /\ n.max = b * n.res /\ a <= b
    BY <1>1, BoundsAreMultiples
  <2>2. n.res \in Nat \ {0}
    BY <1>1, BoundsAreMultiples
  <2>3. n.max - n.min = (b - a) * n.res
    BY <2>1, <2>2, MultipleDifference
  <2>4. (n.max - n.min) \div n.res = b - a
    BY <2>1, <2>2, <2>3, MultipleDiv
  <2>5. wire_values(n) = b - a + 1 + null_values(n) /\ null_values(n) \in {0, 1}
    BY <2>4 DEF wire_values, null_values
  <2> QED
    BY <2>1, <2>5
<1>7. u \in Nat /\ u < wire_values(n)
  <2>1. CASE x = Null \/ ~in_bounds(n, x)
    <3>1. u = 0
      BY <2>1 DEF to_wire, u
    <3> QED
      BY <1>6, <3>1
  <2>2. CASE x # Null /\ in_bounds(n, x)
    <3>1. u \in null_values(n)..(wire_values(n) - 1)
      BY <1>1, <1>2, <2>2, InBoundsRoundTrip DEF u
    <3>2. null_values(n) \in {0, 1}
      BY DEF null_values
    <3> QED
      BY <1>6, <3>1, <3>2
  <2> QED
    BY <2>1, <2>2
<1>8. k \in Nat /\ u < pow2(k)
  <2>1. k \in Nat /\ wire_values(n) <= pow2(k)
    BY <1>3, <1>6, CeilLog2Is
  <2>2. pow2(k) \in Nat
    BY <2>1, Pow2Is
  <2> QED
    BY <1>6, <1>7, <2>1, <2>2
<1>9. e \in Seq(Bit) /\ Len(e) = k
  BY <1>3, <1>7, <1>8, BitsIs
<1>10. ulong(e) = u
  BY <1>3, <1>7, <1>8, UlongOfBits
<1> QED
  BY <1>4, <1>5, <1>8, <1>9, <1>10 DEF k, e

\* The codecs with bounds take as much room as they say, with a presence bit
\* in front or without.
LEMMA BoundedContract ==
  ASSUME NEW f, validate(f), f.codec \in BoundedCodecs, NEW v, encodable(f, v),
         pre_encode(f, v) \in Int \cup {Null}, NEW rest \in Seq(Bit), NEW clock,
         ReadFor(f, Null, Null),
         v # Null \/ ~f.presence =>
           ReadFor(f, v, FixedReads(f, f.presence \/ use_required(f), v, clock))
  PROVE  /\ Contract(f, v, rest, clock)
         /\ v # Null => decode(f, encode(f, v) \o rest, clock).value
                          = FixedReads(f, f.presence \/ use_required(f), v, clock)
<1> DEFINE s == presence_size(f)
           required == f.presence \/ use_required(f)
           k == fixed_size(f, required)
           x == fixed_encode(f, required, v)
           y == FixedReads(f, required, v, clock)
           e == encode(f, v)
           d == decode(f, e \o rest, clock)
<1>1. required \in BOOLEAN /\ f.presence \in BOOLEAN
  BY DEF validate
<1>2. s = IF use_required(f) THEN 0 ELSE 1
  BY PresenceIs
<1>3. k \in Nat /\ x \in Seq(Bit) /\ Len(x) = k /\ fixed_decode(f, required, x, clock) = y
  BY <1>1, FixedBits
<1>0. f.codec \notin {"static", "string", "var_bytes", "bytes", "native"}
  BY DEF BoundedCodecs
<1>4. CASE ~f.presence
  <2>0. required = use_required(f)
    BY <1>1, <1>4 DEF use_required
  <2>1. e = x
    BY <1>0, <1>4, <2>0 DEF encode
  <2>2. min_size(f) = k /\ max_size(f) = k /\ size(f, v) = k
    <3>1. min_size(f) = k
      BY <1>0, <1>4 DEF min_size
    <3>2. max_size(f) = k
      BY <1>0, <1>4, <2>0 DEF max_size
    <3>3. size(f, v) = k
      BY <1>0, <1>4, <2>0 DEF size
    <3> QED
      BY <3>1, <3>2, <3>3
  <2> DEFINE w == e \o rest
  <2>3. d = decoded(fixed_decode(f, required, more(w, 0, k), clock), 0 + k)
    BY <1>0, <1>4 DEF decode
  <2> HIDE DEF e, d, x, y, k, required
  <2>4. more(w, 0, k) = x
    BY <1>3, <2>1, TakeFront
  <2>5. d.used = k /\ d.value = y
    BY <1>3, <2>3, <2>4 DEF decoded
  <2>6. ReadFor(f, v, y)
    BY <1>4 DEF y, required
  <2>7. k <= k
    BY <1>3
  <2> QED
    BY <1>3, <2>1, <2>2, <2>5, <2>6, <2>7 DEF Contract, e, d, y, required
<1>5. CASE f.presence /\ v = Null
  <2>1. ~use_required(f)
    BY <1>5 DEF encodable
  <2>2. s = 1
    BY <1>2, <2>1
  <2>3. e = <<0>>
    BY <1>0, <1>5 DEF encode
  <2>4. <<0>> \in Seq(Bit) /\ Len(<<0>>) = 1 /\ more(<<0>> \o rest, 0, 1) = <<0>>
    BY <2>1, AbsentIsRead
  <2> HIDE DEF e
  <2>5. d = decoded(Null, 1)
    BY <1>0, <1>5, <2>2, <2>3, <2>4 DEF decode
  <2> HIDE DEF d
  <2>6. d.used = 1 /\ d.value = Null
    BY <2>5 DEF decoded
  <2>7. size(f, v) = 1 /\ min_size(f) = 1
    BY <1>0, <1>5, <2>1 DEF size, min_size
  <2>8. max_size(f) = 1 + k
    <3>1. required = TRUE
      BY <1>5
    <3> QED
      BY <1>0, <1>5, <2>2, <3>1 DEF max_size
  <2> HIDE DEF k
  <2>9. 1 \in Nat /\ 1 <= 1 /\ 1 <= 1 + k
    BY <1>3
  <2> QED
    BY <1>5, <2>3, <2>4, <2>6, <2>7, <2>8, <2>9 DEF Contract, e, d
<1>6. CASE f.presence /\ v # Null
  <2> DEFINE a == bits(1, s)
             w == e \o rest
  <2>0. required = TRUE
    BY <1>6
  <2>1. e = a \o x
    BY <1>0, <1>6, <2>0 DEF encode
  <2>2. min_size(f) = (IF use_required(f) THEN k ELSE 1) /\ max_size(f) = s + k
        /\ size(f, v) = s + k
    <3>1. min_size(f) = IF use_required(f) THEN k ELSE 1
      BY <1>0, <1>6 DEF min_size
    <3>2. max_size(f) = s + k
      BY <1>0, <1>6, <2>0 DEF max_size
    <3>3. size(f, v) = s + k
      BY <1>0, <1>6, <2>0 DEF size
    <3> QED
      BY <3>1, <3>2, <3>3
  <2>3. d = IF s = 1 /\ more(w, 0, 1) = <<0>> THEN decoded(Null, 1)
            ELSE decoded(fixed_decode(f, required, more(w, s, k), clock), s + k)
    BY <1>0, <1>6 DEF decode
  <2>5. a \in Seq(Bit) /\ Len(a) = s
    BY PresenceIs
  <2> HIDE DEF a, e, d, x, y, k, required
  <2>6. /\ e \in Seq(Bit) /\ Len(e) = s + k
        /\ more(w, 0, s) = a /\ more(w, s, k) = x
    <3>1. a \in Seq(Bit) /\ x \in Seq(Bit)
      BY <1>3, <2>5
    <3>2. a \o x \in Seq(Bit) /\ Len(a \o x) = Len(a) + Len(x)
      BY <3>1, TwoPieces
    <3>3. more((a \o x) \o rest, 0, Len(a)) = a /\ more((a \o x) \o rest, Len(a), Len(x)) = x
      BY <3>1, TakeNext
    <3> QED
      BY <1>3, <2>1, <2>5, <3>2, <3>3
  <2>7. d = decoded(y, s + k)
    <3>1. ~(~use_required(f) /\ more(w, 0, 1) = <<0>>)
      <4>1. more(w, 0, s) = bits(1, s)
        BY <2>6 DEF a
      <4> HIDE DEF w
      <4> QED
        BY <4>1, PresentIsRead
    <3>2. ~(s = 1 /\ more(w, 0, 1) = <<0>>)
      BY <1>2, <3>1
    <3> QED
      BY <1>3, <2>3, <2>6, <3>2
  <2>8. d.used = s + k /\ d.value = y
    BY <2>7 DEF decoded
  <2>9. ReadFor(f, v, y)
    BY <1>6 DEF y, required
  <2>10. min_size(f) \in Nat /\ min_size(f) <= s + k /\ s + k <= s + k
    BY <1>2, <1>3, <2>2
  <2> QED
    BY <2>2, <2>6, <2>8, <2>9, <2>10 DEF Contract, e, d, y, required
<1> QED
  BY <1>1, <1>4, <1>5, <1>6

\* An absent value is read as absent where it may be.
LEMMA AbsentReads ==
  ASSUME NEW f, f.codec \in BoundedCodecs, NEW clock
  PROVE  FixedReads(f, FALSE, Null, clock) = Null /\ ReadFor(f, Null, Null)
<1>1. pre_encode(f, Null) = Null
  BY DEF pre_encode
<1>2. to_wire(number(f, FALSE), Null) = 0
  BY DEF to_wire
<1>3. from_wire(number(f, FALSE), 0) = Null
  BY NumberIs DEF from_wire
<1>4. post_decode(f, Null, clock) = Null
  BY DEF post_decode
<1>5. ReadFor(f, Null, Null)
  BY DEF ReadFor, BoundedCodecs
<1> QED
  BY <1>1, <1>2, <1>3, <1>4, <1>5 DEF FixedReads, OnWire

\* A truth value.
LEMMA BoolReads ==
  ASSUME NEW f, validate(f), f.codec = "bool", NEW required \in BOOLEAN, NEW v \in {0, 1},
         NEW clock
  PROVE  /\ pre_encode(f, v) = v /\ v # Null
         /\ FixedReads(f, required, v, clock) = v /\ ReadFor(f, v, v)
<1> DEFINE n == number(f, required)
<1>1. v # Null /\ v \in Int
  BY NullAssumption
<1>2. pre_encode(f, v) = v /\ post_decode(f, v, clock) = v
  BY <1>1 DEF pre_encode, post_decode
<1>3. Bounded(n) /\ valid(n)
  BY NumberIsValid DEF BoundedCodecs
<1>4. n.min = 0 /\ n.max = 1 /\ n.res = 1 /\ n.unit = 1
  <2>1. bounds(f).min = 0 /\ bounds(f).max = 1 /\ bounds(f).res = 1
    BY DEF bounds
  <2> QED
    BY <2>1, NumberIs
<1> HIDE DEF n
<1>5. quantize(n.unit, v, n.res) = v
  BY <1>1, <1>4, OnesAreWhole
<1>6. in_bounds(n, v)
  BY <1>4, <1>5 DEF in_bounds
<1>7. from_wire(n, to_wire(n, v)) = v
  BY <1>1, <1>3, <1>4, <1>5, <1>6, InBoundsRoundTrip, OnesAreWhole
<1>8. ReadFor(f, v, v)
  BY DEF ReadFor
<1> QED
  BY <1>1, <1>2, <1>7, <1>8 DEF FixedReads, OnWire, n

\* An enumeration, by the index of its value or by its number.
LEMMA EnumReads ==
  ASSUME NEW f, validate(f), f.codec = "enum", NEW required \in BOOLEAN,
         NEW v \in Range(f.numbers), NEW clock
  PROVE  /\ pre_encode(f, v) \in Int /\ v # Null
         /\ FixedReads(f, required, v, clock) = v /\ ReadFor(f, v, v)
<1> DEFINE s == f.numbers
           n == number(f, required)
           x == pre_encode(f, v)
           N == Len(s)
<1>1. s \in Seq(Int) /\ s # << >>
  BY DEF validate
<1>2. N \in Nat \ {0} /\ Range(s) \subseteq Int
  BY <1>1, RangeIs
<1>3. PICK i \in 1..N : v = s[i]
  BY <1>1, RangeIs
<1>4. v \in Int /\ v # Null
  BY <1>2, NullAssumption
<1>5. Bounded(n) /\ valid(n)
  BY NumberIsValid DEF BoundedCodecs
<1>6. n.min = bounds(f).min /\ n.max = bounds(f).max /\ n.res = bounds(f).res
  BY NumberIs
<1>7. n.unit = 1
  BY NumberIs
<1>8. x \in Int /\ n.res = 1 /\ n.min <= x /\ x <= n.max /\ post_decode(f, x, clock) = v
  <2>1. CASE by_index(f)
    <3> DEFINE I == {j \in 1..N : s[j] = v}
    <3>1. SelectInSeq(s, LAMBDA m : m = v) = IF I # {} THEN Min(I) ELSE 0
      BY DEF SelectInSeq, Min
    <3>2. I # {} /\ I \subseteq Nat
      BY <1>3
    <3>3. PICK j \in I : \A l \in I : j <= l
      <4> HIDE DEF I
      <4> QED
        BY <3>2, LeastIn
    <3>4. Min(I) \in I
      BY <3>3 DEF Min
    <3>5. x = Min(I) - 1
      BY <1>4, <2>1, <3>1, <3>2 DEF pre_encode
    <3>6. Min(I) \in 1..N /\ s[Min(I)] = v
      BY <3>4
    <3>7. bounds(f) = [min |-> 0, max |-> N - 1, res |-> 1]
      BY <2>1 DEF bounds
    <3>8. n.min = 0 /\ n.max = N - 1 /\ n.res = 1
      BY <1>6, <3>7
    <3> DEFINE m == Min(I)
    <3> HIDE DEF I, n, m, x, N
    <3>9. x \in Int /\ x < N /\ 0 <= x /\ x <= N - 1 /\ x + 1 = m
      BY <1>2, <3>5, <3>6 DEF m
    <3>10. post_decode(f, x, clock) = v
      <4>1. x # Null
        BY <3>9, NullAssumption
      <4>2. post_decode(f, x, clock) = IF x < N THEN s[x + 1] ELSE Null
        BY <2>1, <4>1 DEF post_decode, N
      <4>3. s[x + 1] = v
        BY <3>6, <3>9 DEF m
      <4> QED
        BY <3>9, <4>2, <4>3
    <3> QED
      BY <3>8, <3>9, <3>10
  <2>2. CASE ~by_index(f)
    <3>1. x = v
      BY <1>4, <2>2 DEF pre_encode
    <3>2. post_decode(f, v, clock) = v
      BY <1>4, <2>2 DEF post_decode
    <3>3. bounds(f) = [min |-> Min(Range(s)), max |-> Max(Range(s)), res |-> 1]
      BY <2>2 DEF bounds
    <3>4. n.min = Min(Range(s)) /\ n.max = Max(Range(s)) /\ n.res = 1
      BY <1>6, <3>3
    <3>5. Min(Range(s)) <= v /\ v <= Max(Range(s))
      BY <1>1, LeastAndLargest
    <3> HIDE DEF n, x
    <3> QED
      BY <1>4, <3>1, <3>2, <3>4, <3>5
  <2> QED
    BY <2>1, <2>2
<1> HIDE DEF n, x, s, N
<1>9. quantize(n.unit, x, n.res) = x
  BY <1>7, <1>8, OnesAreWhole
<1>10. in_bounds(n, x)
  BY <1>8, <1>9 DEF in_bounds
<1>11. from_wire(n, to_wire(n, x)) = x
  BY <1>5, <1>7, <1>8, <1>9, <1>10, InBoundsRoundTrip, OnesAreWhole
<1>12. ReadFor(f, v, v)
  BY DEF ReadFor
<1> QED
  BY <1>4, <1>8, <1>11, <1>12 DEF FixedReads, OnWire, n, x, s

\* quantize() of a floating point number.
LEMMA RoundsToNearest ==
  ASSUME NEW v \in Int, NEW r \in Nat \ {0}
  PROVE  LET q == quantize(0, v, r)
         IN /\ q \in Int /\ (\E k \in Int : q = k * r)
            /\ 2 * (q - v) <= r /\ 2 * (v - q) <= r
            /\ q = ((2 * v + r) \div (2 * r)) * r
<1>1. ~fractional(0, r) /\ 0 \in Nat
  BY DEF fractional
<1>2. quantize(0, v, r) = ((2 * v + r) \div (2 * r)) * r
  BY DEF quantize, fractional, rounded
<1> QED
  BY <1>1, <1>2, QuantizeNearest

\* What is over is an integer.
LEMMA RemainderIsInt ==
  ASSUME NEW a \in Int, NEW b \in Nat \ {0}
  PROVE  a % b \in Int
BY DivMod

\* A cast leaves an integer.
LEMMA WholePartIsInt ==
  ASSUME NEW unit \in Nat, NEW v \in Int
  PROVE  whole_part(unit, v) \in Int
<1>1. CASE unit = 0
  BY <1>1 DEF whole_part
<1>2. CASE unit # 0
  <2>1. remainder(v, unit) \in Int
    BY <1>2, RemainderLeavesMultiple
  <2> QED
    BY <1>2, <2>1 DEF whole_part
<1> QED
  BY <1>1, <1>2

\* A time is rounded to some place.
LEMMA PlaceIs ==
  ASSUME NEW f, validate(f), f.codec = "time", f.res \in Nat \ {0}
  PROVE  f.unit \in Nat /\ f.second \in Nat \ {0} /\ place(f) \in Nat \ {0}
<1>1. f.unit \in Nat /\ f.second \in Nat \ {0}
  BY DEF validate
<1> QED
  BY <1>1 DEF place

\* A time of day goes on the wire as the quantile of what is over a span.
LEMMA TimeReads ==
  ASSUME NEW f, validate(f), f.codec = "time", NEW required \in BOOLEAN, NEW v \in Nat,
         NEW clock \in Int
  PROVE  LET q == quantize(0, v % f.max, f.res)
         IN /\ pre_encode(f, v) \in Int /\ v # Null
            /\ q \in 0..f.max /\ f.max \in Nat \ {0}
            /\ FixedReads(f, required, v, clock)
                 = rounded(f.unit > 0, whole_part(f.unit, day(f, q, clock) + q), place(f))
            /\ FixedReads(f, required, v, clock) \in Int
<1> DEFINE n == number(f, required)
           e == v % f.max
           q == quantize(0, e, f.res)
<1>1. v # Null /\ v \in Int
  BY NullAssumption
<1>2. f.max \in Nat \ {0} /\ f.res \in Nat /\ f.second \in Nat \ {0}
  BY DEF validate
<1>3. Bounded(n) /\ valid(n)
  BY NumberIsValid DEF BoundedCodecs
<1>4. n.min = 0 /\ n.max = f.max /\ n.res = f.res /\ n.unit = 0
  <2>1. bounds(f).min = 0 /\ bounds(f).max = f.max /\ bounds(f).res = f.res
    BY DEF bounds
  <2> QED
    BY <2>1, NumberIs
<1>5. e \in 0..f.max - 1
  BY <1>1, <1>2, DivMod
<1>6. pre_encode(f, v) = e
  BY <1>1, <1>2 DEF pre_encode, remainder
<1> HIDE DEF n, e
<1>7. q \in 0..f.max
  <2> DEFINE r == f.res
  <2>1. r \in Nat \ {0} /\ \E a \in Int, b \in Int : n.min = a * r /\ n.max = b * r /\ a <= b
    BY <1>3, <1>4, BoundsAreMultiples
  <2>2. PICK b \in Int : f.max = b * r
    BY <1>4, <2>1
  <2>3. /\ q \in Int /\ (\E k \in Int : q = k * r)
        /\ 2 * (q - e) <= r /\ 2 * (e - q) <= r
    <3>1. e \in Int
      BY <1>2, <1>5
    <3>2. r \in Nat \ {0}
      BY <2>1
    <3>3. q \in Int
      BY <3>1, <3>2, RoundsToNearest
    <3>4. \E k \in Int : q = k * r
      BY <3>1, <3>2, RoundsToNearest
    <3>5. 2 * (q - e) <= r /\ 2 * (e - q) <= r
      BY <3>1, <3>2, RoundsToNearest
    <3> QED
      BY <3>3, <3>4, <3>5
  <2>4. PICK k \in Int : q = k * r
    BY <2>3
  <2> HIDE DEF q
  <2>5. k <= b
    <3> SUFFICES ASSUME b + 1 <= k PROVE FALSE
      OBVIOUS
    <3>1. (b + 1) * r <= k * r /\ (b + 1) * r = f.max + r
      BY <2>1, <2>2, MultipleOrder
    <3> QED
      BY <1>2, <1>5, <2>1, <2>3, <2>4, <3>1
  <2>6. 0 <= k
    <3> SUFFICES ASSUME k <= -1 PROVE FALSE
      OBVIOUS
    <3>1. k * r <= (-1) * r /\ (-1) * r = -r
      BY <2>1, MultipleOrder
    <3> QED
      BY <1>5, <2>1, <2>3, <2>4, <3>1
  <2>7. 0 * r <= k * r /\ k * r <= b * r /\ 0 * r = 0
    BY <2>1, <2>5, <2>6, MultipleOrder
  <2> QED
    BY <2>2, <2>3, <2>4, <2>7
<1> HIDE DEF q
<1>8. q = quantize(n.unit, e, n.res) /\ e \in Int
  <2>1. q = quantize(n.unit, e, n.res)
    BY <1>4 DEF q
  <2>2. e \in Int
    BY <1>2, <1>5
  <2> QED
    BY <2>1, <2>2
<1>9. in_bounds(n, e)
  BY <1>2, <1>4, <1>7, <1>8 DEF in_bounds
<1>10. from_wire(n, to_wire(n, e)) = q
  <2>1. ~fractional(n.unit, n.res)
    BY <1>4 DEF fractional
  <2> QED
    BY <1>3, <1>8, <1>9, <2>1, InBoundsRoundTrip
<1>11. q # Null
  BY <1>7, NullAssumption
<1> DEFINE w == whole_part(f.unit, day(f, q, clock) + q)
           y == rounded(f.unit > 0, w, place(f))
<1>12. post_decode(f, q, clock) = y
  BY <1>11 DEF post_decode
<1>13. day(f, q, clock) \in Int
  <2> DEFINE c == clock % f.second
             seconds == clock - c
             today == seconds % f.max
             half == f.max \div 2
  <2>1. c \in Int
    BY <1>2, RemainderIsInt
  <2>2. seconds \in Int
    BY <2>1
  <2>3. day(f, q, clock) = IF q - today > half THEN seconds - today - f.max
                           ELSE IF today - q > half THEN seconds - today + f.max
                           ELSE seconds - today
    BY DEF day
  <2> HIDE DEF c, seconds, half
  <2>4. today \in Int
    BY <1>2, <2>2, RemainderIsInt
  <2> HIDE DEF today
  <2> QED
    BY <1>2, <2>2, <2>3, <2>4
<1>14. FixedReads(f, required, v, clock) = y
  BY <1>6, <1>10, <1>12 DEF FixedReads, OnWire, n
<1>15. y \in Int
  <2>1. f.res \in Nat \ {0}
    BY <1>3, <1>4, BoundsAreMultiples
  <2>2. f.unit \in Nat /\ place(f) \in Nat \ {0}
    BY <2>1, PlaceIs
  <2>3. day(f, q, clock) + q \in Int
    BY <1>7, <1>13
  <2>4. w \in Int
    BY <2>2, <2>3, WholePartIsInt
  <2> DEFINE whole == f.unit > 0
  <2>5. whole \in BOOLEAN
    OBVIOUS
  <2> HIDE DEF w, whole
  <2>6. rounded(whole, w, place(f)) \in Int
    BY <2>2, <2>4, <2>5, RoundedNearest
  <2> QED
    BY <2>6 DEF whole
<1> QED
  BY <1>1, <1>2, <1>6, <1>7, <1>8, <1>14, <1>15 DEF q, e

\* Rounding takes a negative integer towards zero.
LEMMA RoundsTowardsZero ==
  ASSUME NEW v \in Int, v < 0, NEW r \in Nat \ {0}
  PROVE  0 <= rounded(TRUE, v, r) - v /\ rounded(TRUE, v, r) - v < r
<1> DEFINE rem == remainder(v, r)
           q == rounded(TRUE, v, r)
<1>1. rem \in (1 - r)..(r - 1) /\ rem <= 0
  BY RemainderLeavesMultiple
<1>2. q = v - rem + (IF 2 * rem >= r THEN r ELSE 0)
  BY DEF rounded
<1> HIDE DEF rem, q
<1>3. q = v - rem
  BY <1>1, <1>2
<1>4. 0 <= q - v /\ q - v < r
  BY <1>1, <1>3
<1> QED
  BY <1>4 DEF q

\* Two multiples that are not the same are a resolution apart.
LEMMA MultiplesApart ==
  ASSUME NEW k \in Int, NEW j \in Int, NEW r \in Nat \ {0}, j < k
  PROVE  j * r + r <= k * r /\ (j * r + r = k * r => j + 1 = k)
<1>1. (j + 1) * r <= k * r /\ (j + 1) * r = j * r + r
  BY MultipleOrder
<1>2. ASSUME j * r + r = k * r PROVE j + 1 = k
  <2>1. k * r <= (j + 1) * r
    BY <1>1, <1>2
  <2>2. k <= j + 1
    BY <2>1, MultipleOrder
  <2> QED
    BY <2>2
<1> QED
  BY <1>1, <1>2

\* How far apart two integers are.
LEMMA DistanceIs ==
  ASSUME NEW a \in Int, NEW b \in Int
  PROVE  /\ distance(a, b) \in Nat
         /\ distance(a, b) = a - b \/ distance(a, b) = b - a
         /\ a >= b => distance(a, b) = a - b
         /\ b >= a => distance(a, b) = b - a
  BY DEF distance

\* A number as the numeric codec sees it.
LEMMA NumericIs ==
  ASSUME NEW f, validate(f), f.codec = "numeric", NEW required \in BOOLEAN
  PROVE  LET n == number(f, required)
         IN /\ Bounded(n) /\ valid(n)
            /\ n.min = f.min /\ n.max = f.max /\ n.res = f.res /\ n.unit = f.unit
            /\ n.required = required
<1>1. bounds(f).min = f.min /\ bounds(f).max = f.max /\ bounds(f).res = f.res
  BY DEF bounds
<1> QED
  BY <1>1, NumberIs, NumberIsValid DEF BoundedCodecs

\* It goes through no hook on its way.
LEMMA NumericOnWire ==
  ASSUME NEW f, f.codec = "numeric", NEW required, NEW v \in Int, NEW clock
  PROVE  LET n == number(f, required)
         IN /\ v # Null /\ pre_encode(f, v) = v
            /\ FixedReads(f, required, v, clock) = from_wire(n, to_wire(n, v))
<1> DEFINE n == number(f, required)
<1>1. v # Null
  BY NullAssumption
<1>2. pre_encode(f, v) = v
  BY <1>1 DEF pre_encode
<1>3. FixedReads(f, required, v, clock) = post_decode(f, from_wire(n, to_wire(n, v)), clock)
  BY <1>2 DEF FixedReads, OnWire
<1>4. \A x : post_decode(f, x, clock) = x
  BY DEF post_decode
<1> HIDE DEF n
<1>5. FixedReads(f, required, v, clock) = from_wire(n, to_wire(n, v))
  BY <1>3, <1>4
<1> QED
  BY <1>1, <1>2, <1>5 DEF n

\* A number out of bounds reads as none does.
LEMMA NumericOutOfBounds ==
  ASSUME NEW f, validate(f), f.codec = "numeric", NEW required \in BOOLEAN,
         required = (f.presence \/ use_required(f)), NEW v \in Int, NEW clock,
         ~in_bounds(number(f, required), v)
  PROVE  FixedReads(f, required, v, clock) = for_none(f)
<1> DEFINE n == number(f, required)
           y == FixedReads(f, required, v, clock)
<1>a. Bounded(n) /\ valid(n) /\ n.min = f.min /\ n.required = required
  BY NumericIs
<1>b. y = from_wire(n, to_wire(n, v))
  BY NumericOnWire
<1>1. /\ Bounded(n) /\ valid(n) /\ n.min = f.min /\ n.required = required
      /\ y = from_wire(n, to_wire(n, v))
  BY <1>a, <1>b
<1>2. ~in_bounds(n, v)
  OBVIOUS
<1> HIDE DEF n, y
<1>3. to_wire(n, v) = 0
  BY <1>2 DEF to_wire
<1>4. CASE ~required
  <2>1. y = Null
    BY <1>1, <1>3, <1>4 DEF from_wire
  <2> QED
    BY <1>4, <2>1 DEF for_none, y
<1>5. CASE required
  <2>1. n.unit \in Nat /\ n.res \in Nat \ {0} /\ n.min \in Int
    BY <1>1, BoundsAreMultiples DEF Bounded
  <2>2. PICK a \in Int : n.min = a * n.res
    BY <1>1, BoundsAreMultiples
  <2>3. null_values(n) = 0
    BY <1>1, <1>5 DEF null_values
  <2>4. from_wire(n, 0) = quantize(n.unit, whole_part(n.unit, (0 - null_values(n)) * n.res) + n.min, n.res)
    BY <1>1, <1>5 DEF from_wire
  <2>5. (0 - null_values(n)) * n.res = 0
    BY <2>1, <2>3
  <2>6. whole_part(n.unit, 0) = 0
    <3>1. 0 \in Nat
      OBVIOUS
    <3> DEFINE w == whole_part(n.unit, 0)
    <3>2. w \in Nat /\ w <= 0
      BY <2>1, <3>1, WholePartBelow
    <3> HIDE DEF w
    <3>3. w = 0
      BY <3>2
    <3> QED
      BY <3>3 DEF w
  <2>7. 0 + n.min = n.min
    BY <2>1
  <2>8. quantize(n.unit, n.min, n.res) = n.min
    BY <2>1, <2>2, QuantizeKeepsMultiples
  <2>9. y = n.min
    BY <1>1, <1>3, <2>4, <2>5, <2>6, <2>7, <2>8
  <2> QED
    BY <1>1, <1>5, <2>9 DEF for_none, y
<1> QED
  BY <1>4, <1>5

\* A number in bounds reads as the quantile next to it; one out of bounds is
\* behind the last quantile.
LEMMA QuantileReads ==
  ASSUME NEW f, validate(f), f.codec = "numeric", NEW required,
         required = (f.presence \/ use_required(f)), NEW v \in Int, NEW clock,
         ~fractional(f.unit, f.res)
  PROVE  /\ pre_encode(f, v) = v /\ v # Null
         /\ ReadFor(f, v, FixedReads(f, required, v, clock))
<1> DEFINE n == number(f, required)
           r == f.res
           q == quantize(f.unit, v, r)
           y == FixedReads(f, required, v, clock)
           t == truncated(f, v)
<1>0. required \in BOOLEAN /\ f.unit \in Nat
  BY DEF validate
<1>1. v # Null /\ pre_encode(f, v) = v
  BY NumericOnWire
<1>3. Bounded(n) /\ valid(n)
  BY <1>0, NumericIs
<1>4. n.min = f.min /\ n.max = f.max /\ n.res = r /\ n.unit = f.unit /\ n.required = required
  BY <1>0, NumericIs
<1>7. y = from_wire(n, to_wire(n, v))
  BY NumericOnWire
<1>f. ~fractional(n.unit, n.res)
  BY <1>4
<1> HIDE DEF n, y
<1>8. r \in Nat \ {0} /\ \E a \in Int, b \in Int : f.min = a * r /\ f.max = b * r /\ a <= b
  BY <1>3, <1>4, BoundsAreMultiples
<1>9. PICK a \in Int, b \in Int : f.min = a * r /\ f.max = b * r /\ a <= b
  BY <1>8
<1>10. \A x : x \in quantiles(f) <=> \E j \in Int : a <= j /\ j <= b /\ x = j * r
  <2>0. r \in Nat \ {0} /\ b - a \in Int
    BY <1>8
  <2>1. f.max - f.min = (b - a) * r /\ ((b - a) * r) \div r = b - a
    <3> HIDE DEF r
    <3>1. b * r - a * r = (b - a) * r
      BY <2>0, MultipleDifference
    <3>2. ((b - a) * r) \div r = b - a
      BY <2>0, MultipleDiv
    <3> QED
      BY <1>9, <3>1, <3>2
  <2>2. bounds(f).min = f.min /\ bounds(f).max = f.max /\ bounds(f).res = r
    BY DEF bounds
  <2>3. quantiles(f) = {f.min + i * r : i \in 0..((f.max - f.min) \div r)}
    BY <2>2 DEF quantiles
  <2>4. quantiles(f) = {f.min + i * r : i \in 0..(b - a)}
    BY <2>1, <2>3
  <2>5. ASSUME NEW i \in 0..(b - a) PROVE f.min + i * r = (a + i) * r /\ a <= a + i /\ a + i <= b
    BY <1>8, <1>9, MultipleDifference
  <2>6. ASSUME NEW j \in Int, a <= j, j <= b PROVE j - a \in 0..(b - a) /\ a + (j - a) = j
    BY <2>6
  <2>7. ASSUME NEW x, x \in quantiles(f) PROVE \E j \in Int : a <= j /\ j <= b /\ x = j * r
    <3>1. PICK i \in 0..(b - a) : x = f.min + i * r
      BY <2>4, <2>7
    <3>2. a + i \in Int /\ x = (a + i) * r /\ a <= a + i /\ a + i <= b
      BY <2>5, <3>1
    <3> QED
      BY <3>2
  <2>8. ASSUME NEW j \in Int, a <= j, j <= b PROVE j * r \in quantiles(f)
    <3>1. j - a \in 0..(b - a) /\ a + (j - a) = j
      BY <2>6, <2>8
    <3>2. f.min + (j - a) * r = j * r
      BY <2>5, <3>1
    <3> QED
      BY <2>4, <3>1, <3>2
  <2> QED
    BY <2>7, <2>8
<1>r. f.unit \in Nat /\ r \in Nat \ {0}
  BY <1>0, <1>8
<1>11. q \in Int
  BY <1>r, QuantizeNearest
<1>12. PICK k \in Int : q = k * r
  BY <1>r, QuantizeNearest
<1>13. q - v < r /\ v - q < r
  BY <1>r, QuantizeNearest
<1>14. t \in BOOLEAN /\ (t <=> f.unit > 0 /\ v < 0)
  BY <1>0 DEF truncated
<1>15. ~t => 2 * (q - v) <= r /\ 2 * (v - q) <= r
  <2>1. ~t => f.unit = 0 \/ v >= 0
    BY <1>0, <1>14
  <2> HIDE DEF t
  <2> QED
    BY <1>r, <2>1, QuantizeNearest
<1>16. t => 0 <= q - v
  <2> SUFFICES ASSUME t PROVE 0 <= q - v
    OBVIOUS
  <2>1. (f.unit > 0) = TRUE /\ v < 0
    BY <1>0, <1>14
  <2>2. 0 <= rounded(TRUE, v, r) - v
    BY <1>8, <2>1, RoundsTowardsZero
  <2>3. q = rounded(TRUE, v, r)
    BY <2>1 DEF quantize
  <2> HIDE DEF q
  <2> QED
    BY <2>2, <2>3
<1> HIDE DEF q, r, t
<1>17. distance(q, v) < r /\ (~t => 2 * distance(q, v) <= r)
  BY <1>8, <1>11, <1>13, <1>15, DistanceIs
<1>18. \A x : x \in nearest(f, v) <=>
          x \in quantiles(f) /\ IF t THEN distance(x, v) < r ELSE 2 * distance(x, v) <= r
  BY DEF nearest, r, t
<1>19. CASE in_bounds(n, v)
  <2>1. y = q
    BY <1>3, <1>4, <1>7, <1>19, <1>f, InBoundsRoundTrip DEF q
  <2>2. a <= k /\ k <= b
    <3>1. f.min <= q /\ q <= f.max
      BY <1>4, <1>19 DEF in_bounds, q
    <3>2. a * r <= k * r /\ k * r <= b * r
      BY <1>9, <1>12, <3>1
    <3> QED
      BY <1>8, <3>2, MultipleOrder
  <2>3. q \in quantiles(f)
    BY <1>10, <1>12, <2>2
  <2>4. q \in nearest(f, v)
    BY <1>14, <1>17, <1>18, <2>3
  <2>5. ReadFor(f, v, q)
    BY <1>1, <1>4, <1>f, <2>4 DEF ReadFor, r
  <2> QED
    BY <1>1, <2>1, <2>5 DEF y
<1>20. CASE ~in_bounds(n, v)
  <2>1. ~(a <= k /\ k <= b)
    <3>1. ~(f.min <= q /\ q <= f.max)
      BY <1>4, <1>20 DEF in_bounds, q
    <3>2. ~(a * r <= k * r /\ k * r <= b * r)
      BY <1>9, <1>12, <3>1
    <3> QED
      BY <1>8, <3>2, MultipleOrder
  <2>2. y = for_none(f)
    BY <1>0, <1>20, NumericOutOfBounds DEF n, y
  <2>3. ASSUME NEW x \in nearest(f, v) PROVE beyond(f, v, x)
    <3>1. PICK j \in Int : a <= j /\ j <= b /\ x = j * r
      BY <1>10, <1>18
    <3>2. x \in Int /\ (t => distance(x, v) < r) /\ (~t => 2 * distance(x, v) <= r)
      BY <1>8, <1>18, <3>1
    <3>3. x - v <= distance(x, v) /\ v - x <= distance(x, v) /\ distance(x, v) \in Nat
      <4> DEFINE d == distance(x, v)
      <4>1. d \in Nat /\ (x >= v => d = x - v) /\ (v >= x => d = v - x)
        BY <3>2, DistanceIs
      <4> HIDE DEF d
      <4>2. x - v <= d /\ v - x <= d
        BY <3>2, <4>1
      <4> QED
        BY <4>1, <4>2 DEF d
    <3>4. f.min \in Int /\ f.max \in Int /\ q \in Int
      BY <1>8, <1>9, <1>11
    <3>5. CASE k < a
      <4>1. q + r <= f.min /\ (q + r = f.min => k + 1 = a)
        BY <1>8, <1>9, <1>12, <3>5, MultiplesApart
      <4>2. f.min <= x
        BY <1>8, <1>9, <3>1, MultipleOrder
      <4>3. ~t
        BY <1>8, <1>16, <3>2, <3>3, <3>4, <4>1, <4>2
      <4>4. x = f.min /\ 2 * distance(x, v) >= r
        BY <1>8, <1>15, <3>2, <3>3, <3>4, <4>1, <4>2, <4>3
      <4> QED
        BY <4>3, <4>4 DEF beyond, t, r
    <3>6. CASE b < k
      <4>1. f.max + r <= q
        BY <1>8, <1>9, <1>12, <3>6, MultiplesApart
      <4>2. x <= f.max
        BY <1>8, <1>9, <3>1, MultipleOrder
      <4>3. CASE t
        <5>1. f.max < v
          BY <1>8, <1>13, <3>4, <4>1
        <5>2. x = f.max
          <6> SUFFICES ASSUME j < b PROVE FALSE
            BY <1>9, <3>1
          <6>1. x + r <= f.max
            BY <1>8, <1>9, <3>1, MultiplesApart
          <6> QED
            BY <1>8, <3>2, <3>3, <3>4, <4>3, <5>1, <6>1
        <5> QED
          BY <3>4, <4>3, <5>1, <5>2 DEF beyond, t
      <4>4. CASE ~t
        <5>1. x = f.max /\ 2 * distance(x, v) >= r
          BY <1>8, <1>15, <3>2, <3>3, <3>4, <4>1, <4>2, <4>4
        <5> QED
          BY <4>4, <5>1 DEF beyond, t, r
      <4> QED
        BY <1>14, <4>3, <4>4
    <3> QED
      BY <2>1, <3>5, <3>6
  <2>4. ReadFor(f, v, y)
    BY <1>1, <1>4, <1>f, <2>2, <2>3 DEF ReadFor, r
  <2> QED
    BY <1>1, <2>4 DEF y
<1> QED
  BY <1>19, <1>20

\* An integer at a resolution that is none reads as what is left of it.
LEMMA FractionalReads ==
  ASSUME NEW f, validate(f), f.codec = "numeric", NEW required,
         required = (f.presence \/ use_required(f)), NEW v \in Int, NEW clock,
         fractional(f.unit, f.res)
  PROVE  ReadFor(f, v, FixedReads(f, required, v, clock))
<1> DEFINE n == number(f, required)
           y == FixedReads(f, required, v, clock)
<1>0. required \in BOOLEAN
  BY DEF validate
<1>a. /\ Bounded(n) /\ valid(n)
      /\ n.min = f.min /\ n.max = f.max /\ n.res = f.res /\ n.unit = f.unit
  BY <1>0, NumericIs
<1>b. v # Null /\ y = from_wire(n, to_wire(n, v))
  BY NumericOnWire
<1>1. /\ v # Null /\ Bounded(n) /\ valid(n)
      /\ n.min = f.min /\ n.max = f.max /\ n.res = f.res /\ n.unit = f.unit
      /\ y = from_wire(n, to_wire(n, v))
  BY <1>a, <1>b
<1> HIDE DEF n, y
<1>2. in_bounds(n, v) <=> f.min <= v /\ v <= f.max
  BY <1>1 DEF in_bounds, quantize
<1>3. CASE in_bounds(n, v)
  <2>1. y \in Int /\ f.min <= y /\ y <= v /\ v - y < f.res + f.unit
    BY <1>1, <1>3, InBoundsRoundTrip
  <2>2. y # Null
    BY <2>1, NullAssumption
  <2>3. ReadFor(f, v, y)
    BY <1>1, <1>2, <1>3, <2>1, <2>2 DEF ReadFor
  <2> QED
    BY <2>3 DEF y
<1>4. CASE ~in_bounds(n, v)
  <2>1. y = for_none(f)
    BY <1>0, <1>4, NumericOutOfBounds DEF n, y
  <2>2. ReadFor(f, v, y)
    BY <1>1, <1>2, <1>4, <2>1 DEF ReadFor
  <2> QED
    BY <2>2 DEF y
<1> QED
  BY <1>3, <1>4

\* A number, at any resolution.
LEMMA NumericReads ==
  ASSUME NEW f, validate(f), f.codec = "numeric", NEW required,
         required = (f.presence \/ use_required(f)), NEW v \in Int, NEW clock
  PROVE  /\ pre_encode(f, v) = v /\ v # Null
         /\ ReadFor(f, v, FixedReads(f, required, v, clock))
<1>1. required \in BOOLEAN
  BY DEF validate
<1>2. pre_encode(f, v) = v /\ v # Null
  BY NumericOnWire
<1> QED
  BY <1>2, QuantileReads, FractionalReads

-----------------------------------------------------------------------------
(* Numbers as Google Protocol Buffers write them *)

\* What validate() says of such a field.
LEMMA NativeIs ==
  ASSUME NEW f, validate(f), f.codec = "native"
  PROVE  /\ f.form \in {"varint", "zigzag", "fixed"} /\ f.signed \in BOOLEAN
         /\ f.type_width \in Nat \ {0} /\ f.width \in Nat \ {0} /\ f.width >= f.type_width
         /\ f.form = "zigzag" => f.signed /\ f.width = f.type_width
         /\ f.form = "fixed" => f.width = f.type_width /\ f.width % BITS_IN_BYTE = 0
<1>1. /\ f.form \in {"varint", "zigzag", "fixed"} /\ f.signed \in BOOLEAN
      /\ f.type_width \in Nat \ {0} /\ f.width \in Nat /\ f.width >= f.type_width
      /\ (f.form = "zigzag" => f.signed /\ f.width = f.type_width)
      /\ (f.form = "fixed" => f.width = f.type_width /\ f.width % BITS_IN_BYTE = 0)
  BY DEF validate
<1> QED
  BY <1>1

\* A power of two is twice the one before.
LEMMA Pow2Half ==
  ASSUME NEW n \in Nat \ {0}
  PROVE  pow2(n) = 2 * pow2(n - 1) /\ pow2(n - 1) \in Nat \ {0} /\ pow2(n) \in Nat \ {0}
<1>1. n - 1 \in Nat /\ (n - 1) + 1 = n
  OBVIOUS
<1>2. pow2((n - 1) + 1) = 2 * pow2(n - 1) /\ pow2(n - 1) \in Nat \ {0}
  BY <1>1, Pow2Is
<1> QED
  BY <1>1, <1>2

\* The least and the largest number of a type, and those between them.
LEMMA NumbersAre ==
  ASSUME NEW f, validate(f), f.codec = "native"
  PROVE  \E lo \in Int, hi \in Int :
           /\ numbers(f) = lo..hi /\ lo <= 0 /\ 0 <= hi
           /\ Min(numbers(f)) = lo /\ Max(numbers(f)) = hi
           /\ IF f.signed THEN lo = -pow2(f.type_width - 1) /\ hi = pow2(f.type_width - 1) - 1
              ELSE lo = 0 /\ hi = pow2(f.type_width) - 1
<1>1. f.type_width \in Nat \ {0} /\ f.signed \in BOOLEAN
  BY NativeIs
<1> DEFINE p == pow2(f.type_width - 1)
           t == pow2(f.type_width)
           lo == IF f.signed THEN -p ELSE 0
           hi == IF f.signed THEN p - 1 ELSE t - 1
<1>2. t = 2 * p /\ p \in Nat \ {0} /\ t \in Nat \ {0}
  BY <1>1, Pow2Half
<1> HIDE DEF p, t
<1>3. lo \in Int /\ hi \in Int /\ lo <= 0 /\ 0 <= hi
  BY <1>1, <1>2
<1>4. numbers(f) = lo..hi
  BY <1>1 DEF numbers, p, t
<1>5. IF f.signed THEN lo = -p /\ hi = p - 1 ELSE lo = 0 /\ hi = t - 1
  OBVIOUS
<1> HIDE DEF lo, hi
<1>6. lo \in lo..hi /\ hi \in lo..hi /\ \A y \in lo..hi : y \in Int /\ lo <= y /\ hi >= y
  BY <1>3
<1>7. Min(lo..hi) = lo
  <2>1. \A x \in lo..hi : (\A y \in lo..hi : x <= y) => x = lo
    BY <1>3, <1>6
  <2>2. \A y \in lo..hi : lo <= y
    BY <1>6
  <2> QED
    BY <1>6, <2>1, <2>2 DEF Min
<1>8. Max(lo..hi) = hi
  <2>1. \A x \in lo..hi : (\A y \in lo..hi : x >= y) => x = hi
    BY <1>3, <1>6
  <2>2. \A y \in lo..hi : hi >= y
    BY <1>6
  <2> QED
    BY <1>6, <2>1, <2>2 DEF Max
<1> QED
  BY <1>3, <1>4, <1>5, <1>7, <1>8 DEF p, t

\* Twice a number, and one less than that.
LEMMA EvenAndOdd ==
  ASSUME NEW v \in Int
  PROVE  /\ (2 * v) % 2 = 0 /\ (2 * v) \div 2 = v
         /\ (-2 * v - 1) % 2 = 1 /\ ((-2 * v - 1) + 1) \div 2 = -v
<1>1. 2 \in Nat \ {0} /\ 0 \in 0..2 - 1 /\ 1 \in 0..2 - 1
  OBVIOUS
<1>2. 2 * v = v * 2 + 0 /\ -2 * v - 1 = (-v - 1) * 2 + 1 /\ (-2 * v - 1) + 1 = (-v) * 2 + 0
  OBVIOUS
<1>3. (2 * v) \div 2 = v /\ (2 * v) % 2 = 0
  BY <1>1, <1>2, DivUnique
<1>4. (-2 * v - 1) % 2 = 1
  BY <1>1, <1>2, DivUnique
<1>5. ((-2 * v - 1) + 1) \div 2 = -v
  BY <1>1, <1>2, DivUnique
<1> QED
  BY <1>3, <1>4, <1>5

\* As a number without a sign, and back.
LEMMA UnsignedAndBack ==
  ASSUME NEW f, validate(f), f.codec = "native", NEW v \in numbers(f)
  PROVE  /\ v \in Int /\ v # Null
         /\ to_unsigned(f, v) \in Nat /\ to_unsigned(f, v) < pow2(f.width)
         /\ from_unsigned(f, to_unsigned(f, v)) = v
         /\ f.form # "zigzag" /\ v >= 0 => to_unsigned(f, v) = v
         /\ f.form # "zigzag" /\ v < 0 => /\ f.signed /\ to_unsigned(f, v) = v + pow2(f.width)
                                          /\ to_unsigned(f, v) >= pow2(f.width - 1)
<1> DEFINE p == pow2(f.width)
           h == pow2(f.width - 1)
           t == pow2(f.type_width)
           s == pow2(f.type_width - 1)
           u == to_unsigned(f, v)
<1>1. /\ f.form \in {"varint", "zigzag", "fixed"} /\ f.signed \in BOOLEAN
      /\ f.type_width \in Nat \ {0} /\ f.width \in Nat \ {0} /\ f.width >= f.type_width
      /\ (f.form = "zigzag" => f.signed /\ f.width = f.type_width)
  BY NativeIs
<1>2. p = 2 * h /\ h \in Nat \ {0} /\ t = 2 * s /\ s \in Nat \ {0}
  BY <1>1, Pow2Half
<1>3. t <= p /\ s <= h
  <2>1. f.type_width \in Nat /\ f.width \in Nat /\ f.type_width <= f.width
        /\ f.type_width - 1 \in Nat /\ f.width - 1 \in Nat /\ f.type_width - 1 <= f.width - 1
    BY <1>1
  <2> QED
    BY <2>1, Pow2Order
<1>4. numbers(f) = IF f.signed THEN -s..s - 1 ELSE 0..t - 1
  BY DEF numbers
<1>5. v \in Int /\ v # Null /\ (f.signed => -s <= v /\ v <= s - 1)
      /\ (~f.signed => 0 <= v /\ v <= t - 1)
  BY <1>1, <1>2, <1>4, NullAssumption
<1>6. CASE f.form = "zigzag"
  <2>1. u = IF v >= 0 THEN 2 * v ELSE -2 * v - 1
    BY <1>6 DEF to_unsigned
  <2>2. h = s /\ f.signed
    BY <1>1, <1>6
  <2> HIDE DEF p, h, t, s, u
  <2>3. u \in Nat /\ u < p
    BY <1>2, <1>5, <2>1, <2>2
  <2>4. from_unsigned(f, u) = v
    <3>1. from_unsigned(f, u) = IF u % 2 = 0 THEN u \div 2 ELSE -((u + 1) \div 2)
      BY <1>6 DEF from_unsigned
    <3>2. CASE v >= 0
      <4>1. u = 2 * v /\ (2 * v) % 2 = 0 /\ (2 * v) \div 2 = v
        BY <1>5, <2>1, <3>2, EvenAndOdd
      <4> QED
        BY <3>1, <4>1
    <3>3. CASE v < 0
      <4>1. u = -2 * v - 1 /\ (-2 * v - 1) % 2 = 1 /\ ((-2 * v - 1) + 1) \div 2 = -v
        BY <1>5, <2>1, <3>3, EvenAndOdd
      <4>2. u % 2 # 0 /\ (u + 1) \div 2 = -v /\ -(-v) = v
        BY <1>5, <4>1
      <4> QED
        BY <3>1, <4>2
    <3> QED
      BY <1>5, <3>2, <3>3
  <2> QED
    BY <1>5, <1>6, <2>3, <2>4 DEF u, p, h
<1>7. CASE f.form # "zigzag"
  <2>1. u = v % p
    BY <1>7 DEF to_unsigned
  <2>2. from_unsigned(f, u) = IF f.signed /\ u >= h THEN u - p ELSE u
    BY <1>7 DEF from_unsigned
  <2> HIDE DEF p, h, t, s, u
  <2>3. p \in Nat \ {0}
    BY <1>2
  <2>4. CASE v >= 0
    <3>1. v = 0 * p + v /\ v \in 0..p - 1 /\ (f.signed => v < h)
      BY <1>1, <1>2, <1>3, <1>5, <2>4
    <3>2. u = v
      BY <2>1, <2>3, <3>1, DivUnique
    <3> QED
      BY <1>1, <1>2, <1>5, <1>7, <2>2, <2>4, <3>1, <3>2 DEF u, p, h
  <2>5. CASE v < 0
    <3>1. v = (-1) * p + (v + p) /\ v + p \in 0..p - 1 /\ f.signed /\ v + p >= h
      BY <1>1, <1>2, <1>3, <1>5, <2>5
    <3>2. u = v + p
      <4>1. v + p \in 0..p - 1 /\ v = (-1) * p + (v + p) /\ -1 \in Int /\ v \in Int
        BY <1>5, <3>1
      <4>2. v % p = v + p
        BY <2>3, <4>1, DivUnique
      <4> QED
        BY <2>1, <4>2
    <3>3. u \in Nat /\ u < p /\ u >= h /\ u - p = v
      BY <1>5, <2>3, <3>1, <3>2
    <3> QED
      BY <1>1, <1>5, <1>7, <2>2, <2>5, <3>1, <3>2, <3>3 DEF u, p, h
  <2> QED
    BY <1>5, <2>4, <2>5
<1> QED
  BY <1>6, <1>7

\* A byte has room for at least one bit of a number.
LEMMA PayloadIs ==
  PAYLOAD \in Nat \ {0} /\ BITS_IN_BYTE = PAYLOAD + 1
BY SizesAssumption DEF PAYLOAD

\* A varint has as many bytes as its bits need: enough, and not one more.
LEMMA VarintSizeIs ==
  ASSUME NEW f, validate(f), f.codec = "native", f.form # "fixed", NEW v \in numbers(f)
  PROVE  LET K == byte_size(f, v)
             u == to_unsigned(f, v)
         IN /\ K \in Nat \ {0} /\ u < pow2(K * PAYLOAD)
            /\ K = 1 \/ u >= pow2((K - 1) * PAYLOAD)
<1> DEFINE u == to_unsigned(f, v)
           P == PAYLOAD
           w == f.width
           S == {g \in Nat \ {0} : u < pow2(g * P)}
<1>1. P \in Nat \ {0} /\ w \in Nat \ {0}
  BY PayloadIs, NativeIs
<1>2. u \in Nat /\ u < pow2(w)
  BY UnsignedAndBack
<1>3. byte_size(f, v) = Cardinality({g \in 1..w : g = 1 \/ u >= pow2((g - 1) * P)})
  BY DEF byte_size
<1> HIDE DEF u, P, w
<1>4. w \in S
  <2>1. w * P \in Nat /\ w <= w * P
    <3>1. 1 * w <= P * w /\ 1 * w = w /\ P * w = w * P
      BY <1>1, MultipleOrder
    <3> QED
      BY <1>1, <3>1
  <2>2. pow2(w) <= pow2(w * P) /\ pow2(w) \in Nat /\ pow2(w * P) \in Nat
    BY <1>1, <2>1, Pow2Order, Pow2Is
  <2> QED
    BY <1>1, <1>2, <2>2
<1>5. PICK K \in S : \A m \in S : K <= m
  <2>1. S \subseteq Nat
    OBVIOUS
  <2> HIDE DEF S
  <2> QED
    BY <1>4, <2>1, LeastIn
<1>6. K \in Nat \ {0} /\ K <= w /\ u < pow2(K * P)
  BY <1>4, <1>5
<1>7. ASSUME NEW g \in 1..w
      PROVE  (g = 1 \/ u >= pow2((g - 1) * P)) <=> g <= K
  <2>0. pow2((g - 1) * P) \in Nat /\ (g - 1) * P \in Nat /\ pow2(K * P) \in Nat /\ K * P \in Nat
    <3>1. (g - 1) * P \in Nat /\ K * P \in Nat
      BY <1>1, <1>6
    <3> QED
      BY <3>1, Pow2Is
  <2>1. CASE g = 1
    BY <1>6, <2>1
  <2>2. CASE g # 1 /\ g <= K
    <3>1. g - 1 \notin S
      BY <1>5, <1>6, <2>2
    <3>2. u >= pow2((g - 1) * P)
      BY <1>2, <2>0, <2>2, <3>1
    <3> QED
      BY <2>2, <3>2
  <2>3. CASE g # 1 /\ ~(g <= K)
    <3>1. K * P <= (g - 1) * P
      BY <1>1, <1>6, <2>3, MultipleOrder
    <3>2. pow2(K * P) <= pow2((g - 1) * P)
      BY <2>0, <3>1, Pow2Order
    <3> QED
      BY <1>2, <1>6, <2>0, <2>3, <3>2
  <2> QED
    BY <2>1, <2>2, <2>3
<1>8. {g \in 1..w : g = 1 \/ u >= pow2((g - 1) * P)} = 1..K
  <2> DEFINE M(g) == g = 1 \/ u >= pow2((g - 1) * P)
  <2>1. \A g \in 1..w : M(g) <=> g <= K
    BY <1>7
  <2> HIDE DEF M, S
  <2>2. {g \in 1..w : M(g)} = 1..K
    BY <1>1, <1>6, <2>1
  <2> QED
    BY <2>2 DEF M
<1>9. Cardinality(1..K) = K
  <2>1. Cardinality(1..K) = IF 1 > K THEN 0 ELSE K - 1 + 1
    BY <1>6, FS_Interval
  <2> QED
    BY <1>6, <2>1
<1>10. byte_size(f, v) = K
  BY <1>3, <1>8, <1>9
<1>11. K = 1 \/ u >= pow2((K - 1) * P)
  <2>1. K \in 1..w /\ K <= K
    BY <1>1, <1>6
  <2> QED
    BY <1>7, <2>1
<1> QED
  BY <1>6, <1>10, <1>11 DEF u, P

\* No number is longer than the one that is not smaller, and all that have
\* the most significant bit are as long.
LEMMA VarintSizeOrder ==
  ASSUME NEW f, validate(f), f.codec = "native", f.form # "fixed",
         NEW v \in numbers(f), NEW x \in numbers(f),
         \/ to_unsigned(f, v) <= to_unsigned(f, x)
         \/ to_unsigned(f, x) >= pow2(f.width - 1)
  PROVE  byte_size(f, v) <= byte_size(f, x)
<1> DEFINE K == byte_size(f, v)
           L == byte_size(f, x)
           u == to_unsigned(f, v)
           y == to_unsigned(f, x)
           P == PAYLOAD
           w == f.width
<1>1. P \in Nat \ {0} /\ w \in Nat \ {0}
  BY PayloadIs, NativeIs
<1>2. K \in Nat \ {0} /\ u < pow2(K * P) /\ (K = 1 \/ u >= pow2((K - 1) * P))
  BY VarintSizeIs
<1>3. L \in Nat \ {0} /\ y < pow2(L * P) /\ (L = 1 \/ y >= pow2((L - 1) * P))
  BY VarintSizeIs
<1>4. u \in Nat /\ y \in Nat /\ u < pow2(w) /\ y < pow2(w) /\ (u <= y \/ y >= pow2(w - 1))
  BY UnsignedAndBack
<1> SUFFICES ASSUME L < K PROVE FALSE
  BY <1>2, <1>3
<1> HIDE DEF K, L, u, y, P, w
<1>5. L * P \in Nat /\ (K - 1) * P \in Nat /\ L * P <= (K - 1) * P
  <2>1. L <= K - 1 /\ K - 1 \in Nat
    BY <1>2, <1>3
  <2>2. L * P <= (K - 1) * P
    BY <1>1, <1>2, <1>3, <2>1, MultipleOrder
  <2> QED
    BY <1>1, <1>3, <2>1, <2>2
<1>6. pow2(L * P) \in Nat /\ pow2((K - 1) * P) \in Nat /\ pow2(L * P) <= pow2((K - 1) * P)
  BY <1>5, Pow2Order, Pow2Is
<1>7. u >= pow2(L * P)
  <2>1. K # 1
    BY <1>2, <1>3
  <2> QED
    BY <1>2, <1>4, <1>6, <2>1
<1>8. ~(u <= y)
  BY <1>3, <1>4, <1>6, <1>7
<1>9. y >= pow2(w - 1) /\ pow2(w - 1) \in Nat /\ pow2(w) \in Nat
  BY <1>1, <1>4, <1>8, Pow2Half
<1>10. ~(L * P <= w - 1)
  <2> SUFFICES ASSUME L * P <= w - 1 PROVE FALSE
    OBVIOUS
  <2>1. w - 1 \in Nat
    BY <1>1
  <2>2. pow2(L * P) <= pow2(w - 1)
    BY <1>5, <2>1, Pow2Order
  <2> QED
    BY <1>3, <1>4, <1>6, <1>9, <2>2
<1>11. w <= L * P /\ w \in Nat
  BY <1>1, <1>5, <1>10
<1>12. pow2(w) <= pow2(L * P)
  BY <1>5, <1>11, Pow2Order
<1> QED
  BY <1>4, <1>6, <1>7, <1>9, <1>12

\* The least or the largest number is the longest.
LEMMA LongestNumber ==
  ASSUME NEW f, validate(f), f.codec = "native", f.form # "fixed", NEW v \in numbers(f)
  PROVE  \/ byte_size(f, v) <= byte_size(f, Min(numbers(f)))
         \/ byte_size(f, v) <= byte_size(f, Max(numbers(f)))
<1> DEFINE t == f.type_width
           w == f.width
<1>1. /\ f.form \in {"varint", "zigzag", "fixed"} /\ f.signed \in BOOLEAN /\ t \in Nat \ {0}
      /\ w \in Nat \ {0} /\ w >= t /\ (f.form = "zigzag" => f.signed /\ w = t)
  BY NativeIs
<1>2. PICK lo \in Int, hi \in Int :
        /\ numbers(f) = lo..hi /\ lo <= 0 /\ 0 <= hi
        /\ Min(numbers(f)) = lo /\ Max(numbers(f)) = hi
        /\ IF f.signed THEN lo = -pow2(t - 1) /\ hi = pow2(t - 1) - 1
           ELSE lo = 0 /\ hi = pow2(t) - 1
  BY NumbersAre
<1>3. lo \in numbers(f) /\ hi \in numbers(f) /\ v \in Int /\ lo <= v /\ v <= hi
  BY <1>2
<1> DEFINE u == to_unsigned(f, v)
<1>4. u \in Nat
  BY UnsignedAndBack
<1>5. CASE f.form = "zigzag"
  <2>1. f.signed /\ lo = -pow2(t - 1) /\ pow2(t - 1) \in Nat \ {0} /\ pow2(t) = 2 * pow2(t - 1) /\ w = t
    BY <1>1, <1>2, <1>5, Pow2Half
  <2>2. to_unsigned(f, lo) = -2 * lo - 1
    BY <1>5, <2>1 DEF to_unsigned
  <2>3. u < pow2(t)
    BY <2>1, UnsignedAndBack
  <2> DEFINE y == to_unsigned(f, lo)
             p == pow2(t - 1)
             q == pow2(t)
  <2>4. lo = -p /\ q = 2 * p /\ p \in Nat \ {0} /\ y = -2 * lo - 1 /\ u < q
    BY <2>1, <2>2, <2>3
  <2> HIDE DEF u, y, p, q
  <2>5. u <= y
    BY <1>4, <2>4
  <2>6. byte_size(f, v) <= byte_size(f, lo)
    BY <1>3, <1>5, <2>5, VarintSizeOrder DEF u, y
  <2> QED
    BY <1>2, <2>6
<1>6. CASE f.form # "zigzag" /\ v >= 0
  <2>1. u = v /\ to_unsigned(f, hi) = hi
    BY <1>2, <1>3, <1>6, UnsignedAndBack
  <2>2. byte_size(f, v) <= byte_size(f, hi)
    BY <1>3, <2>1, VarintSizeOrder
  <2> QED
    BY <1>2, <2>2
<1>7. CASE f.form # "zigzag" /\ v < 0
  <2>1. lo < 0
    BY <1>2, <1>3, <1>7
  <2>2. to_unsigned(f, lo) >= pow2(w - 1)
    BY <1>3, <1>7, <2>1, UnsignedAndBack
  <2>3. byte_size(f, v) <= byte_size(f, lo)
    BY <1>3, <2>2, VarintSizeOrder
  <2> QED
    BY <1>2, <2>3
<1> QED
  BY <1>3, <1>5, <1>6, <1>7

\* The parts of a number, behind one another, are the number.
LEMMA PayloadOfNumber ==
  ASSUME NEW u \in Nat, NEW K \in Nat, NEW P \in Nat
  PROVE  FlattenSeq([g \in 1..K |-> bits(u \div pow2((g - 1) * P), P)]) = bits(u, K * P)
<1> DEFINE V(g) == u \div pow2((g - 1) * P)
           p == [g \in 1..K |-> bits(V(g), P)]
           x == FlattenSeq(p)
           y == bits(u, K * P)
<1>1. ASSUME NEW g \in 1..K
      PROVE  V(g) \in Nat /\ (g - 1) * P \in Nat
  <2>1. (g - 1) * P \in Nat
    OBVIOUS
  <2>2. pow2((g - 1) * P) \in Nat \ {0} /\ 1 \in Nat \ {0}
    BY <2>1, Pow2Is
  <2> QED
    BY <2>1, <2>2, DivTwice
<1>2. \A g \in 1..K : bits(V(g), P) \in Seq(Bit) /\ Len(bits(V(g), P)) = P
  BY <1>1, BitsIs
<1>3. p \in Seq(Seq(Bit)) /\ Len(p) = K /\ \A g \in 1..K : p[g] = bits(V(g), P)
  <2> DEFINE W(g) == bits(V(g), P)
  <2>1. \A g \in 1..K : W(g) \in Seq(Bit)
    BY <1>2
  <2>2. p = [g \in 1..K |-> W(g)]
    OBVIOUS
  <2> HIDE DEF W, p
  <2>3. p \in Seq(Seq(Bit)) /\ Len(p) = K /\ \A g \in 1..K : p[g] = W(g)
    BY <2>1, <2>2
  <2> QED
    BY <2>3 DEF W
<1> HIDE DEF p
<1>4. MadeOf(x, p, Bit, P)
  <2>1. \A g \in 1..Len(p) : Len(p[g]) = P
    BY <1>2, <1>3
  <2>2. p \in Seq(Seq(Bit))
    BY <1>3
  <2> QED
    BY <2>1, <2>2, FlattenParts
<1> HIDE DEF x
<1>5. x \in Seq(Bit) /\ Len(x) = K * P
  BY <1>3, <1>4 DEF MadeOf
<1>6. \A g \in 1..K : \A j \in 1..P : x[Place(g, j, P)] = bits(V(g), P)[j]
  BY <1>3, <1>4 DEF MadeOf
<1>7. K * P \in Nat
  OBVIOUS
<1>8. y \in Seq(Bit) /\ Len(y) = K * P /\ \A b \in 1..K * P : y[b] = (u \div pow2(b - 1)) % 2
  BY <1>7, BitsIs
<1> HIDE DEF y
<1>9. ASSUME NEW b \in 1..K * P PROVE x[b] = y[b]
  <2>1. PICK g \in 1..K, j \in 1..P : b = Place(g, j, P)
    BY InSomePart
  <2>2. x[b] = bits(V(g), P)[j]
    BY <1>6, <2>1
  <2>3. bits(V(g), P)[j] = (V(g) \div pow2(j - 1)) % 2
    BY <1>1, BitsIs
  <2>4. V(g) \div pow2(j - 1) = u \div pow2(b - 1)
    <3> DEFINE a == (g - 1) * P
               c == j - 1
    <3>1. a \in Nat /\ c \in Nat /\ b - 1 = a + c
      <4>1. a \in Nat
        BY <1>1
      <4> QED
        BY <2>1, <4>1 DEF Place
    <3> HIDE DEF a, c
    <3>2. pow2(a + c) = pow2(a) * pow2(c) /\ pow2(a) \in Nat \ {0} /\ pow2(c) \in Nat \ {0}
      BY <3>1, Pow2Plus, Pow2Is
    <3>3. (u \div pow2(a)) \div pow2(c) = u \div (pow2(a) * pow2(c))
      BY <3>2, DivTwice
    <3> QED
      BY <3>1, <3>2, <3>3 DEF a, c
  <2> QED
    BY <1>8, <2>2, <2>3, <2>4
<1>10. x = y
  <2>1. \A b \in 1..Len(x) : x[b] = y[b]
    BY <1>5, <1>9
  <2>2. x \in Seq(Bit) /\ y \in Seq(Bit) /\ Len(x) = Len(y)
    BY <1>5, <1>8
  <2> QED
    BY <2>1, <2>2, SameSequence
<1> QED
  BY <1>10 DEF x, y, p

\* The bytes of a varint: a part of the number and the bit that says whether
\* another byte comes.
VarintBytes(u, K, x) ==
  /\ x \in Seq(Bit) /\ Len(x) = K * BITS_IN_BYTE
  /\ \A g \in 1..K :
       /\ SubSeq(x, (g - 1) * BITS_IN_BYTE + 1, g * BITS_IN_BYTE - 1)
            = bits(u \div pow2((g - 1) * PAYLOAD), PAYLOAD)
       /\ x[g * BITS_IN_BYTE] = IF g < K THEN 1 ELSE 0

\* What the encoder makes of a number are these bytes.
LEMMA VarintIs ==
  ASSUME NEW u \in Nat, NEW K \in Nat
  PROVE  VarintBytes(u, K, FlattenSeq([g \in 1..K |->
           bits(u \div pow2((g - 1) * PAYLOAD), PAYLOAD) \o <<IF g < K THEN 1 ELSE 0>>]))
<1> DEFINE P == PAYLOAD
           B == BITS_IN_BYTE
           V(g) == bits(u \div pow2((g - 1) * P), P)
           m(g) == IF g < K THEN 1 ELSE 0
           W(g) == V(g) \o <<m(g)>>
           p == [g \in 1..K |-> W(g)]
           x == FlattenSeq(p)
<1>1. P \in Nat \ {0} /\ B = P + 1 /\ B \in Nat \ {0}
  BY PayloadIs
<1>2. ASSUME NEW g \in 1..K PROVE V(g) \in Seq(Bit) /\ Len(V(g)) = P
  <2>1. (g - 1) * P \in Nat
    BY <1>1
  <2>2. pow2((g - 1) * P) \in Nat \ {0} /\ 1 \in Nat \ {0}
    BY <2>1, Pow2Is
  <2>3. u \div pow2((g - 1) * P) \in Nat
    BY <2>2, DivTwice
  <2> QED
    BY <1>1, <2>3, BitsIs
<1> HIDE DEF P, B, V
<1>3. ASSUME NEW g \in 1..K
      PROVE  /\ W(g) \in Seq(Bit) /\ Len(W(g)) = B /\ W(g)[B] = m(g)
             /\ \A j \in 1..P : W(g)[j] = V(g)[j]
  <2> DEFINE a == V(g)
             b == <<m(g)>>
  <2>1. a \in Seq(Bit) /\ Len(a) = P
    BY <1>2
  <2>2. b \in Seq(Bit) /\ Len(b) = 1 /\ b[1] = m(g)
    BY DEF Bit
  <2> HIDE DEF a, b, m
  <2>3. a \o b \in Seq(Bit) /\ Len(a \o b) = Len(a) + Len(b)
    BY <2>1, <2>2, TwoPieces
  <2>4. \A j \in 1..Len(a) : (a \o b)[j] = a[j]
    BY <2>1, <2>2, ConcatIs
  <2>5. \A j \in 1..Len(b) : (a \o b)[Len(a) + j] = b[j]
    BY <2>1, <2>2, ConcatIs
  <2>6. (a \o b)[B] = b[1]
    <3>1. 1 \in 1..Len(b) /\ Len(a) + 1 = B
      BY <1>1, <2>1, <2>2
    <3>2. (a \o b)[Len(a) + 1] = b[1]
      BY <2>5, <3>1
    <3> QED
      BY <3>1, <3>2
  <2> QED
    BY <1>1, <2>1, <2>2, <2>3, <2>4, <2>6 DEF a, b
<1> HIDE DEF W
<1>4. p \in Seq(Seq(Bit)) /\ Len(p) = K /\ \A g \in 1..K : p[g] = W(g)
  BY <1>3
<1> HIDE DEF p
<1>5. MadeOf(x, p, Bit, B)
  <2>1. \A g \in 1..Len(p) : Len(p[g]) = B
    BY <1>3, <1>4
  <2>2. p \in Seq(Seq(Bit)) /\ B \in Nat
    BY <1>1, <1>4
  <2> QED
    BY <2>1, <2>2, FlattenParts
<1> HIDE DEF x
<1>6. x \in Seq(Bit) /\ Len(x) = K * B
  BY <1>4, <1>5 DEF MadeOf
<1>7. \A g \in 1..K : \A j \in 1..B : x[Place(g, j, B)] = W(g)[j]
  BY <1>4, <1>5 DEF MadeOf
<1>8. ASSUME NEW g \in 1..K
      PROVE  SubSeq(x, (g - 1) * B + 1, g * B - 1) = V(g) /\ x[g * B] = m(g)
  <2> DEFINE from == (g - 1) * B
  <2>1. from \in Nat /\ g * B = from + B /\ g * B - 1 = from + P
    <3>1. from \in Nat /\ g * B = from + B
      BY <1>1
    <3> HIDE DEF from
    <3> QED
      BY <1>1, <3>1
  <2>2. from + P <= Len(x)
    <3>1. B \in 1..B /\ B \in Nat
      BY <1>1
    <3>2. Place(g, B, B) \in 1..K * B
      BY <3>1, PlaceWithin
    <3>3. from + B <= K * B /\ K * B \in Nat
      BY <1>1, <3>2 DEF Place
    <3> HIDE DEF from
    <3> QED
      BY <1>1, <1>6, <2>1, <3>3
  <2>3. \A j \in 1..B : x[from + j] = W(g)[j]
    BY <1>7 DEF Place
  <2> HIDE DEF from
  <2>4. SubSeq(x, from + 1, from + P) = [j \in 1..P |-> x[from + j]]
    <3>1. P \in Nat /\ x \in Seq(Bit)
      BY <1>1, <1>6
    <3> QED
      BY <2>1, <2>2, <3>1, SubSeqIs
  <2>5. \A j \in 1..P : x[from + j] = V(g)[j]
    <3>1. \A j \in 1..P : j \in 1..B
      BY <1>1
    <3> QED
      BY <1>3, <2>3, <3>1
  <2>6. V(g) = [j \in 1..P |-> V(g)[j]]
    BY <1>2
  <2>7. SubSeq(x, from + 1, from + P) = V(g)
    BY <2>4, <2>5, <2>6
  <2>8. x[from + B] = m(g)
    <3>1. B \in 1..B
      BY <1>1
    <3> QED
      BY <1>3, <2>3, <3>1
  <2> QED
    BY <2>1, <2>7, <2>8 DEF from
<1>9. VarintBytes(u, K, x)
  BY <1>6, <1>8 DEF VarintBytes, P, B, V
<1> QED
  BY <1>9 DEF x, p, W, V, P

\* The decoder takes bytes up to the first that says no other comes.
LEMMA VarintTaken ==
  ASSUME NEW f, f.form # "fixed", NEW u \in Nat, NEW K \in Nat \ {0}, NEW x, VarintBytes(u, K, x),
         NEW a \in Seq(Bit), NEW rest \in Seq(Bit)
  PROVE  bytes_taken(f, (a \o x) \o rest, Len(a)) = K
<1> DEFINE w == (a \o x) \o rest
           from == Len(a)
           B == BITS_IN_BYTE
           C(g) == continued(w, from, g)
<1>1. B \in Nat \ {0} /\ from \in Nat
  BY SizesAssumption
<1>2. x \in Seq(Bit) /\ Len(x) = K * B /\ \A g \in 1..K : x[g * B] = IF g < K THEN 1 ELSE 0
  BY DEF VarintBytes
<1>3. /\ Len(w) \in Nat /\ from + K * B <= Len(w)
      /\ \A i \in 1..K * B : w[from + i] = x[i]
  <2> DEFINE ax == a \o x
  <2>1. x \in Seq(Bit)
    BY <1>2
  <2>2. /\ ax \in Seq(Bit) /\ Len(ax) = from + K * B
        /\ \A i \in 1..K * B : ax[from + i] = x[i]
    <3>1. a \o x \in Seq(Bit) /\ Len(a \o x) = Len(a) + Len(x)
      BY <2>1, TwoPieces
    <3>2. \A i \in 1..Len(x) : (a \o x)[Len(a) + i] = x[i]
      BY <2>1, ConcatIs
    <3> QED
      BY <1>2, <3>1, <3>2
  <2> HIDE DEF ax
  <2>3. ax \in Seq(Bit)
    BY <2>2
  <2>4. Len(ax \o rest) = Len(ax) + Len(rest) /\ Len(rest) \in Nat /\ Len(ax) \in Nat
    BY <2>3, ConcatIs
  <2>5. \A i \in 1..Len(ax) : (ax \o rest)[i] = ax[i]
    BY <2>3, ConcatIs
  <2>6. K * B \in Nat
    BY <1>1
  <2> DEFINE y == ax \o rest
             n == K * B
  <2>7. /\ Len(y) = from + n + Len(rest) /\ Len(rest) \in Nat /\ n \in Nat
        /\ (\A i \in 1..from + n : y[i] = ax[i]) /\ (\A i \in 1..n : ax[from + i] = x[i])
    BY <2>2, <2>4, <2>5, <2>6
  <2> HIDE DEF y, n, from
  <2>8. \A i \in 1..n : from + i \in 1..from + n
    BY <1>1, <2>7
  <2>9. Len(y) \in Nat /\ from + n <= Len(y) /\ \A i \in 1..n : y[from + i] = x[i]
    BY <1>1, <2>7, <2>8
  <2>10. y = w
    BY DEF y, ax
  <2> QED
    BY <2>9, <2>10 DEF n, y, ax
<1> HIDE DEF w, from, B
<1>4. ASSUME NEW g \in 1..K PROVE C(g) <=> g < K
  <2>1. g * B \in Nat /\ 1 <= g * B /\ g * B <= K * B
    <3>1. 1 * B <= g * B /\ g * B <= K * B /\ 1 * B = B
      BY <1>1, MultipleOrder
    <3> QED
      BY <1>1, <3>1
  <2> DEFINE i == g * B
             n == K * B
  <2>2. i \in Nat /\ 1 <= i /\ i <= n /\ n \in Nat
    BY <1>1, <2>1
  <2>3. x[i] = IF g < K THEN 1 ELSE 0
    BY <1>2
  <2>4. Len(w) \in Nat /\ from + n <= Len(w) /\ (\A l \in 1..n : w[from + l] = x[l])
    BY <1>3
  <2>5. C(g) <=> more(w, from + i - 1, 1) = <<1>>
    BY DEF continued, B
  <2> HIDE DEF i, n
  <2>6. w[from + i] = x[i] /\ from + i - 1 + 1 = from + i /\ from + i <= Len(w)
    BY <1>1, <2>2, <2>4
  <2>7. more(w, from + i - 1, 1) = <<x[i]>>
    <3>1. more(w, from + i - 1, 1)
            = [b \in 1..1 |-> IF from + i - 1 + b <= Len(w) THEN w[from + i - 1 + b] ELSE 0]
      BY DEF more
    <3>2. \A b \in 1..1 : b = 1
      OBVIOUS
    <3>3. \A b \in 1..1 : (IF from + i - 1 + b <= Len(w) THEN w[from + i - 1 + b] ELSE 0) = x[i]
      BY <2>6, <3>2
    <3>4. more(w, from + i - 1, 1) = [b \in 1..1 |-> x[i]]
      BY <3>1, <3>3
    <3>5. <<x[i]>> = [b \in 1..1 |-> x[i]]
      OBVIOUS
    <3> QED
      BY <3>4, <3>5
  <2>8. <<x[i]>> = <<1>> <=> x[i] = 1
    OBVIOUS
  <2> QED
    BY <2>3, <2>5, <2>7, <2>8
<1>5. K \in 1..(Len(w) + 1)
  <2>1. 1 * K <= B * K /\ 1 * K = K /\ B * K = K * B /\ K * B \in Nat
    BY <1>1, MultipleOrder
  <2> DEFINE n == K * B
             l == Len(w)
  <2>2. K <= n /\ n \in Nat /\ l \in Nat /\ from + n <= l
    BY <1>3, <2>1
  <2> HIDE DEF n, l
  <2>3. K \in 1..(l + 1)
    BY <1>1, <2>2
  <2> QED
    BY <2>3 DEF l
<1>6. bytes_taken(f, w, from)
        = CHOOSE g \in 1..(Len(w) + 1) : ~C(g) /\ \A h \in 1..(g - 1) : C(h)
  BY DEF bytes_taken
<1> HIDE DEF C
<1>7. ~C(K) /\ \A h \in 1..(K - 1) : C(h)
  <2>1. K \in 1..K /\ \A h \in 1..(K - 1) : h \in 1..K /\ h < K
    OBVIOUS
  <2> QED
    BY <1>4, <2>1
<1>8. ASSUME NEW g \in 1..(Len(w) + 1), ~C(g), \A h \in 1..(g - 1) : C(h) PROVE g = K
  <2>1. CASE g < K
    <3>1. g \in 1..K
      BY <1>3, <2>1
    <3> QED
      BY <1>4, <1>8, <2>1, <3>1
  <2>2. CASE K < g
    <3>1. K \in 1..(g - 1)
      BY <1>3, <2>2
    <3> QED
      BY <1>7, <1>8, <3>1
  <2> QED
    BY <1>3, <2>1, <2>2
<1>9. bytes_taken(f, w, from) = K
  <2> DEFINE Q(g) == ~C(g) /\ \A h \in 1..(g - 1) : C(h)
  <2>1. Q(K)
    BY <1>7
  <2>2. \A g \in 1..(Len(w) + 1) : Q(g) => g = K
    BY <1>8
  <2>3. bytes_taken(f, w, from) = CHOOSE g \in 1..(Len(w) + 1) : Q(g)
    BY <1>6
  <2> HIDE DEF Q
  <2> QED
    BY <1>5, <2>1, <2>2, <2>3
<1> QED
  BY <1>9 DEF w, from

\* A varint is read as the number that was written.
LEMMA VarintBack ==
  ASSUME NEW f, f.form # "fixed", NEW u \in Nat, NEW K \in Nat \ {0}, u < pow2(K * PAYLOAD),
         NEW x, VarintBytes(u, K, x)
  PROVE  ulong(FlattenSeq([g \in 1..K |->
           SubSeq(x, (g - 1) * BITS_IN_BYTE + 1, g * BITS_IN_BYTE - 1)])) = u
<1> DEFINE V(g) == bits(u \div pow2((g - 1) * PAYLOAD), PAYLOAD)
           W(g) == SubSeq(x, (g - 1) * BITS_IN_BYTE + 1, g * BITS_IN_BYTE - 1)
<1>1. \A g \in 1..K : W(g) = V(g)
  BY DEF VarintBytes
<1>2. PAYLOAD \in Nat
  BY PayloadIs
<1>3. FlattenSeq([g \in 1..K |-> V(g)]) = bits(u, K * PAYLOAD)
  BY <1>2, PayloadOfNumber
<1> HIDE DEF V, W
<1>4. [g \in 1..K |-> W(g)] = [g \in 1..K |-> V(g)]
  BY <1>1
<1>5. K * PAYLOAD \in Nat
  BY <1>2
<1>6. ulong(bits(u, K * PAYLOAD)) = u
  BY <1>5, UlongOfBits
<1> QED
  BY <1>3, <1>4, <1>6 DEF W

\* A number is so many times a divisor, and the remainder.
LEMMA TimesAndRest ==
  ASSUME NEW a \in Int, NEW b \in Nat \ {0}
  PROVE  a \div b \in Int /\ a % b \in Int /\ a = (a \div b) * b + (a % b)
BY DivMod

\* How many bytes a number takes.
LEMMA ByteSizeIs ==
  ASSUME NEW f, validate(f), f.codec = "native", NEW v \in numbers(f)
  PROVE  LET K == byte_size(f, v)
         IN /\ K \in Nat /\ K * BITS_IN_BYTE \in Nat
            /\ f.form = "fixed" => K * BITS_IN_BYTE = f.width /\ K = f.width \div BITS_IN_BYTE
            /\ f.form # "fixed" => BITS_IN_BYTE <= K * BITS_IN_BYTE /\ K # 0
<1> DEFINE K == byte_size(f, v)
           B == BITS_IN_BYTE
           k == f.width \div B
           m == f.width % B
<1>1. B \in Nat \ {0}
  BY SizesAssumption
<1>2. f.width \in Nat \ {0} /\ (f.form = "fixed" => m = 0)
  BY NativeIs
<1>3. CASE f.form = "fixed"
  <2>1. K = k
    BY <1>3 DEF byte_size
  <2>a. f.width \in Int
    BY <1>2
  <2>d. PICK w \in Int : w = f.width
    BY <2>a
  <2> HIDE DEF B
  <2>e. w \div B \in Int /\ w = (w \div B) * B + (w % B)
    BY <1>1, TimesAndRest
  <2>2. k \in Int
    BY <2>d, <2>e
  <2>3. f.width = k * B + m
    BY <2>d, <2>e
  <2> HIDE DEF k, m, K
  <2>4. k * B \in Int
    BY <1>1, <2>2
  <2>5. f.width = k * B
    BY <1>2, <1>3, <2>3, <2>4
  <2>6. k \in Nat
    <3> SUFFICES ASSUME k <= -1 PROVE FALSE
      BY <2>2
    <3>1. k * B <= (-1) * B /\ (-1) * B = -B
      BY <1>1, <2>2, MultipleOrder
    <3> QED
      BY <1>1, <1>2, <2>4, <2>5, <3>1
  <2> QED
    BY <1>2, <1>3, <2>1, <2>5, <2>6 DEF K, k, B
<1>4. CASE f.form # "fixed"
  <2>1. K \in Nat \ {0}
    BY <1>4, VarintSizeIs
  <2> HIDE DEF K, B
  <2>2. 1 * B <= K * B /\ 1 * B = B /\ K * B \in Nat
    BY <1>1, <2>1, MultipleOrder
  <2> QED
    BY <1>4, <2>1, <2>2 DEF K, B
<1> QED
  BY <1>3, <1>4

\* The bits of a number, and the number they are read as behind the bit that
\* says it is there.
LEMMA NativeBack ==
  ASSUME NEW f, validate(f), f.codec = "native", NEW v \in numbers(f), NEW rest \in Seq(Bit)
  PROVE  LET n == byte_size(f, v) * BITS_IN_BYTE
             a == bits(1, presence_size(f))
         IN /\ native_bits(f, v) \in Seq(Bit) /\ Len(native_bits(f, v)) = n
            /\ native_decode(f, (a \o native_bits(f, v)) \o rest)
                 = decoded(v, presence_size(f) + n)
<1> DEFINE u == to_unsigned(f, v)
           K == byte_size(f, v)
           x == native_bits(f, v)
           B == BITS_IN_BYTE
           n == K * B
           s == presence_size(f)
           a == bits(1, s)
           w == (a \o x) \o rest
           pay == FlattenSeq([g \in 1..K |-> SubSeq(x, (g - 1) * B + 1, g * B - 1)])
<1>1. a \in Seq(Bit) /\ Len(a) = s
  BY PresenceIs
<1>2. /\ f.width \in Nat /\ K \in Nat /\ n \in Nat
      /\ (f.form = "fixed" => n = f.width /\ K = f.width \div B) /\ (f.form # "fixed" => K # 0)
  BY NativeIs, ByteSizeIs
<1>3. u \in Nat /\ u < pow2(f.width) /\ from_unsigned(f, u) = v
  BY UnsignedAndBack
<1>4. /\ x \in Seq(Bit) /\ Len(x) = n /\ bytes_taken(f, w, s) = K
      /\ ulong(IF f.form = "fixed" THEN x ELSE pay) = u
  <2>1. CASE f.form = "fixed"
    <3>1. x = bits(u, f.width)
      BY <2>1 DEF native_bits
    <3>2. bytes_taken(f, w, s) = K
      BY <1>2, <2>1 DEF bytes_taken
    <3> HIDE DEF u, K, x, B, pay
    <3>3. x \in Seq(Bit) /\ Len(x) = n /\ ulong(x) = u
      BY <1>2, <1>3, <2>1, <3>1, BitsIs, UlongOfBits
    <3> QED
      BY <2>1, <3>2, <3>3
  <2>2. CASE f.form # "fixed"
    <3>1. K \in Nat \ {0} /\ u < pow2(K * PAYLOAD)
      BY <2>2, VarintSizeIs
    <3>2. x = FlattenSeq([g \in 1..K |->
                bits(u \div pow2((g - 1) * PAYLOAD), PAYLOAD) \o <<IF g < K THEN 1 ELSE 0>>])
      BY <2>2 DEF native_bits
    <3> HIDE DEF u, K, x
    <3>3. VarintBytes(u, K, x)
      BY <1>3, <3>1, <3>2, VarintIs
    <3>4. bytes_taken(f, w, s) = K
      <4> HIDE DEF a
      <4> QED
        BY <1>1, <1>3, <2>2, <3>1, <3>3, VarintTaken
    <3>5. x \in Seq(Bit) /\ Len(x) = n
      BY <3>3 DEF VarintBytes
    <3>6. ulong(pay) = u
      BY <1>3, <2>2, <3>1, <3>3, VarintBack
    <3> HIDE DEF pay
    <3> QED
      BY <2>2, <3>4, <3>5, <3>6
  <2> QED
    BY <2>1, <2>2
<1> HIDE DEF u, x
<1>5. more(w, 0, s) = a /\ more(w, s, n) = x
  <2> HIDE DEF a
  <2>1. more((a \o x) \o rest, 0, Len(a)) = a /\ more((a \o x) \o rest, Len(a), Len(x)) = x
    BY <1>1, <1>4, TakeNext
  <2> QED
    BY <1>1, <1>4, <2>1
<1> HIDE DEF w
<1>6. ~(~use_required(f) /\ more(w, 0, 1) = <<0>>)
  BY <1>5, PresentIsRead
<1>7. native_decode(f, w)
        = LET size_ == bytes_taken(f, w, s)
              body == more(w, s, size_ * B)
              payload == FlattenSeq([g \in 1..size_ |-> SubSeq(body, (g - 1) * B + 1, g * B - 1)])
          IN decoded(from_unsigned(f, ulong(IF f.form = "fixed" THEN body ELSE payload)),
                     s + size_ * B)
  BY <1>6 DEF native_decode
<1>8. native_decode(f, w)
        = decoded(from_unsigned(f, ulong(IF f.form = "fixed" THEN x ELSE pay)), s + n)
  BY <1>4, <1>5, <1>7
<1>9. native_decode(f, w) = decoded(v, s + n)
  <2> HIDE DEF pay, n
  <2> QED
    BY <1>3, <1>4, <1>8
<1> QED
  BY <1>4, <1>9 DEF w, x

\* The larger of two.
LEMMA LargerOfTwo ==
  ASSUME NEW a \in Int, NEW b \in Int
  PROVE  Max({a, b}) \in {a, b} /\ a <= Max({a, b}) /\ b <= Max({a, b})
<1>1. \E x \in {a, b} : \A y \in {a, b} : x >= y
  <2>1. CASE a >= b
    <3>1. a >= a
      OBVIOUS
    <3> QED
      BY <2>1, <3>1
  <2>2. CASE b >= a
    <3>1. b >= b
      OBVIOUS
    <3> QED
      BY <2>2, <3>1
  <2> QED
    BY <2>1, <2>2
<1>2. Max({a, b}) \in {a, b} /\ \A y \in {a, b} : Max({a, b}) >= y
  BY <1>1 DEF Max
<1> DEFINE m == Max({a, b})
<1>3. m \in {a, b} /\ m >= a /\ m >= b
  BY <1>2
<1> HIDE DEF m
<1>4. a <= m /\ b <= m
  BY <1>3
<1> QED
  BY <1>3, <1>4 DEF m

\* No number takes more than max_size(): the least or the largest is the
\* longest.
LEMMA NativeMaxSize ==
  ASSUME NEW f, validate(f), f.codec = "native", NEW v \in numbers(f)
  PROVE  /\ presence_size(f) + byte_size(f, v) * BITS_IN_BYTE <= max_size(f)
         /\ max_size(f) \in Nat /\ presence_size(f) <= max_size(f)
<1> DEFINE s == presence_size(f)
           B == BITS_IN_BYTE
           lo == Min(numbers(f))
           hi == Max(numbers(f))
           n == byte_size(f, v) * B
           a == byte_size(f, lo) * B
           b == byte_size(f, hi) * B
<1>1. B \in Nat \ {0} /\ s \in Nat
  BY SizesAssumption DEF presence_size
<1>2. lo \in numbers(f) /\ hi \in numbers(f)
  <2>1. PICK l \in Int, h \in Int : numbers(f) = l..h /\ l <= 0 /\ 0 <= h /\ lo = l /\ hi = h
    BY NumbersAre
  <2> HIDE DEF lo, hi
  <2> QED
    BY <2>1
<1>3. lo # Null /\ hi # Null
  BY <1>2, UnsignedAndBack
<1>4. max_size(f) = Max({size(f, lo), size(f, hi)})
  BY DEF max_size
<1>5. size(f, lo) = s + a /\ size(f, hi) = s + b
  BY <1>3 DEF size
<1>6. byte_size(f, v) \in Nat /\ byte_size(f, lo) \in Nat /\ byte_size(f, hi) \in Nat
      /\ n \in Nat /\ a \in Nat /\ b \in Nat
  BY <1>2, ByteSizeIs
<1>7. n <= a \/ n <= b
  <2>1. CASE f.form = "fixed"
    <3>1. n = f.width /\ a = f.width
      BY <1>2, <2>1, ByteSizeIs
    <3> QED
      BY <1>6, <3>1
  <2>2. CASE f.form # "fixed"
    <3>1. byte_size(f, v) <= byte_size(f, lo) \/ byte_size(f, v) <= byte_size(f, hi)
      BY <2>2, LongestNumber
    <3> HIDE DEF lo, hi, B
    <3> QED
      BY <1>1, <1>6, <3>1, MultipleOrder
  <2> QED
    BY <2>1, <2>2
<1> HIDE DEF n, a, b, s, lo, hi
<1>8. s + a \in Int /\ s + b \in Int
  BY <1>1, <1>6
<1> DEFINE m == Max({s + a, s + b})
<1>9. m \in {s + a, s + b} /\ s + a <= m /\ s + b <= m
  BY <1>8, LargerOfTwo
<1>10. m = max_size(f)
  BY <1>4, <1>5
<1> HIDE DEF m
<1>11. s + n <= m /\ m \in Nat /\ s <= m
  BY <1>1, <1>6, <1>7, <1>9
<1> QED
  BY <1>10, <1>11 DEF s, n

\* A number as Google Protocol Buffers write it.
LEMMA NativeContract ==
  ASSUME NEW f, validate(f), f.codec = "native", NEW v, encodable(f, v),
         NEW rest \in Seq(Bit), NEW clock
  PROVE  Contract(f, v, rest, clock)
<1> DEFINE s == presence_size(f)
           B == BITS_IN_BYTE
           e == encode(f, v)
           d == decode(f, e \o rest, clock)
<1>1. /\ e = native_encode(f, v) /\ d = native_decode(f, e \o rest)
      /\ min_size(f) = native_min_size(f)
      /\ size(f, v) = IF v = Null THEN min_size(f) ELSE s + byte_size(f, v) * B
      /\ \A r : ReadFor(f, v, r) <=> r = v
  BY DEF encode, decode, min_size, size, ReadFor
<1>2. s = IF use_required(f) THEN 0 ELSE 1
  BY PresenceIs
<1>3. CASE v = Null
  <2>1. ~use_required(f)
    BY <1>3 DEF encodable
  <2>2. s = 1 /\ bits(0, 1) = <<0>>
    BY <2>1, PresenceIs
  <2>3. e = <<0>> /\ min_size(f) = 1
    BY <1>1, <1>3, <2>1, <2>2 DEF native_encode, native_min_size
  <2>4. <<0>> \in Seq(Bit) /\ Len(<<0>>) = 1 /\ more(<<0>> \o rest, 0, 1) = <<0>>
    BY <2>1, AbsentIsRead
  <2> HIDE DEF e, d
  <2>5. d = decoded(Null, 1)
    BY <1>1, <2>1, <2>3, <2>4 DEF native_decode
  <2>6. d.used = 1 /\ d.value = Null
    BY <2>5 DEF decoded
  <2>7. size(f, v) = 1 /\ ReadFor(f, v, Null)
    BY <1>1, <1>3, <2>3
  <2>8. 1 \in Nat /\ 1 <= 1 /\ 1 <= max_size(f)
    <3>1. PICK lo \in Int, hi \in Int : numbers(f) = lo..hi /\ lo <= 0 /\ 0 <= hi
      BY NumbersAre
    <3>2. 0 \in numbers(f)
      BY <3>1
    <3> QED
      BY <2>2, <3>2, NativeMaxSize
  <2> QED
    BY <2>3, <2>4, <2>6, <2>7, <2>8 DEF Contract, e, d
<1>4. CASE v # Null
  <2> DEFINE x == native_bits(f, v)
             a == bits(1, s)
             n == byte_size(f, v) * B
  <2>1. v \in numbers(f)
    BY <1>4 DEF encodable
  <2>2. e = a \o x
    BY <1>1, <1>4 DEF native_encode
  <2>3. /\ x \in Seq(Bit) /\ Len(x) = n
        /\ native_decode(f, (a \o x) \o rest) = decoded(v, s + n)
    BY <2>1, NativeBack
  <2>4. a \in Seq(Bit) /\ Len(a) = s
    BY PresenceIs
  <2>5. /\ n \in Nat /\ (f.form = "fixed" => n = f.width) /\ (f.form # "fixed" => B <= n)
    BY <2>1, ByteSizeIs
  <2>6. s + n <= max_size(f)
    BY <2>1, NativeMaxSize
  <2> HIDE DEF a, x, e, d
  <2>7. e \in Seq(Bit) /\ Len(e) = s + n
    <3>1. a \o x \in Seq(Bit) /\ Len(a \o x) = Len(a) + Len(x)
      BY <2>3, <2>4, TwoPieces
    <3> QED
      BY <2>2, <2>3, <2>4, <3>1
  <2>8. d.used = s + n /\ d.value = v
    BY <1>1, <2>2, <2>3 DEF decoded
  <2>9. size(f, v) = s + n /\ ReadFor(f, v, v)
    BY <1>1, <1>4
  <2>10. min_size(f) \in Nat /\ min_size(f) <= s + n
    <3>1. f.width \in Nat /\ B \in Nat
      BY NativeIs, SizesAssumption
    <3>2. CASE ~use_required(f)
      <4>1. min_size(f) = 1 /\ s = 1
        BY <1>1, <1>2, <3>2 DEF native_min_size
      <4> HIDE DEF n
      <4> QED
        BY <2>5, <4>1
    <3>3. CASE use_required(f)
      <4>1. min_size(f) = (IF f.form = "fixed" THEN f.width ELSE B) /\ s = 0
        BY <1>1, <1>2, <3>3 DEF native_min_size
      <4> HIDE DEF n
      <4> QED
        BY <2>5, <3>1, <4>1
    <3> QED
      BY <3>2, <3>3
  <2> QED
    BY <2>6, <2>7, <2>8, <2>9, <2>10 DEF Contract, e, d
<1> QED
  BY <1>3, <1>4

-----------------------------------------------------------------------------
(* Every codec keeps the contract *)

\* An absent field of a codec with bounds.
LEMMA AbsentContract ==
  ASSUME NEW f, validate(f), f.codec \in BoundedCodecs, encodable(f, Null),
         NEW rest \in Seq(Bit), NEW clock
  PROVE  Contract(f, Null, rest, clock)
<1>1. ~use_required(f) /\ f.presence \in BOOLEAN
  BY DEF encodable, validate
<1>2. pre_encode(f, Null) \in Int \cup {Null}
  BY DEF pre_encode
<1>3. FixedReads(f, FALSE, Null, clock) = Null /\ ReadFor(f, Null, Null)
  BY AbsentReads
<1>4. ASSUME ~f.presence
      PROVE  ReadFor(f, Null, FixedReads(f, f.presence \/ use_required(f), Null, clock))
  <2>1. (f.presence \/ use_required(f)) = FALSE
    BY <1>1, <1>4
  <2> QED
    BY <1>3, <2>1
<1> QED
  BY <1>2, <1>3, <1>4, BoundedContract

\* A field of a codec with bounds that is there.
LEMMA PresentContract ==
  ASSUME NEW f, validate(f), f.codec \in BoundedCodecs, NEW v, v # Null, encodable(f, v),
         NEW rest \in Seq(Bit), NEW clock, f.codec = "time" => clock \in Int
  PROVE  /\ Contract(f, v, rest, clock)
         /\ decode(f, encode(f, v) \o rest, clock).value
              = FixedReads(f, f.presence \/ use_required(f), v, clock)
<1> DEFINE required == f.presence \/ use_required(f)
           y == FixedReads(f, required, v, clock)
<1>1. required \in BOOLEAN
  BY DEF validate
<1>2. ReadFor(f, Null, Null)
  BY AbsentReads
<1>3. pre_encode(f, v) \in Int /\ ReadFor(f, v, y)
  <2>1. CASE f.codec = "bool"
    <3>1. v \in {0, 1}
      BY <2>1 DEF encodable
    <3>2. pre_encode(f, v) = v /\ y = v /\ ReadFor(f, v, v)
      BY <1>1, <2>1, <3>1, BoolReads
    <3> QED
      BY <3>1, <3>2
  <2>2. CASE f.codec = "enum"
    <3>1. v \in Range(f.numbers)
      BY <2>2 DEF encodable
    <3>2. pre_encode(f, v) \in Int /\ y = v /\ ReadFor(f, v, v)
      BY <1>1, <2>2, <3>1, EnumReads
    <3> QED
      BY <3>2
  <2>3. CASE f.codec = "numeric"
    <3>1. v \in Int
      BY <2>3 DEF encodable
    <3>2. pre_encode(f, v) = v /\ ReadFor(f, v, y)
      BY <2>3, <3>1, NumericReads
    <3> QED
      BY <3>1, <3>2
  <2>4. CASE f.codec = "time"
    <3>1. v \in Nat /\ clock \in Int
      BY <2>4 DEF encodable
    <3>2. pre_encode(f, v) \in Int /\ y \in Int
      BY <1>1, <2>4, <3>1, TimeReads
    <3>3. y # Null
      BY <3>2, NullAssumption
    <3>4. ReadFor(f, v, y)
      BY <2>4, <3>3 DEF ReadFor
    <3> QED
      BY <3>2, <3>4
  <2> QED
    BY <2>1, <2>2, <2>3, <2>4 DEF BoundedCodecs
<1> HIDE DEF y
<1>4. pre_encode(f, v) \in Int \cup {Null}
  BY <1>3
<1> QED
  BY <1>2, <1>3, <1>4, BoundedContract DEF y

\* What every codec keeps, for each value that it may be given.
LEMMA ContractHolds ==
  ASSUME NEW f, validate(f), NEW v, encodable(f, v), NEW rest \in Seq(Bit), NEW clock,
         f.codec = "time" => clock \in Int
  PROVE  Contract(f, v, rest, clock)
<1>1. f.codec \in {"static", "string", "var_bytes", "bytes", "native"} \cup BoundedCodecs
  BY DEF validate, BoundedCodecs
<1>2. CASE f.codec = "static"
  BY <1>2, StaticContract
<1>3. CASE f.codec = "string"
  BY <1>3, StringContract
<1>4. CASE f.codec = "var_bytes"
  BY <1>4, VarBytesContract
<1>5. CASE f.codec = "bytes"
  BY <1>5, BytesContract
<1>6. CASE f.codec = "native"
  BY <1>6, NativeContract
<1>7. CASE f.codec \in BoundedCodecs /\ v = Null
  BY <1>7, AbsentContract
<1>8. CASE f.codec \in BoundedCodecs /\ v # Null
  BY <1>8, PresentContract
<1> QED
  BY <1>1, <1>2, <1>3, <1>4, <1>5, <1>6, <1>7, <1>8

-----------------------------------------------------------------------------
(* Times *)

\* A time is rounded as what is over a span is.
LEMMA RoundsWithinSpan ==
  ASSUME NEW v \in Int, NEW M \in Nat \ {0}, NEW r \in Nat \ {0}, NEW b \in Int, M = b * r
  PROVE  quantize(0, v, r) = (v \div M) * M + quantize(0, v % M, r)
<1> DEFINE s == v \div M
           e == v % M
           k == (2 * e + r) \div (2 * r)
           l == (2 * e + r) % (2 * r)
<1>1. s \in Int /\ e \in Int /\ v = s * M + e
  BY TimesAndRest
<1> HIDE DEF s, e
<1>2. 2 * r \in Nat \ {0} /\ 2 * e + r \in Int
  BY <1>1
<1>3. k \in Int /\ l \in 0..(2 * r - 1) /\ 2 * e + r = k * (2 * r) + l
  <2>1. ASSUME NEW x \in Int, NEW d \in Nat \ {0}
        PROVE  x \div d \in Int /\ x % d \in 0..(d - 1) /\ x = (x \div d) * d + (x % d)
    BY <2>1, DivMod
  <2> QED
    BY <1>2, <2>1
<1> HIDE DEF k, l
<1>4. s * b \in Int /\ s * M = (s * b) * r
  BY <1>1
<1> DEFINE j == s * b
<1>5. j \in Int /\ s * M = j * r
  BY <1>4
<1> HIDE DEF j
<1>6. 2 * v + r = (j + k) * (2 * r) + l
  <2>1. (j + k) * (2 * r) = 2 * (j * r) + k * (2 * r)
    BY <1>3, <1>5
  <2>2. 2 * v = 2 * (j * r) + 2 * e
    BY <1>1, <1>5
  <2>3. j * r \in Int /\ k * (2 * r) \in Int /\ (j + k) * (2 * r) \in Int /\ l \in Int
    BY <1>3, <1>5
  <2>4. 2 * e + r = k * (2 * r) + l
    BY <1>3
  <2> DEFINE x == j * r
             y == k * (2 * r)
             z == (j + k) * (2 * r)
  <2>5. x \in Int /\ y \in Int /\ z \in Int /\ z = 2 * x + y /\ 2 * v = 2 * x + 2 * e /\ 2 * e + r = y + l
    BY <2>1, <2>2, <2>3, <2>4
  <2> HIDE DEF x, y, z
  <2>6. 2 * v + r = z + l
    BY <1>1, <2>3, <2>5
  <2> QED
    BY <2>6 DEF z
<1>7. (2 * v + r) \div (2 * r) = j + k
  <2>1. j + k \in Int /\ 2 * v + r \in Int
    BY <1>3, <1>5
  <2> QED
    BY <1>2, <1>3, <1>6, <2>1, DivUnique
<1>8. (j + k) * r = j * r + k * r
  BY <1>3, <1>5
<1>9. quantize(0, v, r) = (j + k) * r
  BY <1>7, RoundsToNearest
<1>10. quantize(0, e, r) = k * r
  BY <1>1, RoundsToNearest DEF k
<1> QED
  BY <1>5, <1>8, <1>9, <1>10 DEF s, e

\* An integer goes to a multiple next to it, and from half way to the one above.
LEMMA RoundsHalfUp ==
  ASSUME NEW v \in Nat, NEW r \in Nat \ {0}
  PROVE  LET q == rounded(TRUE, v, r)
         IN /\ q \in Int /\ (\E k \in Int : q = k * r)
            /\ 2 * (q - v) <= r /\ 2 * (v - q) < r
<1> DEFINE rem == remainder(v, r)
           q == rounded(TRUE, v, r)
<1>0. v \in Int /\ v >= 0
  OBVIOUS
<1>a. rem \in (1 - r)..(r - 1) /\ rem >= 0
  BY <1>0, RemainderLeavesMultiple
<1>b. \E k \in Int : v - rem = k * r
  BY <1>0, RemainderLeavesMultiple
<1>1. rem \in 0..(r - 1) /\ \E k \in Int : v - rem = k * r
  <2> HIDE DEF rem
  <2> QED
    BY <1>a, <1>b
<1>2. q = v - rem + (IF 2 * rem >= r THEN r ELSE 0)
  BY DEF rounded
<1> HIDE DEF rem, q
<1>3. q \in Int /\ 2 * (q - v) <= r /\ 2 * (v - q) < r
  BY <1>1, <1>2
<1>4. PICK k \in Int : v - rem = k * r
  BY <1>1
<1>5. q = k * r \/ q = k * r + r
  BY <1>1, <1>2, <1>4
<1>6. k * r + r = (k + 1) * r /\ k + 1 \in Int
  BY NextMultiple
<1>7. \E m \in Int : q = m * r
  BY <1>5, <1>6
<1> QED
  BY <1>3, <1>7 DEF q

\* One that is a multiple stays.
LEMMA MultipleStays ==
  ASSUME NEW v, NEW r \in Nat \ {0}, \E k \in Int : v = k * r
  PROVE  rounded(TRUE, v, r) = v
<1> DEFINE whole == TRUE
<1>1. whole \in BOOLEAN
  OBVIOUS
<1>2. PICK k \in Int : v = k * r
  OBVIOUS
<1> HIDE DEF whole
<1>3. rounded(whole, k * r, r) = k * r
  BY <1>1, RoundedKeepsMultiples
<1> QED
  BY <1>2, <1>3 DEF whole

\* The second next to a time cut to units is one next to the time, as units do
\* not fall across the middle between two seconds.
LEMMA SecondOfUnits ==
  ASSUME NEW unit \in Nat \ {0}, NEW second \in Nat \ {0}, second % (2 * unit) = 0,
         NEW q \in Nat
  PROVE  LET p == rounded(TRUE, whole_part(unit, q), second)
         IN p \in Int /\ p % second = 0 /\ 2 * distance(p, q) <= second
<1> DEFINE w == whole_part(unit, q)
           p == rounded(TRUE, w, second)
           u == 2 * unit
           h == second \div u
<1>0. unit \in Nat /\ unit > 0
  OBVIOUS
<1>1. w \in Nat /\ w <= q /\ q - w < unit /\ \E j \in Nat : w = j * unit
  BY <1>0, WholePartBelow
<1>2. PICK j \in Nat : w = j * unit
  BY <1>1
<1>3. u \in Nat \ {0} /\ u = 2 * unit /\ second % u = 0
  OBVIOUS
<1> HIDE DEF u
<1>4. h \in Int /\ second = h * u
  <2>1. second \in Int
    OBVIOUS
  <2>2. h \in Int /\ second = h * u + (second % u)
    BY <1>3, <2>1, DivMod
  <2> HIDE DEF h
  <2>3. h * u \in Int
    BY <1>3, <2>2
  <2> QED
    BY <1>3, <2>2, <2>3
<1> HIDE DEF w, h
<1>5. p \in Int /\ (\E m \in Int : p = m * second) /\ 2 * (p - w) <= second
  BY <1>1, RoundsHalfUp
<1>6. PICK m \in Int : p = m * second
  BY <1>5
<1>7. 2 * (w - p) < second
  BY <1>1, RoundsHalfUp
<1>8. p % second = 0
  BY <1>6, MultipleDiv
<1> HIDE DEF p
<1>9. 2 * (p - q) <= second
  BY <1>1, <1>5
<1>10. second = 2 * (h * unit) /\ h * unit \in Int
  BY <1>3, <1>4
<1>11. w - p < h * unit
  BY <1>1, <1>5, <1>7, <1>10
<1>12. \E i \in Int : w - p = i * unit
  <2> DEFINE g == 2 * (m * h)
  <2>1. g \in Int
    BY <1>4
  <2>2. p = g * unit
    BY <1>3, <1>4, <1>6
  <2> HIDE DEF g
  <2>3. j * unit - g * unit = (j - g) * unit
    BY <2>1, MultipleDifference
  <2>4. j - g \in Int /\ w - p = (j - g) * unit
    BY <1>2, <2>1, <2>2, <2>3
  <2> QED
    BY <2>4
<1>13. PICK i \in Int : w - p = i * unit
  BY <1>12
<1>14. i + 1 <= h
  <2> SUFFICES ASSUME h <= i PROVE FALSE
    BY <1>4
  <2>1. h * unit <= i * unit
    BY <1>4, MultipleOrder
  <2> QED
    BY <1>1, <1>5, <1>10, <1>11, <1>13, <2>1
<1>15. i * unit + unit <= h * unit
  <2>1. (i + 1) * unit <= h * unit /\ (i + 1) * unit = i * unit + unit
    BY <1>4, <1>14, MultipleOrder, NextMultiple
  <2> QED
    BY <2>1
<1>16. q - p < h * unit
  BY <1>1, <1>5, <1>10, <1>13, <1>15
<1>17. 2 * (q - p) <= second
  BY <1>5, <1>10, <1>16
<1>18. 2 * distance(p, q) <= second
  BY <1>9, <1>17 DEF distance
<1> QED
  BY <1>5, <1>8, <1>18 DEF p, w

\* What a time that was rounded to q may be read as.
TimeOf(f, q, r) ==
  \/ f.precise /\ r = whole_part(f.unit, q)
  \/ ~f.precise /\ r % f.second = 0 /\ 2 * distance(r, q) <= f.second

\* The place a time is rounded to in the end is that of its precision, if it has
\* one, and the next second if not.
LEMMA RoundedInTheEnd ==
  ASSUME NEW f, validate(f), f.codec = "time", f.res \in Nat \ {0}, NEW k \in Nat
  PROVE  TimeOf(f, k * f.res, rounded(f.unit > 0, whole_part(f.unit, k * f.res), place(f)))
<1> DEFINE res == f.res
           unit == f.unit
           second == f.second
           q == k * res
           w == whole_part(unit, q)
           y == rounded(unit > 0, w, place(f))
<1>1. /\ unit \in Nat /\ second \in Nat \ {0} /\ f.precise \in BOOLEAN
      /\ unit > 0 => /\ second % (2 * unit) = 0
                     /\ f.precise => res % unit = 0 \/ unit % res = 0
  BY DEF validate
<1>2. res \in Nat \ {0} /\ q \in Nat
  OBVIOUS
<1>3. CASE f.precise
  <2>1. CASE unit < res
    <3>1. place(f) = res
      BY <1>1, <1>2, <1>3, <2>1 DEF place
    <3>2. ~fractional(unit, res)
      <4>1. ASSUME unit > 0, unit % res = 0 PROVE FALSE
        BY <1>1, <1>2, <2>1, <4>1
      <4> QED
        BY <1>1, <1>3, <4>1 DEF fractional
    <3>3. w = q
      BY <1>1, <1>2, <3>2, WholeResolutions
    <3>4. rounded(unit > 0, k * res, res) = k * res
      <4> DEFINE whole == unit > 0
      <4>1. whole \in BOOLEAN
        OBVIOUS
      <4> HIDE DEF whole
      <4>2. rounded(whole, k * res, res) = k * res
        BY <1>2, <4>1, RoundedKeepsMultiples
      <4> QED
        BY <4>2 DEF whole
    <3>5. y = w
      BY <3>1, <3>3, <3>4
    <3> QED
      BY <1>3, <3>5 DEF TimeOf
  <2>2. CASE res <= unit
    <3>1. unit > 0
      BY <1>1, <1>2, <2>2
    <3>2. PICK j \in Nat : w = j * unit
      <4>1. unit \in Nat /\ unit > 0 /\ q \in Nat
        BY <1>1, <1>2, <3>1
      <4> HIDE DEF q
      <4> QED
        BY <4>1, WholePartBelow
    <3>3. place(f) = unit
      BY <1>1, <1>2, <1>3, <2>2 DEF place
    <3>4. (unit > 0) = TRUE /\ unit \in Nat \ {0}
      BY <1>1, <3>1
    <3>5. rounded(TRUE, w, unit) = w
      <4>1. \E i \in Int : w = i * unit
        BY <3>2
      <4> HIDE DEF w
      <4> QED
        BY <3>4, <4>1, MultipleStays
    <3>6. y = w
      BY <3>3, <3>4, <3>5
    <3> QED
      BY <1>3, <3>6 DEF TimeOf
  <2> QED
    BY <1>1, <1>2, <2>1, <2>2
<1>4. CASE ~f.precise
  <2>1. place(f) = second
    BY <1>4 DEF place
  <2>2. y % second = 0 /\ 2 * distance(y, q) <= second
    <3>1. CASE unit = 0
      <4>1. w = q
        BY <3>1 DEF whole_part
      <4>2. y = rounded(FALSE, q, second)
        <5>1. (unit > 0) = FALSE
          BY <3>1
        <5> QED
          BY <2>1, <4>1, <5>1
      <4>a. y = ((2 * q + second) \div (2 * second)) * second
        BY <4>2 DEF rounded
      <4> HIDE DEF y, q
      <4>b. q \in Int /\ second \in Nat \ {0}
        BY <1>1, <1>2
      <4>c. y = quantize(0, q, second)
        BY <4>a, <4>b, RoundsToNearest
      <4>d. y \in Int
        BY <4>b, <4>c, RoundsToNearest
      <4>e. \E m \in Int : y = m * second
        BY <4>b, <4>c, RoundsToNearest
      <4>f. 2 * (y - q) <= second /\ 2 * (q - y) <= second
        BY <4>b, <4>c, RoundsToNearest
      <4>3. /\ y \in Int /\ (\E m \in Int : y = m * second)
            /\ 2 * (y - q) <= second /\ 2 * (q - y) <= second
        BY <4>d, <4>e, <4>f
      <4>4. y % second = 0
        BY <1>1, <4>3, MultipleDiv
      <4> QED
        BY <1>2, <4>3, <4>4 DEF distance
    <3>2. CASE unit > 0
      <4>1. y = rounded(TRUE, w, second)
        <5>1. (unit > 0) = TRUE
          BY <3>2
        <5> QED
          BY <2>1, <5>1
      <4>2. unit \in Nat \ {0} /\ second \in Nat \ {0} /\ second % (2 * unit) = 0
        BY <1>1, <3>2
      <4> HIDE DEF y, q
      <4> QED
        BY <1>2, <4>1, <4>2, SecondOfUnits
    <3> QED
      BY <1>1, <3>1, <3>2
  <2> QED
    BY <1>4, <2>2 DEF TimeOf
<1> QED
  BY <1>1, <1>3, <1>4

\* A time less than half a span from the clock is read as it was rounded, at its
\* place.
LEMMA TimeIsRead ==
  ASSUME NEW f, validate(f), f.codec = "time", NEW v, v # Null, encodable(f, v),
         NEW rest \in Seq(Bit), NEW clock \in Int
  PROVE  LET q == quantize(0, v, f.res)
         IN \/ 2 * distance(q, clock - (clock % f.second)) >= f.max
            \/ TimeOf(f, q, decode(f, encode(f, v) \o rest, clock).value)
<1> DEFINE q == quantize(0, v, f.res)
           e == quantize(0, v % f.max, f.res)
           seconds == clock - (clock % f.second)
           required == f.presence \/ use_required(f)
<1>1. v \in Nat /\ required \in BOOLEAN
  BY DEF encodable, validate
<1>2. f.max \in Nat \ {0} /\ f.second \in Nat \ {0}
  BY DEF validate
<1>3. decode(f, encode(f, v) \o rest, clock).value = FixedReads(f, required, v, clock)
  BY PresentContract DEF BoundedCodecs
<1>4. /\ e \in 0..f.max
      /\ FixedReads(f, required, v, clock)
           = rounded(f.unit > 0, whole_part(f.unit, day(f, e, clock) + e), place(f))
  BY <1>1, TimeReads
<1>a. f.res \in Nat \ {0}
  <2> DEFINE n == number(f, TRUE)
  <2>1. Bounded(n) /\ valid(n)
    BY NumberIsValid DEF BoundedCodecs
  <2>2. bounds(f).res = f.res
    BY DEF bounds
  <2>3. n.res = f.res
    BY <2>2, NumberIs
  <2> HIDE DEF n
  <2> QED
    BY <2>1, <2>3, BoundsAreMultiples
<1>b. \E k \in Nat : q = k * f.res
  <2>1. q \in Int /\ (\E k \in Int : q = k * f.res) /\ 2 * (v - q) <= f.res
    <3>1. v \in Int
      BY <1>1
    <3>2. q \in Int
      BY <1>a, <3>1, RoundsToNearest
    <3>3. \E k \in Int : q = k * f.res
      BY <1>a, <3>1, RoundsToNearest
    <3>4. 2 * (v - q) <= f.res
      BY <1>a, <3>1, RoundsToNearest
    <3> QED
      BY <3>2, <3>3, <3>4
  <2>2. PICK k \in Int : q = k * f.res
    BY <2>1
  <2>3. k \in Nat
    <3> SUFFICES ASSUME k <= -1 PROVE FALSE
      OBVIOUS
    <3>1. k * f.res <= (-1) * f.res
      BY <1>a, <2>2, MultipleOrder
    <3>2. (-1) * f.res = -f.res
      BY <1>a
    <3> HIDE DEF q
    <3>3. q <= -f.res
      BY <2>2, <3>1, <3>2
    <3> QED
      BY <1>1, <1>a, <2>1, <3>3
  <2> QED
    BY <2>2, <2>3
<1>5. \E m \in Int : q = m * f.max + e
  <2> DEFINE n == number(f, TRUE)
  <2>1. Bounded(n) /\ valid(n)
    BY NumberIsValid DEF BoundedCodecs
  <2>0. bounds(f).min = 0 /\ bounds(f).max = f.max /\ bounds(f).res = f.res
    BY DEF bounds
  <2>2. n.min = 0 /\ n.max = f.max /\ n.res = f.res
    BY <2>0, NumberIs
  <2> HIDE DEF n
  <2>3. f.res \in Nat \ {0} /\ \E a \in Int, b \in Int : n.min = a * f.res /\ n.max = b * f.res /\ a <= b
    BY <2>1, <2>2, BoundsAreMultiples
  <2>4. PICK b \in Int : f.max = b * f.res
    BY <2>2, <2>3
  <2>a. PICK M \in Nat \ {0} : M = f.max
    BY <1>2
  <2>b. PICK r \in Nat \ {0} : r = f.res
    BY <2>3
  <2>5. v \in Int
    BY <1>1
  <2>c. v \div M \in Int
    BY <2>5, TimesAndRest
  <2>d. M = b * r
    BY <2>4, <2>a, <2>b
  <2>6. quantize(0, v, r) = (v \div M) * M + quantize(0, v % M, r)
    BY <2>5, <2>d, RoundsWithinSpan
  <2>e. q = (v \div M) * M + e
    BY <2>6, <2>a, <2>b
  <2> HIDE DEF q, e
  <2> QED
    BY <2>c, <2>e, <2>a
<1>6. q \in Int /\ seconds \in Int
  <2>1. clock % f.second \in Int
    BY <1>2, RemainderIsInt
  <2>2. PICK m \in Int : q = m * f.max + e
    BY <1>5
  <2> HIDE DEF q, e
  <2>3. m * f.max \in Int
    BY <1>2
  <2> QED
    BY <1>2, <1>4, <2>1, <2>2, <2>3
<1> HIDE DEF q, e
<1>7. ASSUME ~(2 * distance(q, seconds) >= f.max) PROVE day(f, e, clock) + e = q
  <2>1. 2 * (q - seconds) < f.max /\ 2 * (seconds - q) < f.max
    <3> HIDE DEF seconds
    <3> QED
      BY <1>2, <1>6, <1>7 DEF distance
  <2>2. f.max \in Nat \ {0} /\ f.second \in Nat \ {0} /\ q \in Int /\ e \in 0..f.max
    BY <1>2, <1>4, <1>6
  <2> QED
    BY <1>5, <2>1, <2>2, TimeReadsNearest
<1>8. TimeOf(f, q, rounded(f.unit > 0, whole_part(f.unit, q), place(f)))
  BY <1>a, <1>b, RoundedInTheEnd
<1> HIDE DEF seconds, required
<1> QED
  BY <1>3, <1>4, <1>7, <1>8 DEF q, seconds

-----------------------------------------------------------------------------
(* Two fields on the wire *)

\* r is what the clock lets a time v read as.
Near(f, v, r, clock) ==
  f.codec = "time" /\ v # Null =>
    LET q == quantize(0, v, f.res)
    IN \/ 2 * distance(q, clock - (clock % f.second)) >= f.max
       \/ TimeOf(f, q, r)

\* One field v is written, both are, one is read, both are.
OneWritten(f, v) == values = <<v>> /\ read = << >> /\ wire = encode(f, v)

BothWritten(f, g, v, u) ==
  values = <<v, u>> /\ read = << >> /\ wire = encode(f, v) \o encode(g, u)

OneRead(f, g, v, u) ==
  /\ values = <<v, u>> /\ wire = encode(g, u)
  /\ Len(read) = 1 /\ read = <<read[1]>>
  /\ ReadFor(f, v, read[1]) /\ Near(f, v, read[1], now)

BothRead(f, g, v, u) ==
  /\ values = <<v, u>> /\ wire = << >>
  /\ Len(read) = 2 /\ read = <<read[1], read[2]>>
  /\ ReadFor(f, v, read[1]) /\ ReadFor(g, u, read[2]) /\ Near(g, u, read[2], now)

TwoFieldsInv ==
  \E f, g \in Fields :
    /\ fields = <<f, g>>
    /\ \/ values = << >> /\ read = << >> /\ wire = << >>
       \/ \E v \in ValuesOf(f) : OneWritten(f, v)
       \/ \E v \in ValuesOf(f), u \in ValuesOf(g) :
            BothWritten(f, g, v, u) \/ OneRead(f, g, v, u) \/ BothRead(f, g, v, u)

\* A codec given the wire in front of which its value is leaves what is behind.
LEMMA ReadsFront ==
  ASSUME NEW f \in Fields, NEW v \in ValuesOf(f), NEW rest \in Seq(Bit), NEW clock,
         f.codec = "time" => clock \in Int
  PROVE  LET w == encode(f, v) \o rest
             d == decode(f, w, clock)
         IN /\ SubSeq(w, Max({d.used, min_size(f)}) + 1, Len(w)) = rest
            /\ ReadFor(f, v, d.value) /\ Near(f, v, d.value, clock)
<1> DEFINE e == encode(f, v)
           w == e \o rest
           d == decode(f, w, clock)
<1>1. validate(f) /\ encodable(f, v)
  BY FieldsAssumption
<1>2. Contract(f, v, rest, clock)
  BY <1>1, ContractHolds
<1>3. /\ e \in Seq(Bit) /\ min_size(f) \in Nat /\ min_size(f) <= Len(e)
      /\ d.used = Len(e) /\ ReadFor(f, v, d.value)
  BY <1>2 DEF Contract
<1>4. Near(f, v, d.value, clock)
  <2>1. CASE f.codec = "time" /\ v # Null
    <3>1. clock \in Int
      BY <2>1
    <3> QED
      BY <1>1, <2>1, <3>1, TimeIsRead DEF Near
  <2>2. CASE ~(f.codec = "time" /\ v # Null)
    BY <2>2 DEF Near
  <2> QED
    BY <2>1, <2>2
<1> HIDE DEF e, d
<1>5. Len(e) \in Nat
  BY <1>3
<1>6. Max({d.used, min_size(f)}) = Len(e)
  <2>1. ASSUME NEW a \in Int, NEW b \in Int, b <= a PROVE Max({a, b}) = a
    <3> DEFINE x == Max({a, b})
    <3>1. x \in {a, b} /\ a <= x
      BY LargerOfTwo
    <3> HIDE DEF x
    <3>2. x = a
      BY <2>1, <3>1
    <3> QED
      BY <3>2 DEF x
  <2>2. PICK n \in Int, k \in Int : n = Len(e) /\ k = min_size(f) /\ k <= n
    BY <1>3, <1>5
  <2>3. Max({n, k}) = n
    BY <2>1, <2>2
  <2>4. d.used = n
    BY <1>3, <2>2
  <2>5. {d.used, min_size(f)} = {n, k}
    BY <2>2, <2>4
  <2> QED
    BY <2>2, <2>3, <2>5
<1>7. SubSeq(w, Len(e) + 1, Len(w)) = rest
  BY <1>3, TakeFront
<1> QED
  BY <1>3, <1>4, <1>6, <1>7 DEF e, d

\* Bits that are written.
LEMMA WrittenBits ==
  ASSUME NEW f \in Fields, NEW v \in ValuesOf(f)
  PROVE  /\ encode(f, v) \in Seq(Bit) /\ Len(encode(f, v)) = size(f, v)
         /\ min_size(f) <= Len(encode(f, v)) /\ Len(encode(f, v)) <= max_size(f)
<1>1. validate(f) /\ encodable(f, v)
  BY FieldsAssumption
<1>2. << >> \in Seq(Bit) /\ 0 \in Int
  OBVIOUS
<1>3. Contract(f, v, << >>, 0)
  BY <1>1, <1>2, ContractHolds
<1> QED
  BY <1>3 DEF Contract

\* Sequences of none, one and two.
LEMMA FewOnes ==
  /\ Len(<< >>) = 0
  /\ \A a : Len(<<a>>) = 1 /\ <<a>>[1] = a /\ Append(<< >>, a) = <<a>>
  /\ \A a, b : /\ Len(<<a, b>>) = 2 /\ <<a, b>>[1] = a /\ <<a, b>>[2] = b
               /\ Append(<<a>>, b) = <<a, b>>
<1>1. Len(<< >>) = 0
  OBVIOUS
<1>2. ASSUME NEW a
      PROVE  Len(<<a>>) = 1 /\ <<a>>[1] = a /\ Append(<< >>, a) = <<a>>
  OBVIOUS
<1>3. ASSUME NEW a, NEW b
      PROVE  /\ Len(<<a, b>>) = 2 /\ <<a, b>>[1] = a /\ <<a, b>>[2] = b
             /\ Append(<<a>>, b) = <<a, b>>
  <2>1. Len(<<a, b>>) = 2 /\ <<a, b>>[1] = a /\ <<a, b>>[2] = b
    OBVIOUS
  <2>2. Append(<<a>>, b) = <<a, b>>
    <3>1. <<a>> \in Seq({a, b}) /\ b \in {a, b}
      OBVIOUS
    <3>2. Len(Append(<<a>>, b)) = 2
      BY <3>1
    <3>3. Append(<<a>>, b)[1] = a /\ Append(<<a>>, b)[2] = b
      BY <3>1
    <3>4. Append(<<a>>, b) \in Seq({a, b}) /\ <<a, b>> \in Seq({a, b})
      BY <3>1
    <3>5. \A i \in 1..2 : Append(<<a>>, b)[i] = <<a, b>>[i]
      BY <2>1, <3>3
    <3> DEFINE x == Append(<<a>>, b)
               y == <<a, b>>
    <3>6. x \in Seq({a, b}) /\ y \in Seq({a, b}) /\ Len(x) = 2 /\ Len(y) = 2
          /\ \A i \in 1..2 : x[i] = y[i]
      BY <2>1, <3>2, <3>4, <3>5
    <3> HIDE DEF x, y
    <3>7. x = y
      BY <3>6, SameSequence
    <3> QED
      BY <3>7 DEF x, y
  <2> QED
    BY <2>1, <2>2
<1> QED
  BY <1>1, <1>2, <1>3

\* A sequence of two, value by value.
LEMMA TwoParts ==
  ASSUME NEW a, NEW b
  PROVE  [i \in 1..2 |-> IF i = 1 THEN a ELSE b] = <<a, b>>
<1> DEFINE x == [i \in 1..2 |-> IF i = 1 THEN a ELSE b]
           y == <<a, b>>
<1>1. x[1] = a /\ x[2] = b
  OBVIOUS
<1>2. y[1] = a /\ y[2] = b /\ Len(y) = 2
  OBVIOUS
<1>3. x \in Seq({a, b}) /\ y \in Seq({a, b}) /\ Len(x) = 2
  OBVIOUS
<1>4. \A i \in 1..2 : x[i] = y[i]
  BY <1>1, <1>2
<1> HIDE DEF x, y
<1>5. x = y
  BY <1>2, <1>3, <1>4, SameSequence
<1> QED
  BY <1>5 DEF x, y

\* The invariant holds in the beginning.
LEMMA TwoFieldsInit == Init => TwoFieldsInv
<1> SUFFICES ASSUME Init PROVE TwoFieldsInv
  OBVIOUS
<1>1. PICK f \in Fields, g \in Fields : fields = <<f, g>>
  BY DEF Init
<1> QED
  BY <1>1 DEF Init, TwoFieldsInv

\* Writing a field keeps it.
LEMMA TwoFieldsEncode == TwoFieldsInv /\ EncodeField => TwoFieldsInv'
<1> SUFFICES ASSUME TwoFieldsInv, EncodeField PROVE TwoFieldsInv'
  OBVIOUS
<1>1. PICK f \in Fields, g \in Fields :
        /\ fields = <<f, g>>
        /\ \/ values = << >> /\ read = << >> /\ wire = << >>
           \/ \E v \in ValuesOf(f) : OneWritten(f, v)
           \/ \E v \in ValuesOf(f), u \in ValuesOf(g) :
                BothWritten(f, g, v, u) \/ OneRead(f, g, v, u) \/ BothRead(f, g, v, u)
  BY DEF TwoFieldsInv
<1>2. fields' = fields /\ read' = read /\ Len(values) < 2
  BY <1>1, FewOnes DEF EncodeField
<1>3. CASE values = << >> /\ read = << >> /\ wire = << >>
  <2>1. fields[Len(values) + 1] = f
    BY <1>1, <1>3, FewOnes
  <2>2. PICK v \in ValuesOf(f) : values' = Append(values, v) /\ wire' = wire \o encode(f, v)
    BY <2>1 DEF EncodeField
  <2>3. values' = <<v>> /\ read' = << >>
    BY <1>2, <1>3, <2>2, FewOnes
  <2>4. wire' = encode(f, v)
    <3>1. ASSUME NEW a \in Seq(Bit) PROVE << >> \o a = a
      OBVIOUS
    <3> QED
      BY <1>3, <2>2, <3>1, WrittenBits
  <2>5. OneWritten(f, v)'
    BY <2>3, <2>4 DEF OneWritten
  <2> QED
    BY <1>1, <1>2, <2>5 DEF TwoFieldsInv
<1>4. ASSUME NEW v \in ValuesOf(f), OneWritten(f, v) PROVE TwoFieldsInv'
  <2>1. fields[Len(values) + 1] = g
    BY <1>1, <1>4, FewOnes DEF OneWritten
  <2>2. PICK u \in ValuesOf(g) : values' = Append(values, u) /\ wire' = wire \o encode(g, u)
    BY <2>1 DEF EncodeField
  <2>3. values' = <<v, u>> /\ read' = << >> /\ wire' = encode(f, v) \o encode(g, u)
    BY <1>2, <1>4, <2>2, FewOnes DEF OneWritten
  <2>4. BothWritten(f, g, v, u)'
    BY <2>3 DEF BothWritten
  <2> QED
    BY <1>1, <1>2, <2>4 DEF TwoFieldsInv
<1>5. ASSUME NEW v \in ValuesOf(f), NEW u \in ValuesOf(g),
             BothWritten(f, g, v, u) \/ OneRead(f, g, v, u) \/ BothRead(f, g, v, u)
      PROVE  FALSE
  <2>1. values = <<v, u>>
    BY <1>5 DEF BothWritten, OneRead, BothRead
  <2> QED
    BY <1>2, <2>1, FewOnes
<1> QED
  BY <1>1, <1>3, <1>4, <1>5

\* Reading a field keeps it.
LEMMA TwoFieldsDecode == TwoFieldsInv /\ DecodeField => TwoFieldsInv'
<1> SUFFICES ASSUME TwoFieldsInv, DecodeField PROVE TwoFieldsInv'
  OBVIOUS
<1>1. PICK f \in Fields, g \in Fields :
        /\ fields = <<f, g>>
        /\ \/ values = << >> /\ read = << >> /\ wire = << >>
           \/ \E v \in ValuesOf(f) : OneWritten(f, v)
           \/ \E v \in ValuesOf(f), u \in ValuesOf(g) :
                BothWritten(f, g, v, u) \/ OneRead(f, g, v, u) \/ BothRead(f, g, v, u)
  BY DEF TwoFieldsInv
<1>2. fields' = fields /\ values' = values /\ Len(values) = 2 /\ Len(read) < 2
  BY <1>1, FewOnes DEF DecodeField
<1>3. ~(values = << >>) /\ \A v : values # <<v>>
  BY <1>2, FewOnes
<1>4. PICK v \in ValuesOf(f), u \in ValuesOf(g) :
        BothWritten(f, g, v, u) \/ OneRead(f, g, v, u) \/ BothRead(f, g, v, u)
  BY <1>1, <1>3 DEF OneWritten
<1>5. PICK clock : clock = now'
  OBVIOUS
<1>6. << >> \in Seq(Bit) /\ encode(f, v) \in Seq(Bit) /\ encode(g, u) \in Seq(Bit)
  BY WrittenBits
<1>7. CASE BothWritten(f, g, v, u)
  <2> DEFINE w == encode(f, v) \o encode(g, u)
             d == decode(f, w, clock)
  <2>1. values = <<v, u>> /\ read = << >> /\ wire = w
    BY <1>7 DEF BothWritten
  <2>2. fields[Len(read) + 1] = f
    BY <1>1, <2>1, FewOnes
  <2>3. f.codec = "time" => clock \in Int
    BY <1>5, <2>2, FieldsAssumption DEF DecodeField
  <2>4. read' = Append(read, d.value)
        /\ wire' = SubSeq(wire, Max({d.used, min_size(f)}) + 1, Len(wire))
    BY <1>5, <2>1, <2>2 DEF DecodeField
  <2>5. /\ SubSeq(w, Max({d.used, min_size(f)}) + 1, Len(w)) = encode(g, u)
        /\ ReadFor(f, v, d.value) /\ Near(f, v, d.value, clock)
    BY <1>6, <2>3, ReadsFront
  <2> HIDE DEF w, d
  <2>6. read' = <<d.value>> /\ wire' = encode(g, u) /\ values' = <<v, u>>
    BY <1>2, <2>1, <2>4, <2>5, FewOnes
  <2>7. Len(read') = 1 /\ read'[1] = d.value
    BY <2>6, FewOnes
  <2>8. OneRead(f, g, v, u)'
    BY <1>5, <2>5, <2>6, <2>7 DEF OneRead
  <2> QED
    BY <1>1, <1>2, <2>8 DEF TwoFieldsInv
<1>8. CASE OneRead(f, g, v, u)
  <2> DEFINE w == encode(g, u) \o << >>
             d == decode(g, w, clock)
  <2>1. values = <<v, u>> /\ wire = encode(g, u) /\ wire = w
    BY <1>6, <1>8, NothingBehind DEF OneRead
  <2>a. PICK r : read = <<r>> /\ ReadFor(f, v, r)
    BY <1>8 DEF OneRead
  <2>2. fields[Len(read) + 1] = g
    BY <1>1, <2>a, FewOnes
  <2>3. g.codec = "time" => clock \in Int
    BY <1>5, <2>2, FieldsAssumption DEF DecodeField
  <2>4. read' = Append(read, d.value)
        /\ wire' = SubSeq(wire, Max({d.used, min_size(g)}) + 1, Len(wire))
    BY <1>5, <2>1, <2>2 DEF DecodeField
  <2>5. /\ SubSeq(w, Max({d.used, min_size(g)}) + 1, Len(w)) = << >>
        /\ ReadFor(g, u, d.value) /\ Near(g, u, d.value, clock)
    BY <1>6, <2>3, ReadsFront
  <2> HIDE DEF w, d
  <2>6. read' = <<r, d.value>> /\ wire' = << >> /\ values' = <<v, u>>
    BY <1>2, <2>1, <2>a, <2>4, <2>5, FewOnes
  <2>7. Len(read') = 2 /\ read'[1] = r /\ read'[2] = d.value
    BY <2>6, FewOnes
  <2>8. BothRead(f, g, v, u)'
    BY <1>5, <2>a, <2>5, <2>6, <2>7 DEF BothRead
  <2> QED
    BY <1>1, <1>2, <2>8 DEF TwoFieldsInv
<1>9. CASE BothRead(f, g, v, u)
  <2>1. PICK r, p : read = <<r, p>>
    BY <1>9 DEF BothRead
  <2> QED
    BY <1>2, <2>1, FewOnes
<1> QED
  BY <1>4, <1>7, <1>8, <1>9

\* In every state the wire is what is written and not read, and what is read
\* is what was written.
THEOREM TwoFieldsInvariant == Spec => []TwoFieldsInv
<1>1. Init => TwoFieldsInv
  BY TwoFieldsInit
<1>2. TwoFieldsInv /\ [Next]_vars => TwoFieldsInv'
  <2> SUFFICES ASSUME TwoFieldsInv, [Next]_vars PROVE TwoFieldsInv'
    OBVIOUS
  <2>1. CASE EncodeField
    BY <2>1, TwoFieldsEncode
  <2>2. CASE DecodeField
    BY <2>2, TwoFieldsDecode
  <2>3. CASE UNCHANGED vars
    BY <2>3 DEF TwoFieldsInv, OneWritten, BothWritten, OneRead, BothRead, vars
  <2> QED
    BY <2>1, <2>2, <2>3 DEF Next
<1> QED
  BY <1>1, <1>2, PTL DEF Spec

\* When a codec is done the next field is in front: it took as many bits as
\* the encoder wrote, of the min_size() it was given and of those it asked
\* for, for all fields, values and clocks.
THEOREM NextFieldAlwaysInFront == Spec => []NextFieldInFront
<1>1. TwoFieldsInv => NextFieldInFront
  <2> SUFFICES ASSUME TwoFieldsInv, Len(values) = Len(fields)
               PROVE  wire = FlattenSeq([i \in 1..(Len(fields) - Len(read)) |->
                               encode(fields[Len(read) + i], values[Len(read) + i])])
    BY DEF NextFieldInFront
  <2>1. PICK f \in Fields, g \in Fields :
          /\ fields = <<f, g>>
          /\ \/ values = << >> /\ read = << >> /\ wire = << >>
             \/ \E v \in ValuesOf(f) : OneWritten(f, v)
             \/ \E v \in ValuesOf(f), u \in ValuesOf(g) :
                  BothWritten(f, g, v, u) \/ OneRead(f, g, v, u) \/ BothRead(f, g, v, u)
    BY DEF TwoFieldsInv
  <2>2. Len(fields) = 2 /\ Len(values) = 2 /\ fields[1] = f /\ fields[2] = g
    BY <2>1, FewOnes
  <2>3. ~(values = << >>) /\ \A v : values # <<v>>
    BY <2>2, FewOnes
  <2>4. PICK v \in ValuesOf(f), u \in ValuesOf(g) :
          BothWritten(f, g, v, u) \/ OneRead(f, g, v, u) \/ BothRead(f, g, v, u)
    BY <2>1, <2>3 DEF OneWritten
  <2>5. values[1] = v /\ values[2] = u
    BY <2>4, FewOnes DEF BothWritten, OneRead, BothRead
  <2> DEFINE part(i) == encode(fields[Len(read) + i], values[Len(read) + i])
             left == [i \in 1..(Len(fields) - Len(read)) |-> part(i)]
  <2>6. CASE BothWritten(f, g, v, u)
    <3>1. read = << >> /\ Len(read) = 0 /\ wire = encode(f, v) \o encode(g, u)
      BY <2>6, FewOnes DEF BothWritten
    <3>2. part(1) = encode(f, v) /\ part(2) = encode(g, u)
      BY <2>2, <2>5, <3>1
    <3> HIDE DEF part
    <3>3. left = [i \in 1..2 |-> part(i)]
      BY <2>2, <3>1
    <3>4. left = <<encode(f, v), encode(g, u)>>
      <4>1. \A i \in 1..2 : part(i) = IF i = 1 THEN encode(f, v) ELSE encode(g, u)
        BY <3>2
      <4>2. left = [i \in 1..2 |-> IF i = 1 THEN encode(f, v) ELSE encode(g, u)]
        BY <3>3, <4>1
      <4> QED
        BY <4>2, TwoParts
    <3> HIDE DEF left
    <3>5. FlattenSeq(left) = wire
      BY <3>1, <3>4, FlattenFew
    <3> QED
      BY <3>5 DEF left, part
  <2>7. CASE OneRead(f, g, v, u)
    <3>1. Len(read) = 1 /\ wire = encode(g, u)
      BY <2>7, FewOnes DEF OneRead
    <3>2. part(1) = encode(g, u)
      BY <2>2, <2>5, <3>1
    <3> HIDE DEF part
    <3>3. left = [i \in 1..1 |-> part(i)]
      BY <2>2, <3>1
    <3>4. left = <<encode(g, u)>>
      BY <3>2, <3>3
    <3> HIDE DEF left
    <3>5. FlattenSeq(left) = wire
      BY <3>1, <3>4, FlattenFew
    <3> QED
      BY <3>5 DEF left, part
  <2>8. CASE BothRead(f, g, v, u)
    <3>1. Len(read) = 2 /\ wire = << >>
      BY <2>8, FewOnes DEF BothRead
    <3> HIDE DEF part
    <3>3. left = [i \in 1..0 |-> part(i)]
      BY <2>2, <3>1
    <3>4. left = << >>
      BY <3>3
    <3> HIDE DEF left
    <3>5. FlattenSeq(left) = wire
      BY <3>1, <3>4, FlattenFew
    <3> QED
      BY <3>5 DEF left, part
  <2> QED
    BY <2>4, <2>6, <2>7, <2>8
<1> QED
  BY <1>1, TwoFieldsInvariant, PTL

\* A field reads as it was written, but for what its codec gives up, for each
\* codec, label and version, and an absent one as absent.
THEOREM AlwaysReadsWhatWasWritten == Spec => []ReadsWhatWasWritten
<1>1. TwoFieldsInv => ReadsWhatWasWritten
  <2> SUFFICES ASSUME TwoFieldsInv, NEW i \in DOMAIN read
               PROVE  ReadFor(fields[i], values[i], read[i])
    BY DEF ReadsWhatWasWritten
  <2>1. PICK f \in Fields, g \in Fields :
          /\ fields = <<f, g>>
          /\ \/ read = << >>
             \/ \E v \in ValuesOf(f), u \in ValuesOf(g) :
                  OneRead(f, g, v, u) \/ BothRead(f, g, v, u)
    BY DEF TwoFieldsInv, OneWritten, BothWritten
  <2>2. fields[1] = f /\ fields[2] = g /\ read # << >>
    BY <2>1, FewOnes
  <2>3. PICK v \in ValuesOf(f), u \in ValuesOf(g) : OneRead(f, g, v, u) \/ BothRead(f, g, v, u)
    BY <2>1, <2>2
  <2>4. values[1] = v /\ values[2] = u
    BY <2>3, FewOnes DEF OneRead, BothRead
  <2>5. CASE OneRead(f, g, v, u)
    <3>1. PICK r : read = <<r>> /\ ReadFor(f, v, r)
      BY <2>5 DEF OneRead
    <3>2. read[1] = r /\ i = 1
      BY <3>1
    <3> QED
      BY <2>2, <2>4, <3>1, <3>2
  <2>6. CASE BothRead(f, g, v, u)
    <3>1. PICK r, p : read = <<r, p>> /\ ReadFor(f, v, r) /\ ReadFor(g, u, p)
      BY <2>6 DEF BothRead
    <3>2. read[1] = r /\ read[2] = p /\ i \in {1, 2}
      BY <3>1
    <3> QED
      BY <2>2, <2>4, <3>1, <3>2
  <2> QED
    BY <2>3, <2>5, <2>6
<1> QED
  BY <1>1, TwoFieldsInvariant, PTL

\* A value takes the bits size() said, at least min_size() and at most
\* max_size() of them.
THEOREM SizeAlwaysWithinBounds == Spec => []SizeWithinBounds
<1>1. TwoFieldsInv => SizeWithinBounds
  <2> SUFFICES ASSUME TwoFieldsInv, NEW i \in DOMAIN values
               PROVE  LET f == fields[i]
                          length == Len(encode(f, values[i]))
                      IN length = size(f, values[i]) /\ min_size(f) <= length /\ length <= max_size(f)
    BY DEF SizeWithinBounds
  <2>1. PICK f \in Fields, g \in Fields :
          /\ fields = <<f, g>>
          /\ \/ values = << >>
             \/ \E v \in ValuesOf(f) : values = <<v>>
             \/ \E v \in ValuesOf(f), u \in ValuesOf(g) : values = <<v, u>>
    BY DEF TwoFieldsInv, OneWritten, BothWritten, OneRead, BothRead
  <2>2. fields[1] = f /\ fields[2] = g
    BY <2>1, FewOnes
  <2>3. \/ i = 1 /\ values[1] \in ValuesOf(f)
        \/ i = 2 /\ values[2] \in ValuesOf(g)
    <3>1. CASE \E v \in ValuesOf(f) : values = <<v>>
      BY <3>1
    <3>2. CASE \E v \in ValuesOf(f), u \in ValuesOf(g) : values = <<v, u>>
      <4>1. PICK v \in ValuesOf(f), u \in ValuesOf(g) : values = <<v, u>>
        BY <3>2
      <4>2. i \in {1, 2} /\ values[1] = v /\ values[2] = u
        BY <4>1
      <4> QED
        BY <4>2
    <3>3. values # << >>
      OBVIOUS
    <3> QED
      BY <2>1, <3>1, <3>2, <3>3
  <2> QED
    BY <2>2, <2>3, WrittenBits
<1> QED
  BY <1>1, TwoFieldsInvariant, PTL

\* A time less than half a span from the receiver's clock reads as that time, at
\* its resolution if it is a precision and as the nearest second if not, for all
\* spans, resolutions, clocks, types and times since 1970.
THEOREM TimeAlwaysNearest == Spec => []TimeNearest
<1>1. TwoFieldsInv => TimeNearest
  <2> SUFFICES ASSUME TwoFieldsInv, Len(read) > 0, fields[Len(read)].codec = "time",
                      values[Len(read)] # Null
               PROVE  LET f == fields[Len(read)]
                          q == quantize(0, values[Len(read)], f.res)
                      IN \/ 2 * distance(q, now - (now % f.second)) >= f.max
                         \/ TimeOf(f, q, read[Len(read)])
    BY DEF TimeNearest, TimeOf
  <2>1. PICK f \in Fields, g \in Fields :
          /\ fields = <<f, g>>
          /\ \/ read = << >>
             \/ \E v \in ValuesOf(f), u \in ValuesOf(g) :
                  OneRead(f, g, v, u) \/ BothRead(f, g, v, u)
    BY DEF TwoFieldsInv, OneWritten, BothWritten
  <2>2. fields[1] = f /\ fields[2] = g /\ read # << >>
    BY <2>1, FewOnes
  <2>3. PICK v \in ValuesOf(f), u \in ValuesOf(g) : OneRead(f, g, v, u) \/ BothRead(f, g, v, u)
    BY <2>1, <2>2
  <2>4. values[1] = v /\ values[2] = u
    BY <2>3, FewOnes DEF OneRead, BothRead
  <2>5. CASE OneRead(f, g, v, u)
    <3>1. PICK r : read = <<r>> /\ Near(f, v, r, now)
      BY <2>5 DEF OneRead
    <3>2. read[1] = r /\ Len(read) = 1
      BY <3>1, FewOnes
    <3> QED
      BY <2>2, <2>4, <3>1, <3>2 DEF Near
  <2>6. CASE BothRead(f, g, v, u)
    <3>1. PICK r, p : read = <<r, p>> /\ Near(g, u, p, now)
      BY <2>6 DEF BothRead
    <3>2. read[2] = p /\ Len(read) = 2
      BY <3>1, FewOnes
    <3> QED
      BY <2>2, <2>4, <3>1, <3>2 DEF Near
  <2> QED
    BY <2>3, <2>5, <2>6
<1> QED
  BY <1>1, TwoFieldsInvariant, PTL
=============================================================================
