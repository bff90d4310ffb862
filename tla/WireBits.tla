------------------------------- MODULE WireBits -------------------------------
(* Bits on the wire, the least significant first, as in a Bitset. *)
EXTENDS Naturals, Sequences, FiniteSets, SequencesExt

\* A power of two.
pow2(n) ==
  LET p[i \in 0..n] == IF i = 0 THEN 1 ELSE 2 * p[i - 1]
  IN p[n]

ceil_log2(n) == Cardinality({b \in 0..n : pow2(b) < n})

\* Bitset(size, value) and to_ulong().
bits(n, size) == [b \in 1..size |-> (n \div pow2(b - 1)) % 2]

ulong(bs) ==
  LET first[i \in 0..Len(bs)] == IF i = 0 THEN 0 ELSE first[i - 1] + bs[i] * pow2(i - 1)
  IN first[Len(bs)]

\* The next n bits of a wire, behind those a codec has: what is not there is
\* an exception, here bits that count as taken.
more(w, from, n) ==
  [b \in 1..n |-> IF from + b <= Len(w) THEN w[from + b] ELSE 0]

decoded(value, used) == [value |-> value, used |-> used]
=============================================================================
