------------------------------- MODULE Bitset -------------------------------
(***************************************************************************)
(* The hierarchy of bit pools of bitset.h: a Bitset made with a parent     *)
(* takes the bits it lacks from it, and the parent from its own.  A        *)
(* decoding holds one chain of them at a time, so the hierarchy is a       *)
(* sequence: p[1] holds the body of the message, p[k] is the parent of     *)
(* p[k + 1], and the last is the one a field codec works on.  Bits go from *)
(* the front of the parent to the back of the child.                       *)
(***************************************************************************)
EXTENDS Integers, Sequences, SequencesExt

\* MUTANT: the bits of the parent are put in front.
give_up_ParentFirst(up, k, n) ==
  LET mine == up.out \o up.p[k] IN
    IF ~up.ok THEN up
    ELSE [p   |-> [up.p EXCEPT ![k] = SubSeq(mine, n + 1, Len(mine))],
          out |-> SubSeq(mine, 1, IF n < Len(mine) THEN n ELSE Len(mine)),
          ok  |-> n <= Len(mine)]

\* Pool k, with what its parent gave it behind its own bits, gives up the first
\* n: what is missing is an exception, thrown after the pool was emptied.
give_up(up, k, n) ==
  LET mine == up.p[k] \o up.out IN
    IF ~up.ok THEN up
    ELSE [p   |-> [up.p EXCEPT ![k] = SubSeq(mine, n + 1, Len(mine))],
          out |-> SubSeq(mine, 1, IF n < Len(mine) THEN n ELSE Len(mine)),
          ok  |-> n <= Len(mine)]

\* Pool k gives up n bits: what it lacks comes from its parent, and so on.
\* r[j][m] is what comes of asking pool j for m.
relinquish_bits(p, k, n) ==
  LET r[j \in 1..k] ==
        [m \in 0..n |->
           give_up(IF Len(p[j]) < m /\ j > 1 THEN r[j - 1][m - Len(p[j])]
                   ELSE [p |-> p, out |-> << >>, ok |-> TRUE],
                   j, m)]
  IN r[k][n]

\* MUTANT: the bits that come are put in front of those that are there.
get_more_bits_InFront(p, n) ==
  LET child == Len(p)
      r     == relinquish_bits(p, child - 1, n)
  IN [p |-> [r.p EXCEPT ![child] = r.out \o @], ok |-> r.ok]

\* The last pool asks for n more bits, whatever it has.
get_more_bits(p, n) ==
  LET child == Len(p)
      r     == relinquish_bits(p, child - 1, n)
  IN [p |-> [r.p EXCEPT ![child] = @ \o r.out], ok |-> r.ok]

\* A new Bitset(parent) and its get_more_bits(n).
open_child(p, n) == get_more_bits(Append(p, << >>), n)

\* All the bits still held, in the order they can be had.
remaining_bits(p) == FlattenSeq(Reverse(p))
=============================================================================
