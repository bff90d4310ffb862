--------------------------- MODULE MCOneofMaxSize ---------------------------
EXTENDS OneofMaxSize, TLC

CONSTANTS none, s, t

Threads2 == Permutations({s, t})

\* A oneof whose largest field is in the middle, another of one field, and a
\* field outside them.
MCFields ==
  << [oneof |-> 1, size |-> 4], [oneof |-> none, size |-> 3],
     [oneof |-> 1, size |-> 9], [oneof |-> 2, size |-> 5], [oneof |-> 1, size |-> 6] >>
=============================================================================
