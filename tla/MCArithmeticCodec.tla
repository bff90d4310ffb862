-------------------------- MODULE MCArithmeticCodec --------------------------
EXTENDS ArithmeticCodec, TLC

Model(frequency, eof, oor, adaptive, max_repeat) ==
  [frequency |-> frequency, eof_frequency |-> eof, out_of_range_frequency |-> oor,
   is_adaptive |-> adaptive, max_repeat |-> max_repeat]

\* The first is of test/dccl_arithmetic; those that adapt have the least
\* frequencies, which change the most.
MCModels ==
  { Model(<<5, 1>>, 4, 0, FALSE, 4),
    Model(<<2, 1, 3>>, 0, 0, FALSE, 3),
    Model(<<2, 3, 9>>, 1, 0, FALSE, 2),
    Model(<<1, 1>>, 1, 1, TRUE, 2),
    Model(<<1, 2>>, 1, 0, TRUE, 2) }
  \cup {Model(<<a, b>>, eof, oor, FALSE, 2) :
          a, b \in {1, 4}, eof \in {0, 1, 5}, oor \in {0, 2}}

\* As many values as fit, and one more.
MCFieldsOf(m) == SeqOf(Symbols(m) \ {EOF_SYMBOL}, m.max_repeat + 1)

MCTails == {<< >>, <<0, 0>>, <<1, 1>>}
=============================================================================
