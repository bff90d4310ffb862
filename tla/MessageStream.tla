---------------------------- MODULE MessageStream ----------------------------
(***************************************************************************)
(* What two applications may expect of DCCL when one appends encoded       *)
(* messages to a byte string and the other takes them off its front: the   *)
(* messages written are the messages read, in order, each once -- until a  *)
(* read is made with a configuration other than the writer's, after which  *)
(* nothing is promised.                                                    *)
(***************************************************************************)
EXTENDS Integers, Sequences

CONSTANTS
  Contents     \* what a message says once decoded

VARIABLES
  written,     \* the messages appended to the string
  read,        \* those taken from it
  misread      \* a read was made with another configuration than the write

vars == <<written, read, misread>>

Init == written = << >> /\ read = << >> /\ misread = FALSE

Write(m) ==
  /\ written' = Append(written, m)
  /\ UNCHANGED <<read, misread>>

Read ==
  /\ ~misread
  /\ Len(read) < Len(written)
  /\ read' = Append(read, written[Len(read) + 1])
  /\ UNCHANGED <<written, misread>>

Misread ==
  /\ misread' = TRUE
  /\ UNCHANGED written

Next == Read \/ Misread \/ \E m \in Contents : Write(m)

Spec == Init /\ [][Next]_vars

-----------------------------------------------------------------------------
\* Nothing is lost, repeated or reordered before the first misreading.
InOrder ==
  ~misread => /\ Len(read) <= Len(written)
              /\ read = SubSeq(written, 1, Len(read))
=============================================================================
