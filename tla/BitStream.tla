----------------------------- MODULE BitStream -----------------------------
(***************************************************************************)
(* What the field codecs of a message may rely on while they decode: the   *)
(* bits of the encoded message come in order, each to one reader, and none *)
(* is skipped.                                                             *)
(***************************************************************************)
EXTENDS Integers, Sequences

CONSTANTS Bits      \* what a bit of an encoded message can be

VARIABLES
  stream,           \* the bits to come
  taken             \* the bits the codecs were given

vars == <<stream, taken>>

Init == stream \in Seq(Bits) /\ taken = << >>

Take(n) ==
  /\ taken' = taken \o SubSeq(stream, 1, n)
  /\ stream' = SubSeq(stream, n + 1, Len(stream))

Next == \E n \in 1..Len(stream) : Take(n)

Spec == Init /\ [][Next]_vars
=============================================================================
