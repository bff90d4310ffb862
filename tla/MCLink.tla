------------------------------- MODULE MCLink -------------------------------
(* Two types: a has the one-byte id 1 and can be loaded under the two-byte   *)
(* id 200, which is that of b.  Bodies of 7 and 9 bits end before and after  *)
(* a byte boundary.                                                          *)
EXTENDS Link, TLC

CONSTANTS k, a, b, a7, b9

MCIds == {1, 200}

Option(id, max, head, body) ==
  [has_id |-> TRUE, id |-> id, has_max_bytes |-> TRUE, max_bytes |-> max,
   has_codec_version |-> TRUE, head |-> head, body |-> body,
   needs |-> {}, valid |-> TRUE]

MCOpt == a :> Option(1, 5, 0, 8) @@ b :> Option(200, 5, 3, 9)

Message(d, body) == [desc |-> d, body |-> body, in_range |-> TRUE, initialized |-> TRUE]

MCInfo == a7 :> Message(a, 7) @@ b9 :> Message(b, 9)

MCCodecs == {DefaultName, CclName}
MCEmpty == << >>
=============================================================================
