------------------------------ MODULE MCCodec ------------------------------
(* Message types on both sides of every check of load(), and a library like *)
(* the CCL one: an id codec of its own and messages with its ids.           *)
EXTENDS Codec, TLC

CONSTANTS c, k, a, b, n, p, q, ccl, ma, mb, mn

CclId == CCL_DCCL_ID_PREFIX + 6

MCIds == {0, 1, 200, CclId}

Option(id, max, head, body, needs, has) ==
  [has_id |-> "id" \in has, id |-> id, has_max_bytes |-> "max" \in has,
   max_bytes |-> max, has_codec_version |-> "version" \in has,
   head |-> head, body |-> body, needs |-> needs, valid |-> "valid" \in has]

All == {"id", "max", "version", "valid"}

\* a fits with a one-byte id only; b fits always and hard-codes the id of a;
\* n has no id; p and q come with the library, p under an id of its own, q
\* under the id of a and b.
MCOpt ==
  a :> Option(1, 2, 0, 7, {"default"}, All) @@
  b :> Option(1, 5, 4, 16, {"default"}, All) @@
  n :> Option(0, 9, 9, 8, {"default", "extra"}, All \ {"id"}) @@
  p :> Option(CclId, 3, 0, 16, {"default", "extra"}, All) @@
  q :> Option(1, 9, 0, 8, {"extra"}, All)

MCInfo ==
  ma :> [desc |-> a, body |-> 7, in_range |-> TRUE, initialized |-> TRUE] @@
  mb :> [desc |-> b, body |-> 9, in_range |-> FALSE, initialized |-> TRUE] @@
  mn :> [desc |-> n, body |-> 8, in_range |-> TRUE, initialized |-> FALSE]

MCCodecs == {DefaultName, CclName, "default", "extra"}
MCBuiltIn == {DefaultName, "default"}

MCLib == ccl :> [codecs |-> {CclName, "extra"}, id_codec |-> CclName, loads |-> <<p, q>>]

MCSkipSets == {{}, {1}}

\* Types that load() refuses for what they lack or declare wrongly.
CONSTANTS x1, x2, x3
BadOpt ==
  MCOpt @@ x1 :> Option(1, 9, 0, 8, {"default"}, All \ {"max"})
        @@ x2 :> Option(1, 9, 0, 8, {"default"}, All \ {"version"})
        @@ x3 :> Option(1, 9, 0, 8, {"default"}, All \ {"valid"})
=============================================================================
