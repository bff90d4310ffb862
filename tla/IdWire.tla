------------------------------- MODULE IdWire -------------------------------
(***************************************************************************)
(* Ids written back to back on a byte string and read off its front, the   *)
(* way Codec::id() and Codec::decode() find the messages of a string that  *)
(* several encode() calls have appended to: the reader knows nothing but   *)
(* the bytes, and advances by the size the id codec gives for the id read. *)
(***************************************************************************)
EXTENDS IdCodec

CONSTANTS
  SomeIds,   \* the ids the application uses
  MaxIds     \* bound on the ids in one string

ASSUME IdWireAssumption == SomeIds \subseteq Nat /\ MaxIds \in Nat

VARIABLES
  wire_codec,    \* id_codec_, the same at both ends
  ids_written,   \* the ids encoded, in order
  wire,          \* the string, less what was read
  ids_read       \* the ids decoded, in order

wire_vars == <<wire_codec, ids_written, wire, ids_read>>

WireInit ==
  /\ wire_codec \in IdNames
  /\ ids_written = << >> /\ wire = << >> /\ ids_read = << >>

\* encode_internal(): the fixed header is appended to the string.
WriteId(id) ==
  /\ Len(ids_written) < MaxIds
  /\ id_carried(wire_codec, id)
  /\ ids_written' = Append(ids_written, id)
  /\ wire' = wire \o id_encode(wire_codec, id)
  /\ UNCHANGED <<wire_codec, ids_read>>

\* id(begin, end): at most max_size bytes are looked at; the message ends
\* where the size of the id just read says.
ReadId ==
  /\ Len(wire) >= id_min_size(wire_codec)
  /\ LET id == id_decode(wire_codec, wire) IN
       /\ ids_read' = Append(ids_read, id)
       /\ wire' = SubSeq(wire, id_size(wire_codec, id) + 1, Len(wire))
  /\ UNCHANGED <<wire_codec, ids_written>>

WireNext == ReadId \/ \E id \in SomeIds : WriteId(id)

WireSpec == WireInit /\ [][WireNext]_wire_vars

-----------------------------------------------------------------------------
\* The string is parsed into the ids that were written, whatever mix of one-,
\* two- and three-byte forms follows one another: no code is the beginning of
\* another one (field_codec_id.cpp:49, ccl_compatibility.h:64).
ReadInOrder ==
  /\ Len(ids_read) <= Len(ids_written)
  /\ ids_read = SubSeq(ids_written, 1, Len(ids_read))

\* Nothing is left over once every id was read, and something is while one is
\* not: size() agrees with what decode() consumes (Codec::decode shifts the
\* header by field_size(id), codec.h:536).
SizeIsConsumption == (wire = << >>) <=> (Len(ids_read) = Len(ids_written))
=============================================================================
