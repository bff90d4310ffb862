------------------------------ MODULE IdCodec ------------------------------
(***************************************************************************)
(* The codecs of the DCCL id, the fixed header in front of every encoded   *)
(* message: DefaultIdentifierCodec (field_codec_id.cpp), one or two bytes  *)
(* told apart by the least significant bit of the first, and the           *)
(* IdentifierCodec of the CCL library (ccl/ccl_compatibility.h), which     *)
(* lets the one-byte ids of another language share the wire with DCCL.     *)
(*                                                                         *)
(* A byte string is a sequence over 0..255, first byte first; a Bitset of  *)
(* w bits is its value modulo 2^w, lsb first.  Sizes are in bytes (every   *)
(* id codec of the sources uses whole bytes).                              *)
(***************************************************************************)
EXTENDS Integers, Sequences

Byte == 0..255

ONE_BYTE_MAX_ID == 127
TWO_BYTE_MAX_ID == 32767
DCCL_CCL_HEADER == 32
CCL_DCCL_ID_PREFIX == 3265 * 65536       \* 0x0CC10000

DefaultName == "dccl.default.id"
CclName     == "dccl.ccl.id"

-----------------------------------------------------------------------------
(* DefaultIdentifierCodec *)

\* this_size() throws above TWO_BYTE_MAX_ID: these ids have a size.
default_accepts(id) == id <= TWO_BYTE_MAX_ID

default_size(id) == IF id <= ONE_BYTE_MAX_ID THEN 1 ELSE 2

\* MUTANT: ONE_BYTE_MAX_ID = 1 << 7, so that the shift drops bit 7 of 128.
default_encode_OneByteMaxIs128(id) ==
  IF id <= 128
    THEN << (2 * id) % 256 >>
    ELSE LET v == ((2 * id) % 65536) + 1 IN << v % 256, v \div 256 >>

\* Bitset(8, id) << 1, and Bitset(16, id) << 1 with bit 0 set: the shift keeps
\* the width of the Bitset and drops what leaves it.
default_encode(id) ==
  IF id <= ONE_BYTE_MAX_ID
    THEN << (2 * id) % 256 >>
    ELSE LET v == ((2 * id) % 65536) + 1 IN << v % 256, v \div 256 >>

\* Bit 0 of the first byte asks for one more byte; the value is what is left
\* when that bit is shifted out.
default_decode(bytes) ==
  IF bytes[1] % 2 = 1
    THEN (bytes[1] + 256 * bytes[2]) \div 2
    ELSE bytes[1] \div 2

-----------------------------------------------------------------------------
(* legacyccl::IdentifierCodec *)

is_ccl_id(id) == id \div 65536 = CCL_DCCL_ID_PREFIX \div 65536

ccl_accepts(id) == is_ccl_id(id) \/ default_accepts(id)

\* MUTANT: the inherited size() is not overridden with the header byte added.
ccl_size_WithoutHeader(id) == IF is_ccl_id(id) THEN 1 ELSE default_size(id)

ccl_size(id) == IF is_ccl_id(id) THEN 1 ELSE 1 + default_size(id)

\* A CCL id travels as its last byte; a DCCL id behind the byte that CCL
\* reserves for it.
ccl_encode(id) ==
  IF is_ccl_id(id)
    THEN << (id % 65536) % 256 >>
    ELSE << DCCL_CCL_HEADER >> \o default_encode(id)

ccl_decode(bytes) ==
  IF bytes[1] = DCCL_CCL_HEADER
    THEN default_decode(Tail(bytes))
    ELSE CCL_DCCL_ID_PREFIX + bytes[1]

-----------------------------------------------------------------------------
(* What Codec calls through id_codec(), by the name registered for it. *)

IdNames == {DefaultName, CclName}

id_accepts(name, id) ==
  IF name = CclName THEN ccl_accepts(id) ELSE default_accepts(id)

id_size(name, id) ==
  IF name = CclName THEN ccl_size(id) ELSE default_size(id)

id_encode(name, id) ==
  IF name = CclName THEN ccl_encode(id) ELSE default_encode(id)

id_decode(name, bytes) ==
  IF name = CclName THEN ccl_decode(bytes) ELSE default_decode(bytes)

id_min_size(name) == 1
id_max_size(name) == IF name = CclName THEN 3 ELSE 2

\* The ids a codec carries without loss.  CCL reserves the byte 32 for DCCL
\* and has one byte per id.
id_carried(name, id) ==
  /\ id_accepts(name, id)
  /\ name = CclName /\ is_ccl_id(id) =>
       id % 65536 \in Byte \ {DCCL_CCL_HEADER}
=============================================================================
