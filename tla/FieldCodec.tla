----------------------------- MODULE FieldCodec -----------------------------
(***************************************************************************)
(* How the fields of one message become bits and are found again:          *)
(* FieldCodecBase (field_codec.cpp) and the message codecs that call it    *)
(* for every field (versions 2 and 3; 4 differs from 3 in oneofs only).    *)
(* The decoder hands each codec min_size() bits and lets it ask for more;  *)
(* the encoder knows nothing of that.  The two agree only if every codec   *)
(* takes exactly what it wrote, in spite of repeated fields that are       *)
(* padded or cut, and of elements that a dynamic condition omits.          *)
(*                                                                         *)
(* A bit is known by its origin: bit k of element i of field f, i = 0      *)
(* being the count in front of a repeated field.  What a codec does with   *)
(* its bits is abstracted to how many it needs: "min" and, in a codec of   *)
(* variable size, as many more as the first ones say.                      *)
(***************************************************************************)
EXTENDS Bitset, FiniteSets

CONSTANTS
  Schemas,     \* the messages declared: codec_version and fields
  ValuesOf(_)  \* what messages with these fields may hold

FieldType ==
  [repeated: BOOLEAN, dynamic: BOOLEAN, min: Nat, longest: Nat,
   min_repeat: Nat, max_repeat: Nat]

ASSUME FieldAssumption ==
  \A s \in Schemas :
    /\ s.version \in {2, 3} /\ s.fields \in Seq(FieldType)
    /\ \A i \in 1..Len(s.fields) :
         LET f == s.fields[i] IN
           f.repeated => 1 <= f.max_repeat /\ f.min_repeat <= f.max_repeat

\* No element needs more than "longest" bits beyond its minimum: the codec of a
\* field throws for a value that it cannot encode.
ASSUME ValuesAssumption ==
  \A s \in Schemas : \A v \in ValuesOf(s.fields) :
    \A i \in 1..Len(s.fields) : v[i].elems \in Seq(0..s.fields[i].longest)

VARIABLES
  version,     \* (dccl.msg).codec_version
  schema,      \* its fields
  value,       \* per field: extra bits of each element, elements omitted
  pools,       \* the chain of Bitsets
  pc,          \* the function the decoder is in
  field, elem, \* what it is at
  count,       \* wire_vector_size of the repeated field
  taken,       \* every bit some codec used
  given        \* what each element was decoded from

input == <<version, schema, value>>
vars == <<version, schema, value, pools, pc, field, elem, count, taken, given>>

-----------------------------------------------------------------------------
(* Sizes *)

\* The number of powers of two below n.
ceil_log2(n) == Cardinality({b \in 0..n : 2^b < n})

at_most(a, b) == IF a < b THEN a ELSE b
at_least(a, b) == IF a > b THEN a ELSE b

\* What a loop that adds up sizes comes to.
total(sizes) ==
  LET sum[i \in 0..Len(sizes)] == IF i = 0 THEN 0 ELSE sum[i - 1] + sizes[i]
  IN sum[Len(sizes)]

repeated_vector_field_size(f) == ceil_log2(f.max_repeat - f.min_repeat + 1)

count_bits(v, f) == IF v > 2 THEN repeated_vector_field_size(f) ELSE 0

field_min_size(v, f) ==
  IF f.repeated
    THEN count_bits(v, f) + f.min * (IF v > 2 THEN f.min_repeat ELSE f.max_repeat)
    ELSE f.min

field_max_size(v, f) ==
  IF f.repeated
    THEN count_bits(v, f) + (f.min + f.longest) * f.max_repeat
    ELSE f.min + f.longest

\* MUTANT: nothing is deferred.
message_min_size_NotDeferred(v, s) ==
  total([fi \in 1..Len(s) |-> field_min_size(v, s[fi])])

\* A field with a dynamic condition sets the sum to 0, what was added for the
\* fields in front of it included.
message_min_size(v, s) ==
  LET sum[i \in 0..Len(s)] ==
        IF i = 0 \/ (v > 2 /\ s[i].dynamic) THEN 0 ELSE sum[i - 1] + field_min_size(v, s[i])
  IN sum[Len(s)]

message_max_size(v, s) == total([fi \in 1..Len(s) |-> field_max_size(v, s[fi])])

\* MUTANT: short vectors are not padded.
wire_vector_size_NotPadded(v, f, n) ==
  IF v > 2 THEN at_most(f.max_repeat, n) ELSE f.max_repeat

\* Elements of a repeated field on the wire, when the message has n.
wire_vector_size(v, f, n) ==
  IF v > 2 THEN at_least(f.min_repeat, at_most(f.max_repeat, n)) ELSE f.max_repeat

-----------------------------------------------------------------------------
(* Encoding *)

BitsOf(fi, i, n) == [b \in 1..n |-> <<fi, i, b>>]

\* An element that is not in the message is encoded as an empty one.
element_size(f, val, i) ==
  f.min + (IF i <= Len(val.elems) THEN val.elems[i] ELSE 0)

omitted(v, f, val, i) == f.dynamic /\ (f.repeated \/ v > 2) /\ i \in val.omit

\* What an element is on the wire.
wire_size(v, f, val, i) == IF omitted(v, f, val, i) THEN 0 ELSE element_size(f, val, i)

wire_elements(v, f, val) ==
  IF f.repeated THEN wire_vector_size(v, f, Len(val.elems)) ELSE 1

field_encode(v, s, vals, fi) ==
  LET f   == s[fi]
      val == vals[fi]
  IN BitsOf(fi, 0, IF f.repeated THEN count_bits(v, f) ELSE 0)
       \o FlattenSeq([i \in 1..wire_elements(v, f, val) |->
                        BitsOf(fi, i, wire_size(v, f, val, i))])

encode(v, s, vals) == FlattenSeq([fi \in 1..Len(s) |-> field_encode(v, s, vals, fi)])

\* any_size_repeated() counts the elements of its own.
any_size_elements(v, f, n) == IF v > 2 THEN at_most(f.max_repeat, n) ELSE f.max_repeat

field_size(v, f, val) ==
  LET n == IF f.repeated THEN any_size_elements(v, f, Len(val.elems)) ELSE 1
  IN (IF f.repeated THEN count_bits(v, f) ELSE 0)
       + total([i \in 1..n |-> wire_size(v, f, val, i)])

message_size(v, s, vals) == total([fi \in 1..Len(s) |-> field_size(v, s[fi], vals[fi])])

-----------------------------------------------------------------------------
(* Decoding *)

Init ==
  /\ \E s \in Schemas :
       /\ version = s.version /\ schema = s.fields
       /\ value \in ValuesOf(schema)
  /\ pools = << encode(version, schema, value) >>
  /\ pc = "message" /\ field = 1 /\ elem = 1 /\ count = 0
  /\ taken = << >> /\ given = << >>

this_field == schema[field]
this_value == value[field]
these_bits == Last(pools)

\* A Bitset for the callee, filled with its minimum; control goes to "next",
\* or up and out of decode().
Open(n, next) ==
  LET r == open_child(pools, n) IN
    /\ pools' = r.p
    /\ pc' = IF r.ok THEN next ELSE "thrown"

base_decode ==
  /\ pc = "message"
  /\ Open(message_min_size(version, schema), "field")
  /\ UNCHANGED <<input, field, elem, count, taken, given>>

SkipField ==
  /\ pc = "field" /\ field <= Len(schema)
  /\ ~this_field.repeated /\ omitted(version, this_field, this_value, 1)
  /\ field' = field + 1
  /\ UNCHANGED <<input, pools, pc, elem, count, taken, given>>

field_decode ==
  /\ pc = "field" /\ field <= Len(schema)
  /\ ~this_field.repeated /\ ~omitted(version, this_field, this_value, 1)
  /\ Open(field_min_size(version, this_field), "element")
  /\ elem' = 1
  /\ UNCHANGED <<input, field, count, taken, given>>

field_decode_repeated ==
  /\ pc = "field" /\ field <= Len(schema)
  /\ this_field.repeated
  /\ Open(field_min_size(version, this_field), "count")
  /\ elem' = 1
  /\ UNCHANGED <<input, field, count, taken, given>>

\* any_decode_repeated() up to its loop.  A count made of other bits than the
\* encoder's can be anything; nothing is said of what follows.
DecodeCount ==
  /\ pc = "count"
  /\ LET r    == open_child(pools, count_bits(version, this_field))
         bits == Last(r.p)
     IN /\ pools' = Front(r.p)
        /\ IF r.ok
             THEN /\ taken' = taken \o bits
                  /\ pc' = IF bits = BitsOf(field, 0, Len(bits)) THEN "elements" ELSE "misread"
                  /\ count' = wire_vector_size(version, this_field, Len(this_value.elems))
             ELSE pc' = "thrown" /\ UNCHANGED <<taken, count>>
  /\ UNCHANGED <<input, field, elem, given>>

SkipElement ==
  /\ pc = "elements" /\ elem <= count
  /\ omitted(version, this_field, this_value, elem)
  /\ elem' = elem + 1
  /\ UNCHANGED <<input, pools, pc, field, count, taken, given>>

NextElement ==
  /\ pc = "elements" /\ elem <= count
  /\ ~omitted(version, this_field, this_value, elem)
  /\ Open(this_field.min, "element")
  /\ UNCHANGED <<input, field, elem, count, taken, given>>

\* The codec of the element: it takes more bits if its first ones say so, and
\* its Bitset goes with it.  Nothing is said of what follows when it was given
\* the bits of another one.
any_decode ==
  /\ pc = "element"
  /\ LET own  == these_bits = BitsOf(field, elem, Len(these_bits))
         more == IF own THEN element_size(this_field, this_value, elem) - this_field.min
                 ELSE 0
         r    == get_more_bits(pools, more)
         bits == Last(r.p)
     IN /\ pools' = Front(r.p)
        /\ IF r.ok
             THEN /\ taken' = taken \o bits
                  /\ given' = Append(given, [field |-> field, elem |-> elem, bits |-> bits])
             ELSE UNCHANGED <<taken, given>>
        /\ pc' = IF ~r.ok THEN "thrown"
                 ELSE IF ~own THEN "misread"
                 ELSE IF this_field.repeated THEN "elements" ELSE "field"
        /\ field' = IF this_field.repeated THEN field ELSE field + 1
        /\ elem' = elem + 1
  /\ UNCHANGED <<input, count>>

\* MUTANT: the Bitset of the field stays in the chain.
EndRepeated_KeepsBitset ==
  /\ pc = "elements" /\ elem > count
  /\ field' = field + 1 /\ pc' = "field"
  /\ UNCHANGED <<input, pools, elem, count, taken, given>>

\* field_decode_repeated() returns: its Bitset goes, with what is left in it.
EndRepeated ==
  /\ pc = "elements" /\ elem > count
  /\ pools' = Front(pools)
  /\ field' = field + 1 /\ pc' = "field"
  /\ UNCHANGED <<input, elem, count, taken, given>>

\* So does the Bitset of the message.
EndMessage ==
  /\ pc = "field" /\ field > Len(schema)
  /\ pools' = Front(pools)
  /\ pc' = "done"
  /\ UNCHANGED <<input, field, elem, count, taken, given>>

Next ==
  \/ base_decode \/ SkipField \/ field_decode \/ field_decode_repeated
  \/ DecodeCount \/ SkipElement \/ NextElement \/ any_decode
  \/ EndRepeated \/ EndMessage

Spec == Init /\ [][Next]_vars

-----------------------------------------------------------------------------
(* Properties *)

Bit == Nat \X Nat \X Nat

TypeOK ==
  /\ pools \in Seq(Seq(Bit)) /\ Len(pools) \in 1..4
  /\ pc \in {"message", "field", "count", "elements", "element", "misread", "thrown", "done"}
  /\ field \in 1..Len(schema) + 1
  /\ elem \in Nat /\ count \in Nat
  /\ taken \in Seq(Bit)

\* Through all prefetching into the Bitsets of the message, the field and the
\* element, the codecs get the bits of the encoded message in order, none
\* twice, and none is lost with a Bitset that is destroyed (bitset.cpp:29).
Stream == INSTANCE BitStream WITH Bits <- Bit, stream <- remaining_bits(pools)

StreamSpec == Stream!Spec

\* Every element is decoded from the bits it was encoded to, no more and no
\* less (field_codec.cpp:456 hands it the minimum, its codec asks for the
\* rest).
ElementsGetTheirBits ==
  \A i \in 1..Len(given) :
    LET g == given[i] IN
      g.bits = BitsOf(g.field, g.elem, element_size(schema[g.field], value[g.field], g.elem))

padded(f, val) == version > 2 /\ f.repeated /\ Len(val.elems) < f.min_repeat

\* Whatever the message holds, its encoding is no shorter than min_size() and
\* no longer than max_size(), the two figures that load() compares with
\* max_bytes and that size the id and the Bitsets (field_codec.cpp:512, :524);
\* and size(), which counts the elements of its own (field_codec.cpp:469), has
\* its length, unless a repeated field is padded.
SizeWithinBounds ==
  LET n == Len(encode(version, schema, value)) IN
    /\ message_min_size(version, schema) <= n /\ n <= message_max_size(version, schema)
    /\ (\A i \in 1..Len(schema) : ~padded(schema[i], value[i]))
         => message_size(version, schema, value) = n

\* The decoder comes to the end of the message when it comes to the end of the
\* bits, and never before: bitset.cpp:48 takes all field codecs to be "always
\* producing (encode) and consuming (decode) the exact same number of bits".
ConsumesWhatWasProduced ==
  /\ pc \notin {"thrown", "misread"}
  /\ pc = "done" => remaining_bits(pools) = << >>
=============================================================================
