----------------------------- MODULE TypedCodecs -----------------------------
(***************************************************************************)
(* The codecs of single values that come with the library, each as what    *)
(* its encode(), decode(), min_size(), max_size() and size() compute, and  *)
(* two fields of a message on the wire, one behind the other: the reader   *)
(* hands a codec min_size() bits and lets it take more, so a codec that    *)
(* takes another number of bits than it wrote spoils the field behind.     *)
(*                                                                         *)
(* A byte has BITS_IN_BYTE bits and a string is a sequence of bytes, both  *)
(* small.                                                                  *)
(***************************************************************************)
EXTENDS NumericFieldCodec, WireBits

CONSTANTS
  BITS_IN_BYTE,
  MAX_STRING_LENGTH,  \* of version 2
  Fields,             \* the fields a message may be made of
  ValuesOf(_),        \* what the application puts in them
  Clocks              \* when a message is read

\* A byte has room for a part of a number and the bit that says it goes on.
ASSUME SizesAssumption ==
  BITS_IN_BYTE \in Nat /\ BITS_IN_BYTE >= 2 /\ MAX_STRING_LENGTH \in Nat

VARIABLES
  fields,    \* the two fields of the message
  values,    \* what was written
  wire,      \* the bits, less what was read
  read,      \* what was read
  now        \* the receiver's clock

vars == <<fields, values, wire, read, now>>

-----------------------------------------------------------------------------
(* Bits *)

byte_bits(s) == FlattenSeq([i \in 1..Len(s) |-> bits(s[i], BITS_IN_BYTE)])
bytes_of(bs) ==
  [i \in 1..(Len(bs) \div BITS_IN_BYTE) |->
     ulong(SubSeq(bs, (i - 1) * BITS_IN_BYTE + 1, i * BITS_IN_BYTE))]

\* use_required(): what the version takes for granted.
use_required(f) ==
  \/ f.label = "required"
  \/ f.label = "repeated" /\ f.version > 2
  \/ f.label = "oneof" /\ f.version > 3

presence_size(f) == IF use_required(f) THEN 0 ELSE 1

-----------------------------------------------------------------------------
(* Numbers with bounds, truth values, enumerations and times of day: all    *)
(* values take the same room.  `required' is a parameter because            *)
(* PresenceBitCodec forces it on the codec it wraps.                        *)

\* An enumeration goes by the index of a value; by its number if packed_enum
\* is off, which version 2 does not know.
by_index(f) == f.packed \/ f.version = 2

bounds(f) ==
  CASE f.codec = "bool" -> [min |-> 0, max |-> 1, res |-> 1]
    [] f.codec = "enum" ->
         IF by_index(f) THEN [min |-> 0, max |-> Len(f.numbers) - 1, res |-> 1]
         ELSE [min |-> Min(Range(f.numbers)), max |-> Max(Range(f.numbers)), res |-> 1]
    [] f.codec = "time" -> [min |-> 0, max |-> f.max, res |-> f.res]
    [] f.codec = "numeric" -> [min |-> f.min, max |-> f.max, res |-> f.res]

number(f, required) ==
  [min |-> bounds(f).min, max |-> bounds(f).max, res |-> bounds(f).res,
   unit |-> CASE f.codec = "numeric" -> f.unit [] f.codec = "time" -> 0 [] OTHER -> 1,
   required |-> required]

pre_encode(f, v) ==
  CASE v = Null -> Null
    [] v # Null /\ f.codec = "enum" /\ by_index(f) ->
         SelectInSeq(f.numbers, LAMBDA n : n = v) - 1
    [] v # Null /\ f.codec = "time" -> remainder(v, f.max)
    [] OTHER -> v

\* The place a time is rounded to, in the end: that of the precision, or seconds
\* whatever the resolution is.
place(f) ==
  IF ~f.precise THEN f.second ELSE IF f.res < f.unit THEN f.unit ELSE f.res

post_decode(f, n, clock) ==
  CASE n = Null -> Null
    [] n # Null /\ f.codec = "enum" ->
         IF by_index(f) THEN (IF n < Len(f.numbers) THEN f.numbers[n + 1] ELSE Null)
         ELSE (IF n \in Range(f.numbers) THEN n ELSE Null)
    [] n # Null /\ f.codec = "time" ->
         rounded(f.unit > 0, whole_part(f.unit, day(f, n, clock) + n), place(f))
    [] OTHER -> n

fixed_size(f, required) == ceil_log2(wire_values(number(f, required)))

fixed_encode(f, required, v) ==
  bits(to_wire(number(f, required), pre_encode(f, v)), fixed_size(f, required))

fixed_decode(f, required, bs, clock) ==
  post_decode(f, from_wire(number(f, required), ulong(bs)), clock)

-----------------------------------------------------------------------------
(* Strings and bytes, cut to max_length *)

cut(f, s) == IF Len(s) > f.max_length THEN SubSeq(s, 1, f.max_length) ELSE s

\* The count of bytes in front: in version 2 it does not depend on the field.
prefix_size(f) ==
  ceil_log2(1 + (IF f.codec = "string" /\ f.version = 2 THEN MAX_STRING_LENGTH
                 ELSE f.max_length))

\* DefaultStringCodec: no bytes and no string look the same.
string_encode(f, v) ==
  IF v = Null THEN bits(0, prefix_size(f))
  ELSE bits(Len(cut(f, v)), prefix_size(f)) \o byte_bits(cut(f, v))

string_decode(f, w) ==
  LET header == prefix_size(f)
      body == ulong(more(w, 0, header)) * BITS_IN_BYTE
  IN IF body = 0 THEN decoded(Null, header)
     ELSE decoded(bytes_of(more(w, header, body)), header + body)

\* VarBytesCodec: a presence bit, unless required, then the count.
var_bytes_encode(f, v) ==
  IF v = Null
    THEN bits(0, IF use_required(f) THEN prefix_size(f) ELSE presence_size(f))
    ELSE bits(1, presence_size(f)) \o bits(Len(cut(f, v)), prefix_size(f))
           \o byte_bits(cut(f, v))

var_bytes_decode(f, w) ==
  LET header == presence_size(f) + prefix_size(f)
      body == ulong(more(w, presence_size(f), prefix_size(f))) * BITS_IN_BYTE
  IN IF ~use_required(f) /\ more(w, 0, 1) = <<0>> THEN decoded(Null, 1)
     ELSE decoded(bytes_of(more(w, header, body)), header + body)

\* DefaultBytesCodec of versions 2 and 3: always max_length bytes.
bytes_encode(f, v) ==
  IF v = Null
    THEN bits(0, IF use_required(f) THEN f.max_length * BITS_IN_BYTE ELSE 1)
    ELSE bits(1, presence_size(f)) \o
           more(byte_bits(v), 0, f.max_length * BITS_IN_BYTE)

bytes_decode(f, w) ==
  LET body == f.max_length * BITS_IN_BYTE
      header == presence_size(f)
  IN IF ~use_required(f) /\ more(w, 0, 1) = <<0>> THEN decoded(Null, 1)
     ELSE decoded(bytes_of(more(w, header, body)), header + body)

-----------------------------------------------------------------------------
(* PrimitiveTypeFieldCodec: a number as Google Protocol Buffers write it,   *)
(* behind a presence bit unless it is required.  f.form is "varint",        *)
(* "zigzag" (sint32 and sint64) or "fixed"; f.width the bits of a varint    *)
(* (a negative int32 is extended to it) or of a fixed number.               *)

numbers(f) ==
  IF f.signed THEN -pow2(f.type_width - 1) .. pow2(f.type_width - 1) - 1
  ELSE 0 .. pow2(f.type_width) - 1

to_unsigned(f, v) ==
  IF f.form = "zigzag" THEN (IF v >= 0 THEN 2 * v ELSE -2 * v - 1)
  ELSE v % pow2(f.width)

from_unsigned(f, n) ==
  CASE f.form = "zigzag" -> IF n % 2 = 0 THEN n \div 2 ELSE -((n + 1) \div 2)
    [] f.form # "zigzag" /\ f.signed /\ n >= pow2(f.width - 1) -> n - pow2(f.width)
    [] OTHER -> n

\* How many bits of the number a byte of a varint holds.
PAYLOAD == BITS_IN_BYTE - 1

byte_size(f, v) ==
  IF f.form = "fixed" THEN f.width \div BITS_IN_BYTE
  ELSE Cardinality({g \in 1..f.width :
                      g = 1 \/ to_unsigned(f, v) >= pow2((g - 1) * PAYLOAD)})

native_bits(f, v) ==
  IF f.form = "fixed" THEN bits(to_unsigned(f, v), f.width)
  ELSE LET size == byte_size(f, v)
       IN FlattenSeq([g \in 1..size |->
            bits(to_unsigned(f, v) \div pow2((g - 1) * PAYLOAD), PAYLOAD)
              \o <<IF g < size THEN 1 ELSE 0>>])

native_min_size(f) ==
  IF ~use_required(f) THEN presence_size(f)
  ELSE IF f.form = "fixed" THEN f.width ELSE BITS_IN_BYTE

native_encode(f, v) ==
  IF v = Null THEN bits(0, native_min_size(f))
  ELSE bits(1, presence_size(f)) \o native_bits(f, v)

\* Is the most significant bit of byte g set?
continued(w, from, g) == more(w, from + g * BITS_IN_BYTE - 1, 1) = <<1>>

\* MUTANT: of a varint that follows a presence bit a single byte is read.
bytes_taken_One(f, w, from) ==
  IF f.form = "fixed" THEN f.width \div BITS_IN_BYTE
  ELSE IF from > 0 THEN 1
  ELSE CHOOSE g \in 1..(Len(w) + 1) :
         /\ ~continued(w, from, g)
         /\ \A h \in 1..(g - 1) : continued(w, from, h)

bytes_taken(f, w, from) ==
  IF f.form = "fixed" THEN f.width \div BITS_IN_BYTE
  ELSE CHOOSE g \in 1..(Len(w) + 1) :
         /\ ~continued(w, from, g)
         /\ \A h \in 1..(g - 1) : continued(w, from, h)

native_decode(f, w) ==
  LET from == presence_size(f)
      size == bytes_taken(f, w, from)
      body == more(w, from, size * BITS_IN_BYTE)
      payload == FlattenSeq([g \in 1..size |->
                   SubSeq(body, (g - 1) * BITS_IN_BYTE + 1, g * BITS_IN_BYTE - 1)])
  IN IF ~use_required(f) /\ more(w, 0, 1) = <<0>> THEN decoded(Null, 1)
     ELSE decoded(from_unsigned(f, ulong(IF f.form = "fixed" THEN body ELSE payload)),
                  from + size * BITS_IN_BYTE)

-----------------------------------------------------------------------------
(* What FieldCodecBase asks of a codec.  f.presence: PresenceBitCodec wraps *)
(* the codec of a number or an enumeration.                                 *)

encode(f, v) ==
  CASE f.codec = "static" -> <<>>
    [] f.codec = "string" -> string_encode(f, v)
    [] f.codec = "var_bytes" -> var_bytes_encode(f, v)
    [] f.codec = "bytes" -> bytes_encode(f, v)
    [] f.codec = "native" -> native_encode(f, v)
    [] OTHER ->
         IF ~f.presence THEN fixed_encode(f, use_required(f), v)
         ELSE IF v = Null THEN <<0>>
         ELSE bits(1, presence_size(f)) \o fixed_encode(f, TRUE, v)

decode(f, w, clock) ==
  CASE f.codec = "static" -> decoded(f.static_value, 0)
    [] f.codec = "string" -> string_decode(f, w)
    [] f.codec = "var_bytes" -> var_bytes_decode(f, w)
    [] f.codec = "bytes" -> bytes_decode(f, w)
    [] f.codec = "native" -> native_decode(f, w)
    [] OTHER ->
         LET required == f.presence \/ use_required(f)
             size == fixed_size(f, required)
             from == IF f.presence THEN presence_size(f) ELSE 0
         IN IF from = 1 /\ more(w, 0, 1) = <<0>> THEN decoded(Null, 1)
            ELSE decoded(fixed_decode(f, required, more(w, from, size), clock),
                         from + size)

min_size(f) ==
  CASE f.codec = "static" -> 0
    [] f.codec = "string" -> prefix_size(f)
    [] f.codec = "var_bytes" -> IF use_required(f) THEN prefix_size(f) ELSE 1
    [] f.codec = "bytes" -> IF use_required(f) THEN f.max_length * BITS_IN_BYTE ELSE 1
    [] f.codec = "native" -> native_min_size(f)
    [] OTHER ->
         IF f.presence /\ ~use_required(f) THEN 1
         ELSE fixed_size(f, f.presence \/ use_required(f))

\* size(wire_value), and size() for none.
size(f, v) ==
  CASE f.codec = "static" -> 0
    [] f.codec = "string" ->
         prefix_size(f) + (IF v = Null THEN 0 ELSE Len(cut(f, v)) * BITS_IN_BYTE)
    [] f.codec = "var_bytes" ->
         IF v = Null THEN min_size(f)
         ELSE presence_size(f) + prefix_size(f) + Len(cut(f, v)) * BITS_IN_BYTE
    [] f.codec = "bytes" ->
         IF v = Null THEN min_size(f) ELSE presence_size(f) + f.max_length * BITS_IN_BYTE
    [] f.codec = "native" ->
         IF v = Null THEN min_size(f) ELSE presence_size(f) + byte_size(f, v) * BITS_IN_BYTE
    [] OTHER ->
         IF ~f.presence THEN fixed_size(f, use_required(f))
         ELSE IF v = Null THEN 1 ELSE presence_size(f) + fixed_size(f, TRUE)

\* MUTANT: the largest number is taken to be the longest.
max_size_OfLargest(f) ==
  CASE f.codec = "static" -> 0
    [] f.codec = "string" -> prefix_size(f) + f.max_length * BITS_IN_BYTE
    [] f.codec \in {"var_bytes", "bytes"} ->
         presence_size(f) + f.max_length * BITS_IN_BYTE
           + (IF f.codec = "bytes" THEN 0 ELSE prefix_size(f))
    [] f.codec = "native" -> size(f, Max(numbers(f)))
    [] OTHER ->
         IF f.presence THEN presence_size(f) + fixed_size(f, TRUE)
         ELSE fixed_size(f, use_required(f))

max_size(f) ==
  CASE f.codec = "static" -> 0
    [] f.codec = "string" -> prefix_size(f) + f.max_length * BITS_IN_BYTE
    [] f.codec \in {"var_bytes", "bytes"} ->
         presence_size(f) + f.max_length * BITS_IN_BYTE
           + (IF f.codec = "bytes" THEN 0 ELSE prefix_size(f))
    [] f.codec = "native" -> Max({size(f, Min(numbers(f))), size(f, Max(numbers(f)))})
    [] OTHER ->
         IF f.presence THEN presence_size(f) + fixed_size(f, TRUE)
         ELSE fixed_size(f, use_required(f))

-----------------------------------------------------------------------------
(* The fields of a message that load() accepted, and what they may hold *)

Byte == 0..pow2(BITS_IN_BYTE) - 1

\* What validate() checks, and what the C++ types make sure of: an integer type
\* has a minimum that is one, and for times an even number of units in a second,
\* of which a precision is tenfolds or tenths; a span is of days.
validate(f) ==
  /\ f.version \in 2..4 /\ f.label \in {"required", "optional", "repeated", "oneof"}
  /\ f.presence \in BOOLEAN /\ f.packed \in BOOLEAN
  /\ CASE f.codec \in {"static", "bool"} -> TRUE
       [] f.codec = "enum" -> f.numbers \in Seq(Int) /\ f.numbers # <<>>
       [] f.codec = "numeric" ->
            /\ f.min \in Int /\ f.max \in Int /\ f.res \in Int /\ f.unit \in Nat
            /\ f.unit > 0 => f.min % f.unit = 0
            /\ valid(number(f, TRUE))
       [] f.codec = "time" ->
            /\ f.max \in Nat \ {0} /\ f.res \in Nat /\ f.second \in Nat \ {0}
            /\ f.max % f.second = 0 /\ valid(number(f, TRUE))
            /\ f.precise \in BOOLEAN /\ f.unit \in Nat
            /\ f.unit > 0 => /\ f.second % (2 * f.unit) = 0
                             /\ f.precise => f.res % f.unit = 0 \/ f.unit % f.res = 0
       [] f.codec = "string" ->
            f.max_length \in Nat /\ (f.version = 2 => f.max_length <= MAX_STRING_LENGTH)
       [] f.codec \in {"var_bytes", "bytes"} -> f.max_length \in Nat
       [] f.codec = "native" ->
            /\ f.form \in {"varint", "zigzag", "fixed"} /\ f.signed \in BOOLEAN
            /\ f.type_width \in Nat \ {0} /\ f.width \in Nat /\ f.width >= f.type_width
            /\ f.form = "zigzag" => f.signed /\ f.width = f.type_width
            /\ f.form = "fixed" => f.width = f.type_width /\ f.width % BITS_IN_BYTE = 0
       [] OTHER -> FALSE

\* A required field is there; a time is counted from 1970.
encodable(f, v) ==
  IF v = Null THEN ~use_required(f)
  ELSE CASE f.codec = "static" -> TRUE
         [] f.codec = "numeric" -> v \in Int /\ (f.unit > 0 => v % f.unit = 0)
         [] f.codec = "enum" -> v \in Range(f.numbers)
         [] f.codec = "bool" -> v \in {0, 1}
         [] f.codec = "time" -> v \in Nat /\ (f.unit > 0 => v % f.unit = 0)
         [] f.codec = "native" -> v \in numbers(f)
         [] OTHER -> v \in Seq(Byte)

ASSUME FieldsAssumption ==
  /\ Clocks \subseteq Int
  /\ \A f \in Fields : validate(f) /\ \A v \in ValuesOf(f) : encodable(f, v)

-----------------------------------------------------------------------------
(* Two fields, written and then read *)

Init ==
  /\ fields \in Fields \X Fields
  /\ values = <<>>
  /\ wire = <<>>
  /\ read = <<>>
  /\ now \in {CHOOSE c \in Clocks : TRUE}

EncodeField ==
  /\ Len(values) < Len(fields)
  /\ LET f == fields[Len(values) + 1]
     IN \E v \in ValuesOf(f) :
          /\ values' = Append(values, v)
          /\ wire' = wire \o encode(f, v)
  /\ UNCHANGED <<fields, read, now>>

\* What a codec leaves of the min_size() bits it was given is lost.  The time
\* codec alone looks at the clock.
DecodeField ==
  /\ Len(values) = Len(fields)
  /\ Len(read) < Len(fields)
  /\ LET f == fields[Len(read) + 1]
     IN /\ now' \in (IF f.codec = "time" THEN Clocks ELSE {now})
        /\ LET d == decode(f, wire, now')
           IN /\ read' = Append(read, d.value)
              /\ wire' = SubSeq(wire, Max({d.used, min_size(f)}) + 1, Len(wire))
  /\ UNCHANGED <<fields, values>>

Next == EncodeField \/ DecodeField

Spec == Init /\ [][Next]_vars

-----------------------------------------------------------------------------
(* Properties *)

distance(a, b) == IF a >= b THEN a - b ELSE b - a

quantiles(f) ==
  LET b == bounds(f) IN {b.min + k * b.res : k \in 0..((b.max - b.min) \div b.res)}

\* A negative integer is cut towards zero.
truncated(f, v) == f.unit > 0 /\ v < 0

nearest(f, v) ==
  {q \in quantiles(f) : IF truncated(f, v) THEN distance(q, v) < f.res
                        ELSE 2 * distance(q, v) <= f.res}

\* Is v no nearer to the last quantile q than to the one behind it?
beyond(f, v, q) ==
  IF truncated(f, v) /\ v > f.max THEN q = f.max
  ELSE q \in {f.min, f.max} /\ 2 * distance(q, v) >= f.res

\* What a number that is not there is read as.
for_none(f) == IF f.presence \/ use_required(f) THEN f.min ELSE Null

\* What may be read where v was written: a quantile within bounds for a
\* number, by at most half the resolution away from it, and nothing (the
\* minimum of a required field) only if there is none or v is half way
\* between the last quantile and the one behind it.  A negative integer
\* may go to the quantile nearer to zero, which is out of bounds if it is
\* above the maximum.  An integer at a resolution that is none is not rounded
\* but cut, when it is counted in resolutions and when it is read.
ReadFor(f, v, r) ==
  CASE f.codec = "static" -> r = f.static_value
    [] f.codec = "string" -> r = (IF v = Null \/ cut(f, v) = <<>> THEN Null ELSE cut(f, v))
    [] f.codec = "var_bytes" -> r = (IF v = Null THEN Null ELSE cut(f, v))
    [] f.codec = "bytes" ->
         IF v = Null THEN r = Null
         ELSE /\ Len(r) = f.max_length
              /\ \A i \in 1..f.max_length : r[i] = (IF i <= Len(v) THEN v[i] ELSE 0)
    [] f.codec = "numeric" /\ v # Null /\ fractional(f.unit, f.res) ->
         IF f.min <= v /\ v <= f.max
           THEN r # Null /\ f.min <= r /\ r <= v /\ v - r < f.res + f.unit
           ELSE r = for_none(f)
    [] f.codec = "numeric" /\ v # Null /\ ~fractional(f.unit, f.res) ->
         \/ r \in nearest(f, v)
         \/ r = for_none(f) /\ \A q \in nearest(f, v) : beyond(f, v, q)
    [] f.codec = "time" -> (v = Null) <=> (r = Null)
    [] OTHER -> r = v

\* A field reads as it was written, up to what its codec gives up (bytes
\* behind max_length, what is between two quantiles, what is out of bounds),
\* and an absent one as absent: for each of the default and native codecs, in
\* every version that has it and for every label.
ReadsWhatWasWritten ==
  \A i \in DOMAIN read : ReadFor(fields[i], values[i], read[i])

\* When a codec is done the next field is in front: it took as many bits as
\* the encoder wrote, though the reader only handed it min_size() of them
\* (get_more_bits() in each decode()).
NextFieldInFront ==
  Len(values) = Len(fields) =>
    wire = FlattenSeq([i \in 1..(Len(fields) - Len(read)) |->
                         encode(fields[Len(read) + i], values[Len(read) + i])])

\* A value takes the bits that size() said it would, which are not less than
\* min_size(), all the decoder is sure of, nor more than max_size(), which
\* the bound on the message was checked with.
SizeWithinBounds ==
  \A i \in DOMAIN values :
    LET f == fields[i]
        length == Len(encode(f, values[i]))
    IN length = size(f, values[i]) /\ min_size(f) <= length /\ length <= max_size(f)

\* A time less than half a span from the clock of the receiver reads as that
\* time, in the past or to come, over midnight or not (TimeCodecBase).  Its
\* resolution is kept if it is given as a precision, as far as the type goes;
\* if not, the time reads as the nearest second.
TimeNearest ==
  LET i == Len(read)
      f == fields[i]
      q == quantize(0, values[i], f.res)
  IN i > 0 /\ f.codec = "time" /\ values[i] # Null
       => \/ 2 * distance(q, now - (now % f.second)) >= f.max
          \/ f.precise /\ read[i] = whole_part(f.unit, q)
          \/ ~f.precise /\ read[i] % f.second = 0 /\ 2 * distance(read[i], q) <= f.second
=============================================================================
