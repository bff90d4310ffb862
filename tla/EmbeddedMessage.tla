---------------------------- MODULE EmbeddedMessage ----------------------------
(***************************************************************************)
(* Messages in messages: what the message codecs of versions 2, 3 and 4    *)
(* (codecs2/, codecs3/ and codecs4/field_codec_default_message) make of    *)
(* embedded messages, repeated ones, oneofs and fields with dynamic        *)
(* conditions, and several messages on the wire behind one another.  Each  *)
(* is encoded in two traversals, for the fields of the head and the rest.  *)
(* A field with the option omit is as if it were not declared, unless it is *)
(* in a oneof, which none is here.  Bytes are not filled up behind head and *)
(* body, so that a bit too many shows.                                      *)
(*                                                                         *)
(* A message type is a sequence of fields.  A message is as long: for each *)
(* field the sequence of what it holds, <<>> if it is not set.  The wire is *)
(* one sequence of bits, which FieldCodec shows the pools of the decoder   *)
(* to be as long as no codec leaves any of the bits it was given.  A scalar *)
(* is 0 or 1, and another number is out of its range.                      *)
(***************************************************************************)
EXTENDS WireBits

CONSTANTS
  Scalar,            \* the type of a field that is no message
  Schemas,           \* pairs of a codec_version and the type of a message
  MessagesOf(_, _, _),  \* what the application sends of one as its n-th
  MaxMessages        \* how many in a row

VARIABLES
  version,   \* codec_version of the message, embedded ones included
  type,      \* the type of the message
  sent,      \* the messages encoded
  wire,      \* the bits, less what was read
  received   \* the messages decoded

vars == <<version, type, sent, wire, received>>

-----------------------------------------------------------------------------
(* Fields: [label, type, min_repeat, max_repeat, condition, on, in_head,    *)
(* visited, part], where `condition' asks whether field number `on' of the  *)
(* same message is 1, `in_head' may be "unset", and the last two are of a   *)
(* traversal: is the field in it, and which part of messages is it for.     *)
(* required_if and only_if are for scalars: of an embedded message they     *)
(* would ask that message itself.                                           *)

\* What a field tells the fields of its message: MessageStack's parts.
part_inside(f, current) ==
  CASE f.in_head = "true" -> "HEAD"
    [] f.in_head = "false" -> "BODY"
    [] OTHER -> current

\* Version 2 looks into any message unless it is in one with a part.
check_field(f, part, current) ==
  \/ current = "UNKNOWN" /\ version = 2 /\ f.type # Scalar
  \/ part = (IF current # "UNKNOWN" THEN current
             ELSE IF f.in_head = "true" THEN "HEAD" ELSE "BODY")

\* The type as the traversal for a part sees it.
RECURSIVE traversed(_, _, _)
traversed(t, part, current) ==
  [i \in 1..Len(t) |->
     [t[i] EXCEPT
        !.visited = check_field(t[i], part, current),
        !.part = part,
        !.type = IF @ = Scalar THEN Scalar
                 ELSE traversed(@, part, part_inside(t[i], current))]]

head(t) == traversed(t, "HEAD", "UNKNOWN")
body(t) == traversed(t, "BODY", "UNKNOWN")

holds(f, m) == f.on \in DOMAIN m /\ m[f.on] = <<1>>

\* DynamicConditions::omit(), of a single field.
omitted(f, m) ==
  /\ version > 2
  /\ \/ f.condition = "omit_if" /\ holds(f, m)
     \/ f.condition = "only_if" /\ ~holds(f, m)

\* use_required(); `met' is the condition's outcome.
use_required(f, met) ==
  \/ f.label = "required"
  \/ version > 2 /\ f.label = "repeated"
  \/ version > 3 /\ f.label = "oneof"
  \/ version > 2 /\ f.condition \in {"required_if", "only_if"} /\ met

\* Does an embedded message have a presence bit?
is_optional(f) ==
  \/ version = 3 /\ f.label = "optional"
  \/ version > 3 /\ f.label \in {"optional", "oneof"} /\ ~use_required(f, FALSE)

presence_size(f) == IF is_optional(f) THEN 1 ELSE 0

\* A null value takes a bit more.
scalar_size(required) == IF required THEN 1 ELSE 2

repeated_vector_field_size(f) ==
  IF version > 2 THEN ceil_log2(f.max_repeat - f.min_repeat + 1) ELSE 0

\* How many fields of a type are in its oneof, up to field i, of either part.
in_oneof(t, i) == Cardinality({j \in 1..i : t[j].label = "oneof"})

\* The traversal for the head passes oneofs over, those of a message that is in
\* the head with all its fields, too.
passed_over(t) == \E f \in ToSet(t) : f.part = "HEAD"

oneof_size(t) == IF passed_over(t) THEN 0 ELSE ceil_log2(in_oneof(t, Len(t)) + 1)

-----------------------------------------------------------------------------
(* min_size() *)

RECURSIVE message_min_size(_)

value_min_size(f, met) ==
  IF f.type = Scalar THEN scalar_size(use_required(f, met))
  ELSE IF is_optional(f) THEN 1
  ELSE message_min_size(f.type)

field_min_size(f, met) ==
  IF f.label # "repeated" THEN value_min_size(f, met)
  ELSE repeated_vector_field_size(f)
         + (IF version > 2 THEN f.min_repeat ELSE f.max_repeat) * value_min_size(f, FALSE)

\* MUTANT: the minimum of a field that may be omitted counts.
message_min_size_NotDeferred(t) ==
  FoldLeft(LAMBDA sum, f :
             IF f.label = "oneof" \/ ~f.visited THEN sum ELSE sum + field_min_size(f, FALSE),
           oneof_size(t), t)

\* A field with a condition takes back what those in front of it added.
message_min_size(t) ==
  FoldLeft(LAMBDA sum, f :
             IF ~f.visited THEN sum
             ELSE IF version > 2 /\ f.condition # "none" THEN 0
             ELSE IF f.label = "oneof" THEN sum
             ELSE sum + field_min_size(f, FALSE),
           oneof_size(t), t)

-----------------------------------------------------------------------------
(* Encoding; v is <<>> for no value. *)

RECURSIVE encode_message(_, _)

encode_value(f, met, v) ==
  LET required == use_required(f, met)
  IN IF v = <<>> THEN bits(0, value_min_size(f, met))
     ELSE IF f.type # Scalar
       THEN bits(1, presence_size(f)) \o encode_message(f.type, v[1])
     ELSE IF v[1] \notin 0..1 THEN bits(0, scalar_size(required))
     ELSE bits(v[1] + (IF required THEN 0 ELSE 1), scalar_size(required))

\* How many elements of a repeated field are encoded: version 2 has no count.
wire_vector_size(f, n) ==
  IF version = 2 THEN f.max_repeat
  ELSE Max({f.min_repeat, Min({f.max_repeat, n})})

encode_repeated(f, elements) ==
  LET n == wire_vector_size(f, Len(elements))
  IN bits(n - f.min_repeat, repeated_vector_field_size(f))
       \o FlattenSeq([i \in 1..n |->
            encode_value(f, FALSE, SubSeq(elements, i, Min({i, Len(elements)})))])

encode_field(f, m, v) ==
  IF ~f.visited THEN <<>>
  ELSE IF f.label = "repeated" THEN encode_repeated(f, v)
  ELSE IF omitted(f, m) \/ (f.label = "oneof" /\ v = <<>>) THEN <<>>
  ELSE encode_value(f, holds(f, m), v)

\* MUTANT: the case is the number of the field among all fields.
oneof_case_OfFields(t, m) ==
  FoldLeft(LAMBDA c, i : IF t[i].label = "oneof" /\ m[i] # <<>> THEN i ELSE c,
           0, [i \in 1..Len(t) |-> i])

\* The number of the field of the oneof that is set, 0 if none is.
oneof_case(t, m) ==
  FoldLeft(LAMBDA c, i : IF t[i].label = "oneof" /\ m[i] # <<>> THEN in_oneof(t, i) ELSE c,
           0, [i \in 1..Len(t) |-> i])

encode_message(t, m) ==
  bits(oneof_case(t, m), oneof_size(t))
    \o FlattenSeq([i \in 1..Len(t) |-> encode_field(t[i], m, m[i])])

-----------------------------------------------------------------------------
(* max_size() and size(), which go through the fields on their own.  A       *)
(* descriptor has no message that conditions could hold of.                 *)

RECURSIVE message_max_size(_)

\* MUTANT: no room for the presence bit.
value_max_size_NoPresence(f) ==
  IF f.type = Scalar THEN scalar_size(use_required(f, FALSE)) ELSE message_max_size(f.type)

value_max_size(f) ==
  IF f.type = Scalar THEN scalar_size(use_required(f, FALSE))
  ELSE presence_size(f) + message_max_size(f.type)

field_max_size(f) ==
  IF f.label = "repeated"
    THEN repeated_vector_field_size(f) + f.max_repeat * value_max_size(f)
    ELSE value_max_size(f)

\* The largest field of the oneof is enough: see OneofMaxSize.  Of one that is
\* passed over this is the first call's only, as it does not begin with the map.
message_max_size(t) ==
  oneof_size(t)
    + FoldLeft(LAMBDA sum, f : IF f.label = "oneof" \/ ~f.visited THEN sum
                                ELSE sum + field_max_size(f), 0, t)
    + Max({0} \cup {field_max_size(f) : f \in {g \in ToSet(t) : g.label = "oneof" /\ g.visited}})

RECURSIVE message_size(_, _)

value_size(f, met, v) ==
  IF f.type = Scalar THEN scalar_size(use_required(f, met))
  ELSE IF v = <<>> THEN value_min_size(f, met)
  ELSE presence_size(f) + message_size(f.type, v[1])

\* any_size_repeated() counts the elements of its own, without padding.
any_size_elements(f, n) == IF version = 2 THEN f.max_repeat ELSE Min({f.max_repeat, n})

field_size(f, m, v) ==
  IF ~f.visited THEN 0
  ELSE IF f.label = "repeated"
    THEN FoldLeft(LAMBDA sum, i :
                    sum + value_size(f, FALSE, SubSeq(v, i, Min({i, Len(v)}))),
                  repeated_vector_field_size(f),
                  [i \in 1..any_size_elements(f, Len(v)) |-> i])
  ELSE IF omitted(f, m) \/ (f.label = "oneof" /\ v = <<>>) THEN 0
  ELSE value_size(f, holds(f, m), v)

message_size(t, m) ==
  FoldLeft(LAMBDA sum, i : sum + field_size(t[i], m, m[i]),
           oneof_size(t), [i \in 1..Len(t) |-> i])

-----------------------------------------------------------------------------
(* Decoding from bit `from' on.  A codec is given min bits: what it leaves  *)
(* of them is lost.                                                        *)

RECURSIVE decode_message(_, _, _, _)

given(d, min) == [d EXCEPT !.used = Max({@, min})]

nothing(t) == [i \in 1..Len(t) |-> <<>>]

\* `old' is what the message has of the field, from the traversal of the head.
decode_value(f, met, old, w, from) ==
  LET required == use_required(f, met)
      n == ulong(more(w, from, scalar_size(required)))
      presence == presence_size(f)
      d == decode_message(f.type, IF old = <<>> THEN nothing(f.type) ELSE old[1],
                          w, from + presence)
  IN IF f.type = Scalar
       THEN decoded(IF required THEN <<n>> ELSE IF n = 0 THEN <<>> ELSE <<n - 1>>,
                    scalar_size(required))
     ELSE IF is_optional(f) /\ more(w, from, 1) = <<0>> THEN decoded(<<>>, 1)
     ELSE given(decoded(IF version = 2 /\ d.value = nothing(f.type) THEN <<>>
                        ELSE <<d.value>>, presence + d.used),
                value_min_size(f, met))

\* What is added to the field: a scalar that has a value; of messages all,
\* and then the last is removed for each that is empty.
kept(f, elements) ==
  IF f.type = Scalar THEN FlattenSeq(elements)
  ELSE SubSeq([i \in 1..Len(elements) |->
                 IF elements[i] = <<>> THEN nothing(f.type) ELSE elements[i][1]],
              1, Len(SelectSeq(elements, LAMBDA e : e # <<>>)))

decode_repeated(f, old, w, from) ==
  LET prefix == repeated_vector_field_size(f)
      n == IF version = 2 THEN f.max_repeat
           ELSE f.min_repeat + ulong(more(w, from, prefix))
      all == FoldLeft(LAMBDA a, i :
                        LET d == decode_value(f, FALSE, <<>>, w, from + a.used)
                        IN decoded(Append(a.value, d.value), a.used + d.used),
                      decoded(<<>>, prefix), [i \in 1..n |-> i])
  IN given(decoded(old \o kept(f, all.value), all.used), field_min_size(f, FALSE))

\* The conditions see what has been decoded so far.  A oneof that is passed over
\* is taken for its first field.
decode_message(t, m, w, from) ==
  LET case == IF passed_over(t) THEN 1 ELSE ulong(more(w, from, oneof_size(t)))
      next(a, i) ==
        LET f == t[i]
            old == a.value[i]
            skipped == \/ ~f.visited
                       \/ f.label = "oneof" /\ in_oneof(t, i) # case
                       \/ f.label # "repeated" /\ omitted(f, a.value)
            d == IF skipped THEN decoded(old, 0)
                 ELSE IF f.label = "repeated" THEN decode_repeated(f, old, w, from + a.used)
                 ELSE decode_value(f, holds(f, a.value), old, w, from + a.used)
        IN decoded([a.value EXCEPT ![i] = d.value], a.used + d.used)
  IN FoldLeft(next, decoded(m, oneof_size(t)), [i \in 1..Len(t) |-> i])

base_encode(t, m) == encode_message(head(t), m) \o encode_message(body(t), m)

base_decode(t, m, w, from) ==
  given(decode_message(t, m, w, from), message_min_size(t))

-----------------------------------------------------------------------------

Init ==
  /\ \E s \in Schemas : version = s[1] /\ type = s[2]
  /\ sent = <<>>
  /\ wire = <<>>
  /\ received = <<>>

EncodeMessage ==
  /\ Len(sent) < MaxMessages
  /\ \E m \in MessagesOf(version, type, Len(sent) + 1) :
       /\ sent' = Append(sent, m)
       /\ wire' = wire \o base_encode(type, m)
  /\ UNCHANGED <<version, type, received>>

DecodeMessage ==
  /\ Len(received) < Len(sent)
  /\ LET h == base_decode(head(type), nothing(type), wire, 0)
         b == base_decode(body(type), h.value, wire, h.used)
     IN /\ received' = Append(received, b.value)
        /\ wire' = SubSeq(wire, h.used + b.used + 1, Len(wire))
  /\ UNCHANGED <<version, type, sent>>

Next == EncodeMessage \/ DecodeMessage

Spec == Init /\ [][Next]_vars

-----------------------------------------------------------------------------
(* Properties *)

\* Version 2 does not tell an embedded message without content from none.
some(f, e) == IF version = 2 /\ e = nothing(f.type) THEN <<>> ELSE <<e>>

RECURSIVE filled(_)

\* What the decoder makes of a value that is not there: an embedded message
\* that has no presence bit is made of such values.
absent(f, met) ==
  IF f.type = Scalar THEN (IF use_required(f, met) THEN <<0>> ELSE <<>>)
  ELSE IF is_optional(f) THEN <<>>
  ELSE some(f, filled(f.type))

filled(t) ==
  [i \in 1..Len(t) |->
     CASE t[i].label = "repeated" ->
            FlattenSeq([j \in 1..wire_vector_size(t[i], 0) |-> absent(t[i], FALSE)])
       [] t[i].label = "oneof" -> <<>>
       [] OTHER -> absent(t[i], FALSE)]

\* What is to arrive of a message: all of it but what a condition omits and
\* what is out of range, and repeated fields between their bounds.
RECURSIVE arriving(_, _)
arriving(t, m) ==
  LET present(f, met, v) ==
        IF f.type # Scalar THEN some(f, arriving(f.type, v))
        ELSE IF v \in 0..1 THEN <<v>> ELSE absent(f, met)
      field(f, v) ==
        IF f.label = "repeated"
          THEN FlattenSeq([j \in 1..wire_vector_size(f, Len(v)) |->
                 IF j \in DOMAIN v THEN present(f, FALSE, v[j]) ELSE absent(f, FALSE)])
        ELSE IF omitted(f, m) \/ (f.label = "oneof" /\ v = <<>>) THEN <<>>
        ELSE IF v = <<>> THEN absent(f, holds(f, m))
        ELSE present(f, holds(f, m), v[1])
  IN [i \in 1..Len(t) |-> field(t[i], m[i])]

\* Every message arrives as it was sent.
MessageArrives ==
  \A i \in DOMAIN received : received[i] = arriving(type, sent[i])

\* A decoder takes the bits that were encoded and no more: the next message
\* is in front.
NextMessageInFront ==
  wire = FlattenSeq([i \in 1..(Len(sent) - Len(received)) |->
           base_encode(type, sent[Len(received) + i])])
\* Elements are added to a repeated field, of this message or one in it.
RECURSIVE padded(_, _)
padded(t, m) ==
  \E i \in 1..Len(t) :
    \/ version > 2 /\ Len(m[i]) < t[i].min_repeat
    \/ t[i].type # Scalar /\ \E j \in DOMAIN m[i] : padded(t[i].type, m[i][j])

\* Whatever a message holds, its encoding is as long as min_size() and
\* max_size() allow, of which the second is what load() compares with max_bytes
\* (codec.cpp:413), and as size() says.  The latter leaves out padding
\* (field_codec.cpp:469).
SizeWithinBounds ==
  \A i \in DOMAIN sent :
    \A t \in {head(type), body(type)} :
      LET n == Len(encode_message(t, sent[i])) IN
        /\ message_min_size(t) <= n /\ n <= message_max_size(t)
        /\ ~padded(type, sent[i]) => message_size(t, sent[i]) = n
=============================================================================
