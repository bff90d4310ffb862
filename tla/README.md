# A TLA+ model of DCCL

DCCL (the Dynamic Compact Control Language) packs Protocol Buffers messages
into as few bits as possible for links of a few bytes per minute. The receiver
gets a bare string of bytes: which message it holds, where one field ends and
the next begins, and where the next message starts all follow from the message
definitions that both ends have loaded. This directory models the parts of the
library where that agreement is made, checks them with TLC and proves some of
the results with TLAPS.

Comments in the modules name code as `file:line`; unless they say otherwise the
file is under `src/src/` of this repository (`codec.h:586` is
`src/src/codec.h`, line 586). `PROJECT.json` maps each definition to the lines it
translates.

## 1. The system

| Component | State it keeps | Operations | Called by / calls |
|---|---|---|---|
| **Codec** (`codec.cpp`, `codec.h`) | `id2desc_` (dccl id -> message type), `id_codec_` (a name), `strict_`, `crypto_key_`, `skip_crypto_ids_`, `dl_handles_`, its manager | `load`, `unload`, `unload_all`, `set_id_codec`, `set_strict`, `set_crypto_passphrase`, `load_library`, `unload_library`, `encode`, `decode`, `size`, `id` | the application; calls the id codec, the manager and the message codec of a type |
| **Id codecs** (`field_codec_id.*`, `ccl/ccl_compatibility.h`) | none | encode, decode, size of the fixed header | `Codec::id`, `encode_internal`, `load` |
| **Bitset** (`bitset.*`) | a deque of bits, a pointer to the parent pool | `get_more_bits`, `relinquish_bits`, shifts, conversions | every field codec |
| **Field codec base and message codecs** (`field_codec.*`, `codecs2..4/field_codec_default_message.*`) | the message being traversed (`MessageStack`), the part (head, body), strictness | encode, decode, size, max and min size of single and repeated fields | `Codec`; calls itself for embedded messages and the typed codecs for fields |
| **Version 4 message codec** (`codecs4/field_codec_default_message.h`) | a static map oneof -> largest size seen | the same, oneofs in addition | every `Codec` of the process |
| **Typed codecs** (`codecs2..4/field_codec_default.*`, `field_codec_typed.h`, `codecs3/field_codec_presence.h`, `codecs3/field_codec_var_bytes.cpp`, `native_protobuf/`) | none (the time codec reads a clock) | a value to bits and back | the message codecs |
| **Arithmetic codec** (`arithmetic/`) | models by name, with the adaptive frequencies of encoder and decoder | encode and decode of a field by a model | the message codecs |
| **Field codec manager** (`field_codec_manager.*`) | codecs by type and name | `add`, `remove`, `find` | `Codec`, libraries of codecs |
| **CCL library** (`ccl/`) | none | `dccl3_load`, `dccl3_unload`; codecs for the fields of CCL messages | `Codec::load_library` |
| **Message stack** (`internal/field_codec_message_stack.*`, `field_codec_data.h`) | stacks of messages, fields and parts | push, pop, by scope | `FieldCodecBase` |
| **Dynamic conditions** (`dynamic_conditions.*`) | a Lua state, the message and root message | `required`, `omit`, `only`, bounds | the message codecs |
| **Dynamic protobuf manager** (`dynamic_protobuf_manager.*`) | the descriptor pool and databases (a singleton) | find, add, compile, load from a library | the application; owns descriptors that `id2desc_` refers to |
| **Logger** (`logger.*`, `thread_safety.*`) | slots, verbosity, a recursive mutex | `is`, `<<`, flush | everything |
| Type helpers, `any.h`, `oneof.h` | a table | conversions | field codecs |
| Command line tools, compiler plugin, vendored code, Python module | - | around the library | - |

The library has no threads and no event loop: an application calls it, and it
returns. A `Codec` is used by one thread at a time; several `Codec`s in several
threads are supported (`CMakeLists.txt:249`, `test/dccl_multithread`) and share
what is static: the type helper, the loggers, the map of oneof sizes. (The dynamic
conditions are a member of each manager's data, `internal/field_codec_data.h:31`.)

What is hard:

* **Both ends compute, neither is told.** `min_size`, `max_size`, `size`,
  `encode` and `decode` are five traversals of the same message that must agree
  to the bit. A disagreement does not raise an error; the next field is read
  from the wrong bits.
* **Prefetch.** The decoder gives each codec a pool with its minimum of bits;
  pools take more from their parents, which were themselves filled with a
  minimum computed by other code.
* **Long sequences of calls.** Types are loaded under one or more ids, id codecs
  change the length of the header, libraries bring and remove codecs, and
  messages encoded before wait to be decoded.
* **Failure half way.** Nearly every call may throw, some after they have begun
  to change something, and `load_library` runs other people's code.
* **Threads that share statics**, in the one place where no mutex was put.
* **Loss**, for the one codec that has a memory (adaptive arithmetic models).

What makes each part correct: an id is a prefix code whose size is what `size`
says; the registry holds only messages that fit their `max_bytes` with the id
they have; a call that throws changes nothing; what one end encodes the other
decodes, whatever precedes or follows it in the string; field codecs consume
what they produced; `max_size` bounds every encoding; statics shared by threads
do not change results; arithmetic models are equal at both ends as long as no
message is lost; an embedded message puts back the stack it found and arrives as
it was sent; every codec of a value takes the bits it wrote and reads what the
source promises; a logger's mutex is released by the statement that took it, and
lines of two threads are not mixed.

## 2. Modules

```
IdCodec --- IdWire --- MCIdWire               Bitset --- FieldCodec --- MCFieldCodec
   |            \                                        |  : implements
   |             IdCodecProofs                           | BitStream
   |             (of both; used by                       |
   |              CodecProofs)                       FieldCodecProofs
 Codec --- MCCodec
   |                                          OneofMaxSize --- MCOneofMaxSize
 Link --- MCLink                                     \
   |  \                                               OneofMaxSizeProofs
   |   CodecProofs (Codec and Link)
   : implements                               ArithmeticCodec --- MCArithmeticCodec
 MessageStream                                       \
                                                      ArithmeticCodecProofs
 WireBits --- EmbeddedMessage
    \              \                           Logger --- MCLogger
     \              MCEmbeddedMessage                \
      TypedCodecs --- MCTypedCodecs                   LoggerProofs
     /           \
 NumericFieldCodec \                           MessageStack --- MCMessageStack
                    TypedCodecsProofs (both)         \
                                                      MessageStackProofs
```

### IdCodec, IdWire: the fixed header

`IdCodec` has one operator per member function of `DefaultIdentifierCodec` and
of the CCL library's `IdentifierCodec`, over bytes (0..255): `default_encode` is
`Bitset(8, id) << 1`, which keeps its width, so a value that does not fit loses
its high bits as it does in the code. `id_encode`, `id_decode`, `id_size` are
what `Codec::id_codec()` dispatches to by the registered name. `id_carried`
names the ids a codec can carry without loss: CCL has one byte per id and
reserves 32 for DCCL.

`IdWire` is a writer and a reader of ids back to back on one string
(`encode_internal`, and `id(begin, end)` followed by the shift of the header).

### Codec: one object

| Variable | Member |
|---|---|
| `id2desc[o]` | `id2desc_` |
| `id_codec[o]` | `id_codec_` |
| `codecs[o]` | the names in `manager_` |
| `strict[o]` | `strict_` |
| `crypto[o]` | `crypto_key_`, `skip_crypto_ids_` |
| `loading[o]` | progress of a `load_library()` that is running |
| `last` | history: the last call, how it ended, what `encode()` returned or threw |

Each action is one public call, with every check in the code's order (`load_accepts`,
`encode_accepts`) and every change it makes when it throws. `load_library` is
two: `LoadLibrary` adds the codecs and switches the id codec, and one
`LoadLibraryMessage` per message the library loads, each of which may throw
with the earlier ones kept. A message type is what `load()` looks at: its
options, the head and body sizes, the codecs it needs, whether `validate()` passes. A
message instance is its encoded body size (at most the type's: that is what
`FieldCodec` checks), whether it is initialized and in range. The encoded bytes
are a record of how they were made (id, id codec, key, size).

### Link: two objects and a string

`Link` EXTENDS `Codec` with two objects, `tx` and `rx`. `Send` appends what
`encode(std::string*)` returns; `DecodeNew` is `decode<...>(std::string*)`, which
strips up to `actual_end`, computed from the bits left in the pool
(`remaining_after`); `DecodeInto` is `decode(std::string*, Message*)`, which
strips `size(*msg)`. `Reconfigure` is any call of `Codec!Configure` at either
end, at any time, with frames waiting. Decoding bytes for what they are not
(another id codec, type or key, or the middle of a frame) may throw or deliver
`Garbage` and strip anything: `Misdecode`. `mismatched` remembers that a frame
was read under another configuration than it was written under, which is the
users' business to avoid.

`MessageStream` is the promise: messages are read in the order written, each
once, until the first misreading.

### Bitset, FieldCodec: the fields of a message

`Bitset` is the chain of pools of a decoding as a sequence. `relinquish_bits`
asks the parent for what a pool lacks, as in `bitset.cpp`; it is written as a recursive
function over the pools, one for every number of bits that may be asked for, and
`give_up` is what a pool does when its parent has answered. Bits are known by their origin
`<<field, element, number>>`.

`FieldCodec` encodes a message of single and repeated fields in its initial
state (`encode`, with the padding and cutting of `wire_vector_size`) and then
decodes it step by step: `base_decode` prefetches the minimum of the message,
`field_decode` and `field_decode_repeated` that of a field, `DecodeCount` reads
the length of a repeated field (version 3), `NextElement` and `any_decode` each
element, `SkipField` and `SkipElement` are fields and elements that a dynamic
condition omits, `EndRepeated` and `EndMessage` destroy a pool. `taken` and
`given` are history. `field_size` and `message_size` are the separate traversal
of `size()`.

`BitStream` is what a codec may rely on: bits come in order, each once, none is
skipped.

### OneofMaxSize: the static map

One thread's `max_size()` of a version 4 message: `oneof` per declaration,
`PlainField`, or `FindMax`, `AddDifference`, `Store` for a field in a oneof: one
step per access to the static map, so that threads interleave between them.
Arithmetic is modulo `Unsigned`, as the differences may be negative. Two
concurrent inserts may also break the `unordered_map` itself; that is left out:
the keys are there from the start, with the 0 that `operator[]` would insert.

### ArithmeticCodec: values as one number

A step is an iteration of a loop of `encode_repeated` or `decode_repeated`:
`EncodeSymbol` narrows the interval to the part of a symbol and updates the
encoder's model, `EmitBit` doubles the interval (with the pending bits of
`bit_plus_follow`), `SymbolEncoded` ends the loop or goes on, `FinishEncode`
writes the last bits; `StartDecode` takes the minimum of bits, `GetBit` one more
while they leave a choice, `DecodeSymbol` narrows and updates the decoder's
model, `ShiftBit` doubles. `low` and `high` are the locals of the end at work;
`c_freqs` are `encoder_cumulative_freqs_` of the sender's model and
`decoder_cumulative_freqs_` of the receiver's, which live on from message to
message. `Lose` is a message that does not arrive, or that `encode()` gave up
after this field. Values are known by their symbols; `max_size_repeated` and
`min_size_repeated` take the logarithms to be exact.

`Next` leaves out two kinds of fields.
`FilledIfNecessary`: a model without EOF gets as many values as it needs (the
filler the code takes is a frequency, not a symbol,
`arithmetic/field_codec_arithmetic.h:270`). `OutOfRangeIsLast`: a value that
cannot be encoded is the last there is room for.

### NumericFieldCodec, TypedCodecs: values

`NumericFieldCodec` is the arithmetic of a bounded number: `quantize` in its two
versions (for integers the remainder of C++ has the sign of the value),
`to_wire` and `from_wire` between a value and the number on the wire, the bounds that
`validate()` accepts, and `day`, the time codec's choice of yesterday, today or
tomorrow. Values are counted in parts fine enough for bounds and resolution to be
integers, so there are no floating point errors. `unit` is how many of these parts make 1 for
an integer type, and 0 for another: it tells where a cast cuts (`whole_part`), and at which resolutions
`quantize` leaves an integer as it is (`fractional`, `common.h:137`). `rounded` is what `quantize` and
`round` have in common; a time goes through it once more when it is read, to the place of its
precision or, without one, to seconds (`place`, `field_codec_default.h:353`).

`TypedCodecs` has encode, decode, `min_size`, `max_size` and `size` of every codec
of single values: numbers, truth values, enumerations (by index or by number),
times, static values, strings and bytes in the versions that differ, `VarBytesCodec`,
`PresenceBitCodec` around another codec and the native protobuf codecs (varint,
zigzag, fixed). The state machine writes two fields behind one another
(`EncodeField`) and reads them (`DecodeField`) by the receiver's clock: a codec is
given its minimum of bits and what it leaves of them is lost. A byte has
`BITS_IN_BYTE` bits. `validate` is what a field must be to be loaded and `encodable` what
an application may give it; the run and the proofs are about any fields and values that
`FieldsAssumption` says are so. `WireBits` has the conversions of `Bitset` between numbers
and bits.

### EmbeddedMessage: messages in messages

The message codecs of versions 2, 3 and 4 as recursive operators: `encode_message`
and `decode_message` go through the fields of a type; `encode_value` and
`decode_value` are a scalar or an embedded message with its presence bit;
`encode_repeated` and `decode_repeated` have the count of versions 3 and 4, the
padding, and what is done with elements that decode to nothing (`kept`); `oneof_case`
is the number in front of a version 4 message, which a traversal for the head passes over (`passed_over`). `omitted` and `use_required` are the dynamic
conditions, which the encoder evaluates on the message and the decoder on what it
has decoded so far. `message_min_size` is what a decoder is given at least, with the
conditions that reset it; `message_max_size` and `message_size` are the traversals of `max_size()`
and `size()`. `head` and `body` are the type as the traversal of either part sees it, with
`visited` from `check_field`; the second adds to what the first has decoded. Messages are written on a wire (`EncodeMessage`) and read off it
(`DecodeMessage`). The reference is `arriving`: what a receiver is to find.

### MessageStack: where the codecs are

`data` are the four vectors of `MessageStackData`; `calls` is the thread's stack of
function calls, each with the counts of its `MessageStack` object. `Call...` actions
are the functions of `FieldCodecBase` and `Codec` that construct one, as they call
each other in encoding, decoding, sizing and in traversals of a descriptor;
`NextElement` is `update_index()`; `Return` is the end of any call, by return or
by exception, and runs the destructor. `push_message` has the replacement of an entry that
another object pushed. What the calls are about (message, element, part) is history,
which the properties compare the vectors with.

### Logger: statements of several threads

A statement is `is()`, operands, and a flush. `Lock` is `is()` once the level is enabled:
it takes the recursive mutex and pushes the level and group; `Write` and `WriteNewLine` are
`overflow()` for one character; `Endl` and `Flush` are `sync()` with and without
an end of line before it: it displays the lines that are complete, pops the tag and unlocks;
`Throw` is an operand that throws, which leaves both. `connect` and
`disconnect` change the slots, which enable levels. A character carries who wrote
it, and under which level, as history.

## 3. Runs

`logger` has a liveness property, the others are of safety. `CHECK_DEADLOCK FALSE` is set where a behaviour
ends (a message is decoded, the bounded calls are made); in `Codec` there is
always another call.

| Run | What it shows |
|---|---|
| `idwire` | Both id codecs, ids on each side of 64, 128, 256, 16384, 32768 and of the CCL ids. `ReadInOrder`: any three in a row come back as written. `SizeIsConsumption`: `size(id)` is exactly what `decode` took. |
| `codec` | `LoadedMessagesFit`, `EncodedFits`, `FailureKeepsRegistry` for every sequence of calls on one object. |
| `link` | `MessagesInOrder`, `NextFrameInFront` and the refinement `StreamSpec` for two objects and two frames in flight. |
| `field_codec` | `ElementsGetTheirBits`, `ConsumesWhatWasProduced`, `SizeWithinBounds` and the refinement of `BitStream` for every pair of field shapes in versions 2 and 3. |
| `oneof_max_size` | `MapHoldsAFieldSize` and `AloneIsRight` for two threads: races leave nothing in the map that a later call could not start from. |
| `logger` | Two threads, a flush in the middle of a line, an operand that throws. `MutexCoversStatement`, `OwnTagOnTop`, `LinesWhole`, `TextKept`: whose lines go where. `MutexReleased`: no statement keeps the mutex, unless an operand has thrown. |
| `typed` | `ReadsWhatWasWritten`, `NextFieldInFront`, `SizeWithinBounds`, `TimeNearest` for every pair of fields, every value and every clock. |
| `stack` | `CountsMatch`, `ThisMessageInWork`, `PartOfMessageInWork` for every nesting of calls, left anywhere by exceptions. |
| `embedded` | `MessageArrives`, `NextMessageInFront` for two messages on the wire; `SizeWithinBounds`: what `size()`, `min_size()` and `max_size()` say of them. |
| `arithmetic` | `DecodesWhatWasEncoded`, `ConsumesWhatWasProduced`, `SizeWithinBounds`, `IntervalHoldsEverySymbol` for every field and whatever bits follow it; `ModelsInStep` for two messages in a row that may be lost. |

Bounds, and why they are enough:

* `idwire`: `MaxIds` = 3. Codes are at most three bytes; a misparse shows at the
  second id.
* `codec`: one object, since objects share nothing here. The types sit on both
  sides of every check of `load()`: one that fits with a one-byte id only, one
  that hard-codes the id of another, one without id, two of a library (one
  with an id only the library's id codec accepts, one in conflict), three that lack an
  option. User ids 1 (taken) and 200 (two bytes). No bound on the calls: the state space is finite.
* `link`: `MaxSent` = 2 and `MaxReconfigured` = 4. Two frames are what it takes for
  one to be stripped into the next; four configuration calls load a type at
  each end and leave two to disturb. Bodies of 7 and 9 bits end on both sides
  of a byte boundary. No library: `codec` has it.
* `field_codec`: two fields of eight shapes (numbers, variable strings, omittable,
  repeated with minimum 0, 1 and 2, of fixed and variable size) before a fixed
  one that shows whether the decoder is in step. Vectors of length 0 to one more than
  fits, each element with or without its extra bits, all subsets omitted.
  The pools interact only between neighbours in the chain, which two fields exercise.
* `oneof_max_size`: two threads with two calls, two oneofs, five fields; `Unsigned`
  = 1024, above every sum, so a negative difference wraps and comes back.
* `arithmetic`: `CODE_VALUE_BITS` = 6, where the program has 32: totals up to 15, so
  that an interval narrows to a few numbers within three symbols and every case
  of rounding and of pending bits occurs. 29 models: that of
  `test/dccl_arithmetic`, two that adapt, and all combinations of small and large
  frequencies with and without EOF and out-of-range. Fields up to one value more
  than fit. `MaxMessages` = 2: the second message is decoded with what was
  learned from the first, or not. The bits behind the field are none, zeros or
  ones, the extremes of the number that is read. `HasRoom` bounds the counting of an adaptive
  model: no message is begun that its totals have no room for. Here they reach 8 of 15.

* `logger`: two threads, two levels, one group, one slot, two operands per statement, lines of two
  characters, one exception. Two statements that meet need two threads; what is left
  in the buffer shows at the next statement.
* `typed`: `BITS_IN_BYTE` = 2 and strings of up to three bytes, one more than fits: a
  varint has up to five bytes. Numbers from one resolution below the bounds to one
  above, with bounds that are and are not a power of two apart, and an integer at a
  resolution of one and a half. Spans of four seconds in quarters; times of a type that has
  fractions and of one that has halves, at a resolution of a second, a half and a quarter, as a precision
  and not; clocks at and before the beginning of a second, over two spans.
* `stack`: two levels of message fields, single and repeated, with and without `in_head`,
  a scalar; lists of up to two elements. An object replaces the entry of the
  one below, never of another: two levels and two elements show it.
* `embedded`: messages of up to three fields with embedded messages of one or two;
  each label, each condition, lists of up to two. The second message on the wire shows
  what the first took. Left out are: version 2 lists with an empty element in front of
  one that is not (they arrive changed, see below), padded elements whose type has conditions,
  `required_if` of an embedded message (it is asked of that message itself),
  conditions on fields further behind, which the decoder does not know yet, and
  embedded messages without `in_head` some of whose fields have it, in a list of version 2
  or in version 3 and 4, and oneofs in the head (see below). Eleven types have fields in the head, of fixed size as
  `validate()` wants them.

Fairness: the library does something only when called, and every call in these
modules but one is a finite traversal; what an application calls is its own
choice. The exception is the logger, where a thread waits for another. `Spec` of
`Logger` has, for each thread, weak fairness of `Proceed`: a thread that has the
mutex goes on with its statement, which is straight-line code up to the flush. It
is the scheduler's, and all that `MutexReleased` needs. There is no fairness of
`Lock`: `std::recursive_mutex` (`thread_safety.h:26-35`) does not promise a thread
that waits that it is ever given the mutex, if other threads take it back every
time, so nothing is said of that.

### Where the code and its words differ

Each run below checks one statement of the documentation, and TLC finds it
violated.

| Run | The statement | What happens |
|---|---|---|
| `link_used_bytes` | `codec.h:304`: the used bytes are stripped from the string | `decode(std::string*, Message*)` strips `size()`, which assumes the hard-coded id: wrong for a user id of another length. `link` therefore guards `DecodeInto` with `HardIdAsLong`; `link_used_bytes` drops the guard. |
| `field_codec_omit` | `bitset.cpp:48`: codecs consume exactly what they produce | A repeated field with `min_repeat` and `omit_if` prefetches for elements that were omitted; the bits die with its pool. `field_codec` therefore has dynamic conditions only on repeated fields without minimum. |

Met while modelling, in the models or left out of their inputs as said, without a run of their own:

* `codec.cpp:201`: for an id that is not loaded the parenthesis closes early, and the comma
  operator throws a `Descriptor*` instead of the `Exception` of `codec.h:265`
  (`encode_throws` in `Codec`).
* `field_codec.cpp:469`: `size()` forgets the padding to `min_repeat`
  (`codec.h:328`: the encoded size); `SizeWithinBounds` of `FieldCodec` leaves it out.
* `arithmetic/field_codec_arithmetic.h:359`: the encoder goes on behind the EOF that
  it takes for a value out of range, and the decoder stops there
  (`arithmetic/protobuf/arithmetic.proto:44`); `arithmetic` has `OutOfRangeIsLast`.
* `codecs4/field_codec_default_message.h:158`: two threads in `max_size()` of a message
  with oneofs may get wrong sizes (`CMakeLists.txt:249` offers thread safety). `AloneIsRight`
  is about calls that nothing interferes with.
* `codecs2/field_codec_default_message.cpp:82`: in version 2, `[{}, {a: 1}]` arrives as
  `[{}]`: the last element is removed for an empty one in front.
* `codecs3/field_codec_default_message.cpp:227`: from version 3 on, a field with `in_head` in
  an embedded message without is in neither part: the message is not visited for the head, nor
  the field for the body. In version 2 the embedded message is visited for both, and
  of a list each element arrives twice, once with the fields of either part.
* `codecs4/field_codec_default_message.h:279` and `:306`, `.cpp:93`: a traversal for the head
  passes oneofs over, and a message that is in the head is in no other. Its oneof is
  encoded without the case, and decoded as its first field, set or not: of
  `oneof { a, b }` with `a` in front of another field of the head, unset `a` takes the other's bits.
  `max_size()` of such a message is also right only once, as the later calls find the map
  filled and do not add what it holds. The model does the same (`passed_over`), and TLC finds
  `MessageArrives` violated with such a type; `embedded` has none. A oneof some of whose
  fields are in the head fares alike.
* `common.h:143`: an integer below zero leaves a negative remainder and is never rounded
  down: at a resolution of 4, -3 goes to 0 and -7 to -4, not to the nearest
  multiple (`common.h:84`). Both ends do the same, so `ReadsWhatWasWritten` holds. Below
  a negative maximum it has another effect: with bounds -8 and -4 at a resolution of 4, a
  -3, which is nearest to -4, goes to 0, out of bounds, and is sent as nothing (`truncated` and
  `beyond` in `ReadFor`, which the proof of `NumericReads` made necessary).
* `common.h:137`: an integer is not rounded at a resolution that is no integer, but it is counted in
  it, and both the count and the value read back are cut: at a resolution of 0.4 a 1 makes two
  resolutions, 0.8, and is read as 0. `ReadFor` says how far down it may go, and
  `typed` has such a field. A minimum of an integer type that is no integer is left out.
* `codecs2/field_codec_default.h:353`: a time with a `resolution` below a second goes on the wire
  at that resolution and is then rounded to seconds all the same, as `precision()` is 0 without one
  (line 372). `TimeNearest` promises its resolution to a time with a precision, and the nearest
  second to any other.
* `codecs3/field_codec_presence.h:81`: a padded element of a repeated field with
  `PresenceBitCodec` is one bit, and the decoder, for whom repeated fields are
  required, takes the whole number. `typed` has no absent elements of repeated fields.
* `field_codec.cpp:142`: a flush without an end of line leaves text in the buffer,
  which is displayed under the level of the next statement; `LinesWhole` excepts it.
* `arithmetic/field_codec_arithmetic.h:430`: the decoder takes its minimum of bits and then
  keeps no more of them than its number has (32). A model that is not adaptive may have a
  larger minimum, for instance 40 bits for twenty values of four equally frequent symbols
  without EOF; the bits behind the 32nd are dropped and the field is decoded wrongly.
* `arithmetic/field_codec_arithmetic.h:561`: the minimum is computed from the frequencies, but the
  encoder rounds its interval, and upwards at its upper end. A field can therefore take one bit less
  than its minimum, and the decoder reads a bit of what follows. At 6 bits, two values
  of frequency 3 and 7 do so (1 bit where the minimum is 2); at 32 bits, frequencies like
  33461 and 80782 do. Both this and the former are excluded from the models of
  `arithmetic` by `SizeWithinBounds`, which the run checks of them.
* `arithmetic/field_codec_arithmetic.cpp:197`: an adaptive model counts without end, while
  `MAX_FREQUENCY` is compared with the total of a new model only
  (`field_codec_arithmetic.h:184`). One whose frequencies are small takes a billion symbols to get
  there, one whose total is near the limit only as many as are missing; then an
  interval may have no number for a symbol. `HasRoom` leaves that out.
* `codec.cpp:501`: `size()` pushes no descriptor, so that `this_descriptor()` of a top-level field is
  null, against `field_codec.h:93`.

## 4. Proofs

| Module | Theorem | Says |
|---|---|---|
| `IdCodecProofs` | `DefaultIdRoundTrip`, `CclIdRoundTrip` | For every id a codec carries and every string behind it: decoding gives the id back, and `size` is the number of bytes encoded. |
| | `IdsReadInOrder`, `SizesAreConsumption` | `WireSpec => []` of `ReadInOrder` and `SizeIsConsumption`, any ids, any number of them on one string. |
| `FieldCodecProofs` | `PoolsAreAStream` | `Spec => StreamSpec`: decoding through the chain of pools implements `BitStream`, for any schemas and values (see the hypothesis below). |
| | `EveryElementItsBits`, `DecoderConsumesAll`, `SizesBoundTheMessage`, `FieldTypes` | `Spec => []` of `ElementsGetTheirBits`, `ConsumesWhatWasProduced`, `SizeWithinBounds`, `TypeOK`: any number of fields, sizes, lengths and omitted elements. |
| `CodecProofs` | `CodecTypeCorrect` | `Spec => []TypeOK`, any number of objects, types, ids, libraries. |
| | `LoadedMessagesAlwaysFit` | `Spec => []LoadedMessagesFit` |
| | `EncodedAlwaysFits` | `Spec => []EncodedFits` |
| | `FailuresKeepRegistry` | `Spec => FailureKeepsRegistry` |
| | `ReceiverStaysAtFrame` | `LinkSpec => []NextFrameInFront`, any number of messages in flight, any calls at either end. |
| | `MessagesAlwaysInOrder` | `LinkSpec => []MessagesInOrder` |
| | `LinkIsAStream` | `LinkSpec => StreamSpec`: the link implements `MessageStream`. |
| `MessageStackProofs` | `VectorsAreCounted`, `ConditionsSeeTheMessage`, `PartIsOfTheMessage` | `Spec => []` of `CountsMatch`, `ThisMessageInWork`, `PartOfMessageInWork`, any acyclic message types, any nesting of calls and exceptions. |
| `LoggerProofs` | `LoggerTypeCorrect`, `MutexAlwaysCovers`, `OwnTagAlwaysOnTop`, `LinesAlwaysWhole`, `TextAlwaysKept` | `Spec => []` of `TypeOK`, `MutexCoversStatement`, `OwnTagOnTop`, `LinesWhole`, and the action property `TextKept`, any number of threads, levels, groups and slots. |
| `TypedCodecsProofs` | `NextFieldAlwaysInFront`, `AlwaysReadsWhatWasWritten`, `SizeAlwaysWithinBounds`, `TimeAlwaysNearest` | `Spec => []` of `NextFieldInFront`, `ReadsWhatWasWritten`, `SizeWithinBounds`, `TimeNearest`: any two fields of any codec, bounds, length, width, version and label, any values and clocks. |
| | `QuantizeNearest`, `QuantizeKeepsMultiples` | What `quantize` gives for any value, type and resolution. |
| | `InBoundsRoundTrip`, `NothingReadsAsNothing` | For any valid bounds: what is in bounds is read as its quantile and fits its bits (an integer at a resolution that is none is read less than a resolution and 1 below); an optional field reads as none exactly when nothing in bounds was written. |
| | `TimeReadsNearest` | For any span and clock: a time less than half a span away gets its own span. |
| `OneofMaxSizeProofs` | `MapHolds` | `Spec => []MapHoldsAFieldSize`, any number of threads, oneofs and fields. |
| | `OneofTypeCorrect` | `Spec => []TypeOK` |
| | `AloneAlwaysRight` | `Spec => []AloneIsRight`: a call that no other thread interferes with returns the true largest size. |
| `ArithmeticCodecProofs` | `IntervalAlwaysHoldsEverySymbol` | `Spec => []IntervalHoldsEverySymbol`, any code width, models and messages. |
| | `AlwaysDecodesWhatWasEncoded`, `AlwaysConsumesWhatWasProduced`, `ModelsAlwaysInStep`, `ArithmeticTypeCorrect` | `Spec /\ []SizeWithinBounds => []` of `DecodesWhatWasEncoded`, `ConsumesWhatWasProduced`, `ModelsInStep`, `TypeOK`. |
| | `AdaptiveModelsAgree` | The same four, of every adaptive model, without the hypothesis. |

Assumptions. `CodecAssumption` gives the constants their types and says that an
instance's body is no longer than its type's (checked for fields in
`field_codec`, `SizeWithinBounds`) and that an unset id reads as 0. `IdsCarried` says
that the application uses no CCL id that CCL cannot carry (32, or above one byte): with such an
id the hard-coded id read back would be another. `OneofAssumption` types
the fields, with sizes below the modulus. `ArithmeticAssumption` is what the code checks
of a model when it is set, with code values of at least three bits; that the cumulative frequencies, computed in a loop, are
those of the model is stated rather than proved (`Counts`; TLC evaluates it
for the models of the run). `StackAssumption` says that no message type contains itself:
`load()` asks for its `max_size()`, which does not return for one that does.

`SizeWithinBounds`, which four theorems of `ArithmeticCodecProofs` have as a hypothesis, says that the
bits of a field are no fewer than `min_size_repeated` and that this minimum fits
the decoder's number. It is a hypothesis and not a theorem because it is not true of every
static model (section 3 has two), and the decoder does go wrong where it fails. TLC finds it to
hold for the models of `arithmetic`. Nothing else is asked of a model. For an
adaptive one the minimum is 0, so `AdaptiveModelsAgree` needs no hypothesis at all.

`FieldAssumption` says of a schema what `check_repeat_settings()` does, and `ValuesAssumption` that no
element needs more than its codec's `max_size()`. The theorems of `FieldCodecProofs` have the hypothesis
`OmitsNothingPrefetched`: a repeated field has a dynamic condition only from version 3 on and with
no minimum of repetitions. It is the condition under which the code is right and not a convenience: without
it `min_size_repeated()` counts elements that are then omitted, `message_min_size` is no lower bound, and
`field_codec_omit` shows the bits that are lost. Every schema of `field_codec`
satisfies it (`MCSchemasAreCovered`, which TLC evaluates).

`NullAssumption` says that what stands for no value is no number. The theorems of
`TypedCodecsProofs` about one number take bounds of integers (`Bounded`) that `validate()` accepts (`valid`).
Those about fields have `SizesAssumption` (a byte of at least two bits, which a varint needs)
and `FieldsAssumption`: every field is one that `validate()` of its codec accepts, with what the C++ and
protobuf types say besides (an enumeration has a value, a length is not negative, a fixed number is
of whole bytes, the minimum of an integer is one, an integer type of times has an even number of units in a
second, and a precision makes ten, a hundred... of them or tenths of one); every value is of the field's type, there if the field is required, and, if it is a
time, not before 1970; clocks are integers. With `precision` instead of `resolution`, `validate()` only warns of
bounds that are no multiples; such fields are not among those proved about.

The arguments. `IdsReadInOrder` is strengthened to `WireInv`: the string can be cut where
each id that is not read yet begins, each piece being the encoding of its id (the
function `suffix`). Writing lengthens every suffix; reading takes the first piece, by the round
trip of the codec. A piece is never empty, which gives `SizesAreConsumption`.

In `FieldCodecProofs` all pools together hold the end of the encoded message, so they are
described by where it is cut: pool `k` has the bits between `c[k]` and `c[k - 1]` (`Cut`).
Asking for bits at the last pool makes it end further on; a pool in front of it that began before that
place begins there now, and the others stay as they are (`GiveUp`,
`DrawnThroughParent`, `GetMoreBits`, by induction on the pool that is asked). Where the last
cut is, follows from where the decoder is: at the beginning of a field, of an element, behind its minimum
(`Standing`, with `field_start` and `elem_start` as sums of lengths; `Layout` and
`Elements` say what the message has there). What makes the invariant, `FieldInv`, inductive is the
part of it about the pool of the message: what a repeated field prefetched does not reach beyond that
field, so it is used up when the field ends, and nothing is lost with its pool (`EndRepeatedStep`). This is
so because the minimum of a field is a lower bound of its length (`FieldMinimum`), which needs
`OmitsNothingPrefetched`; and the minimum of a message is one although a dynamic condition
sets the sum to 0 half way (`MinimumIs`), so that the prefetch finds its bits (`MessageBounds`). The four
properties are read off `FieldInv`. For `StreamSpec`, what is taken and what the pools still
hold are two adjacent pieces of one message in every state, so whatever a step takes is the
beginning of what there was (`TakesTheNext`).

`LoadedMessagesFit` is inductive once `TypeOK` is known: `load()` and
a library's load establish it for the one id they insert (`LoadFits`, which needs that the
hard-coded id passed through the id codec is itself, `HardId`, from the round trip of
`IdCodecProofs`); unloading only removes (`FewerFit`); and the two
calls that change the id codec, on which both `id_accepts` and `byte_size` depend,
empty the registry (`SwitchFits`). `EncodedFits` follows from it at the step that encodes: header and
body round up separately, so a body that is no longer gives bytes that are no more
(`CeilMonotone`, `EncodeFits`). `MapHoldsAFieldSize` is strengthened to `IInv`: between `FindMax` and
`Store` a thread's `new_max_size` is the size of a field of the oneof it is at, because it
was either that field's or what the map held; so whatever another thread stored
meanwhile, what is stored is again such a size.

The link's invariant, `LinkInv`, says that frames lie end to end on the wire, the first of them
where the receiver is (`FramesAdjacent`), and that what was received is what was sent up to there
(`ReceivedInOrder`), both as long as nothing was decoded for what it is not. `DecodeNew` strips a
whole frame because the bits left in the pool say where it ended; `DecodeInto`
because, under `HardIdAsLong`, `size()` is the length of what `encode()` wrote. A frame
that was read under another configuration sets `mismatched`, which ends the promise on both sides of the
refinement.

`StackInv` gives every call under way the four vectors as they were when that call was
the innermost one. What a call has counted is then the difference between its
vectors and those of its caller, so that its destructor uncovers these, and all that was true of the caller
is true again. The one step that does not only push is `push_message`, which
may replace an entry pushed by another call: that entry can only be for the same message, since a message that
contains itself is excluded. This is where the proof needs `StackAssumption`.

`AloneIsRight` needs what a call has summed up so far (`SumSoFar`): plain fields, and, for each oneof
the call has met, the largest of its fields so far. The code adds differences, which may be negative numbers
in an unsigned type; the sum is right modulo `Unsigned` at each step (`Congruent`), and
the map holds that largest size as long as nobody else has stored there.

`IntervalHoldsEverySymbol` is strengthened to `IntervalOK` (within the code values
and not turned over), `CountsOK` (the models of both ends are monotone, with a
total below a quarter of the code values, also after `update_model`: `LoopOK` and `RoomOK` say that
the room a message began with suffices to its end) and `Doubled`
(where a symbol is next, the interval cannot be doubled). An interval that
cannot be doubled is wider than a quarter (`WideInterval`), so the part of a symbol with a
frequency is not empty although both its bounds are rounded down (`PartOfInterval`).
The encoder takes only symbols with a frequency (`EncodedHasFrequency`), and the
decoder's search finds no other (`DecodedHasFrequency`).

That the decoder follows the encoder needs the encoder's run as a whole, and the run is over when the
decoder begins. The invariant (`AInv`) therefore says that there is a `History`: the sequence of
the encoder's states, one for each symbol and each doubling, that produced the field's bits. With the bits
given out so far set aside (`base`) and the doublings counted (`doubled`), the interval
of a state is a part of the numbers from 0 to 1, and each state lies within the ones before it
(`Within`). The bits of the field are enough to tell the last of these parts (`TellAll`).
The decoder is in one of those states, with the number that the bits it took make
(`Placed`). So, when a symbol is certain whatever bits are missing, it is the one that was
encoded (`SymbolIsRight`); when it is not certain, bits of the field are left, because in the last state
every symbol is (`CertainAtLast`); and at the end none is left (`AllUsed`), for the
decoder asks for a bit only while it needs one, and its minimum, by
`SizeWithinBounds`, is not too many. The powers of two and the number that a sequence of bits makes are recursive
functions, about which the lemmas at the head of the module are.

`OwnTagOnTop` is proved of `MutexInv`, the conjunction of `TypeOK`, `MutexCoversStatement`
and `OwnTagOnTop`: only the owner of the mutex pushes and pops, and it is the thread whose
statement is open. `LinesWhole` needs in addition `LinesInv`: what is in the buffer
is of the statement that is open, unless a flush or an exception left text there
(`BufferOfStatement`), and what a slot was given had been such a buffer
(`DisplayedOfStatement`).
`TextKept` compares all the text before a step with all of it after: `FlattenAppend` and
`FlattenLast` say what becomes of it when a line is added or the last one cut off, by the same
induction as for the pools of `FieldCodec`.

The lemmas at the head of `TypedCodecsProofs` are about the remainder of a value: `rounded` takes it
away and adds one resolution or none, so the result is a multiple, and a multiple
stays where it is. Bounds that are accepted are multiples (`BoundsAreMultiples`), so the quantile of a value in bounds is in bounds and its number on
the wire has room. For the time codec, times less than half a span away leave one of the three candidates.
What is left is rounded once more: at a place that it is a multiple of it stays (`RoundedInTheEnd`), and
the second next to a time cut to units is one next to the time, because the middle between two
seconds is a whole number of units and goes up (`SecondOfUnits`).

On these rest the fields. `Contract` is what the message codec needs of a codec: given the bits of
a value with anything behind them, `decode` takes exactly those bits and returns what it may
(`ReadFor`), and there are as many as `size` said, within `min_size` and `max_size`. It is proved codec by codec
(`StringContract`, `VarBytesContract`, `BytesContract`, `NativeContract`, `BoundedContract` for
numbers, truth values, enumerations and times, each with and without `PresenceBitCodec`). What they
share is that the `n` bits of a number below `2^n` make the number again (`UlongOfBits`), by induction on `n`;
that `ceil_log2` is enough of them (`CeilLog2Is`); that a string of bytes is cut at the right places
(`FlattenParts`, `BytesBack`); and, for varints, that the first byte without the mark is the last one
written (`VarintTaken`) and the parts make the number (`VarintIs`). That the longest number is the
largest or the smallest is `NativeMaxSize`. `TwoFieldsInv` lists the states of the two fields: nothing written, one,
both, one read, both, each with the wire as the encodings that are left; `Contract` is what takes one to the
next, and the four properties are read off it. TLC finds `TwoFieldsInv` to hold in every state of `typed`.

Induction over data. The library's induction theorems have an operator as a parameter, which none of the
provers used here can instantiate. Induction over a set does without: `NatSetInduction`
follows from the well-foundedness of `<` on the naturals, and gives what is needed of recursive functions such as
`pow2`, `ulong` and `number`, and of `FlattenSeq`, whose fold is a recursive function. It does not help with RECURSIVE operators.

Only model-checked: `EmbeddedMessage` (recursive operators), `SizeWithinBounds` of
`ArithmeticCodec` (logarithms, and not true of every model), and the logger's liveness.

## 5. Not modelled

* `encode(char*, ...)`, the `decode` of a header only, `info*`, `get_all_error_fields...`,
  and the destructor's closing of libraries: the first two do what the modelled
  forms do on other containers; the rest prints or ends.
* The head of a message in `FieldCodec` (`EmbeddedMessage`, `MessageStack` and `Codec` have
  it), and a head that is longer than the bytes left in the string: the code reads
  behind the end; `Misdecode` covers outcomes within the string only.
* Messages with several oneofs.
* Id codecs written by users, and the units and field codecs of CCL messages.
* In the typed codecs: errors of floating point, dynamic bounds, enumerations of
  version 2 by CRC, what the strict mode throws, the native codec of enumerations.
* The Lua state: a condition is a set of omitted elements (`FieldCodec`) or the value of
  a field of the same message (`EmbeddedMessage`).
* The manager's lookup by C++ type, wire type and group. `Codec` has the names.
* In the arithmetic codec: how values map to symbols, logarithms that round (for
  a frequency of 5 in 20 `min_size_repeated` is one bit too many), totals of adaptive models beyond
  `MAX_FREQUENCY` (see section 3).
* Encryption beyond which key was used.
* The dynamic protobuf manager: a singleton around the descriptor pools of the protobuf
  library, which would have to be modelled from its use here. That adding a
  database replaces the pool whose descriptors a `Codec` may hold
  (`dynamic_protobuf_manager.h:283`) is a hazard no module covers.
* The type helpers (tables), command line tools, the compiler plugin, the Python module, vendored code.

## 6. Plan

Done: the modules of section 2, from the id codecs to embedded messages, with the proofs of
section 4. What is left, in the order of its worth:

1. **CodecManager**: lookup by type and group, two libraries that share a name.
2. A run of the arithmetic codec with logarithms that round as doubles do, and
   `value_to_symbol`.
3. **DynamicProtobufManager**: replacement of the pool under registered descriptors.
4. Proofs: of `EmbeddedMessage`, with recursive functions over the nesting of types instead of
   RECURSIVE operators; and of `FieldCodec` with the codecs of `TypedCodecs` for its elements, by
   the `Contract` of each, where now an element is known by its minimum and its length.
