--------------------------- MODULE ArithmeticCodec ---------------------------
(***************************************************************************)
(* The arithmetic codec (arithmetic/field_codec_arithmetic.h): the values  *)
(* of a repeated field become one number in an interval that every value   *)
(* narrows in proportion to its frequency.  The interval is kept in        *)
(* CODE_VALUE_BITS bits and doubled whenever its leading bit is known, so  *)
(* that there is room for the next value; the decoder follows it, asking   *)
(* for bits one at a time until a value is certain.  The frequencies of an *)
(* adaptive model count what was encoded and, at the other end, decoded.   *)
(*                                                                         *)
(* A sender encodes one message after the other; each is lost on its way   *)
(* or decoded by a receiver with a Codec of its own.  One step is one      *)
(* iteration of a loop of the code.  A value is known by its symbol.       *)
(***************************************************************************)
EXTENDS Integers, Sequences, FiniteSets, SequencesExt

CONSTANTS
  CODE_VALUE_BITS,  \* 32 in the program
  Models,           \* the ArithmeticModels that set_model() accepted
  FieldsOf(_),      \* what the field may hold under a model, as symbols
  Tails,            \* the bits of the message behind the field
  MaxMessages       \* bound on the messages sent

\* 1 << n.
pow2(n) ==
  LET p[i \in 0..n] == IF i = 0 THEN 1 ELSE 2 * p[i - 1]
  IN p[n]

FIRST_QTR == pow2(CODE_VALUE_BITS - 2)
HALF      == 2 * FIRST_QTR
THIRD_QTR == 3 * FIRST_QTR
TOP_VALUE == 4 * FIRST_QTR - 1
MAX_FREQUENCY == FIRST_QTR - 1

EOF_SYMBOL          == -2
OUT_OF_RANGE_SYMBOL == -1

max_symbol(m) == Len(m.frequency) - 1
Symbols(m) == EOF_SYMBOL..max_symbol(m)

freq(m, s) ==
  IF s = EOF_SYMBOL THEN m.eof_frequency
  ELSE IF s = OUT_OF_RANGE_SYMBOL THEN m.out_of_range_frequency
  ELSE m.frequency[s + 1]

\* The cumulative frequencies of a new model.
cumulative_freqs(m) ==
  LET c[s \in Symbols(m)] == freq(m, s) + (IF s = EOF_SYMBOL THEN 0 ELSE c[s - 1])
  IN c

ModelType ==
  [frequency: Seq(Nat \ {0}), eof_frequency: Nat, out_of_range_frequency: Nat,
   is_adaptive: BOOLEAN, max_repeat: Nat \ {0}]

below(c, s) == IF s = EOF_SYMBOL THEN 0 ELSE c[s - 1]

\* Cumulative frequencies of a model that may have counted: at least its own for
\* every symbol, and a total that the interval has room for.
Counts(m) ==
  {c \in [Symbols(m) -> 0..MAX_FREQUENCY] :
     /\ \A s \in Symbols(m) : below(c, s) + freq(m, s) <= c[s]
     /\ \A s, t \in Symbols(m) : s <= t => c[s] <= c[t]}

\* What _create_and_validate_model() makes sure of.
ASSUME ArithmeticAssumption ==
  /\ CODE_VALUE_BITS \in Nat /\ CODE_VALUE_BITS >= 3
  /\ MaxMessages \in Nat /\ Tails \subseteq Seq({0, 1})
  /\ \A m \in Models :
       /\ m \in ModelType /\ m.frequency # << >>
       /\ cumulative_freqs(m) \in Counts(m)
       /\ FieldsOf(m) \subseteq Seq(Symbols(m) \ {EOF_SYMBOL})

VARIABLES
  model,           \* the model of the field, max_repeat with it
  c_freqs,         \* cumulative frequencies of the encoder and of the decoder
  field,           \* what the message at hand holds
  pc,
  value_index,
  low, high,       \* the interval, of the end that is at work
  bits_to_follow, bits,
  value, bit_stream_offset,
  stream, used,    \* bits that are left for the decoder, and taken
  values,          \* decoded
  lost,            \* a message was encoded that was not decoded in full
  messages         \* how many were sent

interval == <<low, high>>
output == <<bits_to_follow, bits>>
input == <<value, bit_stream_offset, stream, used, values>>
vars == <<model, c_freqs, field, pc, value_index, interval, output, input, lost, messages>>

Init ==
  /\ model \in Models
  /\ c_freqs = [end \in {"encoder", "decoder"} |-> cumulative_freqs(model)]
  /\ field = << >> /\ pc = "idle" /\ value_index = 0
  /\ low = 0 /\ high = TOP_VALUE
  /\ bits_to_follow = 0 /\ bits = << >>
  /\ value = 0 /\ bit_stream_offset = 0
  /\ stream = << >> /\ used = 0 /\ values = << >>
  /\ lost = FALSE /\ messages = 0

\* Only the models outlive a message.
EndMessage ==
  /\ field' = << >> /\ pc' = "idle" /\ value_index' = 0
  /\ low' = 0 /\ high' = TOP_VALUE
  /\ bits_to_follow' = 0 /\ bits' = << >>
  /\ value' = 0 /\ bit_stream_offset' = 0
  /\ stream' = << >> /\ used' = 0 /\ values' = << >>
  /\ UNCHANGED <<model, c_freqs, messages>>

-----------------------------------------------------------------------------
(* The interval *)

total_freq(end) == c_freqs[end][max_symbol(model)]

\* MUTANT: high is the first number above the interval.
Narrow_HalfOpen(end, s) ==
  LET range == high - low + 1 IN
    /\ high' = low + (range * c_freqs[end][s]) \div total_freq(end)
    /\ low'  = low + (range * below(c_freqs[end], s)) \div total_freq(end)

Narrow(end, s) ==
  LET range == high - low + 1 IN
    /\ high' = low + (range * c_freqs[end][s]) \div total_freq(end) - 1
    /\ low'  = low + (range * below(c_freqs[end], s)) \div total_freq(end)

update_model(end, s) ==
  c_freqs' = IF model.is_adaptive
               THEN [c_freqs EXCEPT ![end] =
                       [i \in DOMAIN @ |-> IF i >= s THEN @[i] + 1 ELSE @[i]]]
               ELSE c_freqs

\* Where the interval lies when it can be doubled.
InLower  == high < HALF
InUpper  == low >= HALF

\* MUTANT: an interval around the middle is left as it is.
InMiddle_Never == FALSE

InMiddle == ~InLower /\ ~InUpper /\ low >= FIRST_QTR /\ high < THIRD_QTR

Doubles == InLower \/ InUpper \/ InMiddle

doubling_origin == IF InLower THEN 0 ELSE IF InUpper THEN HALF ELSE FIRST_QTR

Double ==
  /\ Doubles
  /\ low' = 2 * (low - doubling_origin)
  /\ high' = 2 * (high - doubling_origin) + 1

-----------------------------------------------------------------------------
(* Encoding *)

StartEncode(f) ==
  /\ pc = "idle" /\ messages < MaxMessages
  /\ messages' = messages + 1
  /\ field' = f
  /\ pc' = "encode"
  /\ UNCHANGED <<model, c_freqs, value_index, interval, output, input, lost>>

\* The symbol of the value that is next, or EOF.
next_symbol ==
  IF value_index < Len(field) THEN field[value_index + 1] ELSE EOF_SYMBOL

\* What is encoded for it: EOF for a value that is out of range when that has no
\* frequency, and for an EOF without frequency what is meant to be the most
\* probable symbol and is the highest frequency.
stands_for(s, symbol) ==
  LET ending == \/ symbol = EOF_SYMBOL
                \/ symbol = OUT_OF_RANGE_SYMBOL /\ model.out_of_range_frequency = 0
  IN \/ ~ending /\ s = symbol
     \/ ending /\ model.eof_frequency # 0 /\ s = EOF_SYMBOL
     \/ /\ ending /\ model.eof_frequency = 0
        /\ s \in ToSet(model.frequency)
        /\ \A f \in ToSet(model.frequency) : f <= s

\* A symbol the model does not have is undefined behaviour; no step is made.
EncodeSymbol ==
  /\ pc = "encode"
  /\ \E s \in Symbols(model) :
       stands_for(s, next_symbol) /\ Narrow("encoder", s) /\ update_model("encoder", s)
  /\ pc' = "emit"
  /\ UNCHANGED <<model, field, value_index, output, input, lost, messages>>

\* MUTANT: the bits that follow are equal to the first.
bit_plus_follow_Same(b, n) == [i \in 1..n + 1 |-> b]

\* A bit and n opposite ones.
bit_plus_follow(b, n) == << b >> \o [i \in 1..n |-> 1 - b]

EmitBit ==
  /\ pc = "emit" /\ Double
  /\ IF InMiddle
       THEN bits_to_follow' = bits_to_follow + 1 /\ UNCHANGED bits
       ELSE /\ bits' = bits \o bit_plus_follow(IF InLower THEN 0 ELSE 1, bits_to_follow)
            /\ bits_to_follow' = 0
  /\ UNCHANGED <<model, c_freqs, field, pc, value_index, input, lost, messages>>

\* The loop ends behind the EOF or with max_repeat values.
SymbolEncoded ==
  /\ pc = "emit" /\ ~Doubles
  /\ IF value_index = Len(field) \/ value_index + 1 = model.max_repeat
       THEN pc' = "finish" /\ UNCHANGED value_index
       ELSE pc' = "encode" /\ value_index' = value_index + 1
  /\ UNCHANGED <<model, c_freqs, field, interval, output, input, lost, messages>>

\* MUTANT: two bits are enough always.
final_bits_Two == bit_plus_follow(IF low < FIRST_QTR THEN 0 ELSE 1, bits_to_follow + 1)

\* The fewest bits that tell a number of the interval whatever follows them.
final_bits ==
  IF low = 0
    THEN IF high # TOP_VALUE \/ bits_to_follow > 0
           THEN bit_plus_follow(0, bits_to_follow) ELSE << >>
  ELSE IF high = TOP_VALUE
    THEN bit_plus_follow(1, bits_to_follow)
  ELSE bit_plus_follow(IF low < FIRST_QTR THEN 0 ELSE 1, bits_to_follow + 1)

FinishEncode ==
  /\ pc = "finish"
  /\ bits' = bits \o final_bits
  /\ bits_to_follow' = 0
  /\ pc' = "sent"
  /\ UNCHANGED <<model, c_freqs, field, value_index, interval, input, lost, messages>>

\* The message does not arrive, or a later field made encode() throw.
Lose ==
  /\ pc = "sent"
  /\ lost' = TRUE
  /\ EndMessage

-----------------------------------------------------------------------------
(* Sizes *)

\* The least k with 2^k >= n / d: ceil(log2(n) - log2(d)), were the logarithms
\* exact.  As doubles they are not, and for 20 and 5 give 3.
ceil_log2(n, d) ==
  LET k[q \in Nat] == IF q <= 1 THEN 0 ELSE 1 + k[(q + 1) \div 2]
  IN k[(n + d - 1) \div d]

symbols_size(r, T, f) == ceil_log2(T^r, f^r)

initial_total(m) == cumulative_freqs(m)[max_symbol(m)]
frequencies(m) == ToSet(m.frequency)

\* MUTANT: the last bit, for an interval that is not aligned, is forgotten.
max_size_repeated_NotAligned(m) ==
  LET T == initial_total(m)
      r == m.max_repeat
      lowest == Min(frequencies(m) \cup
                    (IF m.out_of_range_frequency = 0 THEN {} ELSE {m.out_of_range_frequency}))
      with_eof == IF m.eof_frequency = 0 THEN 0
                  ELSE ceil_log2(T^r, lowest^(r - 1) * m.eof_frequency)
  IN Max({symbols_size(r, T, lowest), with_eof})

max_size_repeated(m) ==
  LET T == initial_total(m)
      r == m.max_repeat
      lowest == Min(frequencies(m) \cup
                    (IF m.out_of_range_frequency = 0 THEN {} ELSE {m.out_of_range_frequency}))
      with_eof == IF m.eof_frequency = 0 THEN 0
                  ELSE ceil_log2(T^r, lowest^(r - 1) * m.eof_frequency)
  IN Max({symbols_size(r, T, lowest), with_eof}) + 1

\* The decoder takes these bits before it looks at any.
min_size_repeated(m) ==
  LET T == initial_total(m)
      highest == Max(frequencies(m) \cup {m.out_of_range_frequency})
      full == symbols_size(m.max_repeat, T, highest)
  IN IF m.is_adaptive THEN 0
     ELSE IF m.eof_frequency = 0 THEN full
     ELSE Min({symbols_size(1, T, m.eof_frequency), full})

-----------------------------------------------------------------------------
(* Decoding *)

\* The number that the first bits are, the most significant in front.
number(b) ==
  LET n[j \in 0..Len(b)] == IF j = 0 THEN 0 ELSE 2 * n[j - 1] + b[j]
  IN n

\* The first CODE_VALUE_BITS of some bits, as the leading bits of a code value.
leading_value(b) ==
  LET n == Min({Len(b), CODE_VALUE_BITS})
  IN number(b)[n] * pow2(CODE_VALUE_BITS - n)

StartDecode(tail) ==
  /\ pc = "sent"
  /\ LET arrived == bits \o tail
         n == min_size_repeated(model)
     IN IF Len(arrived) < n
          THEN pc' = "thrown" /\ UNCHANGED <<value_index, interval, input>>
          ELSE /\ value' = leading_value(SubSeq(arrived, 1, n))
               /\ bit_stream_offset' = CODE_VALUE_BITS - n
               /\ stream' = SubSeq(arrived, n + 1, Len(arrived))
               /\ used' = n /\ values' = << >>
               /\ low' = 0 /\ high' = TOP_VALUE
               /\ value_index' = 0
               /\ pc' = "decode"
  /\ UNCHANGED <<model, c_freqs, field, output, lost, messages>>

\* The highest number whose known bits are those of value.
value_high == value + (IF bit_stream_offset > 0 THEN pow2(bit_stream_offset) - 1 ELSE 0)

\* Unsigned, and as wide as a code value.
freq_type == 0..TOP_VALUE

cumulative_freq(v) ==
  (((v - low + 1) * total_freq("decoder") - 1) \div (high - low + 1)) % (TOP_VALUE + 1)

\* The symbol of the lowest number possible; the first of a pair that nothing
\* was assigned to is 0.
first_symbol(s) ==
  LET c == c_freqs["decoder"]
      search == cumulative_freq(value)
  IN /\ search \in freq_type
     /\ \/ search < c[s] /\ \A t \in Symbols(model) : t < s => c[t] <= search
        \/ s = 0 /\ \A t \in Symbols(model) : c[t] <= search

\* It is that of every number possible.
Unambiguous(s) ==
  s = max_symbol(model) \/ c_freqs["decoder"][s] > cumulative_freq(value_high)

GetBit ==
  /\ pc = "decode"
  /\ \E s \in Symbols(model) : first_symbol(s) /\ ~Unambiguous(s)
  /\ IF stream = << >>
       THEN pc' = "thrown" /\ UNCHANGED <<value, bit_stream_offset, stream, used>>
       ELSE /\ bit_stream_offset' = bit_stream_offset - 1
            /\ value' = value + Head(stream) * pow2(bit_stream_offset')
            /\ stream' = Tail(stream)
            /\ used' = used + 1
            /\ UNCHANGED pc
  /\ UNCHANGED <<model, c_freqs, field, value_index, interval, output, values, lost, messages>>

\* MUTANT: the loop is left at the EOF before the model is updated.
DecodeSymbol_EofNotCounted ==
  /\ pc = "decode"
  /\ \E s \in Symbols(model) :
       /\ first_symbol(s) /\ Unambiguous(s)
       /\ Narrow("decoder", s)
       /\ IF s = EOF_SYMBOL
            THEN pc' = "decoded" /\ UNCHANGED <<values, c_freqs>>
            ELSE pc' = "shift" /\ values' = Append(values, s) /\ update_model("decoder", s)
  /\ UNCHANGED <<model, field, value_index, output, value, bit_stream_offset, stream, used,
                 lost, messages>>

DecodeSymbol ==
  /\ pc = "decode"
  /\ \E s \in Symbols(model) :
       /\ first_symbol(s) /\ Unambiguous(s)
       /\ Narrow("decoder", s) /\ update_model("decoder", s)
       /\ IF s = EOF_SYMBOL
            THEN pc' = "decoded" /\ UNCHANGED values
            ELSE pc' = "shift" /\ values' = Append(values, s)
  /\ UNCHANGED <<model, field, value_index, output, value, bit_stream_offset, stream, used,
                 lost, messages>>

ShiftBit ==
  /\ pc = "shift" /\ Double
  /\ value' = 2 * (value - doubling_origin)
  /\ bit_stream_offset' = bit_stream_offset + 1
  /\ UNCHANGED <<model, c_freqs, field, pc, value_index, output, stream, used, values,
                 lost, messages>>

SymbolDecoded ==
  /\ pc = "shift" /\ ~Doubles
  /\ value_index' = value_index + 1
  /\ pc' = IF value_index + 1 = model.max_repeat THEN "decoded" ELSE "decode"
  /\ UNCHANGED <<model, c_freqs, field, interval, output, input, lost, messages>>

\* decode() returns to the application, with the message or by an exception.
EndDecode ==
  /\ pc \in {"decoded", "thrown"}
  /\ lost' = (lost \/ pc = "thrown")
  /\ EndMessage

-----------------------------------------------------------------------------
\* Without a frequency for EOF all the values have to be there.
FilledIfNecessary(f) == model.eof_frequency = 0 => Len(f) >= model.max_repeat

\* A value that is out of range, without a frequency for that, has to be the last
\* there is room for: the encoder goes on behind the EOF that stands in for it,
\* where the decoder stops.
OutOfRangeIsLast(f) ==
  model.out_of_range_frequency = 0 =>
    \A i \in 1..Min({Len(f), model.max_repeat}) :
      f[i] = OUT_OF_RANGE_SYMBOL => i = model.max_repeat /\ model.eof_frequency # 0

\* Bound: the totals of both ends have room for another message.  The code looks
\* at the total of a new model only; how far a model counts before the interval
\* is too narrow for it depends on how close its own total is to MAX_FREQUENCY.
HasRoom ==
  model.is_adaptive =>
    \A end \in DOMAIN c_freqs : total_freq(end) + model.max_repeat <= MAX_FREQUENCY

Work ==
  \/ EncodeSymbol \/ EmitBit \/ SymbolEncoded \/ FinishEncode \/ Lose
  \/ \E tail \in Tails : StartDecode(tail)
  \/ GetBit \/ DecodeSymbol \/ ShiftBit \/ SymbolDecoded \/ EndDecode

Next ==
  \/ Work
  \/ \E f \in FieldsOf(model) :
       HasRoom /\ FilledIfNecessary(f) /\ OutOfRangeIsLast(f) /\ StartEncode(f)

Spec == Init /\ [][Next]_vars

-----------------------------------------------------------------------------
(* Properties *)

Bits == Seq({0, 1})

TypeOK ==
  /\ model \in Models
  /\ DOMAIN c_freqs = {"encoder", "decoder"}
  /\ \A end \in DOMAIN c_freqs : c_freqs[end] \in [Symbols(model) -> 0..MAX_FREQUENCY]
  /\ pc \in {"idle", "encode", "emit", "finish", "sent", "decode", "shift", "decoded", "thrown"}
  /\ value_index \in 0..model.max_repeat
  /\ low \in 0..TOP_VALUE /\ high \in 0..TOP_VALUE
  /\ bits_to_follow \in Nat /\ bits \in Bits
  /\ value \in 0..TOP_VALUE /\ bit_stream_offset \in Int
  /\ stream \in Bits /\ used \in Nat
  /\ values \in Seq(Symbols(model) \ {EOF_SYMBOL})
  /\ lost \in BOOLEAN /\ messages \in 0..MaxMessages

\* However the interval was narrowed, doubled and shifted, it has not turned
\* over, and whenever a symbol is next there is a number in it for every
\* symbol: the doubling at low and high has kept more than a quarter of the
\* code values (field_codec_arithmetic.h:311 and :470), which is what
\* MAX_FREQUENCY is for.
IntervalHoldsEverySymbol ==
  /\ low <= high
  /\ pc = "encode" => total_freq("encoder") <= high - low + 1
  /\ pc = "decode" => total_freq("decoder") <= high - low + 1

\* The models of both ends have counted the same symbols; of a model that does
\* not adapt that is always so.
InStep == ~lost \/ ~model.is_adaptive

\* After every message, whatever the models learned from it, both ends have
\* learned the same (field_codec_arithmetic.h:309 and :460); only a message
\* that did not come through separates them, for good.
ModelsInStep == pc = "idle" /\ InStep => c_freqs["encoder"] = c_freqs["decoder"]

arriving_values ==
  LET f == SubSeq(field, 1, Min({Len(field), model.max_repeat})) IN
    IF f # << >> /\ Last(f) = OUT_OF_RANGE_SYMBOL /\ model.out_of_range_frequency = 0
      THEN Front(f) ELSE f

\* The receiver decodes the values that were sent, whatever bits come behind
\* them.
DecodesWhatWasEncoded == pc = "decoded" /\ InStep => values = arriving_values

\* It takes the bits that were encoded, no more and no less: what follows
\* belongs to the next field.  field_codec_arithmetic.h:503: "must consume same
\* bits as encoded makes", which the code asserts when debug_assert is set.
ConsumesWhatWasProduced ==
  /\ pc = "decoded" /\ InStep => used = Len(bits)
  /\ pc = "thrown" => ~InStep

\* The encoding of a static model is within the sizes load() and the decoder
\* count with (field_codec_arithmetic.h:526, :564), and what the decoder takes
\* at once fits in a code value (:564, :419).
SizeWithinBounds ==
  pc = "sent" /\ ~model.is_adaptive =>
    /\ min_size_repeated(model) \in 0..CODE_VALUE_BITS
    /\ min_size_repeated(model) <= Len(bits) /\ Len(bits) <= max_size_repeated(model)
=============================================================================
