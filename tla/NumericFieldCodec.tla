-------------------------- MODULE NumericFieldCodec --------------------------
(***************************************************************************)
(* DefaultNumericFieldCodec (codecs2/field_codec_default.h) and the        *)
(* quantize() of common.h it rests on: a bounded number becomes the count  *)
(* of quantiles above the minimum.  Numbers are counted in parts fine      *)
(* enough for min, max and resolution of the field to be integers.  A      *)
(* number f has                                                            *)
(*   min, max, res : the bounds and the resolution                         *)
(*   unit          : the parts of 1 for an integer type, 0 for another     *)
(*   required      : use_required()                                        *)
(* The WireType is taken to hold max - min: it does for every floating     *)
(* point field; for a signed integer whose range is half of all the values *)
(* or more `wire_value -= min` is undefined.  So is it to hold min.        *)
(***************************************************************************)
EXTENDS Integers

\* The value of an absent field.
CONSTANT Null

ASSUME NullAssumption == Null \notin Int

\* v % r in C++: the sign is that of v.
remainder(v, r) == IF v >= 0 THEN v % r ELSE -((-v) % r)

\* round() and quantize(): of an integer what is over a multiple is compared with
\* half of the interval; another number is rounded by floor(v / r + 0.5).
rounded(whole, v, r) ==
  IF whole
    THEN LET rem == remainder(v, r)
         IN v - rem + (IF 2 * rem >= r THEN r ELSE 0)
    ELSE ((2 * v + r) \div (2 * r)) * r

\* An integer type whose interval is not an integer.
fractional(unit, r) == unit > 0 /\ r % unit # 0

\* quantize(): an integer is not rounded to an interval that is none.
quantize(unit, v, r) == IF fractional(unit, r) THEN v ELSE rounded(unit > 0, v, r)

\* What a cast to the type leaves of a number.
whole_part(unit, v) == IF unit = 0 THEN v ELSE v - remainder(v, unit)

\* validate(): min and max are multiples of the resolution, as doubles.
valid(f) ==
  /\ f.res > 0
  /\ f.min <= f.max
  /\ quantize(0, f.min, f.res) = f.min
  /\ quantize(0, f.max, f.res) = f.max

null_values(f) == IF f.required THEN 0 ELSE 1

\* How many values size() makes room for.
wire_values(f) == (f.max - f.min) \div f.res + 1 + null_values(f)

in_bounds(f, v) ==
  LET q == quantize(f.unit, v, f.res) IN f.min <= q /\ q <= f.max

\* MUTANT: the bounds are checked before the value is rounded.
to_wire_ChecksFirst(f, v) ==
  IF v = Null \/ ~(f.min <= v /\ v <= f.max) THEN 0
  ELSE (quantize(f.unit, v, f.res) - f.min) \div f.res + null_values(f)

\* encode(), up to the bits: 0 for none and, unless the codec is strict, for
\* what is out of bounds.
to_wire(f, v) ==
  IF v = Null THEN 0
  ELSE IF ~in_bounds(f, v) THEN 0
  ELSE (quantize(f.unit, v, f.res) - f.min) \div f.res + null_values(f)

\* decode(), from the bits as a number: NullValueException is Null.
from_wire(f, n) ==
  IF ~f.required /\ n = 0 THEN Null
  ELSE quantize(f.unit, whole_part(f.unit, (n - null_values(f)) * f.res) + f.min, f.res)

\* MUTANT: a time is never taken for tomorrow's.
day_NotTomorrow(f, e, clock) ==
  LET seconds == clock - (clock % f.second)
      today == seconds % f.max
  IN IF e - today > f.max \div 2 THEN seconds - today - f.max ELSE seconds - today

\* TimeCodecBase::post_decode(): the beginning of the span that the time e of
\* a message belongs to, by a clock that is cut to seconds of f.second units:
\* not more than half a span away.
day(f, e, clock) ==
  LET seconds == clock - (clock % f.second)
      today == seconds % f.max
  IN IF e - today > f.max \div 2 THEN seconds - today - f.max
     ELSE IF today - e > f.max \div 2 THEN seconds - today + f.max
     ELSE seconds - today

=============================================================================
