---------------------------- MODULE MCTypedCodecs ----------------------------
(* Fields for TypedCodecs: every codec in every version whose code differs, *)
(* with bounds that are, and are not, a power of two apart.                  *)
EXTENDS TypedCodecs

Field(codec, version, label) ==
  [codec |-> codec, version |-> version, label |-> label, presence |-> FALSE,
   packed |-> TRUE, unit |-> 1]

Labels == {"required", "optional"}

Numbers ==
  {Field("numeric", version, label)
     @@ [min |-> -4, max |-> 8, res |-> 4] : version \in {2, 4}, label \in Labels}
  \cup {Field("numeric", 4, "optional") @@ [min |-> -8, max |-> -4, res |-> 4]}
  \cup {[Field("numeric", 4, label) EXCEPT !.unit = 0, !.presence = presence]
          @@ [min |-> -3, max |-> 6, res |-> 3] :
            label \in {"oneof", "optional"}, presence \in BOOLEAN}
  \cup {[Field("numeric", 3, "repeated") EXCEPT !.presence = TRUE]
          @@ [min |-> 1, max |-> 8, res |-> 1]}
  \cup {[Field("numeric", 4, "optional") EXCEPT !.unit = 2] @@ [min |-> 0, max |-> 12, res |-> 3]}

Enums ==
  {[Field("enum", 4, label) EXCEPT !.packed = packed, !.presence = presence]
     @@ [numbers |-> <<-1, 3, 1>>] :
       label \in Labels, packed \in BOOLEAN, presence \in BOOLEAN}
  \cup {[Field("enum", 2, "optional") EXCEPT !.packed = FALSE]
          @@ [numbers |-> <<-1, 3, 1>>]}

Bools == {Field("bool", version, label) :
            version \in {2, 3}, label \in Labels \cup {"repeated"}}

\* A span of four seconds, counted in quarters; at a resolution of a second or
\* less, by a double or by an integer of half seconds.
Time(unit, res, precise) ==
  [Field("time", 4, "optional") EXCEPT !.unit = unit]
     @@ [max |-> 16, res |-> res, second |-> 4, precise |-> precise]

Times == {Time(0, 4, FALSE), Time(0, 2, FALSE), Time(0, 2, TRUE), Time(2, 1, FALSE),
          Time(2, 1, TRUE), Time(2, 2, TRUE)}

Strings ==
  {Field(codec[1], codec[2], label) @@ [max_length |-> 2] :
     codec \in {<<"string", 2>>, <<"string", 3>>, <<"var_bytes", 3>>, <<"var_bytes", 4>>,
                <<"bytes", 2>>},
     label \in Labels}

Natives ==
  {Field("native", 3, label) @@ form :
     label \in Labels,
     form \in {[form |-> "varint", signed |-> FALSE, width |-> 3, type_width |-> 3],
               [form |-> "varint", signed |-> TRUE, width |-> 5, type_width |-> 3],
               [form |-> "zigzag", signed |-> TRUE, width |-> 3, type_width |-> 3],
               [form |-> "fixed", signed |-> TRUE, width |-> 4, type_width |-> 4]}}

Statics == {Field("static", 4, "optional") @@ [static_value |-> 1]}

MCFields == Numbers \cup Enums \cup Bools \cup Times \cup Strings \cup Natives \cup Statics

\* An absent value where the message codec lets one through.
None(f) == IF f.label = "optional" THEN {Null} ELSE {}

OfType(f, S) == {v \in S : f.unit > 0 => v % f.unit = 0}

MCValuesOf(f) ==
  None(f) \cup
  (CASE f.codec = "numeric" -> OfType(f, (f.min - f.res)..(f.max + f.res))
     [] f.codec = "enum" -> Range(f.numbers)
     [] f.codec = "bool" -> {0, 1}
     [] f.codec = "time" -> OfType(f, {16, 19, 22, 24, 26, 29, 32})
     [] f.codec = "native" -> numbers(f)
     [] f.codec = "static" -> {1}
     [] OTHER -> {<<>>, <<2>>, <<0, 3>>, <<1, 0, 3>>})

\* Five seconds in a row, three of them at their last quarter.
MCClocks == {23, 24, 28, 35, 39}
=============================================================================
