---------------------------- MODULE MCFieldCodec ----------------------------
(* Every pair of the fields below, in front of a field of fixed size that    *)
(* shows whether the decoder is still in step.                               *)
EXTENDS FieldCodec, TLC

Field(repeated, dynamic, min, longest, lo, hi) ==
  [repeated |-> repeated, dynamic |-> dynamic, min |-> min, longest |-> longest,
   min_repeat |-> lo, max_repeat |-> hi]

number     == Field(FALSE, FALSE, 2, 0, 0, 0)
string     == Field(FALSE, FALSE, 1, 2, 0, 0)
omittable  == Field(FALSE, TRUE, 2, 1, 0, 0)
numbers    == Field(TRUE, FALSE, 2, 0, 1, 3)
strings    == Field(TRUE, FALSE, 1, 1, 0, 2)
always_two == Field(TRUE, FALSE, 1, 1, 2, 2)
omittables == Field(TRUE, TRUE, 1, 1, 0, 2)
at_least_1 == Field(TRUE, TRUE, 2, 0, 1, 3)

Pairs(v, F) == {[version |-> v, fields |-> <<f, g, number>>] : f, g \in F}

\* Dynamic conditions on a repeated field: in version 3, with no minimum.
MCSchemas ==
  Pairs(2, {string, omittable, numbers, strings, always_two}) \cup
  Pairs(3, {string, omittable, omittables, numbers, strings, always_two})

\* So the theorems of FieldCodecProofs are about these schemas.
ASSUME MCSchemasAreCovered ==
  \A s \in MCSchemas : \A i \in 1..Len(s.fields) :
    s.fields[i].repeated /\ s.fields[i].dynamic => s.version > 2 /\ s.fields[i].min_repeat = 0

OmitSchemas == Pairs(3, {string, at_least_1})

\* One element more than fits, each with or without its extra bits; any
\* elements omitted.
FieldValues(f) ==
  LET lengths == IF f.repeated THEN 0..f.max_repeat + 1 ELSE {1}
      indices == 1..(IF f.repeated THEN f.max_repeat ELSE 1)
  IN [elems: UNION {[1..n -> {0, f.longest}] : n \in lengths},
      omit: IF f.dynamic THEN SUBSET indices ELSE {{}}]

MCValuesOf(fields) ==
  FieldValues(fields[1]) \X FieldValues(fields[2]) \X FieldValues(fields[3])
=============================================================================
