--------------------------- MODULE MCEmbeddedMessage ---------------------------
(* Types for EmbeddedMessage: each embedded once in every way its version   *)
(* has, with a scalar behind it.                                            *)
EXTENDS EmbeddedMessage

Field(label, t) ==
  [label |-> label, type |-> t, min_repeat |-> 0, max_repeat |-> 2,
   condition |-> "none", on |-> 0, in_head |-> "unset",
   visited |-> TRUE, part |-> "UNKNOWN"]

If(condition, f) == [f EXCEPT !.condition = condition, !.on = 1]

Optional == Field("optional", Scalar)
Required == Field("required", Scalar)
AtLeastOne(t) == [Field("repeated", t) EXCEPT !.min_repeat = 1]

Plain == {<<Optional>>, <<Required, Optional>>, <<Field("repeated", Scalar)>>,
          <<Field("optional", <<Optional>>)>>}

Conditional == {<<Required, If(c, Required), Optional>> : c \in {"omit_if"}}
                 \cup {<<Optional, If(c, Optional)>> : c \in {"required_if", "only_if"}}
                 \cup {<<Required, If("omit_if", Field("optional", <<Optional>>))>>}

OneOfThree == {<<Field("oneof", Scalar), Optional, Field("oneof", <<Required>>),
              Field("oneof", <<Optional>>)>>}

\* Fields in the head are of fixed size.
In(f, in_head) == [f EXCEPT !.in_head = in_head]
InHead(f) == In(f, "true")

\* Version 2 looks into an embedded message for the fields of either part.
HeadSchemas2 ==
  {<<InHead(Required), Field(label, <<InHead(Optional), f>>), Optional>> :
     label \in {"optional", "required"}, f \in {Optional, Field("repeated", <<Required>>)}}
  \cup {<<Field("optional", <<InHead(Required), Optional>>), InHead(Optional)>>,
        <<Field("repeated", <<Optional, Required>>), InHead(Optional)>>,
        <<InHead(Field("repeated", <<Required>>)), InHead(Field("repeated", Scalar)), Optional>>}

\* Later versions know a part of the message, which its fields have.
HeadSchemas ==
  {<<Optional, InHead(Field("required", <<Required, In(Optional, "false")>>)), InHead(Optional)>>,
   <<In(Field("optional", <<InHead(Optional), Optional>>), "false"), InHead(Required)>>,
   <<InHead(Required), If("omit_if", Field("optional", <<Required>>)), InHead(Optional)>>}

Around(label, t) == <<Field(label, t), Optional>>

\* A padded element has no value that a condition could ask for.
MCSchemas ==
  {<<2, Around(label, t)>> : label \in {"optional", "required", "repeated"}, t \in Plain}
  \cup {<<3, Around(label, t)>> :
          label \in {"optional", "required", "repeated"}, t \in Plain \cup Conditional}
  \cup {<<4, Around(label, t)>> :
          label \in {"optional", "required", "repeated", "oneof"},
          t \in Conditional \cup OneOfThree}
  \cup {<<v, <<AtLeastOne(t), Optional>>>> : v \in {3, 4}, t \in Plain}
  \cup {<<4, <<AtLeastOne(t), Optional>>>> : t \in OneOfThree}
  \cup {<<2, t>> : t \in HeadSchemas2} \cup {<<v, t>> : v \in {3, 4}, t \in HeadSchemas}
  \cup {<<4, <<InHead(Required), Field("oneof", Scalar), Field("oneof", <<Optional>>)>>>>}
  \cup {<<4, <<In(Field("optional", t), "false"), InHead(Required)>>>> : t \in OneOfThree}

-----------------------------------------------------------------------------
(* The messages of a type, with at most one field of a oneof.  The second    *)
(* one shows what the first has taken: it has one element at most, and its   *)
(* last field is set.                                                        *)

Sequences(S, lengths) == UNION {[1..n -> S] : n \in lengths}

Lengths(f) == CASE f.label = "required" -> {1}
                [] f.label = "repeated" -> 0..f.max_repeat
                [] OTHER -> {0, 1}

Products(sets) ==
  FoldLeft(LAMBDA ms, S : {Append(m, v) : m \in ms, v \in S}, {<<>>}, sets)

RECURSIVE AllMessages(_)
AllMessages(t) ==
  LET values(f) ==
        CASE f.type # Scalar -> AllMessages(f.type)
          [] f.type = Scalar /\ f.label = "repeated" -> {0, 2}
          [] f.type = Scalar /\ f.label = "optional" -> {1}
          [] OTHER -> {0, 1}
  IN {m \in Products([i \in 1..Len(t) |-> Sequences(values(t[i]), Lengths(t[i]))]) :
        \A i, j \in 1..Len(t) :
          t[i].label = "oneof" /\ t[j].label = "oneof" /\ m[i] # <<>> /\ m[j] # <<>>
            => i = j}

AnyMessagesOf(v, t, n) ==
  {m \in AllMessages(t) : n = 1 \/ (Len(m[1]) <= 1 /\ m[Len(t)] # <<>>)}

\* Version 2 loses the wrong elements if one of which nothing arrives is in
\* front of another.
EmptyOnesLast(elements, t) ==
  \A j \in 1..(Len(elements) - 1) :
    arriving(t, elements[j]) = nothing(t) => arriving(t, elements[j + 1]) = nothing(t)

MCMessagesOf(v, t, n) ==
  IF v = 2 /\ t[1].label = "repeated"
    THEN {m \in AnyMessagesOf(v, t, n) : EmptyOnesLast(m[1], t[1].type)}
    ELSE AnyMessagesOf(v, t, n)
=============================================================================
