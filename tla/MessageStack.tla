----------------------------- MODULE MessageStack -----------------------------
(***************************************************************************)
(* The message stack (internal/field_codec_message_stack.cpp): where in a  *)
(* message the codecs of one Codec are.  Every call of FieldCodecBase for  *)
(* a field puts a MessageStack object on the stack of the thread, which    *)
(* pushes on four vectors that all of them share and pops in its           *)
(* destructor what it counted; the calls of one field nest (field_decode() *)
(* calls field_min_size() of the same field, any_decode_repeated() of the  *)
(* same field again), and an object may replace the message that another   *)
(* one pushed.                                                             *)
(*                                                                         *)
(* `calls' is the thread's stack with the counts of each object, and beside *)
(* them what the call is about: that part is no state of the program, it   *)
(* is what the vectors are there to tell the codecs.                       *)
(*                                                                         *)
(* A message is named by its path from the root: a sequence of             *)
(* [field, index].                                                         *)
(***************************************************************************)
EXTENDS Naturals, Integers, Sequences, SequencesExt, FiniteSets

CONSTANTS
  None,       \* nullptr
  Scalar,     \* the message_type() of a field that is no message
  Root,       \* the type of the message a Codec is called for
  Fields,     \* records: id, containing_type, message_type, repeated, in_head
  MaxRepeat   \* max_repeat of the repeated fields

is_message(f) == f.message_type # Scalar

MessageTypes == {Root} \cup {f.containing_type : f \in Fields}
                       \cup {f.message_type : f \in {g \in Fields : is_message(g)}}

Element == [field: Fields, index: Int]
Path == Seq(Element)
Entry == [msg: Path, field: Fields \cup {None}]

\* No message contains itself: load() asks for max_size(), which does not
\* return for a type that does.
ASSUME StackAssumption ==
  /\ \A f \in Fields : f.repeated \in BOOLEAN /\ f.in_head \in {"unset", "HEAD", "BODY"}
  /\ IsFiniteSet(MessageTypes) /\ Scalar \notin MessageTypes
  /\ None \notin Fields /\ None \notin Path /\ None \notin Entry
  /\ MaxRepeat \in Nat
  /\ \E depth \in [MessageTypes -> 0..Cardinality(MessageTypes)] :
       \A f \in Fields :
         is_message(f) => depth[f.message_type] < depth[f.containing_type]

VARIABLES
  data,       \* MessageStackData: desc, field, parts, messages
  calls,      \* the calls under way, each with its MessageStack
  operation,  \* what the Codec is doing; "none" between two base_ calls
  sizes       \* how many elements the repeated fields have

vars == <<data, calls, operation, sizes>>

Operations == {"encode", "decode", "size", "descriptor"}

-----------------------------------------------------------------------------
(* MessageStackData and the Codec's data *)

empty == [desc |-> <<>>, field |-> <<>>, parts |-> <<>>, messages |-> <<>>]

top(s) == IF s = <<>> THEN None ELSE s[Len(s)]

this_field == top(data.field)
this_descriptor == top(data.desc)
this_message == IF data.messages = <<>> THEN None ELSE top(data.messages).msg
current_part == IF data.parts = <<>> THEN "UNKNOWN" ELSE top(data.parts)

\* root_message() is null for what is asked of a descriptor.
has_root_message == operation \in {"encode", "decode", "size"}

GetDescriptor(path) == IF path = <<>> THEN Root ELSE top(path).field.message_type

\* A decoder has added max_repeat elements before it reads the first.
FieldSize(f) == IF operation = "decode" THEN MaxRepeat ELSE sizes[f]

-----------------------------------------------------------------------------
(* A MessageStack: `n' counts what the object pushed. *)

nothing_pushed == [desc |-> 0, field |-> 0, parts |-> 0, messages |-> 0]

\* MUTANT: what is replaced still counts.
push_message_KeepsCount(m, f, index) ==
  LET rooted == IF m.messages = <<>> /\ has_root_message
                THEN [messages |-> <<[msg |-> <<>>, field |-> None]>>, n |-> m.n + 1]
                ELSE m
      same == rooted.messages # <<>> /\ top(rooted.messages).field = f
      cleared == IF same THEN [messages |-> Front(rooted.messages), n |-> rooted.n]
                 ELSE rooted
      parent == top(cleared.messages)
  IN IF ~is_message(f) THEN rooted
     ELSE IF /\ parent # None
             /\ GetDescriptor(parent.msg) = f.containing_type
             /\ f.repeated => index \in 0..(FieldSize(f) - 1)
       THEN [messages |-> Append(cleared.messages,
                [msg |-> Append(parent.msg, [field |-> f, index |-> index]), field |-> f]),
             n |-> cleared.n + 1]
     ELSE cleared

\* push_message(): the root first; then, if the message on top is of the same
\* field, the new one takes its place.  It is pushed only where the message
\* on top has such a field and enough elements.
push_message(m, f, index) ==
  LET rooted == IF m.messages = <<>> /\ has_root_message
                THEN [messages |-> <<[msg |-> <<>>, field |-> None]>>, n |-> m.n + 1]
                ELSE m
      same == rooted.messages # <<>> /\ top(rooted.messages).field = f
      cleared == IF same THEN [messages |-> Front(rooted.messages), n |-> rooted.n - 1]
                 ELSE rooted
      parent == top(cleared.messages)
  IN IF ~is_message(f) THEN rooted
     ELSE IF /\ parent # None
             /\ GetDescriptor(parent.msg) = f.containing_type
             /\ f.repeated => index \in 0..(FieldSize(f) - 1)
       THEN [messages |-> Append(cleared.messages,
                [msg |-> Append(parent.msg, [field |-> f, index |-> index]), field |-> f]),
             n |-> cleared.n + 1]
     ELSE cleared

\* MUTANT: a message that does not say which part it is in is in none.
part_Forgets(f) == IF f.in_head = "unset" THEN "UNKNOWN" ELSE f.in_head

\* The part of the message that a message field is in: the parent's unless
\* the field says so itself.
part(f) == IF f.in_head = "unset" THEN current_part ELSE f.in_head

\* The constructor, for a field: no index is given, which is -1.
constructed(f) ==
  LET m == push_message([messages |-> data.messages, n |-> 0], f, -1)
      nested == IF is_message(f) THEN 1 ELSE 0
  IN [data |-> [desc |-> IF is_message(f) THEN Append(data.desc, f.message_type)
                         ELSE data.desc,
                field |-> Append(data.field, f),
                parts |-> IF is_message(f) THEN Append(data.parts, part(f))
                          ELSE data.parts,
                messages |-> m.messages],
      n |-> [desc |-> nested, field |-> 1, parts |-> nested, messages |-> m.n]]

popped(s, n) == IF n <= 0 THEN s ELSE SubSeq(s, 1, Len(s) - n)

\* The destructor.
destructed(n) ==
  [desc |-> popped(data.desc, n.desc), field |-> popped(data.field, n.field),
   parts |-> popped(data.parts, n.parts), messages |-> popped(data.messages, n.messages)]

-----------------------------------------------------------------------------
(* Calls.  kind is                                                         *)
(*   "codec"     Codec::encode() or decode(), which push the descriptor    *)
(*   "base"      base_encode() and the others                              *)
(*   "field"     field_encode(), field_decode(), field_size(); of a        *)
(*               descriptor also field_max_size() and field_min_size()     *)
(*   "repeated"  field_encode_repeated() and the others                    *)
(*   "elements"  any_encode_repeated() and the others, below "repeated"    *)
(*   "min"       field_min_size() of the field that is being decoded       *)
(* container is the message that has the field, if there is one; index the *)
(* element; in_part the part the field is in.                              *)

call(kind, f, container, in_part, n) ==
  [kind |-> kind, field |-> f, container |-> container, index |-> -1,
   in_part |-> in_part, n |-> n]

\* The message whose fields come next, None if there is none to look at: an
\* element that is not there, a descriptor, a scalar.
traversed(c) ==
  CASE c.kind = "base" -> IF operation = "descriptor" THEN None ELSE <<>>
    [] c.kind \in {"field", "elements"} /\ is_message(c.field) /\ c.container # None ->
         IF c.field.repeated /\ c.index \notin 0..(FieldSize(c.field) - 1) THEN None
         ELSE Append(c.container, [field |-> c.field, index |-> c.index])
    [] OTHER -> None

in_part_of(f, parent) ==
  IF is_message(f) /\ f.in_head # "unset" THEN f.in_head ELSE parent.in_part

enter(kind, f, container) ==
  LET s == constructed(f)
  IN /\ data' = s.data
     /\ calls' = Append(calls, call(kind, f, container, in_part_of(f, top(calls)), s.n))

Init ==
  /\ data = empty
  /\ calls = <<>>
  /\ operation = "none"
  /\ sizes \in [{f \in Fields : f.repeated} -> 0..MaxRepeat]

\* Codec::encode() and decode(): msg_stack.push(msg.GetDescriptor()).
CallCodec ==
  /\ calls = <<>>
  /\ data' = [data EXCEPT !.desc = Append(@, Root)]
  /\ calls' = <<call("codec", None, None, "UNKNOWN", [nothing_pushed EXCEPT !.desc = 1])>>
  /\ UNCHANGED <<operation, sizes>>

\* base_encode() and base_decode() are called with that descriptor pushed,
\* base_size() without; base_max_size() and its like push it themselves.
CallBase(o) ==
  LET pushes == IF o = "descriptor" THEN 1 ELSE 0
  IN /\ operation = "none"
     /\ IF o \in {"encode", "decode"} THEN calls # <<>> ELSE calls = <<>>
     /\ operation' = o
     /\ data' = IF o = "descriptor" THEN [data EXCEPT !.desc = Append(@, Root)] ELSE data
     /\ calls' = Append(calls, call("base", None, None, "UNKNOWN",
                                    [nothing_pushed EXCEPT !.desc = pushes]))
     /\ UNCHANGED sizes

\* traverse_const_message() or any_decode() of a message.
CallField(f) ==
  /\ calls # <<>>
  /\ LET m == traversed(top(calls))
     IN /\ m # None
        /\ f.containing_type = GetDescriptor(m)
        /\ enter(IF f.repeated THEN "repeated" ELSE "field", f, m)
  /\ UNCHANGED <<operation, sizes>>

\* traverse_descriptor(), of the message codec's max_size(), min_size() and
\* its like: also of a message that is absent, or before it is decoded.
CallFieldOfDescriptor(f) ==
  /\ calls # <<>>
  /\ LET c == top(calls)
     IN \/ c.kind = "base" /\ operation \in {"descriptor", "decode"}
        \/ c.kind \in {"field", "elements", "min"} /\ is_message(c.field)
  /\ f.containing_type = this_descriptor
  /\ enter("field", f, None)
  /\ UNCHANGED <<operation, sizes>>

\* field_decode() and field_decode_repeated(): how many bits to transfer.
CallMinSize ==
  /\ operation = "decode"
  /\ calls # <<>>
  /\ top(calls).kind \in {"field", "repeated"}
  /\ top(calls).container # None
  /\ enter("min", top(calls).field, None)
  /\ UNCHANGED <<operation, sizes>>

\* any_encode_repeated(), any_decode_repeated() and any_size_repeated().
CallElements ==
  /\ calls # <<>>
  /\ top(calls).kind = "repeated"
  /\ enter("elements", this_field, top(calls).container)
  /\ UNCHANGED <<operation, sizes>>

\* update_index(): up to an element that is not there.
NextElement ==
  /\ calls # <<>>
  /\ LET c == top(calls)
         m == push_message([messages |-> data.messages, n |-> c.n.messages],
                           this_field, c.index + 1)
     IN /\ c.kind = "elements"
        /\ c.index < MaxRepeat
        /\ data' = [data EXCEPT !.messages = m.messages]
        /\ calls' = [calls EXCEPT ![Len(calls)].index = c.index + 1,
                                  ![Len(calls)].n.messages = m.n]
  /\ UNCHANGED <<operation, sizes>>

\* A call ends, by return or by exception: the destructor of its MessageStack
\* and of BaseRAII run.
Return ==
  /\ calls # <<>>
  /\ data' = destructed(top(calls).n)
  /\ calls' = Front(calls)
  /\ operation' = IF top(calls).kind = "base" THEN "none" ELSE operation
  /\ UNCHANGED sizes

Next ==
  \/ CallCodec
  \/ \E o \in Operations : CallBase(o)
  \/ \E f \in Fields : CallField(f) \/ CallFieldOfDescriptor(f)
  \/ CallMinSize
  \/ CallElements
  \/ NextElement
  \/ Return

Spec == Init /\ [][Next]_vars

-----------------------------------------------------------------------------
(* Properties *)

pushed_by_all(v) ==
  LET pushed[i \in 0..Len(calls)] == IF i = 0 THEN 0 ELSE pushed[i - 1] + calls[i].n[v]
  IN pushed[Len(calls)]

\* Nothing is left behind and nothing is missing: what is on each of the four
\* vectors is what the MessageStack objects that live have counted, though
\* one may have taken the place of a message of another.  So the next call of
\* the Codec starts with empty ones, also after an exception.
CountsMatch ==
  \A v \in {"desc", "field", "parts", "messages"} :
    /\ Len(data[v]) = pushed_by_all(v)
    /\ \A i \in DOMAIN calls : calls[i].n[v] >= 0

\* this_message(), the `this' of the dynamic conditions, is the message that
\* is in work: the one that has the scalar field, the embedded message or the
\* element for a field that is one; where there is no element, the message
\* that has the field.
ThisMessageInWork ==
  \A c \in {top(calls)} :
    calls # <<>> /\ c.container # None =>
      this_message = IF traversed(c) = None THEN c.container ELSE traversed(c)

\* current_part() is that of the innermost message that says in which part it
\* is, for all that check_field() asks on the way back up as well.
PartOfMessageInWork ==
  calls # <<>> => current_part = top(calls).in_part
=============================================================================
