---------------------------- MODULE OneofMaxSize ----------------------------
(***************************************************************************)
(* max_size() of a version 4 message that has oneofs.  A oneof counts for  *)
(* its largest field, which DefaultMessageCodec::MaxSize finds with the    *)
(* help of a static map from the name of the oneof to the largest size     *)
(* seen so far: every Codec of the process, whichever thread it belongs    *)
(* to, reads and writes it, and no mutex guards it.  The map is never      *)
(* reset; the sum is right all the same when nothing interferes, because   *)
(* what it starts from is what the differences are taken against.          *)
(*                                                                         *)
(* One step is one access to the map.  (Two inserts at once may also break *)
(* the unordered_map itself; that outcome is not modelled.)                *)
(***************************************************************************)
EXTENDS Integers, Sequences, FiniteSets

CONSTANTS
  Threads,     \* each with a Codec of its own
  Oneofs,      \* the number of oneof declarations of the message
  Fields,      \* its fields in order: the oneof each is in, and its max_size
  Plain,       \* the "oneof" of a field that is in none
  Unsigned,    \* unsigned arithmetic is modulo this (2^32 in the program)
  MaxCalls     \* bound on the calls of max_size() per thread

ASSUME OneofAssumption ==
  /\ Oneofs \in Nat /\ Unsigned \in Nat \ {0} /\ MaxCalls \in Nat
  /\ Fields \in Seq([oneof: 1..Oneofs \cup {Plain}, size: 0..Unsigned - 1])
  /\ Plain \notin 1..Oneofs

VARIABLES
  oneofs_max_size,  \* the map; an absent key is 0
  pc,               \* per thread: where it is in traverse_descriptor<MaxSize>
  at,               \*   the oneof or field it is at
  return_value,
  new_max_size,
  disturbed,        \*   another thread was in the traversal meanwhile
  calls,            \*   calls made
  last              \*   the result of the last call, and if it was disturbed

locals == <<pc, at, return_value, new_max_size>>
history == <<disturbed, calls, last>>
vars == <<oneofs_max_size, locals, history>>

-----------------------------------------------------------------------------
\* oneof_size(): bits for the case, which field is set or none; ceil_log2(n) is
\* the number of powers of two below n.
case_bits(o) ==
  LET n == Cardinality({i \in 1..Len(Fields) : Fields[i].oneof = o}) + 1
  IN Cardinality({b \in 0..n : 2^b < n})

\* The sizes of the fields of o, and 0 for a oneof not seen yet.
sizes(o) == {0} \cup {Fields[i].size : i \in {j \in 1..Len(Fields) : Fields[j].oneof = o}}

Init ==
  /\ oneofs_max_size = [o \in 1..Oneofs |-> 0]
  /\ pc = [t \in Threads |-> "idle"]
  /\ at = [t \in Threads |-> 1]
  /\ return_value = [t \in Threads |-> 0]
  /\ new_max_size = [t \in Threads |-> 0]
  /\ disturbed = [t \in Threads |-> FALSE]
  /\ calls = [t \in Threads |-> 0]
  /\ last = [t \in Threads |-> << >>]

Others(t) == {u \in Threads \ {t} : pc[u] # "idle"}

this_oneof(t) == Fields[at[t]].oneof
this_size(t) == Fields[at[t]].size

Plus(x, y) == (x + y) % Unsigned

\* max_size() is called, by load() among others.
Call(t) ==
  /\ pc[t] = "idle" /\ calls[t] < MaxCalls
  /\ calls' = [calls EXCEPT ![t] = @ + 1]
  /\ pc' = [pc EXCEPT ![t] = "oneofs"]
  /\ at' = [at EXCEPT ![t] = 1]
  /\ return_value' = [return_value EXCEPT ![t] = 0]
  /\ disturbed' = [u \in Threads |->
       IF u = t THEN Others(t) # {} ELSE disturbed[u] \/ u \in Others(t)]
  /\ UNCHANGED <<oneofs_max_size, new_max_size, last>>

\* MaxSize::oneof()
oneof(t) ==
  /\ pc[t] = "oneofs" /\ at[t] <= Oneofs
  /\ return_value' = [return_value EXCEPT
       ![t] = Plus(Plus(@, case_bits(at[t])), oneofs_max_size[at[t]])]
  /\ at' = [at EXCEPT ![t] = @ + 1]
  /\ UNCHANGED <<oneofs_max_size, pc, new_max_size, history>>

OneofsDone(t) ==
  /\ pc[t] = "oneofs" /\ at[t] > Oneofs
  /\ pc' = [pc EXCEPT ![t] = "fields"]
  /\ at' = [at EXCEPT ![t] = 1]
  /\ UNCHANGED <<oneofs_max_size, return_value, new_max_size, history>>

\* MaxSize::field() of a field that is in no oneof.
PlainField(t) ==
  /\ pc[t] = "fields" /\ at[t] <= Len(Fields) /\ this_oneof(t) = Plain
  /\ return_value' = [return_value EXCEPT ![t] = Plus(@, this_size(t))]
  /\ at' = [at EXCEPT ![t] = @ + 1]
  /\ UNCHANGED <<oneofs_max_size, pc, new_max_size, history>>

\* MUTANT: the size of the field is added to what was seen.
FindMax_Sums(t) ==
  /\ pc[t] = "fields" /\ at[t] <= Len(Fields) /\ this_oneof(t) # Plain
  /\ new_max_size' = [new_max_size EXCEPT
       ![t] = this_size(t) + oneofs_max_size[this_oneof(t)]]
  /\ pc' = [pc EXCEPT ![t] = "add"]
  /\ UNCHANGED <<oneofs_max_size, at, return_value, history>>

\* MaxSize::field(): the three accesses.
FindMax(t) ==
  /\ pc[t] = "fields" /\ at[t] <= Len(Fields) /\ this_oneof(t) # Plain
  /\ new_max_size' = [new_max_size EXCEPT
       ![t] = IF this_size(t) > oneofs_max_size[this_oneof(t)]
                THEN this_size(t) ELSE oneofs_max_size[this_oneof(t)]]
  /\ pc' = [pc EXCEPT ![t] = "add"]
  /\ UNCHANGED <<oneofs_max_size, at, return_value, history>>

\* MUTANT: the whole of the new maximum is added.
AddDifference_AddsAll(t) ==
  /\ pc[t] = "add"
  /\ return_value' = [return_value EXCEPT ![t] = Plus(@, new_max_size[t])]
  /\ pc' = [pc EXCEPT ![t] = "store"]
  /\ UNCHANGED <<oneofs_max_size, at, new_max_size, history>>

\* MUTANT: the difference is signed, and so is the sum.
AddDifference_Signed(t) ==
  /\ pc[t] = "add"
  /\ return_value' = [return_value EXCEPT
       ![t] = @ + new_max_size[t] - oneofs_max_size[this_oneof(t)]]
  /\ pc' = [pc EXCEPT ![t] = "store"]
  /\ UNCHANGED <<oneofs_max_size, at, new_max_size, history>>

AddDifference(t) ==
  /\ pc[t] = "add"
  /\ return_value' = [return_value EXCEPT
       ![t] = Plus(@, new_max_size[t] - oneofs_max_size[this_oneof(t)])]
  /\ pc' = [pc EXCEPT ![t] = "store"]
  /\ UNCHANGED <<oneofs_max_size, at, new_max_size, history>>

Store(t) ==
  /\ pc[t] = "store"
  /\ oneofs_max_size' = [oneofs_max_size EXCEPT ![this_oneof(t)] = new_max_size[t]]
  /\ pc' = [pc EXCEPT ![t] = "fields"]
  /\ at' = [at EXCEPT ![t] = @ + 1]
  /\ UNCHANGED <<return_value, new_max_size, history>>

Done(t) ==
  /\ pc[t] = "fields" /\ at[t] > Len(Fields)
  /\ pc' = [pc EXCEPT ![t] = "idle"]
  /\ last' = [last EXCEPT ![t] = <<return_value[t], disturbed[t]>>]
  /\ UNCHANGED <<oneofs_max_size, at, return_value, new_max_size, disturbed, calls>>

Next ==
  \E t \in Threads :
    \/ Call(t) \/ oneof(t) \/ OneofsDone(t) \/ PlainField(t)
    \/ FindMax(t) \/ AddDifference(t) \/ Store(t) \/ Done(t)

Spec == Init /\ [][Next]_vars

-----------------------------------------------------------------------------
(* Properties *)

\* What max_size() should return.
TrueMaxSize ==
  LET largest(o)    == CHOOSE m \in sizes(o) : \A n \in sizes(o) : n <= m
      oneofs[o \in 0..Oneofs] ==
        IF o = 0 THEN 0 ELSE oneofs[o - 1] + case_bits(o) + largest(o)
      plain[i \in 0..Len(Fields)] ==
        IF i = 0 THEN 0
        ELSE plain[i - 1] + (IF Fields[i].oneof = Plain THEN Fields[i].size ELSE 0)
  IN (oneofs[Oneofs] + plain[Len(Fields)]) % Unsigned

TypeOK ==
  /\ oneofs_max_size \in [1..Oneofs -> Nat]
  /\ pc \in [Threads -> {"idle", "oneofs", "fields", "add", "store"}]
  /\ at \in [Threads -> Nat \ {0}]
  /\ return_value \in [Threads -> 0..Unsigned - 1]
  /\ new_max_size \in [Threads -> Nat]
  /\ disturbed \in [Threads -> BOOLEAN]

\* Whatever races have left in the map, a lost update included, is the size of
\* a field of that oneof, so never more than the largest: a later call may
\* start from it, and the map need not be reset.
MapHoldsAFieldSize == \A o \in 1..Oneofs : oneofs_max_size[o] \in sizes(o)

\* A max_size() that no other interferes with is right, whatever earlier calls
\* have done to the map or to one another
\* (codecs4/field_codec_default_message.h:158).
AloneIsRight ==
  \A t \in Threads : last[t] # << >> /\ ~last[t][2] => last[t][1] = TrueMaxSize
=============================================================================
