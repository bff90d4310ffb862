-------------------------- MODULE MessageStackProofs --------------------------
(***************************************************************************)
(* The message stack tells the codecs where they are, for any message      *)
(* types that do not contain themselves, any number of elements and any    *)
(* nesting of calls.                                                       *)
(*                                                                         *)
(* The invariant gives every call under way the four vectors as they were  *)
(* when that call was the innermost one: S[i] for the i-th call, S[0] the  *)
(* empty ones.  What a call has counted is the difference between its      *)
(* vectors and those of the call around it, so that its destructor uncovers *)
(* these, and with them everything that the invariant says of the call     *)
(* around it.  A message that takes the place of another call's message is *)
(* that same message, which holds only because no message contains itself. *)
(***************************************************************************)
EXTENDS MessageStack, SequenceTheorems, FiniteSetTheorems, WellFoundedInduction, TLAPS

-----------------------------------------------------------------------------
(* The invariant *)

Parts == {"UNKNOWN", "HEAD", "BODY"}

Data == [desc: Seq(MessageTypes), field: Seq(Fields), parts: Seq(Parts),
         messages: Seq(Entry)]
Counts == [desc: Nat, field: Nat, parts: Nat, messages: Nat]

FieldKinds == {"field", "repeated", "elements", "min"}

Call == [kind: {"codec", "base"} \cup FieldKinds, field: Fields \cup {None},
         container: Path \cup {None}, index: Int, in_part: Parts, n: Counts]

\* traversed(), with what it reads of the state as parameters.
message_of(c, op, sz) ==
  IF c.kind = "base" THEN IF op = "descriptor" THEN None ELSE <<>>
  ELSE IF /\ c.kind \in {"field", "elements"} /\ is_message(c.field) /\ c.container # None
          /\ c.field.repeated =>
               c.index \in 0..((IF op = "decode" THEN MaxRepeat ELSE sz[c.field]) - 1)
    THEN Append(c.container, [field |-> c.field, index |-> c.index])
  ELSE None

in_work(c, op, sz) ==
  IF message_of(c, op, sz) = None THEN c.container ELSE message_of(c, op, sz)

depth == CHOOSE d \in [MessageTypes -> 0..Cardinality(MessageTypes)] :
           \A f \in Fields : is_message(f) => d[f.message_type] < d[f.containing_type]

\* Each message on the stack is in the one below it, by the field it is noted with.
Chain(M) ==
  \A k \in 1..Len(M) :
    IF k = 1 THEN M[k] = [msg |-> <<>>, field |-> None]
    ELSE /\ M[k].field \in Fields /\ is_message(M[k].field)
         /\ \E j \in Int : M[k].msg = Append(M[k - 1].msg, [field |-> M[k].field, index |-> j])

\* The type whose fields may be called for during a call for f.
inside(f) == IF is_message(f) THEN f.message_type ELSE f.containing_type

\* The message on top is the one whose type is t, or one that t is somewhere below.
Above(M, t) ==
  M # <<>> => LET T == GetDescriptor(top(M).msg) IN T = t \/ depth[T] > depth[t]

\* s is p and n more on top, which is what a destructor needs to uncover p.
OnTopOf(s, p, n) == Len(s) = Len(p) + n /\ SubSeq(s, 1, Len(p)) = p

Pushed(c, s, p) ==
  \A v \in {"desc", "field", "parts", "messages"} : OnTopOf(s[v], p[v], c.n[v])

\* c is the innermost call and s the vectors.
\* Outside of the fields there is no message yet.
Outside(c, s, op) ==
  /\ c.kind \in {"codec", "base"}
  /\ c.container = None /\ c.in_part = "UNKNOWN" /\ s.messages = <<>>
  /\ s.parts = <<>>
  /\ c.kind = "codec" \/ op \in {"descriptor", "decode"} => top(s.desc) = Root

InField(c, s, op, sz) ==
  /\ c.kind \in FieldKinds
  /\ c.field \in Fields /\ top(s.field) = c.field
  /\ is_message(c.field) => top(s.desc) = c.field.message_type
  /\ s.messages = <<>> <=> op = "descriptor"
  /\ Above(s.messages, inside(c.field))
  /\ c.container # None =>
       /\ GetDescriptor(c.container) = c.field.containing_type
       /\ op # "descriptor"
       /\ top(s.messages).msg = in_work(c, op, sz)
  /\ c.kind = "field" /\ c.container # None => ~c.field.repeated /\ c.index = -1
  /\ c.kind \in {"repeated", "elements"} => c.field.repeated /\ c.container # None
  /\ c.kind = "min" => c.container = None
  /\ c.kind = "elements" /\ is_message(c.field) =>
       c.n.messages = IF message_of(c, op, sz) = None THEN 0 ELSE 1
  /\ c.kind = "elements" => c.index >= -1

Level(c, s, p, op, sz) ==
  /\ Chain(s.messages)
  /\ Pushed(c, s, p)
  /\ (IF s.parts = <<>> THEN "UNKNOWN" ELSE top(s.parts)) = c.in_part
  /\ Outside(c, s, op) \/ InField(c, s, op, sz)

\* A base_ call is inside of at most one call of the Codec, and all calls for
\* fields are inside of it.
Nested(cs, op) ==
  IF op = "none" THEN Len(cs) <= 1 /\ \A i \in 1..Len(cs) : cs[i].kind = "codec"
  ELSE LET b == IF op \in {"encode", "decode"} THEN 2 ELSE 1
       IN /\ b <= Len(cs)
          /\ \A i \in 1..Len(cs) :
               /\ i < b => cs[i].kind = "codec"
               /\ i = b => cs[i].kind = "base"
               /\ i > b => cs[i].kind \in FieldKinds

Explains(S, cs, d, op, sz) ==
  /\ S \in [0..Len(cs) -> Data] /\ S[0] = empty /\ S[Len(cs)] = d
  /\ \A i \in 1..Len(cs) : Level(cs[i], S[i], S[i - 1], op, sz)


StackInv ==
  /\ data \in Data /\ calls \in Seq(Call) /\ operation \in Operations \cup {"none"}
  /\ sizes \in [{f \in Fields : f.repeated} -> 0..MaxRepeat]
  /\ Nested(calls, operation)
  /\ \E S : Explains(S, calls, data, operation, sizes)
-----------------------------------------------------------------------------
(* Sequences and numbers *)

\* What holds of 0, and of n + 1 if of n, holds of every natural number.
LEMMA NatSetInduction ==
  ASSUME NEW T, 0 \in T, \A n \in Nat : n \in T => n + 1 \in T
  PROVE  Nat \subseteq T
<1> SUFFICES ASSUME NEW b \in Nat, b \notin T PROVE FALSE
  OBVIOUS
<1> DEFINE R == OpToRel(<, Nat)
           B == Nat \ T
<1>1. IsWellFoundedOn(R, Nat)
  BY NatLessThanWellFounded
<1>2. B \subseteq Nat /\ B # {}
  OBVIOUS
<1>3. \A x, y \in Nat : x < y => <<x, y>> \in R
  BY DEF OpToRel
<1> HIDE DEF R, B
<1>4. PICK x \in B : \A y \in B : ~ (<<y, x>> \in R)
  BY <1>1, <1>2, WFMin
<1>5. x \in Nat /\ x # 0 /\ x - 1 \in Nat /\ x - 1 < x
  BY <1>4 DEF B
<1>6. x - 1 \notin B
  BY <1>3, <1>4, <1>5
<1> QED
  BY <1>4, <1>5, <1>6 DEF B

\* What Append() puts on top, over what was there.
LEMMA TopOfAppend ==
  ASSUME NEW T, NEW s \in Seq(T), NEW e \in T
  PROVE  /\ Append(s, e) \in Seq(T) /\ Append(s, e) # <<>>
         /\ Len(Append(s, e)) = Len(s) + 1 /\ Append(s, e)[Len(s) + 1] = e
         /\ \A i \in 1..Len(s) : Append(s, e)[i] = s[i]
         /\ top(Append(s, e)) = e
BY AppendProperties DEF top

\* The top of a sequence and what is below it.
LEMMA TopAndFront ==
  ASSUME NEW T, NEW s \in Seq(T), s # <<>>
  PROVE  /\ Len(s) \in 1..Len(s) /\ top(s) = s[Len(s)] /\ top(s) \in T
         /\ Front(s) \in Seq(T) /\ Len(Front(s)) = Len(s) - 1
         /\ \A i \in 1..Len(s) - 1 : Front(s)[i] = s[i]
<1> DEFINE n == Len(s) - 1
           t == SubSeq(s, 1, n)
<1>1. Len(s) \in 1..Len(s) /\ top(s) = s[Len(s)] /\ n \in Nat /\ n + 1 = Len(s)
  BY DEF top
<1>2. Front(s) = t /\ s[Len(s)] \in T /\ \A i \in 1..n : s[i] \in T
  BY <1>1, ElementOfSeq DEF Front
<1> HIDE DEF n
<1>3. /\ t \in Seq(T) /\ Len(t) = IF 1 <= n THEN n - 1 + 1 ELSE 0
      /\ \A i \in 1..n - 1 + 1 : t[i] = s[1 + i - 1]
  BY <1>1, <1>2, SubSeqProperties
<1> HIDE DEF t
<1>4. Len(t) = n /\ \A i \in 1..n : t[i] = s[i]
  BY <1>1, <1>3
<1> QED
  BY <1>1, <1>2, <1>3, <1>4 DEF n

\* t is how s begins.
LEMMA PrefixIs ==
  ASSUME NEW T, NEW s \in Seq(T), NEW t \in Seq(T), Len(t) <= Len(s)
  PROVE  SubSeq(s, 1, Len(t)) = t <=> \A i \in 1..Len(t) : s[i] = t[i]
<1>1. Len(t) \in Nat /\ Len(s) \in Nat
  OBVIOUS
<1>2. \A i \in 1..Len(t) : s[i] \in T
  BY <1>1, ElementOfSeq
<1> DEFINE u == SubSeq(s, 1, Len(t))
<1>3. /\ u \in Seq(T)
      /\ Len(u) = IF 1 <= Len(t) THEN Len(t) - 1 + 1 ELSE 0
      /\ \A i \in 1..Len(t) - 1 + 1 : u[i] = s[1 + i - 1]
  BY <1>1, <1>2, SubSeqProperties
<1> HIDE DEF u
<1>4. Len(u) = Len(t) /\ \A i \in 1..Len(t) : u[i] = s[i]
  BY <1>1, <1>3
<1>5. u = t <=> \A i \in 1..Len(t) : u[i] = t[i]
  BY <1>3, <1>4, SeqEqual
<1>6. u = t <=> \A i \in 1..Len(t) : s[i] = t[i]
  BY <1>4, <1>5
<1> QED
  BY <1>6 DEF u

-----------------------------------------------------------------------------
(* Messages *)

\* A message is one level below the message whose field it is.
LEMMA Depth ==
  /\ depth \in [MessageTypes -> Nat]
  /\ \A f \in Fields : is_message(f) => depth[f.message_type] < depth[f.containing_type]
<1>1. \E d \in [MessageTypes -> 0..Cardinality(MessageTypes)] :
        \A f \in Fields : is_message(f) => d[f.message_type] < d[f.containing_type]
  BY StackAssumption
<1>2. /\ depth \in [MessageTypes -> 0..Cardinality(MessageTypes)]
      /\ \A f \in Fields : is_message(f) => depth[f.message_type] < depth[f.containing_type]
  BY <1>1 DEF depth
<1>3. Cardinality(MessageTypes) \in Nat
  BY StackAssumption, FS_CardinalityType
<1> QED
  BY <1>2, <1>3

\* What the assumptions say of one field.
LEMMA FieldFacts ==
  ASSUME NEW f \in Fields
  PROVE  /\ f # None /\ f.containing_type \in MessageTypes
         /\ is_message(f) => /\ f.message_type \in MessageTypes
                             /\ f.message_type # f.containing_type
                             /\ depth[f.message_type] \in Nat
                             /\ depth[f.message_type] < depth[f.containing_type]
         /\ depth[f.containing_type] \in Nat
         /\ f.repeated \in BOOLEAN /\ f.in_head \in {"unset", "HEAD", "BODY"}
<1>1. f # None /\ f.repeated \in BOOLEAN /\ f.in_head \in {"unset", "HEAD", "BODY"}
  BY StackAssumption
<1>2. f.containing_type \in MessageTypes
  BY DEF MessageTypes
<1>3. is_message(f) => f.message_type \in MessageTypes
  BY DEF MessageTypes
<1> QED
  BY <1>1, <1>2, <1>3, Depth

\* A path that ends in a field leads to a message of the field's type.
LEMMA TypeOfElement ==
  ASSUME NEW P \in Path, NEW f \in Fields, NEW j \in Int
  PROVE  /\ [field |-> f, index |-> j] \in Element
         /\ Append(P, [field |-> f, index |-> j]) \in Path
         /\ Append(P, [field |-> f, index |-> j]) # None
         /\ GetDescriptor(Append(P, [field |-> f, index |-> j])) = f.message_type
<1> DEFINE e == [field |-> f, index |-> j]
<1>1. e \in Element /\ e.field = f
  BY DEF Element
<1> HIDE DEF e
<1>2. Append(P, e) \in Seq(Element) /\ Append(P, e) # <<>> /\ top(Append(P, e)) = e
  BY <1>1, TopOfAppend DEF Path
<1>3. Append(P, e) # None
  BY <1>2, StackAssumption DEF Path
<1> QED
  BY <1>1, <1>2, <1>3 DEF e, Path, GetDescriptor

\* The message on top of a chain, and the one below it.
LEMMA TopOfChain ==
  ASSUME NEW M \in Seq(Entry), M # <<>>, Chain(M)
  PROVE  /\ top(M) \in Entry /\ top(M) # None /\ top(M).msg \in Path
         /\ Len(M) = 1 => top(M).msg = <<>> /\ top(M).field = None
         /\ Len(M) # 1 =>
              /\ top(M).field \in Fields /\ is_message(top(M).field)
              /\ Front(M) # <<>> /\ top(Front(M)).msg \in Path
              /\ \E j \in Int : top(M).msg
                                  = Append(top(Front(M)).msg, [field |-> top(M).field, index |-> j])
         /\ Front(M) \in Seq(Entry) /\ Chain(Front(M))
<1>1. /\ Len(M) \in 1..Len(M) /\ Len(M) \in Nat /\ top(M) = M[Len(M)] /\ top(M) \in Entry
      /\ Front(M) \in Seq(Entry) /\ Len(Front(M)) = Len(M) - 1
      /\ \A i \in 1..Len(M) - 1 : Front(M)[i] = M[i]
  BY TopAndFront
<1>2. top(M) # None /\ top(M).msg \in Path
  BY <1>1, StackAssumption DEF Entry
<1>3. ASSUME Len(M) = 1 PROVE top(M).msg = <<>> /\ top(M).field = None
  BY <1>1, <1>3 DEF Chain
<1>4. ASSUME Len(M) # 1
      PROVE  /\ top(M).field \in Fields /\ is_message(top(M).field)
             /\ Front(M) # <<>> /\ top(Front(M)).msg \in Path
             /\ \E j \in Int : top(M).msg
                                 = Append(top(Front(M)).msg, [field |-> top(M).field, index |-> j])
  <2>1. Front(M) # <<>>
    BY <1>1, <1>4
  <2>2. top(Front(M)) = M[Len(M) - 1] /\ top(Front(M)) \in Entry
    BY <1>1, <2>1, TopAndFront
  <2>3. top(Front(M)).msg \in Path
    BY <2>2 DEF Entry
  <2> QED
    BY <1>1, <1>4, <2>1, <2>2, <2>3 DEF Chain
<1>5. Chain(Front(M))
  <2> SUFFICES ASSUME NEW k \in 1..Len(M) - 1
               PROVE  IF k = 1 THEN Front(M)[k] = [msg |-> <<>>, field |-> None]
                      ELSE /\ Front(M)[k].field \in Fields /\ is_message(Front(M)[k].field)
                           /\ \E j \in Int : Front(M)[k].msg
                                = Append(Front(M)[k - 1].msg, [field |-> Front(M)[k].field, index |-> j])
    BY <1>1 DEF Chain
  <2>1. k \in 1..Len(M) /\ Front(M)[k] = M[k] /\ (k # 1 => Front(M)[k - 1] = M[k - 1])
    BY <1>1
  <2> QED
    BY <2>1 DEF Chain
<1> QED
  BY <1>1, <1>2, <1>3, <1>4, <1>5

\* The message on top has the type of the field it is noted with, which is then
\* a field of the message below it.
LEMMA TypeOfTop ==
  ASSUME NEW M \in Seq(Entry), M # <<>>, Chain(M)
  PROVE  /\ GetDescriptor(top(M).msg) \in MessageTypes
         /\ \A f \in Fields : top(M).field = f =>
              is_message(f) /\ GetDescriptor(top(M).msg) = f.message_type /\ Front(M) # <<>>
<1>1. CASE Len(M) = 1
  <2>1. top(M).msg = <<>> /\ top(M).field = None
    BY <1>1, TopOfChain
  <2> QED
    BY <2>1, FieldFacts DEF GetDescriptor, MessageTypes
<1>2. CASE Len(M) # 1
  <2>1. top(M).field \in Fields /\ is_message(top(M).field) /\ Front(M) # <<>>
    BY <1>2, TopOfChain
  <2>2. top(Front(M)).msg \in Path
    BY <1>2, TopOfChain
  <2>3. PICK j \in Int : top(M).msg
                           = Append(top(Front(M)).msg, [field |-> top(M).field, index |-> j])
    BY <1>2, TopOfChain
  <2>4. GetDescriptor(top(M).msg) = top(M).field.message_type
    BY <2>1, <2>2, <2>3, TypeOfElement
  <2> QED
    BY <2>1, <2>4, FieldFacts
<1> QED
  BY <1>1, <1>2

\* The root, and a field of the message on top, continue a chain.
LEMMA ChainOfRoot ==
  /\ <<[msg |-> <<>>, field |-> None]>> \in Seq(Entry)
  /\ <<[msg |-> <<>>, field |-> None]>> # <<>>
  /\ Chain(<<[msg |-> <<>>, field |-> None]>>)
  /\ top(<<[msg |-> <<>>, field |-> None]>>) = [msg |-> <<>>, field |-> None]
<1>1. <<>> \in Path
  BY DEF Path
<1>2. [msg |-> <<>>, field |-> None] \in Entry
  BY <1>1 DEF Entry
<1> QED
  BY <1>2 DEF Chain, top

\* The message that f, or its element j, is within the message on top of M.
inner(M, f, j) == [msg |-> Append(top(M).msg, [field |-> f, index |-> j]), field |-> f]

\* A message of a field, put on top of a chain, continues it.
LEMMA ChainGrows ==
  ASSUME NEW M \in Seq(Entry), M # <<>>, Chain(M), NEW f \in Fields, is_message(f), NEW j \in Int
  PROVE  /\ inner(M, f, j) \in Entry
         /\ Append(M, inner(M, f, j)) \in Seq(Entry) /\ Chain(Append(M, inner(M, f, j)))
         /\ Append(M, inner(M, f, j)) # <<>>
         /\ top(Append(M, inner(M, f, j))) = inner(M, f, j)
         /\ inner(M, f, j).msg = Append(top(M).msg, [field |-> f, index |-> j])
         /\ GetDescriptor(inner(M, f, j).msg) = f.message_type
         /\ Len(Append(M, inner(M, f, j))) = Len(M) + 1
         /\ \A i \in 1..Len(M) : Append(M, inner(M, f, j))[i] = M[i]
<1> DEFINE x == Append(top(M).msg, [field |-> f, index |-> j])
           e == inner(M, f, j)
           N == Append(M, e)
<1>1. top(M).msg \in Path
  BY TopOfChain
<1>2. x \in Path /\ GetDescriptor(x) = f.message_type
  BY <1>1, TypeOfElement
<1>3. e \in Entry /\ e.msg = x /\ e.field = f
  BY <1>2 DEF Entry, inner
<1>4. x = Append(top(M).msg, [field |-> f, index |-> j])
  OBVIOUS
<1> HIDE DEF x, e
<1>5. /\ N \in Seq(Entry) /\ N # <<>> /\ Len(N) = Len(M) + 1 /\ N[Len(M) + 1] = e
      /\ \A i \in 1..Len(M) : N[i] = M[i]
      /\ top(N) = e /\ Len(M) \in Nat
  BY <1>3, TopOfAppend
<1> HIDE DEF N
<1>6. Len(M) \in 1..Len(M) /\ top(M) = M[Len(M)]
  BY TopAndFront
<1>7. Chain(N)
  <2> SUFFICES ASSUME NEW k \in 1..Len(N)
               PROVE  IF k = 1 THEN N[k] = [msg |-> <<>>, field |-> None]
                      ELSE /\ N[k].field \in Fields /\ is_message(N[k].field)
                           /\ \E i \in Int : N[k].msg = Append(N[k - 1].msg, [field |-> N[k].field, index |-> i])
    BY DEF Chain
  <2>1. CASE k \in 1..Len(M)
    <3>1. N[k] = M[k] /\ (k # 1 => N[k - 1] = M[k - 1])
      BY <1>5, <2>1
    <3> QED
      BY <2>1, <3>1 DEF Chain
  <2>2. CASE k \notin 1..Len(M)
    <3>1. k = Len(M) + 1 /\ k # 1 /\ N[k] = e /\ N[k - 1] = top(M)
      BY <1>5, <1>6, <2>2
    <3> QED
      BY <1>3, <1>4, <3>1
  <2> QED
    BY <2>1, <2>2
<1> QED
  BY <1>2, <1>3, <1>5, <1>7 DEF N, e, x


\* A path is made of one parent and one element.
LEMMA SameElement ==
  ASSUME NEW P \in Path, NEW Q \in Path, NEW f \in Fields, NEW g \in Fields,
         NEW i \in Int, NEW j \in Int,
         Append(P, [field |-> f, index |-> i]) = Append(Q, [field |-> g, index |-> j])
  PROVE  P = Q /\ f = g /\ i = j
<1> DEFINE a == [field |-> f, index |-> i]
           b == [field |-> g, index |-> j]
<1>1. a \in Element /\ b \in Element /\ P \in Seq(Element) /\ Q \in Seq(Element)
  BY DEF Element, Path
<1>2. a = b => f = g /\ i = j
  OBVIOUS
<1>3. Append(P, a) = Append(Q, b)
  OBVIOUS
<1> HIDE DEF a, b
<1>4. P = Q /\ a = b
  BY <1>1, <1>3, AppendInjective
<1> QED
  BY <1>2, <1>4

\* A message that is the element j of f within P is on the stack by f, above P.
LEMMA TopIsElement ==
  ASSUME NEW M \in Seq(Entry), M # <<>>, Chain(M),
         NEW P \in Path, NEW f \in Fields, NEW j \in Int,
         top(M).msg = Append(P, [field |-> f, index |-> j])
  PROVE  /\ top(M).field = f /\ Len(M) # 1
         /\ Front(M) \in Seq(Entry) /\ Front(M) # <<>> /\ Chain(Front(M))
         /\ top(Front(M)).msg = P
<1>1. Append(P, [field |-> f, index |-> j]) # <<>>
  <2>1. [field |-> f, index |-> j] \in Element /\ P \in Seq(Element)
    BY DEF Element, Path
  <2> QED
    BY <2>1, TopOfAppend
<1>2. Len(M) # 1
  BY <1>1, TopOfChain
<1>3. /\ top(M).field \in Fields /\ top(Front(M)).msg \in Path /\ Front(M) # <<>>
      /\ Front(M) \in Seq(Entry) /\ Chain(Front(M))
  BY <1>2, TopOfChain
<1>4. PICK i \in Int : top(M).msg
                         = Append(top(Front(M)).msg, [field |-> top(M).field, index |-> i])
  BY <1>2, TopOfChain
<1>5. PICK Q \in Path, g \in Fields : Q = top(Front(M)).msg /\ g = top(M).field
  BY <1>3
<1>6. Append(P, [field |-> f, index |-> j]) = Append(Q, [field |-> g, index |-> i])
  BY <1>4, <1>5
<1>7. P = Q /\ f = g
  BY <1>6, SameElement
<1> QED
  BY <1>2, <1>3, <1>5, <1>7
-----------------------------------------------------------------------------
(* push_message() *)

Rooted(M) == IF M = <<>> /\ has_root_message THEN <<[msg |-> <<>>, field |-> None]>> ELSE M
rooted_count(M, n) == IF M = <<>> /\ has_root_message THEN n + 1 ELSE n

has_element(f, j) == f.repeated => j \in 0..(FieldSize(f) - 1)

\* push_message() starts from the root message, except for a descriptor.
LEMMA RootedChain ==
  ASSUME NEW M \in Seq(Entry), Chain(M), operation \in Operations,
         operation = "descriptor" => M = <<>>
  PROVE  /\ Rooted(M) \in Seq(Entry) /\ Chain(Rooted(M))
         /\ Rooted(M) = <<>> <=> operation = "descriptor"
         /\ Len(Rooted(M)) = Len(M) + rooted_count(M, 0) /\ rooted_count(M, 0) \in Nat
         /\ \A i \in 1..Len(M) : Rooted(M)[i] = M[i]
         /\ M # <<>> => Rooted(M) = M
<1>1. has_root_message <=> operation # "descriptor"
  BY DEF has_root_message, Operations
<1>2. CASE M = <<>> /\ has_root_message
  <2>1. Rooted(M) = <<[msg |-> <<>>, field |-> None]>> /\ rooted_count(M, 0) = 1
    BY <1>2 DEF Rooted, rooted_count
  <2>2. Len(<<[msg |-> <<>>, field |-> None]>>) = 1 /\ Len(M) = 0
    BY <1>2
  <2> QED
    <3>1. Len(Rooted(M)) = Len(M) + rooted_count(M, 0) /\ 1..Len(M) = {} /\ rooted_count(M, 0) \in Nat
      BY <2>1, <2>2
    <3>2. Rooted(M) \in Seq(Entry) /\ Chain(Rooted(M)) /\ Rooted(M) # <<>>
      BY <2>1, ChainOfRoot
    <3> QED
      BY <1>1, <1>2, <3>1, <3>2
<1>3. CASE ~(M = <<>> /\ has_root_message)
  BY <1>1, <1>3 DEF Rooted, rooted_count
<1> QED
  BY <1>2, <1>3

\* The message on top is of another field.
LEMMA PushOnTop ==
  ASSUME NEW M \in Seq(Entry), NEW n \in Int, NEW f, NEW j \in Int,
         Rooted(M) \in Seq(Entry), Chain(Rooted(M)),
         ~(Rooted(M) # <<>> /\ top(Rooted(M)).field = f)
  PROVE  push_message([messages |-> M, n |-> n], f, j)
           = IF /\ is_message(f) /\ Rooted(M) # <<>>
                /\ GetDescriptor(top(Rooted(M)).msg) = f.containing_type /\ has_element(f, j)
             THEN [messages |-> Append(Rooted(M), inner(Rooted(M), f, j)),
                   n |-> rooted_count(M, n) + 1]
             ELSE [messages |-> Rooted(M), n |-> rooted_count(M, n)]
<1> DEFINE R == Rooted(M)
           m == [messages |-> M, n |-> n]
           rooted == IF m.messages = <<>> /\ has_root_message
                     THEN [messages |-> <<[msg |-> <<>>, field |-> None]>>, n |-> m.n + 1]
                     ELSE m
<1>1. rooted = [messages |-> R, n |-> rooted_count(M, n)]
  BY DEF Rooted, rooted_count
<1>2. R # <<>> <=> top(R) # None
  BY TopOfChain DEF top
<1> HIDE DEF rooted, R
<1>3. rooted.messages = R /\ rooted.n = rooted_count(M, n)
  BY <1>1
<1>4. ~(rooted.messages # <<>> /\ top(rooted.messages).field = f)
  BY <1>3 DEF R
<1>5. push_message(m, f, j)
        = IF ~is_message(f) THEN rooted
          ELSE IF /\ top(rooted.messages) # None
                  /\ GetDescriptor(top(rooted.messages).msg) = f.containing_type
                  /\ has_element(f, j)
          THEN [messages |-> Append(rooted.messages,
                   [msg |-> Append(top(rooted.messages).msg, [field |-> f, index |-> j]),
                    field |-> f]),
                n |-> rooted.n + 1]
          ELSE rooted
  BY <1>4 DEF push_message, rooted, has_element
<1> QED
  BY <1>1, <1>2, <1>3, <1>5 DEF inner, R

\* The message on top is of this field, which takes its place.
LEMMA PushInPlace ==
  ASSUME NEW M \in Seq(Entry), NEW n \in Int, NEW f \in Fields, NEW j \in Int,
         M # <<>>, Chain(M), top(M).field = f
  PROVE  push_message([messages |-> M, n |-> n], f, j)
           = IF GetDescriptor(top(Front(M)).msg) = f.containing_type /\ has_element(f, j)
             THEN [messages |-> Append(Front(M), inner(Front(M), f, j)), n |-> n - 1 + 1]
             ELSE [messages |-> Front(M), n |-> n - 1]
<1> DEFINE m == [messages |-> M, n |-> n]
           cleared == [messages |-> Front(M), n |-> n - 1]
<1>1. is_message(f) /\ Front(M) # <<>> /\ Front(M) \in Seq(Entry) /\ Chain(Front(M))
  BY TypeOfTop, TopOfChain
<1>2. top(Front(M)) # None
  BY <1>1, TopOfChain
<1>3. push_message(m, f, j)
        = IF /\ top(cleared.messages) # None
             /\ GetDescriptor(top(cleared.messages).msg) = f.containing_type
             /\ has_element(f, j)
          THEN [messages |-> Append(cleared.messages,
                   [msg |-> Append(top(cleared.messages).msg, [field |-> f, index |-> j]),
                    field |-> f]),
                n |-> cleared.n + 1]
          ELSE cleared
  BY <1>1 DEF push_message, has_element
<1> QED
  BY <1>2, <1>3 DEF inner

\* The constructor for a field of the message on top, or of a type that is
\* somewhere below it.
LEMMA PushInside ==
  ASSUME NEW M \in Seq(Entry), Chain(M), NEW f \in Fields, operation \in Operations,
         operation = "descriptor" => M = <<>>, Above(Rooted(M), f.containing_type)
  PROVE  LET m == push_message([messages |-> M, n |-> 0], f, -1)
         IN /\ m.messages \in Seq(Entry) /\ Chain(m.messages)
            /\ Above(m.messages, inside(f))
            /\ m.messages = <<>> <=> operation = "descriptor"
            /\ m.n \in Nat /\ Len(m.messages) = Len(M) + m.n
            /\ \A i \in 1..Len(M) : m.messages[i] = M[i]
            /\ Rooted(M) # <<>> /\ GetDescriptor(top(Rooted(M)).msg) = f.containing_type =>
                 top(m.messages).msg
                   = IF is_message(f) /\ ~f.repeated
                       THEN Append(top(Rooted(M)).msg, [field |-> f, index |-> -1])
                       ELSE top(Rooted(M)).msg
<1> DEFINE R == Rooted(M)
           T == GetDescriptor(top(R).msg)
           m == push_message([messages |-> M, n |-> 0], f, -1)
           c == rooted_count(M, 0)
<1>1. /\ R \in Seq(Entry) /\ Chain(R) /\ (R = <<>> <=> operation = "descriptor")
      /\ Len(R) = Len(M) + c /\ c \in Nat /\ \A i \in 1..Len(M) : R[i] = M[i]
  BY RootedChain
<1>2. R # <<>> => T \in MessageTypes /\ depth[T] \in Nat
  BY <1>1, TypeOfTop, Depth
<1>3. R # <<>> => T = f.containing_type \/ depth[T] > depth[f.containing_type]
  BY DEF Above
<1>4. ~(R # <<>> /\ top(R).field = f)
  <2> SUFFICES ASSUME R # <<>>, top(R).field = f PROVE FALSE
    OBVIOUS
  <2>1. is_message(f) /\ T = f.message_type
    BY <1>1, TypeOfTop
  <2> QED
    BY <1>2, <1>3, <2>1, FieldFacts
<1>5. has_element(f, -1) <=> ~f.repeated
  BY FieldFacts DEF has_element
<1>6. m = IF is_message(f) /\ R # <<>> /\ T = f.containing_type /\ ~f.repeated
            THEN [messages |-> Append(R, inner(R, f, -1)), n |-> c + 1]
            ELSE [messages |-> R, n |-> c]
  <2>1. 0 \in Int /\ -1 \in Int
    OBVIOUS
  <2>2. m = IF /\ is_message(f) /\ R # <<>>
               /\ T = f.containing_type /\ has_element(f, -1)
              THEN [messages |-> Append(R, inner(R, f, -1)), n |-> c + 1]
              ELSE [messages |-> R, n |-> c]
    BY <1>1, <1>4, <2>1, PushOnTop
  <2> HIDE DEF R, m, c, T
  <2> QED
    BY <1>5, <2>2
<1> HIDE DEF R, m, c
<1>7. CASE is_message(f) /\ R # <<>> /\ T = f.containing_type /\ ~f.repeated
  <2>1. m.messages = Append(R, inner(R, f, -1)) /\ m.n = c + 1
    BY <1>6, <1>7
  <2>2. /\ m.messages \in Seq(Entry) /\ Chain(m.messages) /\ m.messages # <<>>
        /\ top(m.messages) = inner(R, f, -1)
        /\ GetDescriptor(inner(R, f, -1).msg) = f.message_type
        /\ Len(m.messages) = Len(R) + 1 /\ \A i \in 1..Len(R) : m.messages[i] = R[i]
    <3>1. -1 \in Int
      OBVIOUS
    <3>2. /\ Append(R, inner(R, f, -1)) \in Seq(Entry)
          /\ Chain(Append(R, inner(R, f, -1))) /\ Append(R, inner(R, f, -1)) # <<>>
          /\ top(Append(R, inner(R, f, -1))) = inner(R, f, -1)
          /\ GetDescriptor(inner(R, f, -1).msg) = f.message_type
          /\ inner(R, f, -1).msg = Append(top(R).msg, [field |-> f, index |-> -1])
          /\ Len(Append(R, inner(R, f, -1))) = Len(R) + 1
          /\ \A i \in 1..Len(R) : Append(R, inner(R, f, -1))[i] = R[i]
      BY <1>1, <1>7, <3>1, ChainGrows
    <3> QED
      BY <2>1, <3>2
  <2>3. Above(m.messages, inside(f))
    BY <1>7, <2>2 DEF Above, inside
  <2>4. top(m.messages).msg = Append(top(R).msg, [field |-> f, index |-> -1])
    BY <2>2 DEF inner
  <2>5. m.n \in Nat /\ Len(m.messages) = Len(M) + m.n /\ \A i \in 1..Len(M) : m.messages[i] = M[i]
    BY <1>1, <2>1, <2>2
  <2> QED
    BY <1>1, <1>7, <2>2, <2>3, <2>4, <2>5 DEF R, m
<1>8. CASE ~(is_message(f) /\ R # <<>> /\ T = f.containing_type /\ ~f.repeated)
  <2>1. m.messages = R /\ m.n = c
    BY <1>6, <1>8
  <2>2. Above(R, inside(f))
    <3> SUFFICES ASSUME R # <<>> PROVE T = inside(f) \/ depth[T] > depth[inside(f)]
      BY DEF Above
    <3> QED
      BY <1>2, <1>3, FieldFacts DEF inside
  <2> QED
    BY <1>1, <1>8, <2>1, <2>2, FieldFacts DEF R, m
<1> QED
  BY <1>7, <1>8

\* A further call for the field of the innermost call changes nothing: the
\* embedded message takes its own place, and a repeated field has no element
\* -1.
LEMMA PushAgain ==
  ASSUME NEW M \in Seq(Entry), M # <<>>, Chain(M), NEW f \in Fields,
         NEW P \in Path, GetDescriptor(P) = f.containing_type,
         top(M).msg = IF is_message(f) /\ ~f.repeated
                        THEN Append(P, [field |-> f, index |-> -1]) ELSE P
  PROVE  push_message([messages |-> M, n |-> 0], f, -1) = [messages |-> M, n |-> 0]
<1>1. Rooted(M) = M /\ rooted_count(M, 0) = 0
  BY DEF Rooted, rooted_count
<1>2. has_element(f, -1) <=> ~f.repeated
  BY FieldFacts DEF has_element
<1>3. CASE is_message(f) /\ ~f.repeated
  <2> DEFINE N == Front(M)
  <2>1. -1 \in Int /\ 0 \in Int /\ top(M).msg = Append(P, [field |-> f, index |-> -1])
    BY <1>3
  <2>3. top(M).field = f /\ top(N).msg = P /\ N \in Seq(Entry)
    BY <2>1, TopIsElement
  <2>8. push_message([messages |-> M, n |-> 0], f, -1)
          = [messages |-> Append(N, inner(N, f, -1)), n |-> 0 - 1 + 1]
    BY <1>2, <1>3, <2>1, <2>3, PushInPlace
  <2>9. inner(N, f, -1) = top(M)
    <3>1. top(M) \in Entry
      BY TopOfChain
    <3>2. top(M) = [msg |-> top(M).msg, field |-> top(M).field]
      BY <3>1 DEF Entry
    <3> QED
      BY <2>1, <2>3, <3>2 DEF inner
  <2>10. Append(N, top(M)) = M
    <3>1. /\ Len(M) \in 1..Len(M) /\ top(M) = M[Len(M)] /\ top(M) \in Entry
          /\ Len(N) = Len(M) - 1 /\ \A k \in 1..Len(M) - 1 : N[k] = M[k]
      BY TopAndFront
    <3>2. /\ Append(N, top(M)) \in Seq(Entry) /\ Len(Append(N, top(M))) = Len(N) + 1
          /\ Append(N, top(M))[Len(N) + 1] = top(M)
          /\ \A k \in 1..Len(N) : Append(N, top(M))[k] = N[k]
      BY <2>3, <3>1, TopOfAppend
    <3>3. \A k \in 1..Len(M) : Append(N, top(M))[k] = M[k]
      BY <3>1, <3>2
    <3>4. Len(Append(N, top(M))) = Len(M)
      BY <3>1, <3>2
    <3> QED
      BY <3>2, <3>3, <3>4, SeqEqual
  <2> QED
    BY <2>8, <2>9, <2>10
<1>4. CASE ~(is_message(f) /\ ~f.repeated)
  <2>1. top(M).field # f
    BY <1>4, TypeOfTop, FieldFacts
  <2> QED
    <3>1. 0 \in Int /\ -1 \in Int
      OBVIOUS
    <3> QED
      BY <1>1, <1>2, <1>4, <2>1, <3>1, PushOnTop, Zenon
<1> QED
  BY <1>3, <1>4

\* update_index() from element j: the message with the field is uncovered, and
\* the next element, if there is one, takes the place of this one.
LEMMA PushNext ==
  ASSUME NEW M \in Seq(Entry), M # <<>>, Chain(M),
         NEW f \in Fields, f.repeated, is_message(f),
         NEW P \in Path, GetDescriptor(P) = f.containing_type, NEW j \in Int,
         NEW n, n = IF has_element(f, j) THEN 1 ELSE 0,
         top(M).msg = IF has_element(f, j) THEN Append(P, [field |-> f, index |-> j]) ELSE P
  PROVE  LET m == push_message([messages |-> M, n |-> n], f, j + 1)
         IN /\ m.messages \in Seq(Entry) /\ Chain(m.messages) /\ m.messages # <<>>
            /\ Above(m.messages, f.message_type)
            /\ m.n = IF has_element(f, j + 1) THEN 1 ELSE 0
            /\ top(m.messages).msg
                 = IF has_element(f, j + 1) THEN Append(P, [field |-> f, index |-> j + 1]) ELSE P
            /\ Len(m.messages) - m.n = Len(M) - n
            /\ \A i \in 1..Len(M) - n : m.messages[i] = M[i]
<1> DEFINE B == IF has_element(f, j) THEN Front(M) ELSE M
           m == push_message([messages |-> M, n |-> n], f, j + 1)
<1>1. /\ B \in Seq(Entry) /\ B # <<>> /\ Chain(B) /\ top(B).msg = P
      /\ Len(B) = Len(M) - n /\ \A i \in 1..Len(M) - n : B[i] = M[i]
      /\ m = IF has_element(f, j + 1)
               THEN [messages |-> Append(B, inner(B, f, j + 1)), n |-> 1]
               ELSE [messages |-> B, n |-> 0]
  <2>1. CASE has_element(f, j)
    <3> DEFINE N == Front(M)
    <3>1. top(M).msg = Append(P, [field |-> f, index |-> j])
      BY <2>1
    <3>2. top(M).field = f /\ top(N).msg = P /\ N \in Seq(Entry) /\ N # <<>> /\ Chain(N)
      BY <3>1, TopIsElement
    <3>7. j + 1 \in Int /\ n = 1
      BY <2>1
    <3>8. m = IF has_element(f, j + 1)
                THEN [messages |-> Append(N, inner(N, f, j + 1)), n |-> 1 - 1 + 1]
                ELSE [messages |-> N, n |-> 1 - 1]
      BY <3>2, <3>7, PushInPlace
    <3>9. Len(N) = Len(M) - 1 /\ \A k \in 1..Len(M) - 1 : N[k] = M[k]
      BY TopAndFront
    <3> QED
      BY <2>1, <3>2, <3>7, <3>8, <3>9
  <2>2. CASE ~has_element(f, j)
    <3>1. top(M).msg = P /\ n = 0 /\ Rooted(M) = M /\ rooted_count(M, 0) = 0 /\ j + 1 \in Int
      BY <2>2 DEF Rooted, rooted_count
    <3>2. top(M).field # f
      BY <3>1, TypeOfTop, FieldFacts
    <3>3. m = IF has_element(f, j + 1)
                THEN [messages |-> Append(M, inner(M, f, j + 1)), n |-> 0 + 1]
                ELSE [messages |-> M, n |-> 0]
      BY <3>1, <3>2, PushOnTop
    <3> QED
      BY <2>2, <3>1, <3>3
  <2> QED
    BY <2>1, <2>2
<1> HIDE DEF B, m
<1>2. n \in {0, 1} /\ Len(M) \in Nat
  OBVIOUS
<1>3. CASE has_element(f, j + 1)
  <2>1. m.messages = Append(B, inner(B, f, j + 1)) /\ m.n = 1
    BY <1>1, <1>3
  <2>2. /\ m.messages \in Seq(Entry) /\ Chain(m.messages) /\ m.messages # <<>>
        /\ top(m.messages) = inner(B, f, j + 1)
        /\ GetDescriptor(inner(B, f, j + 1).msg) = f.message_type
        /\ inner(B, f, j + 1).msg = Append(top(B).msg, [field |-> f, index |-> j + 1])
        /\ Len(m.messages) = Len(B) + 1 /\ \A i \in 1..Len(B) : m.messages[i] = B[i]
    <3>1. j + 1 \in Int
      OBVIOUS
    <3>2. /\ Append(B, inner(B, f, j + 1)) \in Seq(Entry)
          /\ Chain(Append(B, inner(B, f, j + 1))) /\ Append(B, inner(B, f, j + 1)) # <<>>
          /\ top(Append(B, inner(B, f, j + 1))) = inner(B, f, j + 1)
          /\ GetDescriptor(inner(B, f, j + 1).msg) = f.message_type
          /\ inner(B, f, j + 1).msg = Append(top(B).msg, [field |-> f, index |-> j + 1])
          /\ Len(Append(B, inner(B, f, j + 1))) = Len(B) + 1
          /\ \A i \in 1..Len(B) : Append(B, inner(B, f, j + 1))[i] = B[i]
      BY <1>1, <3>1, ChainGrows
    <3> QED
      BY <2>1, <3>2
  <2>3. Above(m.messages, f.message_type)
    BY <2>2 DEF Above
  <2>4. top(m.messages).msg = Append(P, [field |-> f, index |-> j + 1])
    BY <1>1, <2>2
  <2>5. Len(m.messages) - m.n = Len(M) - n /\ \A i \in 1..Len(M) - n : m.messages[i] = M[i]
    BY <1>1, <1>2, <2>1, <2>2
  <2> QED
    BY <1>3, <2>1, <2>2, <2>3, <2>4, <2>5 DEF m
<1>4. CASE ~has_element(f, j + 1)
  <2>1. m.messages = B /\ m.n = 0
    BY <1>1, <1>4
  <2>2. Above(B, f.message_type)
    BY <1>1, FieldFacts DEF Above
  <2> QED
    BY <1>1, <1>2, <1>4, <2>1, <2>2 DEF m
<1> QED
  BY <1>3, <1>4


-----------------------------------------------------------------------------
(* Levels *)

\* One more on top, and none.
LEMMA AppendedOnTop ==
  ASSUME NEW T, NEW s \in Seq(T), NEW e \in T
  PROVE  OnTopOf(Append(s, e), s, 1) /\ OnTopOf(s, s, 0)
<1>1. Len(s) \in Nat
  OBVIOUS
<1>2. /\ Append(s, e) \in Seq(T) /\ Len(Append(s, e)) = Len(s) + 1
      /\ \A i \in 1..Len(s) : Append(s, e)[i] = s[i]
  BY TopOfAppend
<1>3. SubSeq(Append(s, e), 1, Len(s)) = s
  BY <1>1, <1>2, PrefixIs
<1>4. SubSeq(s, 1, Len(s)) = s
  BY <1>1, PrefixIs
<1> QED
  BY <1>1, <1>2, <1>3, <1>4 DEF OnTopOf

\* A vector is on top of itself.
LEMMA SameOnTop ==
  ASSUME NEW T, NEW s \in Seq(T)
  PROVE  OnTopOf(s, s, 0)
<1>1. Len(s) \in Nat
  OBVIOUS
<1>2. SubSeq(s, 1, Len(s)) = s
  BY <1>1, PrefixIs
<1> QED
  BY <1>1, <1>2 DEF OnTopOf

\* What keeps the elements of s is on top of it.
LEMMA KeptOnTop ==
  ASSUME NEW T, NEW s \in Seq(T), NEW p \in Seq(T), NEW n \in Nat, Len(s) = Len(p) + n
  PROVE  OnTopOf(s, p, n) <=> \A i \in 1..Len(p) : s[i] = p[i]
<1>1. Len(p) \in Nat /\ Len(p) <= Len(s)
  OBVIOUS
<1>2. SubSeq(s, 1, Len(p)) = p <=> \A i \in 1..Len(p) : s[i] = p[i]
  BY <1>1, PrefixIs
<1> QED
  BY <1>2 DEF OnTopOf

\* A destructor that pops what was pushed uncovers what was there.
LEMMA PoppedIs ==
  ASSUME NEW T, NEW s \in Seq(T), NEW p \in Seq(T), NEW n \in Nat, OnTopOf(s, p, n)
  PROVE  popped(s, n) = p
<1>1. Len(p) \in Nat /\ Len(s) = Len(p) + n /\ SubSeq(s, 1, Len(p)) = p
  BY DEF OnTopOf
<1>2. SubSeq(s, 1, Len(s)) = s
  BY SameOnTop DEF OnTopOf
<1>3. CASE n = 0
  <2>1. Len(s) = Len(p)
    BY <1>1, <1>3
  <2> QED
    BY <1>1, <1>2, <1>3, <2>1 DEF popped
<1>4. CASE n # 0
  <2>1. Len(s) - n = Len(p) /\ ~(n <= 0)
    BY <1>1, <1>4
  <2> QED
    BY <1>1, <2>1 DEF popped
<1> QED
  BY <1>3, <1>4

\* The four vectors, one by one.
LEMMA FourVectors ==
  ASSUME NEW c, NEW s, NEW p
  PROVE  Pushed(c, s, p) <=>
           /\ OnTopOf(s.desc, p.desc, c.n.desc)
           /\ OnTopOf(s.field, p.field, c.n.field)
           /\ OnTopOf(s.parts, p.parts, c.n.parts)
           /\ OnTopOf(s.messages, p.messages, c.n.messages)
BY DEF Pushed

\* The four vectors after a destructor are those of the call around it.
LEMMA DestructedIs ==
  ASSUME data \in Data, NEW p \in Data, NEW c \in Call, Pushed(c, data, p)
  PROVE  destructed(c.n) = p
<1>1. /\ OnTopOf(data.desc, p.desc, c.n.desc)
      /\ OnTopOf(data.field, p.field, c.n.field)
      /\ OnTopOf(data.parts, p.parts, c.n.parts)
      /\ OnTopOf(data.messages, p.messages, c.n.messages)
  BY FourVectors
<1>2. c.n \in Counts
  BY DEF Call
<1>3. c.n.desc \in Nat /\ c.n.field \in Nat /\ c.n.parts \in Nat /\ c.n.messages \in Nat
  BY <1>2 DEF Counts
<1>4. /\ data.desc \in Seq(MessageTypes) /\ p.desc \in Seq(MessageTypes)
      /\ data.field \in Seq(Fields) /\ p.field \in Seq(Fields)
      /\ data.parts \in Seq(Parts) /\ p.parts \in Seq(Parts)
      /\ data.messages \in Seq(Entry) /\ p.messages \in Seq(Entry)
  BY DEF Data
<1>5. popped(data.desc, c.n.desc) = p.desc
  BY <1>1, <1>3, <1>4, PoppedIs
<1>6. popped(data.field, c.n.field) = p.field
  BY <1>1, <1>3, <1>4, PoppedIs
<1>7. popped(data.parts, c.n.parts) = p.parts
  BY <1>1, <1>3, <1>4, PoppedIs
<1>8. popped(data.messages, c.n.messages) = p.messages
  BY <1>1, <1>3, <1>4, PoppedIs
<1>9. destructed(c.n)
        = [desc |-> p.desc, field |-> p.field, parts |-> p.parts, messages |-> p.messages]
  BY <1>5, <1>6, <1>7, <1>8 DEF destructed
<1>10. p = [desc |-> p.desc, field |-> p.field, parts |-> p.parts, messages |-> p.messages]
  BY DEF Data
<1> QED
  BY <1>9, <1>10

\* message_of() is traversed() in the present state.
LEMMA TraversedIs ==
  ASSUME NEW c
  PROVE  traversed(c) = message_of(c, operation, sizes)
<1>1. CASE c.kind = "base"
  BY <1>1 DEF traversed, message_of
<1>2. CASE c.kind # "base"
  BY <1>2 DEF traversed, message_of, FieldSize
<1> QED
  BY <1>1, <1>2

\* A message of a call that looks into one.
LEMMA MessageOfCall ==
  ASSUME NEW c \in Call, c.kind \in FieldKinds => c.field \in Fields,
         NEW op, NEW sz, message_of(c, op, sz) # None
  PROVE  /\ message_of(c, op, sz) \in Path
         /\ c.kind # "base" => c.kind \in FieldKinds /\ c.container # None
         /\ c.kind = "base" => op # "descriptor" /\ message_of(c, op, sz) = <<>>
<1>1. CASE c.kind = "base"
  <2>1. message_of(c, op, sz) = IF op = "descriptor" THEN None ELSE <<>>
    BY <1>1 DEF message_of
  <2>2. op # "descriptor" /\ message_of(c, op, sz) = <<>>
    BY <2>1
  <2>3. <<>> \in Path
    BY DEF Path
  <2>4. message_of(c, op, sz) \in Path
    BY <2>2, <2>3
  <2> QED
    BY <1>1, <2>2, <2>4
<1>2. CASE c.kind # "base"
  <2>1. /\ c.kind \in {"field", "elements"} /\ is_message(c.field) /\ c.container # None
        /\ message_of(c, op, sz) = Append(c.container, [field |-> c.field, index |-> c.index])
    BY <1>2 DEF message_of
  <2>2. c.container \in Path /\ c.index \in Int /\ c.field \in Fields
    BY <2>1 DEF Call, FieldKinds
  <2>3. c.kind \in FieldKinds
    BY <2>1 DEF FieldKinds
  <2> QED
    BY <1>2, <2>1, <2>2, <2>3, TypeOfElement
<1> QED
  BY <1>1, <1>2

-----------------------------------------------------------------------------
(* Entering a call for a field *)

\* m is what push_message() returns for a constructor: M, or M and more.
Grown(M, m, t) ==
  /\ m.messages \in Seq(Entry) /\ Chain(m.messages)
  /\ Above(m.messages, t)
  /\ m.messages = <<>> <=> operation = "descriptor"
  /\ m.n \in Nat /\ Len(m.messages) = Len(M) + m.n
  /\ \A i \in 1..Len(M) : m.messages[i] = M[i]

push(f) == push_message([messages |-> data.messages, n |-> 0], f, -1)

\* What the constructor leaves on the four vectors and in its counts.
LEMMA ConstructedData ==
  ASSUME data \in Data, calls \in Seq(Call), calls # <<>>, NEW f \in Fields,
         Grown(data.messages, push(f), inside(f)),
         current_part = top(calls).in_part
  PROVE  LET s == constructed(f)
             p == in_part_of(f, top(calls))
         IN /\ s.data \in Data /\ s.n \in Counts /\ p \in Parts
            /\ s.data.messages = push(f).messages /\ s.n.messages = push(f).n
            /\ top(s.data.field) = f
            /\ is_message(f) => top(s.data.desc) = f.message_type
            /\ (IF s.data.parts = <<>> THEN "UNKNOWN" ELSE top(s.data.parts)) = p
            /\ OnTopOf(s.data.desc, data.desc, s.n.desc)
            /\ OnTopOf(s.data.field, data.field, s.n.field)
            /\ OnTopOf(s.data.parts, data.parts, s.n.parts)
            /\ OnTopOf(s.data.messages, data.messages, s.n.messages)
<1> DEFINE D == IF is_message(f) THEN Append(data.desc, f.message_type) ELSE data.desc
           F == Append(data.field, f)
           P == IF is_message(f) THEN Append(data.parts, part(f)) ELSE data.parts
           M == push(f).messages
           k == IF is_message(f) THEN 1 ELSE 0
           s == constructed(f)
<1>1. /\ s.data = [desc |-> D, field |-> F, parts |-> P, messages |-> M]
      /\ s.n = [desc |-> k, field |-> 1, parts |-> k, messages |-> push(f).n]
  BY DEF constructed, push
<1>2. /\ data.desc \in Seq(MessageTypes) /\ data.field \in Seq(Fields)
      /\ data.parts \in Seq(Parts) /\ data.messages \in Seq(Entry)
  BY DEF Data
<1>3. M \in Seq(Entry) /\ push(f).n \in Nat /\ k \in Nat
  BY DEF Grown
<1>4. top(calls) \in Call /\ top(calls).in_part \in Parts
  <2>1. top(calls) \in Call
    BY TopAndFront
  <2> QED
    BY <2>1 DEF Call
<1>5. /\ part(f) \in Parts /\ in_part_of(f, top(calls)) \in Parts
      /\ in_part_of(f, top(calls)) = IF is_message(f) THEN part(f) ELSE current_part
  BY <1>4, FieldFacts DEF part, in_part_of, Parts
<1>6. /\ D \in Seq(MessageTypes) /\ OnTopOf(D, data.desc, k)
      /\ is_message(f) => top(D) = f.message_type
  <2>1. CASE is_message(f)
    <3>1. f.message_type \in MessageTypes
      BY <2>1, FieldFacts
    <3> QED
      BY <1>2, <2>1, <3>1, TopOfAppend, AppendedOnTop
  <2>2. CASE ~is_message(f)
    BY <1>2, <2>2, SameOnTop
  <2> QED
    BY <2>1, <2>2
<1>7. F \in Seq(Fields) /\ OnTopOf(F, data.field, 1) /\ top(F) = f
  BY <1>2, TopOfAppend, AppendedOnTop
<1>8. /\ P \in Seq(Parts) /\ OnTopOf(P, data.parts, k)
      /\ (IF P = <<>> THEN "UNKNOWN" ELSE top(P)) = in_part_of(f, top(calls))
  <2>1. CASE is_message(f)
    <3>1. Append(data.parts, part(f)) # <<>> /\ top(Append(data.parts, part(f))) = part(f)
      BY <1>2, <1>5, TopOfAppend
    <3>2. Append(data.parts, part(f)) \in Seq(Parts) /\ OnTopOf(Append(data.parts, part(f)), data.parts, 1)
      BY <1>2, <1>5, TopOfAppend, AppendedOnTop
    <3> QED
      BY <1>5, <2>1, <3>1, <3>2
  <2>2. CASE ~is_message(f)
    <3>1. OnTopOf(data.parts, data.parts, 0)
      BY <1>2, SameOnTop
    <3> QED
      BY <1>2, <1>5, <2>2, <3>1 DEF current_part
  <2> QED
    BY <2>1, <2>2
<1>9. OnTopOf(M, data.messages, push(f).n)
  BY <1>2, <1>3, KeptOnTop DEF Grown
<1>10. s.data \in Data /\ s.n \in Counts
  <2> HIDE DEF D, F, P, M, k, s
  <2> QED
    BY <1>1, <1>3, <1>6, <1>7, <1>8 DEF Data, Counts
<1> HIDE DEF D, F, P, M, k
<1> QED
  BY <1>1, <1>5, <1>6, <1>7, <1>8, <1>9, <1>10 DEF M

\* A call for a field explains the vectors that its constructor leaves.
LEMMA ConstructedLevel ==
  ASSUME data \in Data, calls \in Seq(Call), calls # <<>>, NEW f \in Fields,
         Grown(data.messages, push(f), inside(f)),
         current_part = top(calls).in_part,
         NEW kind \in FieldKinds, NEW container \in Path \cup {None},
         container # None =>
           /\ GetDescriptor(container) = f.containing_type
           /\ operation # "descriptor"
           /\ top(push(f).messages).msg
                = IF is_message(f) /\ ~f.repeated
                    THEN Append(container, [field |-> f, index |-> -1]) ELSE container,
         kind = "field" /\ container # None => ~f.repeated,
         kind \in {"repeated", "elements"} => f.repeated /\ container # None,
         kind = "min" => container = None,
         kind = "elements" => push(f).n = 0
  PROVE  LET s == constructed(f)
             c == call(kind, f, container, in_part_of(f, top(calls)), s.n)
         IN s.data \in Data /\ c \in Call /\ Level(c, s.data, data, operation, sizes)
<1> DEFINE s == constructed(f)
           p == in_part_of(f, top(calls))
           c == call(kind, f, container, p, s.n)
<1>1. /\ s.data \in Data /\ s.n \in Counts /\ p \in Parts
      /\ s.data.messages = push(f).messages /\ s.n.messages = push(f).n
      /\ top(s.data.field) = f
      /\ is_message(f) => top(s.data.desc) = f.message_type
      /\ (IF s.data.parts = <<>> THEN "UNKNOWN" ELSE top(s.data.parts)) = p
      /\ OnTopOf(s.data.desc, data.desc, s.n.desc)
      /\ OnTopOf(s.data.field, data.field, s.n.field)
      /\ OnTopOf(s.data.parts, data.parts, s.n.parts)
      /\ OnTopOf(s.data.messages, data.messages, s.n.messages)
  BY ConstructedData
<1>2. /\ c.kind = kind /\ c.field = f /\ c.container = container /\ c.index = -1
      /\ c.in_part = p /\ c.n = s.n
  BY DEF call
<1>3. c \in Call
  BY <1>1 DEF call, Call
<1> HIDE DEF s, p, c
<1>4. Pushed(c, s.data, data)
  BY <1>1, <1>2, FourVectors
<1>5. /\ message_of(c, operation, sizes)
           = IF kind = "field" /\ is_message(f) /\ container # None
               THEN Append(container, [field |-> f, index |-> -1])
             ELSE None
      /\ container # None => Append(container, [field |-> f, index |-> -1]) # None
  <2>1. -1 \in Int /\ \A n \in Int : -1 \notin 0..n
    OBVIOUS
  <2>2. container # None => Append(container, [field |-> f, index |-> -1]) # None
    BY <2>1, TypeOfElement
  <2>3. kind # "base" /\ kind \in {"field", "repeated", "elements", "min"}
    BY DEF FieldKinds
  <2>4. CASE f.repeated
    <3>1. kind = "field" => container = None
      BY <2>4
    <3>2. message_of(c, operation, sizes) = None
      BY <1>2, <2>1, <2>3, <2>4, <3>1 DEF message_of
    <3> QED
      BY <2>2, <3>1, <3>2
  <2>5. CASE ~f.repeated
    BY <1>2, <2>2, <2>3, <2>5 DEF message_of
  <2> QED
    BY <2>4, <2>5
<1>6. container # None => top(push(f).messages).msg = in_work(c, operation, sizes)
  BY <1>2, <1>5 DEF in_work, FieldKinds
<1>7. InField(c, s.data, operation, sizes)
  BY <1>1, <1>2, <1>5, <1>6 DEF InField, Grown
<1>8. Level(c, s.data, data, operation, sizes)
  BY <1>1, <1>2, <1>4, <1>7 DEF Level, Grown
<1> QED
  BY <1>1, <1>3, <1>8 DEF s, p, c

-----------------------------------------------------------------------------
(* One call more, the innermost call changed, one call less *)

\* A call that its own level explains is one more in the explanation.
LEMMA OneCallMore ==
  ASSUME NEW cs \in Seq(Call), NEW c \in Call, NEW d, NEW e \in Data, NEW op, NEW sz,
         NEW S, Explains(S, cs, d, op, sz), Level(c, e, d, op, sz)
  PROVE  \E R : Explains(R, Append(cs, c), e, op, sz)
<1> DEFINE N == Len(cs)
           ds == Append(cs, c)
           R == [i \in 0..Len(ds) |-> IF i <= N THEN S[i] ELSE e]
<1>1. /\ S \in [0..N -> Data] /\ S[0] = empty /\ S[N] = d
      /\ \A i \in 1..N : Level(cs[i], S[i], S[i - 1], op, sz)
  BY DEF Explains
<1>2. N \in Nat /\ Len(ds) = N + 1 /\ ds[N + 1] = c /\ \A i \in 1..N : ds[i] = cs[i]
  BY TopOfAppend
<1> HIDE DEF N, ds
<1>3. \A i \in 0..N + 1 : R[i] = IF i <= N THEN S[i] ELSE e
  BY <1>2
<1>4. R \in [0..Len(ds) -> Data]
  BY <1>1, <1>2
<1> HIDE DEF R
<1>5. R[0] = empty /\ R[N] = d /\ R[N + 1] = e /\ \A i \in 1..N : R[i] = S[i] /\ R[i - 1] = S[i - 1]
  BY <1>1, <1>2, <1>3
<1>6. \A i \in 1..Len(ds) : Level(ds[i], R[i], R[i - 1], op, sz)
  <2> SUFFICES ASSUME NEW i \in 1..N + 1 PROVE Level(ds[i], R[i], R[i - 1], op, sz)
    BY <1>2
  <2>1. CASE i \in 1..N
    BY <1>1, <1>2, <1>5, <2>1
  <2>2. CASE i = N + 1
    <3>1. i - 1 = N
      BY <1>2, <2>2
    <3> QED
      BY <1>2, <1>5, <2>2, <3>1
  <2> QED
    BY <1>2, <2>1, <2>2
<1>7. Explains(R, ds, e, op, sz)
  BY <1>2, <1>4, <1>5, <1>6 DEF Explains
<1> QED
  BY <1>7 DEF ds

\* What the invariant says of the innermost call.
LEMMA InnermostCall ==
  ASSUME NEW cs \in Seq(Call), cs # <<>>, NEW d, NEW op, NEW sz,
         NEW S, Explains(S, cs, d, op, sz)
  PROVE  /\ top(cs) \in Call /\ S[Len(cs) - 1] \in Data
         /\ Level(top(cs), d, S[Len(cs) - 1], op, sz)
<1>1. /\ S \in [0..Len(cs) -> Data] /\ S[Len(cs)] = d
      /\ \A i \in 1..Len(cs) : Level(cs[i], S[i], S[i - 1], op, sz)
  BY DEF Explains
<1>2. Len(cs) \in 1..Len(cs) /\ top(cs) = cs[Len(cs)] /\ top(cs) \in Call
  BY TopAndFront
<1>3. Len(cs) - 1 \in 0..Len(cs)
  BY <1>2
<1> QED
  BY <1>1, <1>2, <1>3

\* An explanation with another innermost call.
LEMMA InnermostChanged ==
  ASSUME NEW cs \in Seq(Call), cs # <<>>, NEW d, NEW op, NEW sz,
         NEW S, Explains(S, cs, d, op, sz),
         NEW ds \in Seq(Call), Len(ds) = Len(cs), \A i \in 1..Len(cs) - 1 : ds[i] = cs[i],
         NEW e \in Data, Level(ds[Len(cs)], e, S[Len(cs) - 1], op, sz)
  PROVE  \E R : Explains(R, ds, e, op, sz)
<1> DEFINE N == Len(cs)
           R == [i \in 0..Len(ds) |-> IF i = N THEN e ELSE S[i]]
<1>1. /\ S \in [0..N -> Data] /\ S[0] = empty
      /\ \A i \in 1..N : Level(cs[i], S[i], S[i - 1], op, sz)
  BY DEF Explains
<1>2. N \in Nat /\ N # 0 /\ Len(ds) = N /\ Level(ds[N], e, S[N - 1], op, sz)
      /\ \A i \in 1..N - 1 : ds[i] = cs[i]
  OBVIOUS
<1> HIDE DEF N
<1>3. \A i \in 0..N : R[i] = IF i = N THEN e ELSE S[i]
  BY <1>2
<1>4. R \in [0..Len(ds) -> Data]
  BY <1>1, <1>2
<1> HIDE DEF R
<1>5. R[0] = empty /\ R[N] = e /\ R[N - 1] = S[N - 1]
  BY <1>1, <1>2, <1>3
<1>6. \A i \in 1..Len(ds) : Level(ds[i], R[i], R[i - 1], op, sz)
  <2> SUFFICES ASSUME NEW i \in 1..N PROVE Level(ds[i], R[i], R[i - 1], op, sz)
    BY <1>2
  <2>1. CASE i \in 1..N - 1
    <3>1. R[i] = S[i] /\ R[i - 1] = S[i - 1]
      BY <1>2, <1>3, <2>1
    <3> QED
      BY <1>1, <1>2, <2>1, <3>1
  <2>2. CASE i = N
    BY <1>2, <1>5, <2>2
  <2> QED
    BY <1>2, <2>1, <2>2
<1>7. Explains(R, ds, e, op, sz)
  BY <1>2, <1>4, <1>5, <1>6 DEF Explains
<1> QED
  BY <1>7

\* What explains the calls explains all but the innermost one.
LEMMA OneCallLess ==
  ASSUME NEW cs \in Seq(Call), cs # <<>>, NEW d, NEW op, NEW sz,
         NEW S, Explains(S, cs, d, op, sz)
  PROVE  \E R : Explains(R, Front(cs), S[Len(cs) - 1], op, sz)
<1> DEFINE N == Len(cs) - 1
           ds == Front(cs)
           R == [i \in 0..N |-> S[i]]
<1>1. /\ S \in [0..Len(cs) -> Data] /\ S[0] = empty
      /\ \A i \in 1..Len(cs) : Level(cs[i], S[i], S[i - 1], op, sz)
  BY DEF Explains
<1>2. N \in Nat /\ Len(cs) = N + 1 /\ Len(ds) = N /\ \A i \in 1..N : ds[i] = cs[i]
  BY TopAndFront
<1> HIDE DEF N, ds
<1>3. \A i \in 0..N : R[i] = S[i]
  BY <1>2
<1>4. R \in [0..Len(ds) -> Data]
  BY <1>1, <1>2
<1> HIDE DEF R
<1>5. R[0] = empty /\ R[N] = S[N]
  BY <1>1, <1>2, <1>3
<1>6. \A i \in 1..Len(ds) : Level(ds[i], R[i], R[i - 1], op, sz)
  <2> SUFFICES ASSUME NEW i \in 1..N PROVE Level(ds[i], R[i], R[i - 1], op, sz)
    BY <1>2
  <2>1. R[i] = S[i] /\ R[i - 1] = S[i - 1] /\ ds[i] = cs[i] /\ i \in 1..Len(cs)
    BY <1>2, <1>3
  <2> QED
    BY <1>1, <2>1
<1>7. Explains(R, ds, S[N], op, sz)
  BY <1>2, <1>4, <1>5, <1>6 DEF Explains
<1> QED
  BY <1>7 DEF N, ds

\* Outside of base_ it makes no difference what the Codec does next.
LEMMA OtherOperation ==
  ASSUME NEW cs \in Seq(Call), \A i \in 1..Len(cs) : cs[i].kind = "codec",
         NEW d, NEW op, NEW sz, NEW S, Explains(S, cs, d, op, sz), NEW new
  PROVE  Explains(S, cs, d, new, sz)
<1>1. ASSUME NEW i \in 1..Len(cs) PROVE Level(cs[i], S[i], S[i - 1], new, sz)
  <2>1. Level(cs[i], S[i], S[i - 1], op, sz) /\ cs[i].kind = "codec"
    BY DEF Explains
  <2>2. ~ InField(cs[i], S[i], op, sz)
    BY <2>1 DEF InField, FieldKinds
  <2> QED
    BY <2>1, <2>2 DEF Level, Outside
<1> QED
  BY <1>1 DEF Explains

\* The first call of a Codec with nothing on the stack.
LEMMA FirstLevel ==
  ASSUME NEW c \in Call, NEW op, NEW sz, c.kind \in {"codec", "base"},
         c.container = None, c.in_part = "UNKNOWN", NEW d \in Data,
         d = [empty EXCEPT !.desc = Append(@, Root)], c.n = [nothing_pushed EXCEPT !.desc = 1]
  PROVE  Level(c, d, empty, op, sz)
<1>1. /\ d.desc = Append(<<>>, Root) /\ d.field = <<>> /\ d.parts = <<>> /\ d.messages = <<>>
      /\ c.n.desc = 1 /\ c.n.field = 0 /\ c.n.parts = 0 /\ c.n.messages = 0
      /\ empty.desc = <<>> /\ empty.field = <<>> /\ empty.parts = <<>> /\ empty.messages = <<>>
  BY DEF empty, nothing_pushed
<1>2. Root \in MessageTypes
  BY DEF MessageTypes
<1>3. <<>> \in Seq(MessageTypes) /\ <<>> \in Seq(Fields)
  OBVIOUS
<1>4. OnTopOf(d.desc, empty.desc, 1) /\ top(d.desc) = Root
  <2>1. \A s \in Seq(MessageTypes) : OnTopOf(Append(s, Root), s, 1)
    BY <1>2, AppendedOnTop
  <2>2. \A s \in Seq(MessageTypes) : top(Append(s, Root)) = Root
    BY <1>2, TopOfAppend
  <2> QED
    BY <1>1, <1>3, <2>1, <2>2
<1>5. OnTopOf(<<>>, <<>>, 0)
  BY <1>3, SameOnTop
<1>6. Pushed(c, d, empty)
  BY <1>1, <1>4, <1>5, FourVectors
<1>7. Chain(d.messages)
  BY <1>1 DEF Chain
<1>8. Outside(c, d, op)
  BY <1>1, <1>4 DEF Outside
<1> QED
  BY <1>1, <1>6, <1>7, <1>8 DEF Level

-----------------------------------------------------------------------------
(* Every step keeps the invariant *)

\* Nothing is under way at first.
LEMMA InitStack ==
  ASSUME Init
  PROVE  StackInv
<1>1. /\ data = empty /\ calls = <<>> /\ operation = "none"
      /\ sizes \in [{f \in Fields : f.repeated} -> 0..MaxRepeat]
  BY DEF Init
<1>2. data \in Data
  BY <1>1 DEF Data, empty
<1>3. calls \in Seq(Call) /\ Len(calls) = 0 /\ 1..Len(calls) = {}
  BY <1>1
<1> DEFINE S == [i \in 0..0 |-> empty]
<1>4. S \in [0..0 -> Data] /\ S[0] = empty
  BY <1>1, <1>2
<1>5. Explains(S, calls, data, operation, sizes)
  BY <1>1, <1>3, <1>4 DEF Explains
<1>6. Nested(calls, operation)
  BY <1>1, <1>3 DEF Nested
<1> QED
  BY <1>1, <1>2, <1>3, <1>5, <1>6 DEF StackInv

\* What the calls may be, and how many, given what the Codec is doing.
LEMMA NestedFacts ==
  ASSUME NEW cs \in Seq(Call), cs # <<>>, NEW op \in Operations \cup {"none"}, Nested(cs, op)
  PROVE  /\ op = "none" => Len(cs) = 1 /\ top(cs).kind = "codec"
         /\ top(cs).kind = "codec" => op = "none"
         /\ top(cs).kind # "codec" => op \in Operations
         /\ top(cs).kind = "base" => \A i \in 1..Len(cs) - 1 : cs[i].kind = "codec"
<1>1. Len(cs) \in Nat /\ Len(cs) \in 1..Len(cs) /\ top(cs) = cs[Len(cs)]
  <2>1. Len(cs) \in 1..Len(cs) /\ top(cs) = cs[Len(cs)]
    BY TopAndFront
  <2> QED
    BY <2>1
<1>2. CASE op = "none"
  <2>1. Len(cs) <= 1 /\ \A i \in 1..Len(cs) : cs[i].kind = "codec"
    BY <1>2 DEF Nested
  <2> DEFINE n == Len(cs)
  <2>4. n \in Nat /\ n \in 1..n /\ n <= 1
    BY <1>1, <2>1
  <2> HIDE DEF n
  <2>5. n = 1
    BY <2>4
  <2>2. Len(cs) = 1
    BY <2>5 DEF n
  <2>3. top(cs).kind = "codec"
    BY <1>1, <2>1
  <2> QED
    BY <1>1, <1>2, <2>1, <2>2, <2>3 DEF Operations
<1>3. CASE op # "none"
  <2> DEFINE b == IF op \in {"encode", "decode"} THEN 2 ELSE 1
  <2>1. /\ b \in Nat /\ b <= Len(cs)
        /\ \A i \in 1..Len(cs) :
             /\ i < b => cs[i].kind = "codec"
             /\ i = b => cs[i].kind = "base"
             /\ i > b => cs[i].kind \in FieldKinds
    BY <1>3 DEF Nested
  <2> HIDE DEF b
  <2>2. "codec" \notin FieldKinds /\ "base" \notin FieldKinds
    BY DEF FieldKinds
  <2>3. top(cs).kind # "codec"
    BY <1>1, <2>1, <2>2
  <2>4. top(cs).kind = "base" => Len(cs) = b
    BY <1>1, <2>1, <2>2
  <2>5. top(cs).kind = "base" => \A i \in 1..Len(cs) - 1 : cs[i].kind = "codec"
    BY <1>1, <2>1, <2>4
  <2> QED
    BY <1>3, <2>3, <2>5
<1> QED
  BY <1>2, <1>3

\* A call for a field is made inside of base_, and what is asked of a field
\* inside of that.
LEMMA NestedGrows ==
  ASSUME NEW cs \in Seq(Call), cs # <<>>, NEW op \in Operations, Nested(cs, op),
         NEW c \in Call, c.kind \in FieldKinds
  PROVE  Nested(Append(cs, c), op)
<1> DEFINE b == IF op \in {"encode", "decode"} THEN 2 ELSE 1
           ds == Append(cs, c)
<1>1. op # "none"
  BY DEF Operations
<1>2. /\ b \in Nat /\ b <= Len(cs)
      /\ \A i \in 1..Len(cs) :
           /\ i < b => cs[i].kind = "codec"
           /\ i = b => cs[i].kind = "base"
           /\ i > b => cs[i].kind \in FieldKinds
  BY <1>1 DEF Nested
<1>3. /\ Len(ds) = Len(cs) + 1 /\ ds[Len(cs) + 1] = c /\ \A i \in 1..Len(cs) : ds[i] = cs[i]
      /\ Len(cs) \in Nat
  BY TopOfAppend
<1> HIDE DEF b, ds
<1>4. ASSUME NEW i \in 1..Len(ds)
      PROVE  /\ i < b => ds[i].kind = "codec"
             /\ i = b => ds[i].kind = "base"
             /\ i > b => ds[i].kind \in FieldKinds
  <2>1. CASE i \in 1..Len(cs)
    BY <1>2, <1>3, <2>1
  <2>2. CASE i = Len(cs) + 1
    BY <1>2, <1>3, <2>2
  <2> QED
    BY <1>3, <2>1, <2>2
<1>5. b <= Len(ds)
  BY <1>2, <1>3
<1> QED
  BY <1>1, <1>4, <1>5 DEF Nested, b, ds

\* Codec::encode() or decode() begins.
LEMMA StepCallCodec ==
  ASSUME StackInv, CallCodec
  PROVE  StackInv'
<1> DEFINE c == call("codec", None, None, "UNKNOWN", [nothing_pushed EXCEPT !.desc = 1])
           e == [data EXCEPT !.desc = Append(@, Root)]
<1>1. /\ calls = <<>> /\ data' = e /\ calls' = <<c>>
      /\ operation' = operation /\ sizes' = sizes
  BY DEF CallCodec
<1>2. PICK S : Explains(S, calls, data, operation, sizes)
  BY DEF StackInv
<1>3. Len(calls) = 0 /\ data = empty
  BY <1>1, <1>2 DEF Explains
<1>4. /\ c \in Call /\ c.kind = "codec" /\ c.container = None /\ c.in_part = "UNKNOWN"
      /\ c.n = [nothing_pushed EXCEPT !.desc = 1]
  BY DEF call, Call, Counts, nothing_pushed, Parts
<1>5. e \in Data /\ e = [empty EXCEPT !.desc = Append(@, Root)]
  <2>1. Root \in MessageTypes
    BY DEF MessageTypes
  <2>2. Append(<<>>, Root) \in Seq(MessageTypes)
    BY <2>1
  <2>3. e = [desc |-> Append(<<>>, Root), field |-> <<>>, parts |-> <<>>, messages |-> <<>>]
    BY <1>3 DEF empty
  <2> HIDE DEF e
  <2>4. e \in Data
    BY <2>2, <2>3 DEF Data
  <2> QED
    BY <1>3, <2>4 DEF e
<1> HIDE DEF c, e
<1>6. Level(c, e, data, operation, sizes)
  BY <1>3, <1>4, <1>5, FirstLevel
<1>7. calls' = Append(calls, c) /\ calls \in Seq(Call)
  BY <1>1 DEF StackInv
<1>8. \E R : Explains(R, Append(calls, c), e, operation, sizes)
  BY <1>2, <1>4, <1>5, <1>6, <1>7, OneCallMore
<1>9. \E R : Explains(R, calls', data', operation', sizes')
  BY <1>1, <1>7, <1>8
<1>10. operation = "none"
  BY <1>1, <1>3 DEF StackInv, Nested
<1>11. Nested(calls', operation')
  <2>1. Len(<<c>>) = 1 /\ <<c>>[1] = c
    OBVIOUS
  <2> QED
    BY <1>1, <1>4, <1>10, <2>1 DEF Nested
<1>12. calls' \in Seq(Call) /\ data' \in Data
  BY <1>1, <1>4, <1>5
<1> QED
  BY <1>1, <1>9, <1>11, <1>12 DEF StackInv

\* One of the base_ functions is called.
LEMMA StepCallBase ==
  ASSUME StackInv, NEW o \in Operations, CallBase(o)
  PROVE  StackInv'
<1> DEFINE k == IF o = "descriptor" THEN 1 ELSE 0
           c == call("base", None, None, "UNKNOWN", [nothing_pushed EXCEPT !.desc = k])
           e == IF o = "descriptor" THEN [data EXCEPT !.desc = Append(@, Root)] ELSE data
<1>1. /\ operation = "none" /\ operation' = o /\ sizes' = sizes
      /\ IF o \in {"encode", "decode"} THEN calls # <<>> ELSE calls = <<>>
      /\ data' = e /\ calls' = Append(calls, c)
  BY DEF CallBase
<1>2. PICK S : Explains(S, calls, data, operation, sizes)
  BY DEF StackInv
<1>3. calls \in Seq(Call) /\ data \in Data /\ Nested(calls, "none")
  BY <1>1 DEF StackInv
<1>4. Len(calls) \in Nat /\ Len(calls) <= 1 /\ \A i \in 1..Len(calls) : calls[i].kind = "codec"
  BY <1>3 DEF Nested
<1>5. Explains(S, calls, data, o, sizes)
  BY <1>2, <1>3, <1>4, OtherOperation
<1>6. /\ c \in Call /\ c.kind = "base" /\ c.container = None /\ c.in_part = "UNKNOWN"
      /\ c.n = [nothing_pushed EXCEPT !.desc = k]
  BY DEF call, Call, Counts, nothing_pushed, Parts
<1>7. calls = <<>> => data = empty
  BY <1>2 DEF Explains
<1>8. e \in Data /\ Level(c, e, data, o, sizes)
  <2>1. CASE o = "descriptor"
    <3>1. e = [empty EXCEPT !.desc = Append(@, Root)] /\ data = empty
      BY <1>1, <1>7, <2>1
    <3>2. Root \in MessageTypes
      BY DEF MessageTypes
    <3>3. Append(<<>>, Root) \in Seq(MessageTypes)
      BY <3>2
    <3>4. e = [desc |-> Append(<<>>, Root), field |-> <<>>, parts |-> <<>>, messages |-> <<>>]
      BY <3>1 DEF empty
    <3>5. c.n = [nothing_pushed EXCEPT !.desc = 1]
      BY <1>6, <2>1
    <3> HIDE DEF e, c
    <3>6. e \in Data
      BY <3>3, <3>4 DEF Data
    <3> QED
      BY <1>6, <3>1, <3>5, <3>6, FirstLevel
  <2>2. CASE o # "descriptor"
    <3>1. e = data
      BY <2>2
    <3>2. c.n.desc = 0 /\ c.n.field = 0 /\ c.n.parts = 0 /\ c.n.messages = 0
      BY <1>6, <2>2 DEF nothing_pushed
    <3>3. /\ data.desc \in Seq(MessageTypes) /\ data.field \in Seq(Fields)
          /\ data.parts \in Seq(Parts) /\ data.messages \in Seq(Entry)
      BY <1>3 DEF Data
    <3> HIDE DEF e, c
    <3>4. /\ OnTopOf(data.desc, data.desc, 0) /\ OnTopOf(data.field, data.field, 0)
          /\ OnTopOf(data.parts, data.parts, 0) /\ OnTopOf(data.messages, data.messages, 0)
      BY <3>3, SameOnTop
    <3>5. Pushed(c, data, data)
      BY <3>2, <3>4, FourVectors
    <3>6. /\ data.messages = <<>> /\ data.parts = <<>>
          /\ o = "decode" => top(data.desc) = Root
      <4>1. CASE calls = <<>>
        BY <1>1, <1>7, <4>1 DEF empty
      <4>2. CASE calls # <<>>
        <5>1. Level(top(calls), data, S[Len(calls) - 1], o, sizes)
          BY <1>3, <1>5, <4>2, InnermostCall
        <5>2. top(calls).kind = "codec"
          BY <1>3, <4>2, NestedFacts
        <5>3. Outside(top(calls), data, o)
          BY <5>1, <5>2 DEF Level, InField, FieldKinds
        <5> QED
          BY <5>2, <5>3 DEF Outside
      <4> QED
        BY <4>1, <4>2
    <3>7. Outside(c, data, o)
      BY <1>6, <2>2, <3>6 DEF Outside
    <3>8. Chain(data.messages)
      BY <3>6 DEF Chain
    <3> QED
      BY <1>3, <1>6, <3>1, <3>5, <3>6, <3>7, <3>8 DEF Level
  <2> QED
    BY <2>1, <2>2
<1> HIDE DEF c, e
<1>9. \E R : Explains(R, Append(calls, c), e, o, sizes)
  BY <1>3, <1>5, <1>6, <1>8, OneCallMore
<1>10. \E R : Explains(R, calls', data', operation', sizes')
  BY <1>1, <1>9
<1>11. Nested(calls', operation')
  <2> DEFINE b == IF o \in {"encode", "decode"} THEN 2 ELSE 1
             ds == Append(calls, c)
  <2>1. /\ Len(ds) = Len(calls) + 1 /\ ds[Len(calls) + 1] = c
        /\ \A i \in 1..Len(calls) : ds[i] = calls[i]
    BY <1>3, <1>6, TopOfAppend
  <2>2. Len(calls) = b - 1 /\ b \in Nat
    BY <1>1, <1>4, <1>3
  <2> HIDE DEF b, ds
  <2>3. \A i \in 1..Len(ds) : i = b \/ (i < b /\ i \in 1..Len(calls))
    BY <2>1, <2>2
  <2>4. ds[b] = c /\ Len(ds) = b
    BY <2>1, <2>2
  <2>5. ASSUME NEW i \in 1..Len(ds)
        PROVE  /\ i < b => ds[i].kind = "codec"
               /\ i = b => ds[i].kind = "base"
               /\ i > b => ds[i].kind \in FieldKinds
    BY <1>4, <1>6, <2>1, <2>2, <2>3, <2>4
  <2>6. o # "none" /\ b <= Len(ds)
    BY <2>2, <2>4 DEF Operations
  <2> QED
    BY <1>1, <2>5, <2>6 DEF Nested, b, ds
<1>12. calls' \in Seq(Call) /\ data' \in Data /\ operation' \in Operations \cup {"none"}
  BY <1>1, <1>3, <1>6, <1>8
<1>13. sizes' \in [{f \in Fields : f.repeated} -> 0..MaxRepeat]
  BY <1>1 DEF StackInv
<1> QED
  BY <1>10, <1>11, <1>12, <1>13 DEF StackInv

\* A call for a field, however it comes about.
LEMMA StepEnter ==
  ASSUME StackInv, calls # <<>>, operation \in Operations, NEW f \in Fields,
         NEW kind \in FieldKinds, NEW container, enter(kind, f, container),
         operation' = operation, sizes' = sizes,
         constructed(f).data \in Data,
         call(kind, f, container, in_part_of(f, top(calls)), constructed(f).n) \in Call,
         Level(call(kind, f, container, in_part_of(f, top(calls)), constructed(f).n),
               constructed(f).data, data, operation, sizes)
  PROVE  StackInv'
<1> DEFINE e == constructed(f).data
           c == call(kind, f, container, in_part_of(f, top(calls)), constructed(f).n)
<1>1. data' = e /\ calls' = Append(calls, c)
  BY DEF enter
<1>2. c \in Call /\ e \in Data /\ c.kind = kind /\ Level(c, e, data, operation, sizes)
  BY DEF call
<1> HIDE DEF c, e
<1>3. PICK S : Explains(S, calls, data, operation, sizes)
  BY DEF StackInv
<1>4. calls \in Seq(Call) /\ Nested(calls, operation)
  BY DEF StackInv
<1>5. \E R : Explains(R, Append(calls, c), e, operation, sizes)
  BY <1>2, <1>3, <1>4, OneCallMore
<1>6. \E R : Explains(R, calls', data', operation', sizes')
  BY <1>1, <1>5
<1>7. Nested(Append(calls, c), operation)
  BY <1>2, <1>4, NestedGrows
<1>8. Nested(calls', operation')
  BY <1>1, <1>7
<1>9. calls' \in Seq(Call) /\ data' \in Data
  BY <1>1, <1>2, <1>4
<1>10. /\ operation' \in Operations \cup {"none"}
       /\ sizes' \in [{g \in Fields : g.repeated} -> 0..MaxRepeat]
  BY DEF StackInv
<1> QED
  BY <1>6, <1>8, <1>9, <1>10 DEF StackInv

\* What the invariant says of the innermost call, which is for a field or
\* goes through the message that the Codec is for.
LEMMA Innermost ==
  ASSUME StackInv, calls # <<>>
  PROVE  /\ data \in Data /\ calls \in Seq(Call) /\ top(calls) \in Call
         /\ Chain(data.messages)
         /\ current_part = top(calls).in_part
         /\ Outside(top(calls), data, operation) \/ InField(top(calls), data, operation, sizes)
         /\ top(calls).kind = "codec" => operation = "none"
         /\ top(calls).kind # "codec" => operation \in Operations
<1>1. PICK S : Explains(S, calls, data, operation, sizes)
  BY DEF StackInv
<1>2. /\ data \in Data /\ calls \in Seq(Call) /\ operation \in Operations \cup {"none"}
      /\ Nested(calls, operation)
  BY DEF StackInv
<1>3. top(calls) \in Call /\ Level(top(calls), data, S[Len(calls) - 1], operation, sizes)
  BY <1>1, <1>2, InnermostCall
<1>4. /\ top(calls).kind = "codec" => operation = "none"
      /\ top(calls).kind # "codec" => operation \in Operations
  BY <1>2, NestedFacts
<1> QED
  BY <1>2, <1>3, <1>4 DEF Level, current_part

\* What the constructor pushes for a field of the message on top, or below it.
LEMMA GrownInside ==
  ASSUME data \in Data, Chain(data.messages), operation \in Operations, NEW f \in Fields,
         operation = "descriptor" => data.messages = <<>>,
         Above(Rooted(data.messages), f.containing_type)
  PROVE  /\ Grown(data.messages, push(f), inside(f))
         /\ Rooted(data.messages) # <<>> /\ GetDescriptor(top(Rooted(data.messages)).msg) = f.containing_type =>
              top(push(f).messages).msg
                = IF is_message(f) /\ ~f.repeated
                    THEN Append(top(Rooted(data.messages)).msg, [field |-> f, index |-> -1])
                    ELSE top(Rooted(data.messages)).msg
<1>1. data.messages \in Seq(Entry)
  BY DEF Data
<1> QED
  BY <1>1, PushInside DEF Grown, push

\* A call for a field of a message.
LEMMA StepCallField ==
  ASSUME StackInv, NEW f \in Fields, CallField(f)
  PROVE  StackInv'
<1> DEFINE c == top(calls)
           m == message_of(c, operation, sizes)
           kind == IF f.repeated THEN "repeated" ELSE "field"
           R == Rooted(data.messages)
<1>1. /\ calls # <<>> /\ m # None /\ f.containing_type = GetDescriptor(m)
      /\ enter(kind, f, m) /\ operation' = operation /\ sizes' = sizes
  BY TraversedIs DEF CallField
<1>2. /\ data \in Data /\ calls \in Seq(Call) /\ c \in Call
      /\ Chain(data.messages)
      /\ current_part = c.in_part
      /\ Outside(c, data, operation) \/ InField(c, data, operation, sizes)
      /\ c.kind = "codec" => operation = "none"
      /\ c.kind # "codec" => operation \in Operations
  BY <1>1, Innermost
<1>3. c.kind \in FieldKinds => c.field \in Fields
  BY <1>2 DEF InField, Outside, FieldKinds
<1>4. /\ m \in Path
      /\ c.kind # "base" => c.kind \in FieldKinds /\ c.container # None
      /\ c.kind = "base" => operation # "descriptor" /\ m = <<>>
  BY <1>1, <1>2, <1>3, MessageOfCall
<1>5. operation \in Operations
  BY <1>2, <1>4 DEF FieldKinds
<1> HIDE DEF c, m
<1>6. operation # "descriptor" /\ R # <<>> /\ top(R).msg = m
  <2>1. CASE c.kind = "base"
    <3>1. data.messages = <<>> /\ operation # "descriptor"
      BY <1>2, <1>4, <2>1 DEF Outside, InField, FieldKinds
    <3>2. R = <<[msg |-> <<>>, field |-> None]>>
      BY <1>5, <3>1 DEF Rooted, has_root_message, Operations
    <3> HIDE DEF R
    <3>3. R # <<>> /\ top(R).msg = <<>>
      BY <3>2, ChainOfRoot
    <3> QED
      BY <1>4, <2>1, <3>1, <3>3
  <2>2. CASE c.kind # "base"
    <3>1. InField(c, data, operation, sizes) /\ c.container # None
      BY <1>2, <1>4, <2>2 DEF Outside, FieldKinds
    <3>2. data.messages # <<>> /\ operation # "descriptor"
      BY <3>1 DEF InField
    <3>3. top(data.messages).msg = m
      BY <1>1, <3>1 DEF InField, in_work, m
    <3> QED
      BY <3>2, <3>3 DEF Rooted
  <2> QED
    BY <2>1, <2>2
<1>7. Above(R, f.containing_type) /\ GetDescriptor(top(R).msg) = f.containing_type
  BY <1>1, <1>6 DEF Above
<1> HIDE DEF R
<1>8. /\ Grown(data.messages, push(f), inside(f))
      /\ top(push(f).messages).msg = IF is_message(f) /\ ~f.repeated
                                       THEN Append(m, [field |-> f, index |-> -1]) ELSE m
  BY <1>2, <1>5, <1>6, <1>7, GrownInside DEF R
<1>9. f.repeated \in BOOLEAN
  BY FieldFacts
<1>10. /\ kind \in FieldKinds
       /\ kind = "field" => ~f.repeated
       /\ kind \in {"repeated", "elements"} => f.repeated
       /\ kind # "min" /\ kind # "elements"
  BY <1>9 DEF FieldKinds
<1> HIDE DEF kind
<1> DEFINE s == constructed(f)
           d == call(kind, f, m, in_part_of(f, top(calls)), s.n)
<1>11. s.data \in Data /\ d \in Call /\ Level(d, s.data, data, operation, sizes)
  BY <1>1, <1>2, <1>4, <1>6, <1>8, <1>10, ConstructedLevel DEF c
<1> QED
  BY <1>1, <1>5, <1>10, <1>11, StepEnter

\* A call for a field of a descriptor.
LEMMA StepCallFieldOfDescriptor ==
  ASSUME StackInv, NEW f \in Fields, CallFieldOfDescriptor(f)
  PROVE  StackInv'
<1> DEFINE c == top(calls)
           R == Rooted(data.messages)
<1>1. /\ calls # <<>>
      /\ \/ c.kind = "base" /\ operation \in {"descriptor", "decode"}
         \/ c.kind \in {"field", "elements", "min"} /\ is_message(c.field)
      /\ f.containing_type = top(data.desc)
      /\ enter("field", f, None) /\ operation' = operation /\ sizes' = sizes
  BY DEF CallFieldOfDescriptor, this_descriptor
<1>2. /\ data \in Data /\ calls \in Seq(Call) /\ c \in Call
      /\ Chain(data.messages)
      /\ current_part = c.in_part
      /\ Outside(c, data, operation) \/ InField(c, data, operation, sizes)
      /\ c.kind = "codec" => operation = "none"
      /\ c.kind # "codec" => operation \in Operations
  BY <1>1, Innermost
<1>3. operation \in Operations
  BY <1>1, <1>2
<1>4. (operation = "descriptor" => data.messages = <<>>) /\ Above(R, f.containing_type)
  <2>1. CASE c.kind = "base"
    <3>1. data.messages = <<>> /\ f.containing_type = Root
      BY <1>1, <1>2, <2>1 DEF Outside, InField, FieldKinds
    <3>2. R = IF operation # "descriptor" THEN <<[msg |-> <<>>, field |-> None]>> ELSE <<>>
      BY <1>3, <3>1 DEF Rooted, has_root_message, Operations
    <3> HIDE DEF R
    <3>3. R # <<>> => top(R).msg = <<>>
      BY <3>2, ChainOfRoot
    <3> QED
      BY <3>1, <3>3 DEF Above, GetDescriptor
  <2>2. CASE c.kind # "base"
    <3>1. c.kind \in {"field", "elements", "min"} /\ is_message(c.field)
      BY <1>1, <2>2
    <3>2. InField(c, data, operation, sizes)
      BY <1>2, <3>1 DEF Outside
    <3>3. /\ data.messages = <<>> <=> operation = "descriptor"
          /\ top(data.desc) = c.field.message_type
          /\ Above(data.messages, c.field.message_type)
      BY <3>1, <3>2 DEF InField, inside
    <3>4. R = data.messages
      BY <1>3, <3>3 DEF Rooted, has_root_message
    <3> QED
      BY <1>1, <3>3, <3>4
  <2> QED
    BY <2>1, <2>2
<1>5. Grown(data.messages, push(f), inside(f))
  BY <1>2, <1>3, <1>4, GrownInside
<1> DEFINE s == constructed(f)
           d == call("field", f, None, in_part_of(f, top(calls)), s.n)
<1>6. "field" \in FieldKinds
  BY DEF FieldKinds
<1>7. s.data \in Data /\ d \in Call /\ Level(d, s.data, data, operation, sizes)
  BY <1>1, <1>2, <1>5, <1>6, ConstructedLevel
<1> QED
  BY <1>1, <1>3, <1>6, <1>7, StepEnter

\* What the innermost call pushed when another for its field does.
LEMMA GrownAgain ==
  ASSUME data \in Data, Chain(data.messages), data.messages # <<>>,
         operation # "descriptor", NEW f \in Fields, Above(data.messages, inside(f)),
         NEW P \in Path, GetDescriptor(P) = f.containing_type,
         top(data.messages).msg = IF is_message(f) /\ ~f.repeated
                                    THEN Append(P, [field |-> f, index |-> -1]) ELSE P
  PROVE  /\ Grown(data.messages, push(f), inside(f))
         /\ push(f).messages = data.messages /\ push(f).n = 0
<1>1. data.messages \in Seq(Entry)
  BY DEF Data
<1>2. push(f) = [messages |-> data.messages, n |-> 0]
  BY <1>1, PushAgain DEF push
<1>3. push(f).messages = data.messages /\ push(f).n = 0
  BY <1>2
<1>4. Len(data.messages) = Len(data.messages) + 0
  BY <1>1
<1> QED
  BY <1>1, <1>3, <1>4 DEF Grown

\* The call around a further call for the same field.
LEMMA CallOfField ==
  ASSUME StackInv, calls # <<>>, top(calls).kind \in {"field", "repeated"},
         top(calls).container # None
  PROVE  LET f == top(calls).field
         IN /\ f \in Fields /\ operation \in Operations
            /\ top(calls).container \in Path
            /\ GetDescriptor(top(calls).container) = f.containing_type
            /\ operation # "descriptor"
            /\ top(data.messages).msg
                 = IF is_message(f) /\ ~f.repeated
                     THEN Append(top(calls).container, [field |-> f, index |-> -1])
                     ELSE top(calls).container
            /\ top(data.field) = f
            /\ top(calls).kind = "repeated" => f.repeated
            /\ Grown(data.messages, push(f), inside(f))
            /\ push(f).messages = data.messages /\ push(f).n = 0
<1> DEFINE c == top(calls)
           f == c.field
<1>1. /\ data \in Data /\ calls \in Seq(Call) /\ c \in Call
      /\ Chain(data.messages)
      /\ Outside(c, data, operation) \/ InField(c, data, operation, sizes)
      /\ c.kind # "codec" => operation \in Operations
  BY Innermost
<1>2. InField(c, data, operation, sizes) /\ operation \in Operations /\ c.container \in Path
  BY <1>1 DEF Outside, Call
<1>3. c.kind \in {"field", "repeated"} /\ c.container # None
  OBVIOUS
<1> HIDE DEF c
<1>4. /\ f \in Fields /\ GetDescriptor(c.container) = f.containing_type
      /\ operation # "descriptor" /\ data.messages # <<>>
      /\ top(data.messages).msg = in_work(c, operation, sizes)
      /\ top(data.field) = f
      /\ Above(data.messages, inside(f))
      /\ c.kind = "field" => ~f.repeated /\ c.index = -1
      /\ c.kind = "repeated" => f.repeated
  BY <1>2, <1>3 DEF InField
<1>5. Append(c.container, [field |-> f, index |-> -1]) # None
  <2>1. -1 \in Int
    OBVIOUS
  <2> QED
    BY <1>2, <1>4, <2>1, TypeOfElement
<1>6. in_work(c, operation, sizes)
        = IF is_message(f) /\ ~f.repeated
            THEN Append(c.container, [field |-> f, index |-> -1]) ELSE c.container
  BY <1>3, <1>4, <1>5 DEF in_work, message_of
<1>7. /\ Grown(data.messages, push(f), inside(f))
      /\ push(f).messages = data.messages /\ push(f).n = 0
  <2> HIDE DEF f
  <2> QED
    BY <1>1, <1>2, <1>4, <1>6, GrownAgain
<1> QED
  BY <1>2, <1>4, <1>6, <1>7 DEF c

\* field_min_size() of the field that is being decoded.
LEMMA StepCallMinSize ==
  ASSUME StackInv, CallMinSize
  PROVE  StackInv'
<1> DEFINE f == top(calls).field
           s == constructed(f)
           d == call("min", f, None, in_part_of(f, top(calls)), s.n)
<1>1. /\ calls # <<>> /\ top(calls).kind \in {"field", "repeated"} /\ top(calls).container # None
      /\ enter("min", f, None) /\ operation' = operation /\ sizes' = sizes
  BY DEF CallMinSize
<1>2. data \in Data /\ calls \in Seq(Call) /\ current_part = top(calls).in_part
  BY <1>1, Innermost
<1>3. /\ f \in Fields /\ operation \in Operations /\ Grown(data.messages, push(f), inside(f))
      /\ push(f).n = 0
  BY <1>1, CallOfField
<1>4. "min" \in FieldKinds
  BY DEF FieldKinds
<1> HIDE DEF f
<1>5. s.data \in Data /\ d \in Call /\ Level(d, s.data, data, operation, sizes)
  BY <1>1, <1>2, <1>3, <1>4, ConstructedLevel
<1> QED
  BY <1>1, <1>3, <1>4, <1>5, StepEnter

\* The call for the elements of a repeated field.
LEMMA StepCallElements ==
  ASSUME StackInv, CallElements
  PROVE  StackInv'
<1> DEFINE f == top(calls).field
           m == top(calls).container
           s == constructed(f)
           d == call("elements", f, m, in_part_of(f, top(calls)), s.n)
<1>1. /\ calls # <<>> /\ top(calls).kind = "repeated"
      /\ enter("elements", top(data.field), m) /\ operation' = operation /\ sizes' = sizes
  BY DEF CallElements, this_field
<1>2. /\ data \in Data /\ calls \in Seq(Call) /\ current_part = top(calls).in_part
      /\ Outside(top(calls), data, operation) \/ InField(top(calls), data, operation, sizes)
  BY <1>1, Innermost
<1>3. m # None
  BY <1>1, <1>2 DEF Outside, InField
<1>4. /\ f \in Fields /\ operation \in Operations /\ m \in Path
      /\ GetDescriptor(m) = f.containing_type
      /\ operation # "descriptor" /\ f.repeated /\ top(data.field) = f
      /\ top(data.messages).msg = IF is_message(f) /\ ~f.repeated
                                    THEN Append(m, [field |-> f, index |-> -1]) ELSE m
      /\ Grown(data.messages, push(f), inside(f))
      /\ push(f).messages = data.messages /\ push(f).n = 0
  BY <1>1, <1>3, CallOfField
<1>5. "elements" \in FieldKinds
  BY DEF FieldKinds
<1> HIDE DEF f, m
<1>6. s.data \in Data /\ d \in Call /\ Level(d, s.data, data, operation, sizes)
  BY <1>1, <1>2, <1>3, <1>4, <1>5, ConstructedLevel
<1> QED
  BY <1>1, <1>4, <1>5, <1>6, StepEnter

\* update_index() within a call for the elements of a field.
LEMMA NextLevel ==
  ASSUME data \in Data, NEW c \in Call, NEW p \in Data, operation \in Operations,
         Level(c, data, p, operation, sizes), c.kind = "elements",
         NEW m, m = push_message([messages |-> data.messages, n |-> c.n.messages],
                                 top(data.field), c.index + 1),
         NEW d, d = [c EXCEPT !.index = @ + 1, !.n.messages = m.n]
  PROVE  /\ [data EXCEPT !.messages = m.messages] \in Data /\ d \in Call
         /\ Level(d, [data EXCEPT !.messages = m.messages], p, operation, sizes)
<1> DEFINE f == c.field
           P == c.container
           M == data.messages
           n == c.n.messages
           j == c.index
           e == [data EXCEPT !.messages = m.messages]
<1>1. InField(c, data, operation, sizes) /\ Chain(M) /\ Pushed(c, data, p)
      /\ (IF data.parts = <<>> THEN "UNKNOWN" ELSE top(data.parts)) = c.in_part
  BY DEF Level, Outside
<1>2. /\ f \in Fields /\ top(data.field) = f /\ P # None /\ f.repeated /\ j >= -1
      /\ is_message(f) => top(data.desc) = f.message_type
      /\ GetDescriptor(P) = f.containing_type
      /\ M # <<>> /\ operation # "descriptor" /\ Above(M, inside(f))
      /\ top(M).msg = in_work(c, operation, sizes)
      /\ is_message(f) => n = IF message_of(c, operation, sizes) = None THEN 0 ELSE 1
  BY <1>1 DEF InField
<1>3. /\ M \in Seq(Entry) /\ c.n \in Counts /\ n \in Nat /\ j \in Int /\ P \in Path
      /\ j + 1 \in Int /\ c.in_part \in Parts
  <2>1. c.n \in Counts /\ j \in Int /\ P \in Path \cup {None} /\ c.in_part \in Parts
    BY DEF Call
  <2>2. n \in Nat
    BY <2>1 DEF Counts
  <2>3. M \in Seq(Entry)
    BY DEF Data
  <2> HIDE DEF P, j, n, M
  <2> QED
    BY <1>2, <2>1, <2>2, <2>3
<1>4. /\ p.messages \in Seq(Entry) /\ p.desc \in Seq(MessageTypes)
      /\ p.field \in Seq(Fields) /\ p.parts \in Seq(Parts)
  BY DEF Data
<1>5. /\ OnTopOf(data.desc, p.desc, c.n.desc) /\ OnTopOf(data.field, p.field, c.n.field)
      /\ OnTopOf(data.parts, p.parts, c.n.parts) /\ OnTopOf(M, p.messages, n)
  BY <1>1, FourVectors
<1>6. /\ d.kind = "elements" /\ d.field = f /\ d.container = P /\ d.index = j + 1
      /\ d.in_part = c.in_part /\ d.n = [c.n EXCEPT !.messages = m.n]
  BY DEF Call
<1>7. \A x \in Int : x \in 0..(FieldSize(f) - 1) <=>
                       x \in 0..((IF operation = "decode" THEN MaxRepeat ELSE sizes[f]) - 1)
  BY DEF FieldSize
<1>8. /\ message_of(c, operation, sizes)
           = IF is_message(f) /\ has_element(f, j)
               THEN Append(P, [field |-> f, index |-> j]) ELSE None
      /\ Append(P, [field |-> f, index |-> j]) # None
  <2>1. Append(P, [field |-> f, index |-> j]) # None
    BY <1>2, <1>3, TypeOfElement
  <2> QED
    BY <1>2, <1>3, <1>7, <2>1 DEF message_of, has_element
<1>9. /\ message_of(d, operation, sizes)
           = IF is_message(f) /\ has_element(f, j + 1)
               THEN Append(P, [field |-> f, index |-> j + 1]) ELSE None
      /\ Append(P, [field |-> f, index |-> j + 1]) # None
  <2>1. Append(P, [field |-> f, index |-> j + 1]) # None
    BY <1>2, <1>3, TypeOfElement
  <2> HIDE DEF f, P, j
  <2> QED
    BY <1>2, <1>3, <1>6, <1>7, <2>1 DEF message_of, has_element
<1> HIDE DEF f, P, M, n, j
<1>10. /\ m.messages \in Seq(Entry) /\ Chain(m.messages) /\ m.messages # <<>>
       /\ Above(m.messages, inside(f)) /\ m.n \in Nat
       /\ is_message(f) => m.n = IF has_element(f, j + 1) THEN 1 ELSE 0
       /\ top(m.messages).msg
            = IF is_message(f) /\ has_element(f, j + 1)
                THEN Append(P, [field |-> f, index |-> j + 1]) ELSE P
       /\ Len(m.messages) = Len(p.messages) + m.n
       /\ \A i \in 1..Len(p.messages) : m.messages[i] = M[i]
  <2>1. Len(M) = Len(p.messages) + n /\ Len(p.messages) \in Nat
    BY <1>4, <1>5 DEF OnTopOf
  <2>2. m = push_message([messages |-> M, n |-> n], f, j + 1)
    BY <1>2 DEF M, n, j
  <2>3. CASE is_message(f)
    <3>1. /\ n = IF has_element(f, j) THEN 1 ELSE 0
          /\ top(M).msg = IF has_element(f, j) THEN Append(P, [field |-> f, index |-> j]) ELSE P
      BY <1>2, <1>8, <2>3, <1>6 DEF in_work, P
    <3>2. /\ m.messages \in Seq(Entry) /\ Chain(m.messages) /\ m.messages # <<>>
          /\ Above(m.messages, f.message_type)
          /\ m.n = IF has_element(f, j + 1) THEN 1 ELSE 0
          /\ top(m.messages).msg
               = IF has_element(f, j + 1) THEN Append(P, [field |-> f, index |-> j + 1]) ELSE P
          /\ Len(m.messages) - m.n = Len(M) - n
          /\ \A i \in 1..Len(M) - n : m.messages[i] = M[i]
      <4>1. M \in Seq(Entry) /\ M # <<>> /\ Chain(M) /\ P \in Path /\ j \in Int
        BY <1>1, <1>2, <1>3
      <4>2. f \in Fields /\ f.repeated /\ GetDescriptor(P) = f.containing_type
        BY <1>2
      <4> QED
        BY <2>2, <2>3, <3>1, <4>1, <4>2, PushNext
    <3>3. m.n \in Nat /\ Len(m.messages) \in Nat /\ Len(M) - n = Len(p.messages)
      BY <1>3, <2>1, <3>2
    <3>4. Len(m.messages) = Len(p.messages) + m.n
      BY <2>1, <3>2, <3>3
    <3> QED
      BY <2>3, <3>2, <3>3, <3>4 DEF inside
  <2>4. CASE ~is_message(f)
    <3>1. m = [messages |-> M, n |-> n]
      BY <1>2, <2>2, <2>4 DEF push_message
    <3>2. top(M).msg = P
      BY <1>2, <1>8, <2>4 DEF in_work, P
    <3> QED
      BY <1>1, <1>2, <1>3, <2>1, <2>4, <3>1, <3>2 DEF M
  <2> QED
    BY <2>3, <2>4
<1>11. /\ e \in Data /\ e.messages = m.messages
       /\ e.desc = data.desc /\ e.field = data.field /\ e.parts = data.parts
  BY <1>10 DEF Data
<1>12. d.n \in Counts /\ d.n.desc = c.n.desc /\ d.n.field = c.n.field /\ d.n.parts = c.n.parts
       /\ d.n.messages = m.n
  BY <1>3, <1>6, <1>10 DEF Counts
<1>13. d \in Call
  <2>1. d = [kind |-> "elements", field |-> f, container |-> P, index |-> j + 1,
             in_part |-> c.in_part, n |-> d.n]
    BY <1>6 DEF Call, f, P, j
  <2> QED
    BY <1>2, <1>3, <1>12, <2>1 DEF Call, FieldKinds
<1> HIDE DEF e
<1>14. OnTopOf(m.messages, p.messages, m.n)
  <2>1. \A i \in 1..Len(p.messages) : M[i] = p.messages[i]
    <3>1. Len(M) = Len(p.messages) + n
      BY <1>5 DEF OnTopOf
    <3> QED
      BY <1>3, <1>4, <1>5, <3>1, KeptOnTop
  <2> QED
    BY <1>4, <1>10, <2>1, KeptOnTop
<1>15. Pushed(d, e, p)
  BY <1>5, <1>11, <1>12, <1>14, FourVectors
<1>16. in_work(d, operation, sizes) = top(m.messages).msg
  BY <1>6, <1>9, <1>10 DEF in_work
<1>17. InField(d, e, operation, sizes)
  <2>1. /\ d.kind \in FieldKinds /\ d.field \in Fields /\ top(e.field) = d.field
        /\ is_message(d.field) => top(e.desc) = d.field.message_type
        /\ e.messages = <<>> <=> operation = "descriptor"
        /\ Above(e.messages, inside(d.field))
    BY <1>2, <1>6, <1>10, <1>11 DEF FieldKinds
  <2>2. /\ GetDescriptor(d.container) = d.field.containing_type
        /\ operation # "descriptor"
        /\ top(e.messages).msg = in_work(d, operation, sizes)
    BY <1>2, <1>6, <1>11, <1>16
  <2>3. d.field.repeated /\ d.container # None /\ d.index >= -1
    BY <1>2, <1>3, <1>6
  <2>4. is_message(d.field) =>
          d.n.messages = IF message_of(d, operation, sizes) = None THEN 0 ELSE 1
    BY <1>6, <1>9, <1>10, <1>12
  <2> QED
    BY <1>6, <2>1, <2>2, <2>3, <2>4 DEF InField
<1> QED
  BY <1>1, <1>6, <1>10, <1>11, <1>13, <1>15, <1>17 DEF Level, e

\* update_index() within the innermost call.
LEMMA StepNextElement ==
  ASSUME StackInv, NextElement
  PROVE  StackInv'
<1> DEFINE c == top(calls)
           m == push_message([messages |-> data.messages, n |-> c.n.messages],
                             top(data.field), c.index + 1)
           d == [c EXCEPT !.index = @ + 1, !.n.messages = m.n]
           e == [data EXCEPT !.messages = m.messages]
           ds == [calls EXCEPT ![Len(calls)].index = c.index + 1,
                               ![Len(calls)].n.messages = m.n]
<1>1. /\ calls # <<>> /\ c.kind = "elements" /\ data' = e /\ calls' = ds
      /\ operation' = operation /\ sizes' = sizes
  BY DEF NextElement, this_field
<1>2. /\ data \in Data /\ calls \in Seq(Call) /\ c \in Call /\ operation \in Operations
  BY <1>1, Innermost
<1>3. PICK S : Explains(S, calls, data, operation, sizes)
  BY DEF StackInv
<1>4. S[Len(calls) - 1] \in Data /\ Level(c, data, S[Len(calls) - 1], operation, sizes)
  BY <1>1, <1>2, <1>3, InnermostCall
<1>5. e \in Data /\ d \in Call /\ Level(d, e, S[Len(calls) - 1], operation, sizes)
  <2> HIDE DEF c, m
  <2> QED
    BY <1>1, <1>2, <1>4, NextLevel DEF m
<1>6. Len(calls) \in 1..Len(calls) /\ calls[Len(calls)] = c /\ Len(calls) \in Nat
  <2>1. Len(calls) \in 1..Len(calls) /\ c = calls[Len(calls)]
    BY <1>1, <1>2, TopAndFront
  <2> QED
    BY <1>2, <2>1
<1>7. ds = [calls EXCEPT ![Len(calls)] = d]
  <2> HIDE DEF m
  <2> QED
    BY <1>2, <1>6
<1> HIDE DEF ds, d, e, m, c
<1>8. /\ ds \in Seq(Call) /\ Len(ds) = Len(calls) /\ ds[Len(calls)] = d
      /\ \A i \in 1..Len(calls) - 1 : ds[i] = calls[i]
  BY <1>2, <1>5, <1>6, <1>7
<1>9. \E R : Explains(R, ds, e, operation, sizes)
  BY <1>1, <1>2, <1>3, <1>5, <1>8, InnermostChanged
<1>10. \E R : Explains(R, calls', data', operation', sizes')
  BY <1>1, <1>9
<1>11. \A i \in 1..Len(calls) : ds[i].kind = calls[i].kind
  <2>1. d.kind = c.kind
    BY <1>2 DEF d, Call
  <2>2. ds[Len(calls)].kind = calls[Len(calls)].kind
    BY <1>6, <1>8, <2>1
  <2> QED
    BY <1>6, <1>8, <2>2
<1>12. Nested(ds, operation)
  BY <1>8, <1>11 DEF Nested, StackInv
<1>13. Nested(calls', operation')
  BY <1>1, <1>12
<1>14. calls' \in Seq(Call) /\ data' \in Data /\ operation' \in Operations \cup {"none"}
       /\ sizes' \in [{g \in Fields : g.repeated} -> 0..MaxRepeat]
  BY <1>1, <1>2, <1>5, <1>8 DEF StackInv
<1> QED
  BY <1>10, <1>13, <1>14 DEF StackInv

\* A call ends: its destructor uncovers what explains the call around it.
LEMMA StepReturn ==
  ASSUME StackInv, Return
  PROVE  StackInv'
<1> DEFINE c == top(calls)
           new == IF c.kind = "base" THEN "none" ELSE operation
           ds == Front(calls)
<1>1. /\ calls # <<>> /\ data' = destructed(c.n) /\ calls' = ds
      /\ operation' = new /\ sizes' = sizes
  BY DEF Return
<1>2. /\ data \in Data /\ calls \in Seq(Call) /\ Nested(calls, operation)
      /\ operation \in Operations \cup {"none"}
      /\ sizes \in [{f \in Fields : f.repeated} -> 0..MaxRepeat]
  BY DEF StackInv
<1>3. PICK S : Explains(S, calls, data, operation, sizes)
  BY DEF StackInv
<1> DEFINE p == S[Len(calls) - 1]
<1>4. c \in Call /\ p \in Data /\ Level(c, data, p, operation, sizes)
  BY <1>1, <1>2, <1>3, InnermostCall
<1>5. data' = p
  BY <1>1, <1>2, <1>4, DestructedIs DEF Level
<1>6. /\ ds \in Seq(Call) /\ Len(ds) = Len(calls) - 1 /\ Len(calls) \in Nat /\ Len(calls) # 0
      /\ \A i \in 1..Len(calls) - 1 : ds[i] = calls[i]
  <2>1. /\ ds \in Seq(Call) /\ Len(ds) = Len(calls) - 1 /\ Len(calls) \in 1..Len(calls)
        /\ \A i \in 1..Len(calls) - 1 : ds[i] = calls[i]
    BY <1>1, <1>2, TopAndFront
  <2> QED
    BY <1>2, <2>1
<1>7. PICK R : Explains(R, ds, p, operation, sizes)
  BY <1>1, <1>2, <1>3, OneCallLess
<1>8. /\ operation = "none" => Len(calls) = 1 /\ c.kind = "codec"
      /\ c.kind = "codec" => operation = "none"
      /\ c.kind = "base" => \A i \in 1..Len(calls) - 1 : calls[i].kind = "codec"
  BY <1>1, <1>2, NestedFacts
<1> HIDE DEF c, ds, p
<1>9. Explains(R, ds, p, new, sizes) /\ Nested(ds, new)
  <2>1. CASE c.kind = "base"
    <3>1. \A i \in 1..Len(ds) : ds[i].kind = "codec"
      BY <1>6, <1>8, <2>1
    <3>2. Explains(R, ds, p, new, sizes)
      BY <1>6, <1>7, <3>1, OtherOperation
    <3>3. Len(ds) <= 1
      <4>1. operation # "none"
        BY <1>8, <2>1
      <4> DEFINE b == IF operation \in {"encode", "decode"} THEN 2 ELSE 1
      <4>2. /\ b <= Len(calls)
            /\ \A i \in 1..Len(calls) :
                 /\ i < b => calls[i].kind = "codec"
                 /\ i = b => calls[i].kind = "base"
                 /\ i > b => calls[i].kind \in FieldKinds
        BY <1>2, <4>1 DEF Nested
      <4>3. b \in {1, 2}
        OBVIOUS
      <4> HIDE DEF b
      <4>4. ~(b < Len(calls))
        <5> SUFFICES ASSUME b < Len(calls) PROVE FALSE
          OBVIOUS
        <5>1. Len(calls) \in 1..Len(calls) /\ b \in 1..Len(calls) - 1
          BY <1>6, <4>3
        <5>2. calls[b].kind = "base" /\ calls[b].kind = "codec"
          BY <1>8, <2>1, <4>2, <4>3, <5>1
        <5> QED
          BY <5>2
      <4> QED
        BY <1>6, <4>2, <4>3, <4>4
    <3>4. new = "none"
      BY <2>1
    <3> QED
      BY <3>1, <3>2, <3>3, <3>4 DEF Nested
  <2>2. CASE c.kind # "base"
    <3>1. new = operation
      BY <2>2
    <3>2. CASE operation = "none"
      <4> DEFINE n == Len(ds)
      <4>2. n = Len(calls) - 1 /\ Len(calls) = 1
        BY <1>6, <1>8, <3>2
      <4> HIDE DEF n
      <4>3. n = 0
        BY <4>2
      <4>1. Len(ds) <= 1 /\ 1..Len(ds) = {}
        BY <4>3 DEF n
      <4> QED
        BY <1>7, <3>1, <3>2, <4>1 DEF Nested
    <3>3. CASE operation # "none"
      <4> DEFINE b == IF operation \in {"encode", "decode"} THEN 2 ELSE 1
      <4>1. /\ b <= Len(calls)
            /\ \A i \in 1..Len(calls) :
                 /\ i < b => calls[i].kind = "codec"
                 /\ i = b => calls[i].kind = "base"
                 /\ i > b => calls[i].kind \in FieldKinds
        BY <1>2, <3>3 DEF Nested
      <4>2. b \in {1, 2}
        OBVIOUS
      <4> HIDE DEF b
      <4>3. Len(calls) # b
        <5>1. Len(calls) \in 1..Len(calls) /\ c = calls[Len(calls)]
          BY <1>1, <1>2, TopAndFront DEF c
        <5> QED
          BY <2>2, <4>1, <5>1
      <4>4. b <= Len(ds)
        BY <1>6, <4>1, <4>2, <4>3
      <4>5. \A i \in 1..Len(ds) :
                 /\ i < b => ds[i].kind = "codec"
                 /\ i = b => ds[i].kind = "base"
                 /\ i > b => ds[i].kind \in FieldKinds
        BY <1>6, <4>1
      <4>6. Nested(ds, operation)
        BY <3>3, <4>4, <4>5 DEF Nested, b
      <4> QED
        BY <1>7, <3>1, <4>6
    <3> QED
      BY <3>2, <3>3
  <2> QED
    BY <2>1, <2>2
<1>10. Explains(R, calls', data', operation', sizes') /\ Nested(calls', operation')
  BY <1>1, <1>5, <1>9
<1>11. calls' \in Seq(Call) /\ data' \in Data /\ operation' \in Operations \cup {"none"}
       /\ sizes' \in [{f \in Fields : f.repeated} -> 0..MaxRepeat]
  BY <1>1, <1>2, <1>4, <1>5, <1>6
<1> QED
  BY <1>10, <1>11 DEF StackInv

\* Every step keeps the invariant.
LEMMA NextStack ==
  ASSUME StackInv, [Next]_vars
  PROVE  StackInv'
<1>1. CASE CallCodec
  BY <1>1, StepCallCodec
<1>2. CASE \E o \in Operations : CallBase(o)
  BY <1>2, StepCallBase
<1>3. CASE \E f \in Fields : CallField(f)
  BY <1>3, StepCallField
<1>4. CASE \E f \in Fields : CallFieldOfDescriptor(f)
  BY <1>4, StepCallFieldOfDescriptor
<1>5. CASE CallMinSize
  BY <1>5, StepCallMinSize
<1>6. CASE CallElements
  BY <1>6, StepCallElements
<1>7. CASE NextElement
  BY <1>7, StepNextElement
<1>8. CASE Return
  BY <1>8, StepReturn
<1>9. CASE UNCHANGED vars
  BY <1>9 DEF StackInv, vars
<1> QED
  BY <1>1, <1>2, <1>3, <1>4, <1>5, <1>6, <1>7, <1>8, <1>9 DEF Next

-----------------------------------------------------------------------------
(* What the invariant says *)

\* The lengths that the calls left add up to what they counted.
LEMMA StackCounts ==
  ASSUME StackInv
  PROVE  CountsMatch
<1>1. PICK S : Explains(S, calls, data, operation, sizes)
  BY DEF StackInv
<1> DEFINE N == Len(calls)
<1>2. /\ S \in [0..N -> Data] /\ S[0] = empty /\ S[N] = data
      /\ \A i \in 1..N : Level(calls[i], S[i], S[i - 1], operation, sizes)
  BY <1>1 DEF Explains
<1>3. calls \in Seq(Call) /\ N \in Nat /\ DOMAIN calls = 1..N /\ \A i \in 1..N : calls[i] \in Call
  BY DEF StackInv
<1> HIDE DEF N
<1> SUFFICES ASSUME NEW v \in {"desc", "field", "parts", "messages"}
             PROVE  /\ Len(data[v]) = pushed_by_all(v)
                    /\ \A i \in DOMAIN calls : calls[i].n[v] >= 0
  BY DEF CountsMatch
<1>4. \A i \in 1..N : calls[i].n[v] \in Nat
  <2> SUFFICES ASSUME NEW i \in 1..N PROVE calls[i].n[v] \in Nat
    OBVIOUS
  <2>1. calls[i].n \in Counts
    BY <1>3 DEF Call
  <2> QED
    BY <2>1 DEF Counts
<1>5. \A i \in 0..N : Len(S[i][v]) \in Nat
  <2> SUFFICES ASSUME NEW i \in 0..N PROVE Len(S[i][v]) \in Nat
    OBVIOUS
  <2>1. S[i] \in Data
    BY <1>2
  <2> QED
    BY <2>1 DEF Data
<1>6. Len(S[0][v]) = 0
  BY <1>2 DEF empty
<1>7. \A i \in 1..N : Len(S[i][v]) = Len(S[i - 1][v]) + calls[i].n[v]
  BY <1>2 DEF Level, Pushed, OnTopOf
<1> DEFINE n == [i \in 1..N |-> calls[i].n[v]]
           L == [i \in 0..N |-> Len(S[i][v])]
           pushed == CHOOSE g : g = [i \in 0..N |-> IF i = 0 THEN 0 ELSE g[i - 1] + n[i]]
<1>8. \A i \in 1..N : n[i] = calls[i].n[v]
  OBVIOUS
<1>9. \A i \in 0..N : L[i] = Len(S[i][v])
  OBVIOUS
<1>10. pushed_by_all(v) = pushed[N]
  <2>1. \A g : [i \in 0..N |-> IF i = 0 THEN 0 ELSE g[i - 1] + calls[i].n[v]]
                 = [i \in 0..N |-> IF i = 0 THEN 0 ELSE g[i - 1] + n[i]]
    <3> SUFFICES ASSUME NEW g, NEW i \in 0..N, i # 0 PROVE calls[i].n[v] = n[i]
      OBVIOUS
    <3> QED
      BY <1>3, <1>8
  <2> HIDE DEF n
  <2> QED
    BY <2>1 DEF pushed_by_all, N
<1> HIDE DEF n, L
<1>11. 0 \in 0..N /\ N \in 0..N /\ \A i \in 1..N : i \in 0..N /\ i - 1 \in 0..N
  BY <1>3
<1>12. /\ \A i \in 1..N : n[i] \in Nat
       /\ \A i \in 0..N : L[i] \in Nat
       /\ L[0] = 0 /\ \A i \in 1..N : L[i] = L[i - 1] + n[i]
  BY <1>4, <1>5, <1>6, <1>7, <1>8, <1>9, <1>11
<1>13. pushed[N] = L[N]
  <2> DEFINE g0 == [i \in 0..N |-> L[i]]
  <2>1. g0 = [i \in 0..N |-> IF i = 0 THEN 0 ELSE g0[i - 1] + n[i]]
    <3>1. \A i \in 0..N : L[i] = IF i = 0 THEN 0 ELSE g0[i - 1] + n[i]
      BY <1>3, <1>12
    <3> QED
      BY <3>1
  <2> HIDE DEF g0
  <2>2. pushed = [i \in 0..N |-> IF i = 0 THEN 0 ELSE pushed[i - 1] + n[i]]
    BY <2>1
  <2> HIDE DEF pushed
  <2>3. \A i \in 0..N : pushed[i] = IF i = 0 THEN 0 ELSE pushed[i - 1] + n[i]
    BY <2>2
  <2> DEFINE T == {i \in Nat : i \in 0..N => pushed[i] = L[i]}
  <2>5. 0 \in T
    BY <1>12, <2>3
  <2>6. \A i \in Nat : i \in T => i + 1 \in T
    <3> SUFFICES ASSUME NEW i \in Nat, i \in T, i + 1 \in 0..N PROVE pushed[i + 1] = L[i + 1]
      OBVIOUS
    <3>1. i \in 0..N /\ i + 1 # 0 /\ i + 1 - 1 = i /\ i + 1 \in 1..N
      BY <1>3
    <3>2. pushed[i] = L[i]
      BY <3>1
    <3>3. PICK k \in 0..N : k = i + 1 /\ k # 0 /\ k - 1 = i /\ k \in 1..N
      BY <3>1
    <3>4. pushed[k] = pushed[k - 1] + n[k]
      BY <2>3, <3>3
    <3>5. L[k] = L[k - 1] + n[k]
      BY <1>12, <3>3
    <3> QED
      BY <3>2, <3>3, <3>4, <3>5
  <2>7. N \in T
    BY <1>3, <2>5, <2>6, NatSetInduction
  <2> QED
    BY <1>3, <2>7
<1>14. Len(data[v]) = pushed_by_all(v)
  BY <1>2, <1>9, <1>10, <1>11, <1>13
<1> QED
  BY <1>3, <1>4, <1>14

\* The message on top is the one in work.
LEMMA StackMessage ==
  ASSUME StackInv
  PROVE  ThisMessageInWork
<1> SUFFICES ASSUME calls # <<>>, top(calls).container # None
             PROVE  this_message = IF traversed(top(calls)) = None THEN top(calls).container
                                   ELSE traversed(top(calls))
  BY DEF ThisMessageInWork
<1>1. Outside(top(calls), data, operation) \/ InField(top(calls), data, operation, sizes)
  BY Innermost
<1>2. /\ data.messages # <<>>
      /\ top(data.messages).msg = in_work(top(calls), operation, sizes)
  BY <1>1 DEF Outside, InField
<1>3. this_message = top(data.messages).msg
  BY <1>2 DEF this_message
<1> QED
  BY <1>2, <1>3, TraversedIs DEF in_work

\* The part on top is the one that the innermost call is in.
LEMMA StackParts ==
  ASSUME StackInv
  PROVE  PartOfMessageInWork
BY Innermost DEF PartOfMessageInWork

\* The invariant holds in every state.
LEMMA StackInvariant == Spec => []StackInv
<1>1. Init => StackInv
  BY InitStack
<1>2. StackInv /\ [Next]_vars => StackInv'
  BY NextStack
<1> QED
  BY <1>1, <1>2, PTL DEF Spec

\* Whatever calls return or throw, each of the four vectors has on it what the
\* objects that live have counted, so that the next use of the Codec finds
\* them empty.
THEOREM VectorsAreCounted == Spec => []CountsMatch
<1>1. StackInv => CountsMatch
  BY StackCounts
<1> QED
  BY <1>1, StackInvariant, PTL

\* this_message() is the message in work, at any depth and for any element.
THEOREM ConditionsSeeTheMessage == Spec => []ThisMessageInWork
<1>1. StackInv => ThisMessageInWork
  BY StackMessage
<1> QED
  BY <1>1, StackInvariant, PTL

\* current_part() is the part of the innermost message that has one.
THEOREM PartIsOfTheMessage == Spec => []PartOfMessageInWork
<1>1. StackInv => PartOfMessageInWork
  BY StackParts
<1> QED
  BY <1>1, StackInvariant, PTL
=============================================================================
