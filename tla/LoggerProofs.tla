---------------------------- MODULE LoggerProofs ----------------------------
(***************************************************************************)
(* Proofs about Logger, for any threads, levels, groups, slots and bounds. *)
(* The mutex, the stack of tags and the place of every thread are one      *)
(* inductive invariant (MutexInv); that lines are whole rests on it and on *)
(* what the buffer holds while a statement is written (BufferOfStatement), *)
(* and that no text is lost on what FlattenSeq() makes of the lines when   *)
(* one is added or the last one is cut off (FlattenAppend, FlattenLast).   *)
(***************************************************************************)
EXTENDS Logger, SequenceTheorems, WellFoundedInduction, TLAPS

MutexInv == TypeOK /\ MutexCoversStatement /\ OwnTagOnTop

\* Front and Last of a sequence that has elements.
LEMMA FrontAndLast ==
  ASSUME NEW S, NEW s \in Seq(S), s # << >>
  PROVE  /\ Front(s) \in Seq(S)
         /\ Len(Front(s)) = Len(s) - 1
         /\ \A i \in 1..(Len(s) - 1) : Front(s)[i] = s[i]
         /\ Last(s) = s[Len(s)]
         /\ Last(s) \in S
  <1>1. Len(s) \in Nat /\ Len(s) >= 1
    OBVIOUS
  <1>2. Last(s) = s[Len(s)] /\ Last(s) \in S
    BY <1>1 DEF Last
  <1>3. 1 \in Int /\ Len(s) - 1 \in 0..Len(s)
    BY <1>1
  <1>4. /\ SubSeq(s, 1, Len(s) - 1) \in Seq(S)
        /\ Len(SubSeq(s, 1, Len(s) - 1)) = Len(s) - 1
        /\ \A i \in 1..(Len(s) - 1) : SubSeq(s, 1, Len(s) - 1)[i] = s[i]
    <2>1. \A i \in 1..(Len(s) - 1) : s[i] \in S
      BY <1>1
    <2> DEFINE n == Len(s) - 1
               front == SubSeq(s, 1, n)
    <2>2. n \in Nat
      BY <1>1
    <2> HIDE DEF n
    <2>3. /\ front \in Seq(S)
          /\ Len(front) = IF 1 <= n THEN n - 1 + 1 ELSE 0
          /\ \A i \in 1..(n - 1 + 1) : front[i] = s[1 + i - 1]
      BY <2>1, <2>2, SubSeqProperties DEF n
    <2>4. /\ front \in Seq(S)
          /\ Len(front) = n
          /\ \A i \in 1..n : front[i] = s[i]
      <3>1. n - 1 + 1 = n /\ (1 <= n \/ n = 0)
        BY <2>2
      <3>2. \A i \in 1..n : 1 + i - 1 = i
        BY <2>2
      <3> QED BY <2>3, <3>1, <3>2
    <2> QED BY <2>4, Zenon DEF n
  <1> QED BY <1>2, <1>4 DEF Front

\* What Append leaves as Last.
LEMMA LastOfAppend ==
  ASSUME NEW S, NEW s \in Seq(S), NEW e \in S
  PROVE  /\ Append(s, e) \in Seq(S)
         /\ Append(s, e) # << >>
         /\ Len(Append(s, e)) = Len(s) + 1
         /\ Last(Append(s, e)) = e
         /\ Front(Append(s, e)) = s
  <1>1. /\ Append(s, e) \in Seq(S)
        /\ Append(s, e) # << >>
        /\ Len(Append(s, e)) = Len(s) + 1
        /\ Last(Append(s, e)) = e
    BY DEF Last
  <1>2. Front(Append(s, e)) = s
    BY DEF Front
  <1> QED BY <1>1, <1>2

\* A character appended to the last line.
LEMMA PutKeepsLines ==
  ASSUME NEW A, NEW b \in Seq(Seq(A)), b # << >>, NEW c \in A
  PROVE  LET p == [b EXCEPT ![Len(b)] = Append(@, c)]
         IN p \in Seq(Seq(A)) /\ p # << >> /\ Len(p) = Len(b)
  <1> DEFINE p == [b EXCEPT ![Len(b)] = Append(@, c)]
  <1>1. Len(b) \in 1..Len(b) /\ b[Len(b)] \in Seq(A)
    OBVIOUS
  <1>2. Append(b[Len(b)], c) \in Seq(A)
    BY <1>1
  <1>3. p \in Seq(Seq(A)) /\ Len(p) = Len(b)
    BY <1>1, <1>2
  <1> QED BY <1>3

-----------------------------------------------------------------------------
LEMMA InitMutexInv == Init => MutexInv
  <1> SUFFICES ASSUME Init PROVE MutexInv
    OBVIOUS
  <1>1. buffer \in Seq(Seq(Authors)) /\ buffer # << >>
    <2>1. << >> \in Seq(Authors)
      OBVIOUS
    <2> QED BY <2>1 DEF Init
  <1>2. slots \in [Verbosities -> Seq(Slots)]
    BY DEF Init
  <1>3. tags \in Seq(Tags) /\ Len(tags) = 0
    BY DEF Init
  <1>4. TypeOK
    BY <1>1, <1>2, <1>3 DEF Init, TypeOK
  <1>5. MutexCoversStatement /\ OwnTagOnTop
    BY <1>3 DEF Init, MutexCoversStatement, OwnTagOnTop
  <1> QED BY <1>4, <1>5 DEF MutexInv

LEMMA IsStep ==
  ASSUME MutexInv, NEW t \in Threads, NEW g \in Tags, is(t, g)
  PROVE  MutexInv'
  <1>1. TypeOK'
    BY DEF MutexInv, TypeOK, is, mutex, signals
  <1>2. MutexCoversStatement'
    BY DEF MutexInv, TypeOK, MutexCoversStatement, is, mutex, signals
  <1>3. OwnTagOnTop'
    BY DEF MutexInv, TypeOK, OwnTagOnTop, is, mutex, signals
  <1> QED BY <1>1, <1>2, <1>3 DEF MutexInv

LEMMA LockStep ==
  ASSUME MutexInv, NEW t \in Threads, Lock(t)
  PROVE  MutexInv'
  <1> USE ThreadsAssumption
  <1>1. tag[t] \in Tags /\ tags \in Seq(Tags)
    BY DEF MutexInv, TypeOK, Lock
  <1>2. /\ tags' \in Seq(Tags)
        /\ tags' # << >>
        /\ Len(tags') = Len(tags) + 1
        /\ Last(tags') = tag[t]
    BY <1>1, LastOfAppend DEF Lock
  <1>3. TypeOK'
    BY <1>2 DEF MutexInv, TypeOK, Lock, signals
  <1>4. \A u \in Threads : at[u] # "writing"
    BY DEF MutexInv, TypeOK, MutexCoversStatement, Lock, can_lock
  <1>5. at'[t] = "writing"
    BY DEF MutexInv, TypeOK, Lock
  <1>6. MutexCoversStatement'
    BY <1>2, <1>4, <1>5 DEF MutexInv, TypeOK, MutexCoversStatement, Lock
  <1>7. OwnTagOnTop'
    BY <1>2, <1>4 DEF MutexInv, TypeOK, OwnTagOnTop, Lock
  <1> QED BY <1>3, <1>6, <1>7 DEF MutexInv

LEMMA WriteStep ==
  ASSUME MutexInv, NEW t \in Threads, Write(t) \/ WriteNewLine(t)
  PROVE  MutexInv'
  <1>1. [by |-> t, tag |-> tag[t]] \in Authors
    BY DEF MutexInv, TypeOK, Write, WriteNewLine, write_part, Authors
  <1>2. buffer \in Seq(Seq(Authors)) /\ buffer # << >>
    BY DEF MutexInv, TypeOK
  <1>3. buffer' \in Seq(Seq(Authors)) /\ buffer' # << >>
    <2>1. CASE Write(t)
      BY <1>1, <1>2, <2>1, PutKeepsLines DEF Write, put
    <2>2. CASE WriteNewLine(t)
      BY <1>2, <2>2, << >> \in Seq(Authors), LastOfAppend DEF WriteNewLine
    <2> QED BY <2>1, <2>2
  <1>4. write_part(t)
    BY DEF Write, WriteNewLine
  <1>5. TypeOK'
    BY <1>3, <1>4 DEF MutexInv, TypeOK, write_part, mutex, signals
  <1>6. MutexCoversStatement' /\ OwnTagOnTop'
    BY <1>4 DEF MutexInv, MutexCoversStatement, OwnTagOnTop, write_part,
       mutex, signals
  <1> QED BY <1>5, <1>6 DEF MutexInv

\* What sync() and the end of the statement do, for Endl and for Flush.
LEMMA SyncStep ==
  ASSUME MutexInv, NEW t \in Threads, at[t] = "writing",
         NEW lines \in Seq(Seq(Authors)), lines # << >>,
         sync(lines), leave(t),
         UNCHANGED <<signals, thrown>>, torn' \in BOOLEAN
  PROVE  MutexInv'
  <1> USE ThreadsAssumption
  <1>1. tags \in Seq(Tags) /\ tags # << >> /\ owner = t
    BY DEF MutexInv, TypeOK, MutexCoversStatement, OwnTagOnTop
  <1>2. tags' \in Seq(Tags) /\ Len(tags') = Len(tags) - 1
    BY <1>1, FrontAndLast DEF sync
  <1>3. buffer' \in Seq(Seq(Authors)) /\ buffer' # << >>
    <2>1. Last(lines) \in Seq(Authors)
      BY FrontAndLast
    <2> QED BY <2>1 DEF sync
  <1>4. locks \in Nat /\ locks = Len(tags) /\ locks > 0
    BY <1>1 DEF MutexInv, TypeOK, MutexCoversStatement
  <1>5. locks' \in Nat /\ locks' = locks - 1
    BY <1>4 DEF sync
  <1>6. \A u \in Threads : at'[u] # "writing"
    BY <1>1 DEF MutexInv, TypeOK, MutexCoversStatement, leave
  <1>7. owner' = (IF locks = 1 THEN NoThread ELSE t)
    BY <1>1 DEF sync
  <1>8. TypeOK'
    BY <1>2, <1>3, <1>5, <1>7 DEF MutexInv, TypeOK, leave, signals
  <1>9. locks = thrown + 1
    BY DEF MutexInv, MutexCoversStatement
  <1>10. MutexCoversStatement'
    <2>1. thrown \in Nat /\ thrown' = thrown /\ t # NoThread
      BY DEF MutexInv, TypeOK
    <2>2. locks' = Len(tags') /\ locks' = thrown'
      BY <1>2, <1>4, <1>5, <1>9, <2>1
    <2>3. owner' = NoThread <=> locks' = 0
      BY <1>4, <1>5, <1>7, <2>1
    <2>4. thrown' = thrown' + (IF \E u \in Threads : at'[u] = "writing" THEN 1 ELSE 0)
      BY <1>6, <2>1
    <2> QED BY <1>6, <2>2, <2>3, <2>4 DEF MutexCoversStatement
  <1>11. OwnTagOnTop'
    BY <1>6 DEF OwnTagOnTop
  <1> QED BY <1>8, <1>10, <1>11 DEF MutexInv

LEMMA EndlStep ==
  ASSUME MutexInv, NEW t \in Threads, Endl(t)
  PROVE  MutexInv'
  <1>1. /\ Append(buffer, << >>) \in Seq(Seq(Authors))
        /\ Append(buffer, << >>) # << >>
    BY << >> \in Seq(Authors), LastOfAppend DEF MutexInv, TypeOK
  <1> QED BY <1>1, SyncStep DEF MutexInv, TypeOK, Endl

LEMMA FlushStep ==
  ASSUME MutexInv, NEW t \in Threads, Flush(t)
  PROVE  MutexInv'
  BY SyncStep DEF MutexInv, TypeOK, Flush

LEMMA ThrowStep ==
  ASSUME MutexInv, NEW t \in Threads, Throw(t)
  PROVE  MutexInv'
  <1>1. TypeOK'
    BY DEF MutexInv, TypeOK, Throw, leave, mutex, signals
  <1>2. \A u \in Threads : at'[u] # "writing"
    BY DEF MutexInv, TypeOK, MutexCoversStatement, Throw, leave
  <1>3. MutexCoversStatement'
    <2>1. at[t] = "writing" /\ thrown \in Nat
      BY DEF MutexInv, TypeOK, Throw
    <2>2. locks = thrown + 1 /\ locks = Len(tags) /\ (owner = NoThread <=> locks = 0)
      BY <2>1 DEF MutexInv, MutexCoversStatement
    <2>3. UNCHANGED <<owner, locks, tags>> /\ thrown' = thrown + 1
      BY DEF Throw, mutex
    <2> QED BY <1>2, <2>1, <2>2, <2>3 DEF MutexCoversStatement
  <1>4. OwnTagOnTop'
    BY <1>2 DEF OwnTagOnTop
  <1> QED BY <1>1, <1>3, <1>4 DEF MutexInv

LEMMA ConnectStep ==
  ASSUME MutexInv, NEW t \in Threads, NEW mask \in SUBSET Verbosities,
         (\E s \in Slots : connect(t, mask, s)) \/ disconnect(t, mask)
  PROVE  MutexInv'
  <1>1. slots' \in [Verbosities -> Seq(Slots)] /\ enabled' \in SUBSET Verbosities
    <2>1. slots \in [Verbosities -> Seq(Slots)] /\ enabled \in SUBSET Verbosities
      BY DEF MutexInv, TypeOK
    <2>2. CASE disconnect(t, mask)
      <3>1. << >> \in Seq(Slots)
        OBVIOUS
      <3> QED BY <2>1, <2>2, <3>1 DEF disconnect
    <2>3. CASE \E s \in Slots : connect(t, mask, s)
      <3>1. PICK s \in Slots : connect(t, mask, s)
        BY <2>3
      <3>2. \A v \in Verbosities : Append(slots[v], s) \in Seq(Slots)
        BY <2>1
      <3> QED BY <2>1, <3>1, <3>2 DEF connect
    <2> QED BY <2>2, <2>3
  <1>2. UNCHANGED <<mutex, tags, buffer, at, tag, parts, torn, thrown>>
    BY DEF connect, disconnect
  <1> QED
    BY <1>1, <1>2 DEF MutexInv, TypeOK, MutexCoversStatement, OwnTagOnTop, mutex

LEMMA NextMutexInv == MutexInv /\ [Next]_vars => MutexInv'
  <1> SUFFICES ASSUME MutexInv, [Next]_vars
               PROVE  MutexInv'
    OBVIOUS
  <1>1. CASE UNCHANGED vars
    BY <1>1 DEF MutexInv, TypeOK, MutexCoversStatement, OwnTagOnTop, vars
  <1>2. CASE Next
    <2> SUFFICES ASSUME NEW t \in Threads,
                        \/ \E g \in Tags : is(t, g)
                        \/ Lock(t)
                        \/ Proceed(t)
                        \/ Throw(t)
                        \/ \E mask \in (SUBSET Verbosities) \ {{}} :
                             \/ \E s \in Slots : connect(t, mask, s)
                             \/ disconnect(t, mask)
                 PROVE  MutexInv'
      BY <1>2 DEF Next
    <2>1. CASE \E g \in Tags : is(t, g)
      BY <2>1, IsStep
    <2>2. CASE Lock(t)
      BY <2>2, LockStep
    <2>3. CASE Proceed(t)
      BY <2>3, WriteStep, EndlStep, FlushStep DEF Proceed
    <2>4. CASE Throw(t)
      BY <2>4, ThrowStep
    <2>5. CASE \E mask \in (SUBSET Verbosities) \ {{}} :
                 \/ \E s \in Slots : connect(t, mask, s)
                 \/ disconnect(t, mask)
      BY <2>5, ConnectStep
    <2> QED BY <2>1, <2>2, <2>3, <2>4, <2>5
  <1> QED BY <1>1, <1>2

LEMMA AlwaysMutexInv == Spec => []MutexInv
  BY InitMutexInv, NextMutexInv, PTL DEF Spec

\* Every variable of the Logger keeps its type, for any number of threads.
THEOREM LoggerTypeCorrect == Spec => []TypeOK
  BY AlwaysMutexInv, PTL DEF MutexInv

\* The mutex is held by the thread in the middle of a statement, and as often
\* as there are statements that have not unlocked it (logger.h:194).
THEOREM MutexAlwaysCovers == Spec => []MutexCoversStatement
  BY AlwaysMutexInv, PTL DEF MutexInv

\* sync() finds the tag of the statement that flushes on top of the stack,
\* also after exceptions have left others below it (logger.cpp:31).
THEOREM OwnTagAlwaysOnTop == Spec => []OwnTagOnTop
  BY AlwaysMutexInv, PTL DEF MutexInv

-----------------------------------------------------------------------------
\* Every character of the lines is of thread w, in a statement with tag g.
LinesBy(lines, w, g) ==
  \A i \in 1..Len(lines) : \A j \in 1..Len(lines[i]) :
    lines[i][j] = [by |-> w, tag |-> g]

\* While no statement has left text behind: the buffer holds what the
\* statement that is being written has put there, and nothing between two.
BufferOfStatement ==
  torn \/ /\ \A t \in Threads :
               at[t] = "writing" => LinesBy(buffer, t, tag[t])
          /\ (\A t \in Threads : at[t] # "writing") => buffer = << << >> >>

DisplayedOfStatement ==
  /\ displayed.lines \in Seq(Seq(Authors))
  /\ torn \/ \E w \in Threads \cup {NoThread} :
               LinesBy(displayed.lines, w, displayed.tag)

LinesInv == BufferOfStatement /\ DisplayedOfStatement

LEMMA DisplayedIsWhole == DisplayedOfStatement => LinesWhole
  <1> SUFFICES ASSUME DisplayedOfStatement, ~torn,
                      NEW line \in ToSet(displayed.lines), NEW c \in ToSet(line)
               PROVE  c.tag = displayed.tag /\ c.by = line[1].by
    BY DEF LinesWhole
  <1>1. PICK w \in Threads \cup {NoThread} : LinesBy(displayed.lines, w, displayed.tag)
    BY DEF DisplayedOfStatement
  <1>2. PICK i \in 1..Len(displayed.lines) : line = displayed.lines[i]
    BY DEF ToSet, DisplayedOfStatement
  <1>3. line \in Seq(Authors)
    BY <1>2 DEF DisplayedOfStatement
  <1>4. PICK j \in 1..Len(line) : c = line[j]
    BY <1>3 DEF ToSet
  <1>5. 1 \in 1..Len(line)
    BY <1>3, <1>4
  <1>6. /\ c = [by |-> w, tag |-> displayed.tag]
        /\ line[1] = [by |-> w, tag |-> displayed.tag]
    BY <1>1, <1>2, <1>4, <1>5 DEF LinesBy
  <1> QED BY <1>6

\* A statement that ends gives the slots its lines under its tag.
LEMMA SyncDisplaysStatement ==
  ASSUME MutexInv, LinesInv, NEW t \in Threads, at[t] = "writing",
         NEW lines \in Seq(Seq(Authors)), lines # << >>,
         ~torn => LinesBy(lines, t, tag[t]),
         sync(lines), leave(t), torn' \in BOOLEAN,
         torn => torn',
         ~torn' => Last(lines) = << >>
  PROVE  LinesInv'
  <1>1. Last(tags) = tag[t]
    BY DEF MutexInv, OwnTagOnTop
  <1>2. displayed'.lines = Front(lines) /\ displayed'.tag = tag[t]
    BY <1>1 DEF sync, display
  <1>3. /\ Front(lines) \in Seq(Seq(Authors))
        /\ Len(Front(lines)) = Len(lines) - 1
        /\ \A i \in 1..(Len(lines) - 1) : Front(lines)[i] = lines[i]
    BY FrontAndLast
  <1>4. ~torn => LinesBy(Front(lines), t, tag[t])
    <2>1. \A i \in 1..(Len(lines) - 1) : i \in 1..Len(lines)
      OBVIOUS
    <2> QED BY <1>3, <2>1 DEF LinesBy
  <1>5. DisplayedOfStatement'
    <2>1. displayed'.lines \in Seq(Seq(Authors))
      BY <1>2, <1>3
    <2>2. ~torn' => LinesBy(displayed'.lines, t, displayed'.tag)
      BY <1>2, <1>4
    <2> QED BY <2>1, <2>2 DEF DisplayedOfStatement
  <1>6. \A u \in Threads : at'[u] # "writing"
    BY DEF MutexInv, TypeOK, MutexCoversStatement, leave
  <1>7. ~torn' => buffer' = << << >> >>
    BY DEF sync
  <1>8. BufferOfStatement'
    BY <1>6, <1>7 DEF BufferOfStatement
  <1> QED BY <1>5, <1>8 DEF LinesInv

LEMMA InitLinesInv == Init => LinesInv
  <1> SUFFICES ASSUME Init PROVE LinesInv
    OBVIOUS
  <1>1. BufferOfStatement
    BY DEF Init, BufferOfStatement
  <1>2. displayed.lines = << >>
    BY DEF Init, nothing
  <1>3. LinesBy(displayed.lines, NoThread, displayed.tag)
    BY <1>2 DEF LinesBy
  <1>4. displayed.lines \in Seq(Seq(Authors))
    BY <1>2
  <1>5. DisplayedOfStatement
    BY <1>3, <1>4 DEF DisplayedOfStatement
  <1> QED BY <1>1, <1>5 DEF LinesInv

\* Steps that leave the text, what was displayed and every statement alone.
LEMMA LinesKept ==
  ASSUME LinesInv, UNCHANGED <<buffer, displayed, torn>>,
         \A u \in Threads : /\ at'[u] = "writing" <=> at[u] = "writing"
                            /\ at[u] = "writing" => tag'[u] = tag[u]
  PROVE  LinesInv'
  <1>1. BufferOfStatement'
    BY DEF LinesInv, BufferOfStatement, LinesBy
  <1>2. DisplayedOfStatement'
    BY DEF LinesInv, DisplayedOfStatement, LinesBy
  <1> QED BY <1>1, <1>2 DEF LinesInv

LEMMA LockLines ==
  ASSUME MutexInv, LinesInv, NEW t \in Threads, Lock(t)
  PROVE  LinesInv'
  <1>1. \A u \in Threads : at[u] # "writing"
    BY ThreadsAssumption DEF MutexInv, TypeOK, MutexCoversStatement, Lock, can_lock
  <1>2. ~torn => buffer = << << >> >>
    BY <1>1 DEF LinesInv, BufferOfStatement
  <1>3. ~torn => \A u \in Threads : LinesBy(buffer, u, tag[u])
    <2>1. \A i \in 1..Len(<< << >> >>) : << << >> >>[i] = << >>
      OBVIOUS
    <2>2. \A j : j \notin 1..Len(<< >>)
      OBVIOUS
    <2> QED BY <1>2, <2>1, <2>2 DEF LinesBy
  <1>4. BufferOfStatement'
    <2>1. UNCHANGED <<buffer, tag, torn>>
      BY DEF Lock
    <2>2. \A u \in Threads : ~torn => LinesBy(buffer', u, tag'[u])
      BY <1>3, <2>1 DEF LinesBy
    <2> QED BY <1>2, <2>1, <2>2 DEF BufferOfStatement
  <1>5. displayed'.lines = << >>
    BY DEF Lock, nothing
  <1>6. LinesBy(displayed'.lines, NoThread, displayed'.tag)
    BY <1>5 DEF LinesBy
  <1>7. displayed'.lines \in Seq(Seq(Authors))
    BY <1>5
  <1>8. DisplayedOfStatement'
    BY <1>6, <1>7 DEF DisplayedOfStatement
  <1> QED BY <1>4, <1>8 DEF LinesInv

LEMMA WriteLines ==
  ASSUME MutexInv, LinesInv, NEW t \in Threads, Write(t) \/ WriteNewLine(t)
  PROVE  LinesInv'
  <1>1. write_part(t)
    BY DEF Write, WriteNewLine
  <1>2. buffer \in Seq(Seq(Authors)) /\ buffer # << >>
    BY DEF MutexInv, TypeOK
  <1>3. ~torn => LinesBy(buffer, t, tag[t])
    BY <1>1 DEF LinesInv, BufferOfStatement, write_part
  <1>4. ~torn => LinesBy(buffer', t, tag[t])
    <2>1. CASE Write(t)
      <3> DEFINE n == Len(buffer)
                 c == [by |-> t, tag |-> tag[t]]
      <3>1. n \in 1..n /\ buffer[n] \in Seq(Authors)
        BY <1>2
      <3>2. buffer' = [buffer EXCEPT ![n] = Append(buffer[n], c)]
        BY <2>1 DEF Write, put
      <3>3. /\ Len(buffer') = n
            /\ \A i \in 1..n : i # n => buffer'[i] = buffer[i]
            /\ buffer'[n] = Append(buffer[n], c)
        BY <1>2, <3>1, <3>2
      <3>4. ASSUME ~torn, NEW i \in 1..n, NEW j \in 1..Len(buffer'[i])
            PROVE  buffer'[i][j] = c
        <4>1. CASE i # n
          BY <1>3, <3>3, <3>4, <4>1 DEF LinesBy
        <4>2. CASE i = n
          <5>1. buffer'[i] = Append(buffer[n], c) /\ j \in 1..(Len(buffer[n]) + 1)
            BY <3>1, <3>3, <4>2
          <5>2. CASE j = Len(buffer[n]) + 1
            BY <3>1, <5>1, <5>2
          <5>3. CASE j \in 1..Len(buffer[n])
            <6>1. buffer[n][j] = c
              BY <1>3, <3>1, <3>4, <5>3 DEF LinesBy
            <6> QED BY <3>1, <5>1, <5>3, <6>1
          <5> QED BY <3>1, <5>1, <5>2, <5>3
        <4> QED BY <4>1, <4>2
      <3> QED BY <3>3, <3>4 DEF LinesBy
    <2>2. CASE WriteNewLine(t)
      BY <1>2, <1>3, <2>2 DEF WriteNewLine, LinesBy
    <2> QED BY <2>1, <2>2
  <1>5. \A u \in Threads : at[u] = "writing" => u = t
    BY <1>1 DEF MutexInv, MutexCoversStatement, write_part
  <1>6. BufferOfStatement'
    BY <1>1, <1>4, <1>5 DEF BufferOfStatement, LinesBy, write_part
  <1>7. DisplayedOfStatement'
    BY <1>1 DEF LinesInv, DisplayedOfStatement, LinesBy, write_part
  <1> QED BY <1>6, <1>7 DEF LinesInv

LEMMA FlushLines ==
  ASSUME MutexInv, LinesInv, NEW t \in Threads, Endl(t) \/ Flush(t)
  PROVE  LinesInv'
  <1>1. buffer \in Seq(Seq(Authors)) /\ buffer # << >> /\ at[t] = "writing"
    BY DEF MutexInv, TypeOK, Endl, Flush
  <1>2. ~torn => LinesBy(buffer, t, tag[t])
    BY <1>1 DEF LinesInv, BufferOfStatement
  <1>3. torn \in BOOLEAN
    BY DEF MutexInv, TypeOK
  <1>4. CASE Endl(t)
    <2> DEFINE lines == Append(buffer, << >>)
    <2>1. << >> \in Seq(Authors)
      OBVIOUS
    <2>2. lines \in Seq(Seq(Authors)) /\ lines # << >> /\ Last(lines) = << >>
      <3>1. \A e \in Seq(Authors) : /\ Append(buffer, e) \in Seq(Seq(Authors))
                                    /\ Append(buffer, e) # << >> /\ Last(Append(buffer, e)) = e
        BY <1>1, LastOfAppend
      <3> QED BY <2>1, <3>1
    <2>3. ~torn => LinesBy(lines, t, tag[t])
      BY <1>1, <1>2 DEF LinesBy
    <2>4. sync(lines) /\ leave(t) /\ torn' = torn
      BY <1>4 DEF Endl
    <2> HIDE DEF lines
    <2> QED BY <1>1, <1>3, <2>2, <2>3, <2>4, SyncDisplaysStatement
  <1>5. CASE Flush(t)
    <2>1. sync(buffer) /\ leave(t) /\ torn' = (torn \/ Last(buffer) # << >>)
      BY <1>5 DEF Flush
    <2>2. torn' \in BOOLEAN /\ (torn => torn') /\ (~torn' => Last(buffer) = << >>)
      BY <1>3, <2>1, Zenon
    <2> QED BY <1>1, <1>2, <2>1, <2>2, SyncDisplaysStatement
  <1> QED BY <1>4, <1>5

LEMMA ThrowLines ==
  ASSUME MutexInv, LinesInv, NEW t \in Threads, Throw(t)
  PROVE  LinesInv'
  <1>1. /\ torn' = (torn \/ buffer # << << >> >>)
        /\ UNCHANGED <<buffer, displayed>>
    BY DEF Throw
  <1>2. \A u \in Threads : at'[u] # "writing"
    BY DEF MutexInv, TypeOK, MutexCoversStatement, Throw, leave
  <1>3. BufferOfStatement'
    BY <1>1, <1>2 DEF BufferOfStatement
  <1>4. DisplayedOfStatement'
    BY <1>1 DEF LinesInv, DisplayedOfStatement, LinesBy
  <1> QED BY <1>3, <1>4 DEF LinesInv

LEMMA NextLinesInv == MutexInv /\ LinesInv /\ [Next]_vars => LinesInv'
  <1> SUFFICES ASSUME MutexInv, LinesInv, [Next]_vars
               PROVE  LinesInv'
    OBVIOUS
  <1>1. CASE UNCHANGED vars
    BY <1>1, LinesKept DEF vars
  <1>2. ASSUME NEW t \in Threads, NEW g \in Tags, is(t, g)
        PROVE  LinesInv'
    <2>1. \A u \in Threads : /\ at'[u] = "writing" <=> at[u] = "writing"
                             /\ at[u] = "writing" => tag'[u] = tag[u]
      BY <1>2 DEF is, MutexInv, TypeOK
    <2>2. UNCHANGED <<buffer, displayed, torn>>
      BY <1>2 DEF is
    <2> QED BY <2>1, <2>2, LinesKept
  <1>3. ASSUME NEW t \in Threads, NEW mask \in SUBSET Verbosities,
               (\E s \in Slots : connect(t, mask, s)) \/ disconnect(t, mask)
        PROVE  LinesInv'
    BY <1>3, LinesKept DEF connect, disconnect
  <1>4. CASE Next
    <2>1. ASSUME NEW t \in Threads, Proceed(t)
          PROVE  LinesInv'
      BY <2>1, WriteLines, FlushLines DEF Proceed
    <2> QED BY <1>2, <1>3, <1>4, <2>1, LockLines, ThrowLines DEF Next
  <1> QED BY <1>1, <1>4

\* As long as every statement ends its line, the slots are given whole lines
\* of one statement under its own level and group (logger.cpp:42).
THEOREM LinesAlwaysWhole == Spec => []LinesWhole
  <1>1. MutexInv /\ LinesInv /\ [Next]_vars => (MutexInv /\ LinesInv)'
    BY NextMutexInv, NextLinesInv
  <1>2. Init => MutexInv /\ LinesInv
    BY InitMutexInv, InitLinesInv
  <1>3. LinesInv => LinesWhole
    BY DisplayedIsWhole DEF LinesInv
  <1> QED BY <1>1, <1>2, <1>3, PTL DEF Spec

-----------------------------------------------------------------------------
(* The text that is written *)

\* What holds of 0, and of n + 1 if of n, holds of every natural number.
LEMMA NatSetInduction ==
  ASSUME NEW T, 0 \in T, \A n \in Nat : n \in T => n + 1 \in T
  PROVE  Nat \subseteq T
<1> SUFFICES ASSUME NEW b \in Nat, b \notin T PROVE FALSE
  OBVIOUS
<1> DEFINE R == OpToRel(<, Nat)
           B == Nat \ T
<1>1. IsWellFoundedOn(R, Nat)
  BY NatLessThanWellFounded
<1>2. B \subseteq Nat /\ B # {}
  OBVIOUS
<1>3. \A x, y \in Nat : x < y => <<x, y>> \in R
  BY DEF OpToRel
<1> HIDE DEF R, B
<1>4. PICK x \in B : \A y \in B : ~ (<<y, x>> \in R)
  BY <1>1, <1>2, WFMin
<1>5. x \in Nat /\ x # 0 /\ x - 1 \in Nat /\ x - 1 < x
  BY <1>4 DEF B
<1>6. x - 1 \notin B
  BY <1>3, <1>4, <1>5
<1> QED
  BY <1>4, <1>5, <1>6 DEF B

\* There is a function that puts sequences behind one another as far as N.
LEMMA FlattenExists ==
  ASSUME NEW N \in Nat, NEW s
  PROVE  \E g : g = [i \in 1..N |-> IF i = 1 THEN s[i] ELSE g[i - 1] \o s[i]]
<1> DEFINE C(a, i) == a \o s[i]
<1> HIDE DEF C
<1> DEFINE T == {n \in Nat : \E g : g = [i \in 1..n |-> IF i = 1 THEN s[i] ELSE C(g[i - 1], i)]}
<1>1. 0 \in T
  <2> DEFINE g == [i \in 1..0 |-> 0]
  <2>1. g = [i \in 1..0 |-> IF i = 1 THEN s[i] ELSE C(g[i - 1], i)]
    OBVIOUS
  <2> QED
    BY <2>1
<1>2. \A n \in Nat : n \in T => n + 1 \in T
  <2> SUFFICES ASSUME NEW n \in Nat, n \in T PROVE n + 1 \in T
    OBVIOUS
  <2>1. PICK g : g = [i \in 1..n |-> IF i = 1 THEN s[i] ELSE C(g[i - 1], i)]
    OBVIOUS
  <2>2. \A i \in 1..n : g[i] = IF i = 1 THEN s[i] ELSE C(g[i - 1], i)
    BY <2>1
  <2> DEFINE x == IF n = 0 THEN s[1] ELSE C(g[n], n + 1)
             f == [i \in 1..n + 1 |-> IF i = n + 1 THEN x ELSE g[i]]
  <2>3. \A i \in 1..n + 1 : f[i] = IF i = n + 1 THEN x ELSE g[i]
    OBVIOUS
  <2>4. f = [i \in 1..n + 1 |-> f[i]]
    OBVIOUS
  <2> HIDE DEF f
  <2>5. \A i \in 1..n + 1 : f[i] = IF i = 1 THEN s[i] ELSE C(f[i - 1], i)
    <3> SUFFICES ASSUME NEW i \in 1..n + 1 PROVE f[i] = IF i = 1 THEN s[i] ELSE C(f[i - 1], i)
      OBVIOUS
    <3>1. CASE i = n + 1 /\ i = 1
      <4>1. n = 0 /\ f[i] = x
        BY <2>3, <3>1
      <4> QED
        BY <3>1, <4>1
    <3>2. CASE i = n + 1 /\ i # 1
      <4>1. i - 1 = n /\ n \in 1..n + 1 /\ n # n + 1 /\ n # 0
        BY <3>2
      <4>2. f[i] = x /\ f[i - 1] = g[n]
        BY <2>3, <3>2, <4>1
      <4>3. x = C(g[n], i)
        BY <3>2, <4>1
      <4> HIDE DEF x
      <4> QED
        BY <3>2, <4>2, <4>3
    <3>3. CASE i # n + 1
      <4> HIDE DEF x
      <4>1. i \in 1..n /\ f[i] = g[i]
        BY <2>3, <3>3
      <4>2. i # 1 => i - 1 \in 1..n + 1 /\ i - 1 # n + 1
        BY <4>1
      <4>3. i # 1 => f[i - 1] = g[i - 1]
        BY <2>3, <4>2
      <4> QED
        BY <2>2, <4>1, <4>3
    <3> QED
      BY <3>1, <3>2, <3>3
  <2>6. f = [i \in 1..n + 1 |-> IF i = 1 THEN s[i] ELSE C(f[i - 1], i)]
    BY <2>4, <2>5
  <2> QED
    BY <2>6
<1> HIDE DEF T
<1>3. N \in T
  BY <1>1, <1>2, NatSetInduction
<1> QED
  BY <1>3 DEF T, C

\* FlattenSeq() puts the parts behind one another.
LEMMA FlattenIs ==
  ASSUME NEW s, Len(s) \in Nat \ {0}
  PROVE  \E g : /\ g[1] = s[1]
                /\ \A i \in 2..Len(s) : g[i] = g[i - 1] \o s[i]
                /\ FlattenSeq(s) = g[Len(s)]
<1> DEFINE n == Len(s)
           C(a, i) == a \o s[i]
           P(g) == g = [i \in 1..n |-> IF i = 1 THEN s[i] ELSE C(g[i - 1], i)]
           c == CHOOSE g : P(g)
<1>1. P(c)
  BY FlattenExists
<1>2. FlattenSeq(s) = c[n]
  BY DEF FlattenSeq
<1> HIDE DEF c, C
<1>3. \A i \in 1..n : c[i] = IF i = 1 THEN s[i] ELSE C(c[i - 1], i)
  BY <1>1
<1> HIDE DEF n
<1>4. c[1] = s[1] /\ \A i \in 2..n : c[i] = C(c[i - 1], i)
  BY <1>3 DEF n
<1> QED
  BY <1>2, <1>4 DEF C, n

\* What is behind one another is a sequence of the elements.
LEMMA FlattenType ==
  ASSUME NEW S, NEW s \in Seq(Seq(S))
  PROVE  FlattenSeq(s) \in Seq(S)
<1>1. CASE s = << >>
  BY <1>1 DEF FlattenSeq
<1>2. CASE s # << >>
  <2>1. Len(s) \in Nat \ {0} /\ \A i \in 1..Len(s) : s[i] \in Seq(S)
    BY <1>2
  <2>2. PICK g : /\ g[1] = s[1]
                 /\ \A i \in 2..Len(s) : g[i] = g[i - 1] \o s[i]
                 /\ FlattenSeq(s) = g[Len(s)]
    BY <2>1, FlattenIs
  <2> DEFINE N == Len(s)
             C(a, x) == a \o x
             T == {n \in Nat : n + 1 <= N => g[n + 1] \in Seq(S)}
  <2>3. \A i \in 2..N : g[i] = C(g[i - 1], s[i])
    BY <2>2, Zenon
  <2> HIDE DEF C
  <2>4. N \in Nat \ {0} /\ N - 1 \in Nat /\ \A i \in 2..N : g[i] = C(g[i - 1], s[i])
    BY <2>1, <2>3
  <2>5. 0 \in T
    BY <2>1, <2>2
  <2>6. \A n \in Nat : n \in T => n + 1 \in T
    <3> SUFFICES ASSUME NEW n \in Nat, n \in T, n + 1 + 1 <= N
                 PROVE  g[n + 1 + 1] \in Seq(S)
      OBVIOUS
    <3>1. n + 1 + 1 \in 2..N /\ n + 1 + 1 \in 1..N /\ n + 1 + 1 - 1 = n + 1
      BY <2>4
    <3>2. g[n + 1] \in Seq(S) /\ s[n + 1 + 1] \in Seq(S)
      BY <2>1, <3>1
    <3> HIDE DEF T, N
    <3>3. g[n + 1 + 1] = C(g[n + 1], s[n + 1 + 1])
      BY <2>4, <3>1
    <3> QED
      BY <3>2, <3>3, ConcatProperties DEF C
  <2> HIDE DEF T, N
  <2>7. N - 1 \in T
    BY <2>4, <2>5, <2>6, NatSetInduction
  <2>8. g[N] \in Seq(S)
    BY <2>4, <2>7 DEF T
  <2> QED
    BY <2>2, <2>8 DEF N
<1> QED
  BY <1>1, <1>2

\* One more part goes behind the others.
LEMMA FlattenAppend ==
  ASSUME NEW S, NEW s \in Seq(Seq(S)), NEW x \in Seq(S)
  PROVE  FlattenSeq(Append(s, x)) = FlattenSeq(s) \o x
<1> DEFINE r == Append(s, x)
<1>1. /\ Len(s) \in Nat /\ Len(r) = Len(s) + 1 /\ r[Len(s) + 1] = x
      /\ \A i \in 1..Len(s) : r[i] = s[i]
  BY AppendProperties
<1> HIDE DEF r
<1>2. PICK h : /\ h[1] = r[1]
               /\ \A i \in 2..Len(r) : h[i] = h[i - 1] \o r[i]
               /\ FlattenSeq(r) = h[Len(r)]
  <2>1. Len(r) \in Nat \ {0}
    BY <1>1
  <2> QED
    BY <2>1, FlattenIs
<1>3. CASE s = << >>
  <2>1. FlattenSeq(s) = << >> /\ Len(s) = 0
    BY <1>3 DEF FlattenSeq
  <2>2. FlattenSeq(r) = x
    BY <1>1, <1>2, <2>1
  <2>3. << >> \o x = x
    BY ConcatEmptySeq
  <2> QED
    BY <2>1, <2>2, <2>3 DEF r
<1>4. CASE s # << >>
  <2>1. Len(s) \in Nat \ {0}
    BY <1>4
  <2>2. PICK g : /\ g[1] = s[1]
                 /\ \A i \in 2..Len(s) : g[i] = g[i - 1] \o s[i]
                 /\ FlattenSeq(s) = g[Len(s)]
    BY <2>1, FlattenIs
  <2>3. \A i \in 2..Len(s) : h[i] = h[i - 1] \o r[i]
    <3>1. \A i \in 2..Len(s) : i \in 2..Len(r)
      BY <1>1
    <3> QED
      BY <1>2, <3>1, Zenon
  <2>4. g[Len(s)] = h[Len(s)]
    <3> DEFINE N == Len(s)
               C(a, b) == a \o b
               T == {n \in Nat : n + 1 <= N => g[n + 1] = h[n + 1]}
    <3>1. \A i \in 2..N : g[i] = C(g[i - 1], s[i]) /\ h[i] = C(h[i - 1], r[i])
      BY <2>2, <2>3, Zenon
    <3>2. N \in Nat /\ N - 1 \in Nat /\ \A i \in 1..N : s[i] = r[i]
      BY <1>1, <2>1
    <3> HIDE DEF C, N
    <3>3. 0 \in T
      <4>1. 1 \in 1..N
        BY <2>1 DEF N
      <4>2. g[1] = h[1]
        BY <1>2, <2>2, <3>2, <4>1, Zenon
      <4> QED
        BY <4>2
    <3>4. \A n \in Nat : n \in T => n + 1 \in T
      <4> SUFFICES ASSUME NEW n \in Nat, n \in T, n + 1 + 1 <= N
                   PROVE  g[n + 1 + 1] = h[n + 1 + 1]
        OBVIOUS
      <4>1. n + 1 + 1 \in 2..N /\ n + 1 + 1 \in 1..N /\ n + 1 + 1 - 1 = n + 1
        BY <3>2
      <4>2. g[n + 1] = h[n + 1]
        BY <3>2
      <4> HIDE DEF T
      <4> QED
        BY <3>1, <3>2, <4>1, <4>2
    <3> HIDE DEF T
    <3>5. N - 1 \in T
      BY <3>2, <3>3, <3>4, NatSetInduction
    <3>6. g[N] = h[N]
      BY <3>2, <3>5 DEF T
    <3> QED
      BY <3>6 DEF N
  <2>5. Len(r) \in 2..Len(r) /\ Len(r) - 1 = Len(s)
    BY <1>1, <2>1
  <2>6. h[Len(r)] = h[Len(s)] \o x
    BY <1>1, <1>2, <2>5
  <2> QED
    BY <1>2, <2>2, <2>4, <2>6 DEF r
<1> QED
  BY <1>3, <1>4

\* The last part is behind those in front of it, alone as well.
LEMMA FlattenLast ==
  ASSUME NEW S, NEW s \in Seq(Seq(S)), s # << >>
  PROVE  /\ s = Append(Front(s), Last(s))
         /\ FlattenSeq(s) = FlattenSeq(Front(s)) \o Last(s)
         /\ FlattenSeq(<<Last(s)>>) = Last(s)
<1>1. /\ Front(s) \in Seq(Seq(S)) /\ Last(s) \in Seq(S)
      /\ Len(Front(s)) = Len(s) - 1 /\ Last(s) = s[Len(s)]
      /\ \A i \in 1..Len(s) - 1 : Front(s)[i] = s[i]
  BY FrontAndLast
<1> DEFINE a == Front(s)
           x == Last(s)
<1>2. s = Append(a, x)
  <2> HIDE DEF a, x
  <2>1. a \in Seq(Seq(S)) /\ x \in Seq(S) /\ Len(a) = Len(s) - 1 /\ Len(s) \in Nat
    BY <1>1 DEF a, x
  <2>2. /\ Append(a, x) \in Seq(Seq(S)) /\ Len(Append(a, x)) = Len(s)
        /\ Append(a, x)[Len(s)] = x
        /\ \A i \in 1..Len(s) - 1 : Append(a, x)[i] = a[i]
    BY <2>1, AppendProperties
  <2>3. \A i \in 1..Len(s) : Append(a, x)[i] = s[i]
    BY <1>1, <2>1, <2>2 DEF a, x
  <2> QED
    BY <2>2, <2>3, SeqEqual
<1>3. FlattenSeq(Append(a, x)) = FlattenSeq(a) \o x
  BY <1>1, FlattenAppend
<1>4. FlattenSeq(<<x>>) = x
  <2>1. Append(<< >>, x) = <<x>> /\ << >> \in Seq(Seq(S))
    BY <1>1
  <2>2. FlattenSeq(<< >>) = << >>
    BY DEF FlattenSeq
  <2>3. << >> \o x = x
    BY <1>1, ConcatEmptySeq
  <2>4. FlattenSeq(Append(<< >>, x)) = FlattenSeq(<< >>) \o x
    BY <1>1, <2>1, FlattenAppend
  <2> QED
    BY <2>1, <2>2, <2>3, <2>4
<1> QED
  BY <1>2, <1>3, <1>4

\* What one step may do to the text (TextKept).
KeepsText ==
  \/ \E c \in Authors : FlattenSeq(buffer') = Append(FlattenSeq(buffer), c)
  \/ FlattenSeq(buffer') = FlattenSeq(buffer)
  \/ FlattenSeq(displayed'.lines) \o FlattenSeq(buffer') = FlattenSeq(buffer)

\* A character that is written comes behind all the text there is.
LEMMA WriteKeepsText ==
  ASSUME TypeOK, NEW t \in Threads, Write(t)
  PROVE  \E c \in Authors : FlattenSeq(buffer') = Append(FlattenSeq(buffer), c)
<1> DEFINE c == [by |-> t, tag |-> tag[t]]
           front == Front(buffer)
           line == Last(buffer)
<1>1. c \in Authors
  BY DEF Write, write_part, TypeOK, Authors
<1> HIDE DEF c
<1>2. /\ buffer \in Seq(Seq(Authors)) /\ buffer # << >> /\ Len(buffer) \in Nat \ {0}
      /\ front \in Seq(Seq(Authors)) /\ line \in Seq(Authors)
  BY FrontAndLast DEF TypeOK
<1>3. buffer = Append(front, line) /\ FlattenSeq(buffer) = FlattenSeq(front) \o line
  BY <1>2, FlattenLast
<1>4. buffer' = [buffer EXCEPT ![Len(buffer)] = Append(@, c)]
  BY DEF Write, put, c
<1>5. Len(front) = Len(buffer) - 1 /\ line = buffer[Len(buffer)]
      /\ \A i \in 1..Len(buffer) - 1 : front[i] = buffer[i]
  BY <1>2, FrontAndLast
<1> HIDE DEF front, line
<1>6. Append(line, c) \in Seq(Authors)
  BY <1>1, <1>2
<1>7. buffer' = Append(front, Append(line, c))
  <2>1. /\ buffer' \in Seq(Seq(Authors)) /\ Len(buffer') = Len(buffer)
        /\ \A i \in 1..Len(buffer) : buffer'[i] = IF i = Len(buffer) THEN Append(line, c)
                                                                     ELSE buffer[i]
    BY <1>2, <1>4, <1>5, <1>6, ExceptSeq
  <2>2. /\ Append(front, Append(line, c)) \in Seq(Seq(Authors))
        /\ Len(Append(front, Append(line, c))) = Len(buffer)
        /\ Append(front, Append(line, c))[Len(buffer)] = Append(line, c)
        /\ \A i \in 1..Len(buffer) - 1 : Append(front, Append(line, c))[i] = front[i]
    BY <1>2, <1>5, <1>6, AppendProperties
  <2>3. \A i \in 1..Len(buffer) : buffer'[i] = Append(front, Append(line, c))[i]
    <3> SUFFICES ASSUME NEW i \in 1..Len(buffer)
                 PROVE  buffer'[i] = Append(front, Append(line, c))[i]
      OBVIOUS
    <3>1. CASE i = Len(buffer)
      BY <2>1, <2>2, <3>1, Zenon
    <3>2. CASE i # Len(buffer)
      <4>1. i \in 1..Len(buffer) - 1
        BY <1>2, <3>2
      <4> QED
        BY <1>5, <2>1, <2>2, <3>2, <4>1, Zenon
    <3> QED
      BY <3>1, <3>2
  <2> QED
    BY <2>1, <2>2, <2>3, SeqEqual
<1>8. FlattenSeq(buffer') = FlattenSeq(front) \o Append(line, c)
  BY <1>2, <1>6, <1>7, FlattenAppend
<1>9. FlattenSeq(front) \in Seq(Authors)
  BY <1>2, FlattenType
<1>10. \A a, b \in Seq(Authors) : a \o Append(b, c) = Append(a \o b, c)
  <2> SUFFICES ASSUME NEW a \in Seq(Authors), NEW b \in Seq(Authors)
               PROVE  a \o Append(b, c) = Append(a \o b, c)
    OBVIOUS
  <2>1. Append(b, c) = b \o <<c>> /\ Append(a \o b, c) = (a \o b) \o <<c>>
        /\ <<c>> \in Seq(Authors)
    BY <1>1, AppendIsConcat, ConcatProperties
  <2> QED
    BY <2>1, ConcatAssociative
<1> QED
  BY <1>1, <1>2, <1>3, <1>8, <1>9, <1>10

\* What sync() displays and what it leaves are the text it was called with.
LEMMA SyncKeepsText ==
  ASSUME NEW lines \in Seq(Seq(Authors)), lines # << >>, sync(lines)
  PROVE  FlattenSeq(displayed'.lines) \o FlattenSeq(buffer') = FlattenSeq(lines)
<1>1. displayed'.lines = Front(lines) /\ buffer' = <<Last(lines)>>
  BY DEF sync, display
<1> QED
  BY <1>1, FlattenLast

LEMMA NextKeepsText == MutexInv /\ [Next]_vars => KeepsText \/ buffer' = buffer
<1> SUFFICES ASSUME MutexInv, Next, buffer' # buffer PROVE KeepsText
  BY DEF vars
<1>1. TypeOK /\ buffer \in Seq(Seq(Authors)) /\ buffer # << >> /\ << >> \in Seq(Authors)
  BY DEF MutexInv, TypeOK
<1>2. FlattenSeq(Append(buffer, << >>)) = FlattenSeq(buffer)
  <2>1. FlattenSeq(Append(buffer, << >>)) = FlattenSeq(buffer) \o << >>
    BY <1>1, FlattenAppend
  <2>2. FlattenSeq(buffer) \in Seq(Authors)
    BY <1>1, FlattenType
  <2> QED
    BY <2>1, <2>2, ConcatEmptySeq
<1>3. PICK t \in Threads : Proceed(t)
  BY DEF Next, is, Lock, Throw, connect, disconnect
<1>4. CASE Write(t)
  BY <1>1, <1>4, WriteKeepsText DEF KeepsText
<1>5. CASE WriteNewLine(t)
  BY <1>2, <1>5 DEF WriteNewLine, KeepsText
<1>6. CASE Endl(t)
  <2>1. sync(Append(buffer, << >>))
    BY <1>6 DEF Endl
  <2>2. Append(buffer, << >>) \in Seq(Seq(Authors)) /\ Append(buffer, << >>) # << >>
    BY <1>1, LastOfAppend
  <2>3. FlattenSeq(displayed'.lines) \o FlattenSeq(buffer') = FlattenSeq(Append(buffer, << >>))
    BY <2>1, <2>2, SyncKeepsText
  <2> QED
    BY <1>2, <2>3 DEF KeepsText
<1>7. CASE Flush(t)
  <2>1. sync(buffer)
    BY <1>7 DEF Flush
  <2> QED
    BY <1>1, <2>1, SyncKeepsText DEF KeepsText
<1> QED
  BY <1>3, <1>4, <1>5, <1>6, <1>7 DEF Proceed

\* No text that a statement has written is lost, doubled or reordered: a step
\* adds a character at the end, starts a line, or gives whole lines to the
\* slots and leaves the rest (logger.cpp:45, logger.cpp:64).
THEOREM TextAlwaysKept == Spec => TextKept
<1>1. MutexInv /\ [Next]_vars => [KeepsText]_buffer
  BY NextKeepsText
<1>2. Spec => [][KeepsText]_buffer
  BY <1>1, AlwaysMutexInv, PTL DEF Spec
<1> QED
  BY <1>2 DEF TextKept, KeepsText
=============================================================================
