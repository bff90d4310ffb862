------------------------------- MODULE Logger -------------------------------
(***************************************************************************)
(* dccl::dlog (logger.h, logger.cpp, thread_safety.h).  Every thread of a  *)
(* program writes to the one Logger with statements of the form            *)
(*   dlog.is(verbosity, group) && dlog << part << part << std::endl;       *)
(* is() locks a recursive mutex and pushes its tag, and only the flush at  *)
(* the end of the statement pops the tag and unlocks.  Between the two     *)
(* lie the operands: some write nothing, one may hold a new line, one may  *)
(* throw, and the flush may come without a new line (field_codec.cpp:143,  *)
(* where an empty message prints as nothing).                              *)
(*                                                                         *)
(* A character is known by the statement it comes from, its author: who    *)
(* wrote it and under what tag.  What a flush displays is kept until the   *)
(* next statement.  A slot that logs calls itself for the line it was      *)
(* given, without end; slots are taken not to.                             *)
(***************************************************************************)
EXTENDS Integers, Sequences, FiniteSets, SequencesExt

CONSTANTS
  Threads, NoThread,
  Verbosities,        \* the levels of enum Verbosity that is() is called with
  Groups,
  UNKNOWN,            \* the level of an empty stack
  Slots,
  MaxParts,           \* bound: what one statement writes
  MaxSlots,           \* bound: slots of a level
  MaxLine,            \* bound: the line that flushes without a new line leave
  MaxThrows           \* bound: operands that throw

ASSUME ThreadsAssumption == NoThread \notin Threads
ASSUME VerbositiesAssumption == UNKNOWN \notin Verbosities
ASSUME BoundsAssumption ==
  /\ MaxParts \in Nat
  /\ MaxSlots \in Nat
  /\ MaxLine \in Nat
  /\ MaxThrows \in Nat

Tags == [verbosity : Verbosities, group : Groups]
no_tag == [verbosity |-> UNKNOWN, group |-> UNKNOWN]
Authors == [by : Threads, tag : Tags]

VARIABLES
  owner, locks,       \* g_dlog_mutex: who holds it, and how many times
  enabled,            \* enabled_verbosities_
  slots,              \* warn_signal ... debug3_signal
  tags,               \* the stacks verbosity_ and group_, the top last
  buffer,             \* buffer_: the lines; the last one is being written
  at,                 \* where each thread is: idle, at the lock, or writing
  tag,                \* the tag of its statement
  parts,              \* how much its statement has written
  displayed,          \* what the last flush gave to the slots
  torn,               \* a statement has left text that is not displayed
  thrown              \* how many statements were left by an exception

vars == <<owner, locks, enabled, slots, tags, buffer, at, tag, parts,
          displayed, torn, thrown>>

mutex == <<owner, locks>>
signals == <<enabled, slots>>
nothing == [tag |-> no_tag, to |-> << >>, lines |-> << >>]

Init ==
  /\ owner = NoThread /\ locks = 0
  /\ enabled = {} /\ slots = [v \in Verbosities |-> << >>]
  /\ tags = << >> /\ buffer = << << >> >>
  /\ at = [t \in Threads |-> "idle"]
  /\ tag = [t \in Threads |-> no_tag]
  /\ parts = [t \in Threads |-> 0]
  /\ displayed = nothing
  /\ torn = FALSE /\ thrown = 0

-----------------------------------------------------------------------------
\* The mutex is free, or held by the thread itself: it is recursive.
can_lock(t) == owner \in {NoThread, t}

\* dlog.is(): the level is looked up before the mutex is taken.
is(t, g) ==
  /\ at[t] = "idle"
  /\ g.verbosity \in enabled
  /\ at' = [at EXCEPT ![t] = "lock"]
  /\ tag' = [tag EXCEPT ![t] = g]
  /\ UNCHANGED <<mutex, signals, tags, buffer, parts, displayed, torn, thrown>>

\* MUTANT: the mutex is a plain flag that nobody waits for.
Lock_DoesNotWait(t) ==
  /\ at[t] = "lock"
  /\ owner' = t /\ locks' = locks + 1
  /\ tags' = Append(tags, tag[t])
  /\ at' = [at EXCEPT ![t] = "writing"]
  /\ displayed' = nothing
  /\ UNCHANGED <<signals, buffer, tag, parts, torn, thrown>>

\* MUTANT: the tag is pushed only where there is none.
Lock_KeepsTag(t) ==
  /\ at[t] = "lock" /\ can_lock(t)
  /\ owner' = t /\ locks' = locks + 1
  /\ tags' = IF tags = << >> THEN <<tag[t]>> ELSE tags
  /\ at' = [at EXCEPT ![t] = "writing"]
  /\ displayed' = nothing
  /\ UNCHANGED <<signals, buffer, tag, parts, torn, thrown>>

\* The rest of is(): g_dlog_mutex.lock(), set_verbosity() and set_group().
Lock(t) ==
  /\ at[t] = "lock" /\ can_lock(t)
  /\ owner' = t /\ locks' = locks + 1
  /\ tags' = Append(tags, tag[t])
  /\ at' = [at EXCEPT ![t] = "writing"]
  /\ displayed' = nothing
  /\ UNCHANGED <<signals, buffer, tag, parts, torn, thrown>>

-----------------------------------------------------------------------------
\* overflow(c): a character goes to the last line.
put(t) == [buffer EXCEPT ![Len(buffer)] =
             Append(@, [by |-> t, tag |-> tag[t]])]

write_part(t) ==
  /\ at[t] = "writing" /\ parts[t] < MaxParts
  /\ parts' = [parts EXCEPT ![t] = @ + 1]
  /\ UNCHANGED <<mutex, signals, tags, at, tag, displayed, torn, thrown>>

Write(t) ==
  /\ Len(Last(buffer)) < MaxLine
  /\ buffer' = put(t)
  /\ write_part(t)

\* overflow('\n') in the middle of a statement.
WriteNewLine(t) ==
  /\ buffer' = Append(buffer, << >>)
  /\ write_part(t)

\* The statement of t is over, however it ended.
leave(t) ==
  /\ at' = [at EXCEPT ![t] = "idle"]
  /\ tag' = [tag EXCEPT ![t] = no_tag]
  /\ parts' = [parts EXCEPT ![t] = 0]

\* display(): every slot of the level on top gets the lines, with the group.
display(top, lines) ==
  [tag |-> top, to |-> slots[top.verbosity], lines |-> lines]

\* MUTANT: a flush that has no line to display unlocks nothing.
sync_UnlocksWithALine(lines) ==
  /\ displayed' = display(Last(tags), Front(lines))
  /\ buffer' = <<Last(lines)>>
  /\ tags' = Front(tags)
  /\ locks' = IF Len(lines) = 1 THEN locks ELSE locks - 1
  /\ owner' = IF locks' = 0 THEN NoThread ELSE owner

\* MUTANT: the line that is being written is displayed with the others.
sync_AllLines(lines) ==
  /\ displayed' = display(Last(tags), lines)
  /\ buffer' = << >>
  /\ tags' = Front(tags)
  /\ locks' = locks - 1
  /\ owner' = IF locks = 1 THEN NoThread ELSE owner

\* MUTANT: the buffer is cleared, with the line that is being written.
sync_Clears(lines) ==
  /\ displayed' = display(Last(tags), Front(lines))
  /\ buffer' = << << >> >>
  /\ tags' = Front(tags)
  /\ locks' = locks - 1
  /\ owner' = IF locks = 1 THEN NoThread ELSE owner

\* sync(): all lines but the last are displayed under the tag on top, which
\* is popped, and the mutex is unlocked once.
sync(lines) ==
  /\ displayed' = display(Last(tags), Front(lines))
  /\ buffer' = <<Last(lines)>>
  /\ tags' = Front(tags)
  /\ locks' = locks - 1
  /\ owner' = IF locks = 1 THEN NoThread ELSE owner

\* std::endl: a new line and a flush.
Endl(t) ==
  /\ at[t] = "writing"
  /\ sync(Append(buffer, << >>))
  /\ leave(t)
  /\ UNCHANGED <<signals, torn, thrown>>

\* std::flush.
Flush(t) ==
  /\ at[t] = "writing"
  /\ sync(buffer)
  /\ torn' = (torn \/ Last(buffer) # << >>)
  /\ leave(t)
  /\ UNCHANGED <<signals, thrown>>

\* An operand throws, and the expression is left without its flush.
Throw(t) ==
  /\ at[t] = "writing" /\ thrown < MaxThrows
  /\ thrown' = thrown + 1
  /\ torn' = (torn \/ buffer # << << >> >>)
  /\ leave(t)
  /\ UNCHANGED <<mutex, signals, tags, buffer, displayed>>

-----------------------------------------------------------------------------
\* connect(mask, slot) and disconnect(mask), within a lock_guard.
connect(t, mask, s) ==
  /\ at[t] = "idle" /\ can_lock(t)
  /\ \A v \in mask : Len(slots[v]) < MaxSlots
  /\ enabled' = enabled \cup mask
  /\ slots' = [v \in Verbosities |-> IF v \in mask THEN Append(slots[v], s)
                                                   ELSE slots[v]]
  /\ UNCHANGED <<mutex, tags, buffer, at, tag, parts, displayed, torn, thrown>>

disconnect(t, mask) ==
  /\ at[t] = "idle" /\ can_lock(t)
  /\ enabled' = enabled \ mask
  /\ slots' = [v \in Verbosities |-> IF v \in mask THEN << >> ELSE slots[v]]
  /\ UNCHANGED <<mutex, tags, buffer, at, tag, parts, displayed, torn, thrown>>

\* What a thread does in a statement once it has the mutex.
Proceed(t) ==
  \/ Write(t)
  \/ WriteNewLine(t)
  \/ Endl(t)
  \/ Flush(t)

Next ==
  \E t \in Threads :
    \/ \E g \in Tags : is(t, g)
    \/ Lock(t)
    \/ Proceed(t)
    \/ Throw(t)
    \/ \E mask \in (SUBSET Verbosities) \ {{}} :
         \/ \E s \in Slots : connect(t, mask, s)
         \/ disconnect(t, mask)

\* A thread that is in a statement goes on with it.  Nobody has to log, throw
\* or connect, and a thread that waits may wait while others take the mutex.
Fairness == \A t \in Threads : WF_vars(Proceed(t))

Spec == Init /\ [][Next]_vars /\ Fairness
-----------------------------------------------------------------------------
TypeOK ==
  /\ owner \in Threads \cup {NoThread} /\ locks \in Nat
  /\ enabled \in SUBSET Verbosities
  /\ slots \in [Verbosities -> Seq(Slots)]
  /\ tags \in Seq(Tags)
  /\ buffer \in Seq(Seq(Authors)) /\ buffer # << >>
  /\ at \in [Threads -> {"idle", "lock", "writing"}]
  /\ tag \in [Threads -> Tags \cup {no_tag}]
  /\ \A t \in Threads : at[t] # "idle" => tag[t] \in Tags
  /\ parts \in [Threads -> Nat]
  /\ torn \in BOOLEAN /\ thrown \in Nat

\* Only the thread in the middle of a statement holds the mutex, once for it
\* and once for every statement an exception has left; a mutex nobody holds
\* has no statement and no tag behind it (logger.h:194, logger.cpp:56).
MutexCoversStatement ==
  /\ \A t \in Threads : at[t] = "writing" => owner = t
  /\ locks = Len(tags)
  /\ owner = NoThread <=> locks = 0
  /\ locks = thrown + (IF \E t \in Threads : at[t] = "writing" THEN 1 ELSE 0)

\* The statement that flushes has its own tag on top of the stack, whatever
\* is left below it: it is never taken for another's, and sync() never finds
\* the stack empty and ends the program (logger.cpp:31).
OwnTagOnTop ==
  \A t \in Threads : at[t] = "writing" => tags # << >> /\ Last(tags) = tag[t]

\* The slots of a level are given the lines of one statement under that level,
\* each whole, as long as every statement has ended its line.
LinesWhole ==
  torn \/ \A line \in ToSet(displayed.lines) :
            \A c \in ToSet(line) : c.tag = displayed.tag
                                   /\ c.by = line[1].by

\* Text that is written and not yet displayed stays, in order, in front of
\* what is written next; only lines that are complete go to the slots.
TextKept ==
  [][\/ \E c \in Authors : FlattenSeq(buffer') = Append(FlattenSeq(buffer), c)
     \/ FlattenSeq(buffer') = FlattenSeq(buffer)
     \/ FlattenSeq(displayed'.lines) \o FlattenSeq(buffer')
          = FlattenSeq(buffer)]_buffer

\* The mutex that a statement takes is released again: by its flush, however
\* little there is to display, unless an operand throws.
MutexReleased == (owner # NoThread) ~> (owner = NoThread \/ thrown > 0)
=============================================================================
