------------------------------- MODULE RWLock -------------------------------
(***************************************************************************)
(* The reader-writer lock of utils/aio_rwlock.py: an asyncio Condition     *)
(* over three counters.  Waiting writers hold back new readers.            *)
(*                                                                         *)
(* _lock is never held across a suspension (a wait on _cond gives it up),  *)
(* so each method is one step, up to the wait if it has to wait.  A        *)
(* sleeping coroutine that is notified is woken, runs some time later and  *)
(* tests its condition again.                                              *)
(***************************************************************************)
EXTENDS Integers, FiniteSets

CONSTANT Coroutines   \* the users of the lock

ASSUME CoroutinesAssumption == IsFiniteSet(Coroutines)

VARIABLES
    readers,           \* _readers
    writer_active,     \* _writer_active
    waiting_writers,   \* _waiting_writers
    at                 \* where each coroutine is

lockvars == <<readers, writer_active, waiting_writers, at>>

In(S) == {c \in Coroutines : at[c] \in S}
Places == {"out", "r_sleep", "r_woken", "reading", "w_sleep", "w_woken", "writing"}

RWInit ==
    /\ readers = 0 /\ writer_active = FALSE /\ waiting_writers = 0
    /\ at = [c \in Coroutines |-> "out"]

\* Mutant: only writers are woken.
NotifyWriters(f) ==
    [c \in Coroutines |-> IF f[c] = "w_sleep" THEN "w_woken" ELSE f[c]]

\* _cond.notify_all()
NotifyAll(f) ==
    [c \in Coroutines |-> IF f[c] = "r_sleep" THEN "r_woken"
                          ELSE IF f[c] = "w_sleep" THEN "w_woken" ELSE f[c]]

\* Mutants: a writer does not wait for the readers, or not for another writer.
WriterBlockedByWriter == writer_active
WriterBlockedByReaders == readers > 0

\* The conditions of the two waits.
ReaderBlocked == writer_active \/ waiting_writers > 0
WriterBlocked == writer_active \/ readers > 0

\* acquire_reader gets the lock, or goes to sleep.
AcquireReader(c) ==
    /\ at[c] \in {"out", "r_woken"} /\ ~ReaderBlocked
    /\ readers' = readers + 1
    /\ at' = [at EXCEPT ![c] = "reading"]
    /\ UNCHANGED <<writer_active, waiting_writers>>
SleepReader(c) ==
    /\ at[c] \in {"out", "r_woken"} /\ ReaderBlocked
    /\ at' = [at EXCEPT ![c] = "r_sleep"]
    /\ UNCHANGED <<readers, writer_active, waiting_writers>>

\* release_reader: the last reader wakes everybody.
ReleaseReader(c) ==
    /\ at[c] = "reading"
    /\ readers' = readers - 1
    /\ at' = LET f == [at EXCEPT ![c] = "out"] IN IF readers' = 0 THEN NotifyAll(f) ELSE f
    /\ UNCHANGED <<writer_active, waiting_writers>>

\* acquire_writer: counted as waiting before the first test and until it has the lock.
AcquireWriter(c) ==
    /\ at[c] \in {"out", "w_woken"} /\ ~WriterBlocked
    /\ writer_active' = TRUE
    /\ waiting_writers' = IF at[c] = "out" THEN waiting_writers ELSE waiting_writers - 1
    /\ at' = [at EXCEPT ![c] = "writing"]
    /\ UNCHANGED readers
SleepWriter(c) ==
    /\ at[c] \in {"out", "w_woken"} /\ WriterBlocked
    /\ waiting_writers' = IF at[c] = "out" THEN waiting_writers + 1 ELSE waiting_writers
    /\ at' = [at EXCEPT ![c] = "w_sleep"]
    /\ UNCHANGED <<readers, writer_active>>

\* release_writer wakes everybody.
ReleaseWriter(c) ==
    /\ at[c] = "writing"
    /\ writer_active' = FALSE
    /\ at' = NotifyAll([at EXCEPT ![c] = "out"])
    /\ UNCHANGED <<readers, waiting_writers>>

\* Mutant: the test for readers is off by one.
IsLockedAlways == writer_active \/ readers >= 0

\* is_locked
IsLocked == writer_active \/ readers > 0

RWStep(c) ==
    \/ AcquireReader(c) \/ SleepReader(c) \/ ReleaseReader(c)
    \/ AcquireWriter(c) \/ SleepWriter(c) \/ ReleaseWriter(c)

RWSpec == RWInit /\ [][\E c \in Coroutines : RWStep(c)]_lockvars

-----------------------------------------------------------------------------
(* Properties.                                                             *)

\* The counters have their types and count what they are named for.
RWCounts ==
    /\ at \in [Coroutines -> Places]
    /\ writer_active \in BOOLEAN
    /\ readers = Cardinality(In({"reading"}))
    /\ waiting_writers = Cardinality(In({"w_sleep", "w_woken"}))

\* A writer has the lock alone: nobody reads while it writes, and no two write.
RWExclusion ==
    \A w \in In({"writing"}) : In({"reading", "writing"}) = {w}

\* Nobody sleeps for ever: while a coroutine sleeps, somebody holds the lock and
\* will notify it, or a woken writer is about to take the lock and will.
NoLostWakeup ==
    /\ In({"w_sleep"}) # {} => IsLocked
    /\ In({"r_sleep"}) # {} => IsLocked \/ In({"w_woken"}) # {}

RWInv ==
    /\ RWCounts /\ RWExclusion /\ NoLostWakeup
    /\ writer_active <=> In({"writing"}) # {}
=============================================================================
