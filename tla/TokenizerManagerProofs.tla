----------------------- MODULE TokenizerManagerProofs -----------------------
(***************************************************************************)
(* RWLock for any finite set of coroutines: RWInv is inductive, so writers *)
(* have the lock alone and no sleeping coroutine is forgotten.  The        *)
(* tokenizer manager implements RWLock, so model_update_lock keeps this    *)
(* for any number of requests and control operations and in every          *)
(* configuration.                                                          *)
(***************************************************************************)
EXTENDS TokenizerManager, FiniteSetTheorems, TLAPS

-----------------------------------------------------------------------------
(* The reader-writer lock.                                                 *)

Reading == In({"reading"})
WaitingWriters == In({"w_sleep", "w_woken"})

\* The sets that RWCounts counts are finite.
LEMMA InFinite == \A S : IsFiniteSet(In(S))
BY CoroutinesAssumption, FS_Subset DEF In

\* notify_all moves nobody into or out of the places that are counted or hold
\* the lock, and leaves nobody asleep.
LEMMA NotifyAllMoves ==
    ASSUME NEW f \in [Coroutines -> Places], NEW c \in Coroutines
    PROVE  /\ NotifyAll(f) \in [Coroutines -> Places]
           /\ NotifyAll(f)[c] = "reading" <=> f[c] = "reading"
           /\ NotifyAll(f)[c] = "writing" <=> f[c] = "writing"
           /\ NotifyAll(f)[c] \in {"w_sleep", "w_woken"} <=> f[c] \in {"w_sleep", "w_woken"}
           /\ NotifyAll(f)[c] \notin {"r_sleep", "w_sleep"}
BY DEF NotifyAll, Places

\* The counters start at zero and nobody holds the lock.
LEMMA RWInitInv == RWInit => RWInv
<1> SUFFICES ASSUME RWInit PROVE RWInv
  OBVIOUS
<1>1. \A S : "out" \notin S => In(S) = {}
  BY DEF RWInit, In
<1>2. In({"reading"}) = {} /\ In({"writing"}) = {} /\ In({"w_sleep", "w_woken"}) = {}
      /\ In({"w_sleep"}) = {} /\ In({"r_sleep"}) = {}
  BY <1>1
<1> QED
  BY <1>2, FS_EmptySet DEF RWInit, RWInv, RWCounts, RWExclusion, NoLostWakeup, Places

\* A coroutine that takes the lock as a reader.
LEMMA AcquireReaderInv ==
    ASSUME NEW c \in Coroutines, RWInv, AcquireReader(c)
    PROVE  RWInv'
<1> USE DEF RWInv, RWCounts, AcquireReader, ReaderBlocked
<1>1. at' \in [Coroutines -> Places] /\ at'[c] = "reading"
      /\ \A d \in Coroutines : d # c => at'[d] = at[d]
  BY DEF Places
<1>2. Reading' = Reading \cup {c} /\ c \notin Reading
  BY <1>1 DEF Reading, In
<1>3. readers' = Cardinality(Reading')
  <2>1. readers = Cardinality(Reading)
    BY DEF Reading
  <2>2. IsFiniteSet(Reading)
    BY InFinite DEF Reading
  <2> QED
    BY <1>2, <2>1, <2>2, FS_AddElement
<1>4. WaitingWriters' = WaitingWriters
  BY <1>1 DEF WaitingWriters, In
<1>5. In({"writing"})' = {} /\ In({"writing"}) = {}
  BY <1>1 DEF In
<1>6. NoLostWakeup'
  <2>1. readers' > 0
    BY InFinite, FS_CardinalityType
  <2> QED
    BY <2>1 DEF NoLostWakeup, IsLocked
<1> QED
  BY <1>1, <1>3, <1>4, <1>5, <1>6 DEF Reading, WaitingWriters, RWExclusion

\* A coroutine that waits as a reader: a writer is active, or waits for readers.
LEMMA SleepReaderInv ==
    ASSUME NEW c \in Coroutines, RWInv, SleepReader(c)
    PROVE  RWInv'
<1> USE DEF RWInv, RWCounts, SleepReader, ReaderBlocked
<1>1. at' \in [Coroutines -> Places] /\ at'[c] = "r_sleep"
      /\ \A d \in Coroutines : d # c => at'[d] = at[d]
  BY DEF Places
<1>2. Reading' = Reading /\ WaitingWriters' = WaitingWriters
      /\ In({"writing"})' = In({"writing"})
      /\ In({"reading", "writing"})' = In({"reading", "writing"})
      /\ In({"w_sleep"})' = In({"w_sleep"}) /\ In({"w_woken"})' = In({"w_woken"})
  BY <1>1 DEF Reading, WaitingWriters, In
<1>3. NoLostWakeup'
  <2>1. CASE writer_active
    BY <1>2, <2>1 DEF NoLostWakeup, IsLocked
  <2>2. CASE waiting_writers > 0
    <3>1. WaitingWriters # {}
      BY <2>2, FS_EmptySet DEF WaitingWriters
    <3>2. In({"w_sleep"}) # {} \/ In({"w_woken"}) # {}
      BY <3>1 DEF WaitingWriters, In
    <3> QED
      BY <1>2, <3>2 DEF NoLostWakeup, IsLocked
  <2> QED
    BY <2>1, <2>2
<1> QED
  BY <1>1, <1>2, <1>3 DEF Reading, WaitingWriters, RWExclusion

\* A reader that leaves.  The last one leaves nobody asleep.
LEMMA ReleaseReaderInv ==
    ASSUME NEW c \in Coroutines, RWInv, ReleaseReader(c)
    PROVE  RWInv'
<1> DEFINE f == [at EXCEPT ![c] = "out"]
<1> USE DEF RWInv, RWCounts
<1>1. f \in [Coroutines -> Places] /\ f[c] = "out" /\ at[c] = "reading"
      /\ \A d \in Coroutines : d # c => f[d] = at[d]
  BY DEF ReleaseReader, Places
<1>2. at' = (IF readers' = 0 THEN NotifyAll(f) ELSE f) /\ readers' = readers - 1
      /\ writer_active' = writer_active /\ waiting_writers' = waiting_writers
  BY DEF ReleaseReader
<1>3. /\ at' \in [Coroutines -> Places]
      /\ \A d \in Coroutines :
           /\ at'[d] = "reading" <=> (d # c /\ at[d] = "reading")
           /\ at'[d] = "writing" <=> at[d] = "writing"
           /\ at'[d] \in {"w_sleep", "w_woken"} <=> at[d] \in {"w_sleep", "w_woken"}
  <2> HIDE DEF f
  <2>1. \A d \in Coroutines :
           /\ f[d] = "reading" <=> (d # c /\ at[d] = "reading")
           /\ f[d] = "writing" <=> at[d] = "writing"
           /\ f[d] \in {"w_sleep", "w_woken"} <=> at[d] \in {"w_sleep", "w_woken"}
    BY <1>1
  <2>2. CASE readers' = 0
    BY <1>1, <1>2, <2>1, <2>2, NotifyAllMoves
  <2>3. CASE readers' # 0
    BY <1>1, <1>2, <2>1, <2>3
  <2> QED
    BY <2>2, <2>3
<1>4. c \in Reading /\ Reading' = Reading \ {c}
      /\ WaitingWriters' = WaitingWriters /\ In({"writing"})' = In({"writing"})
  BY <1>1, <1>3 DEF Reading, WaitingWriters, In
<1>5. In({"writing"}) = {}
  BY <1>4 DEF RWExclusion, Reading, In
<1>6. readers' = Cardinality(Reading') /\ readers' \in Nat
  <2>1. readers = Cardinality(Reading) /\ IsFiniteSet(Reading)
    BY InFinite DEF Reading
  <2>2. Cardinality(Reading \ {c}) = Cardinality(Reading) - 1 /\ IsFiniteSet(Reading \ {c})
    BY <1>4, <2>1, FS_RemoveElement
  <2>3. Cardinality(Reading \ {c}) \in Nat
    BY <2>2, FS_CardinalityType
  <2> QED
    BY <1>2, <1>4, <2>1, <2>2, <2>3
<1>7. NoLostWakeup'
  <2>1. CASE readers' = 0
    <3>1. \A d \in Coroutines : at'[d] \notin {"r_sleep", "w_sleep"}
      BY <1>1, <1>2, <2>1, NotifyAllMoves
    <3> QED
      BY <3>1 DEF NoLostWakeup, In
  <2>2. CASE readers' # 0
    BY <1>6, <2>2 DEF NoLostWakeup, IsLocked
  <2> QED
    BY <2>1, <2>2
<1> QED
  BY <1>2, <1>3, <1>4, <1>5, <1>6, <1>7 DEF Reading, WaitingWriters, RWExclusion

\* A coroutine that takes the lock as a writer.
LEMMA AcquireWriterInv ==
    ASSUME NEW c \in Coroutines, RWInv, AcquireWriter(c)
    PROVE  RWInv'
<1> USE DEF RWInv, RWCounts, AcquireWriter, WriterBlocked
<1>1. at' \in [Coroutines -> Places] /\ at'[c] = "writing"
      /\ \A d \in Coroutines : d # c => at'[d] = at[d]
  BY DEF Places
<1>2. IsFiniteSet(Reading) /\ readers = Cardinality(Reading) /\ readers \in Nat
  BY InFinite, FS_CardinalityType DEF Reading
<1>3. Reading = {} /\ In({"writing"}) = {}
  <2>1. readers = 0
    BY <1>2
  <2> QED
    BY <1>2, <2>1, FS_EmptySet
<1>4. Reading' = {} /\ readers' = readers /\ In({"writing"})' = {c}
      /\ In({"reading", "writing"})' = {c}
  BY <1>1, <1>3 DEF Reading, In
<1>5. waiting_writers' = Cardinality(WaitingWriters')
  <2>1. waiting_writers = Cardinality(WaitingWriters) /\ IsFiniteSet(WaitingWriters)
    BY InFinite DEF WaitingWriters
  <2>2. CASE at[c] = "out"
    <3>1. WaitingWriters' = WaitingWriters
      BY <1>1, <2>2 DEF WaitingWriters, In
    <3> QED
      BY <2>1, <2>2, <3>1
  <2>3. CASE at[c] = "w_woken"
    <3>1. WaitingWriters' = WaitingWriters \ {c} /\ c \in WaitingWriters
      BY <1>1, <2>3 DEF WaitingWriters, In
    <3>2. Cardinality(WaitingWriters \ {c}) = Cardinality(WaitingWriters) - 1
      BY <2>1, <3>1, FS_RemoveElement
    <3> QED
      BY <2>1, <2>3, <3>1, <3>2
  <2> QED
    BY <2>2, <2>3
<1>6. readers' = Cardinality(Reading')
  BY <1>2, <1>3, <1>4
<1>7. NoLostWakeup'
  BY DEF NoLostWakeup, IsLocked
<1> QED
  BY <1>1, <1>4, <1>5, <1>6, <1>7 DEF Reading, WaitingWriters, RWExclusion

\* A coroutine that waits as a writer: somebody holds the lock.
LEMMA SleepWriterInv ==
    ASSUME NEW c \in Coroutines, RWInv, SleepWriter(c)
    PROVE  RWInv'
<1> USE DEF RWInv, RWCounts, SleepWriter, WriterBlocked
<1>1. at' \in [Coroutines -> Places] /\ at'[c] = "w_sleep"
      /\ \A d \in Coroutines : d # c => at'[d] = at[d]
  BY DEF Places
<1>2. Reading' = Reading /\ In({"writing"})' = In({"writing"})
      /\ In({"reading", "writing"})' = In({"reading", "writing"})
  BY <1>1 DEF Reading, In
<1>3. waiting_writers' = Cardinality(WaitingWriters')
  <2>1. waiting_writers = Cardinality(WaitingWriters) /\ IsFiniteSet(WaitingWriters)
    BY InFinite DEF WaitingWriters
  <2>2. CASE at[c] = "out"
    <3>1. WaitingWriters' = WaitingWriters \cup {c} /\ c \notin WaitingWriters
      BY <1>1, <2>2 DEF WaitingWriters, In
    <3>2. Cardinality(WaitingWriters \cup {c}) = Cardinality(WaitingWriters) + 1
      BY <2>1, <3>1, FS_AddElement
    <3> QED
      BY <2>1, <2>2, <3>1, <3>2
  <2>3. CASE at[c] = "w_woken"
    <3>1. WaitingWriters' = WaitingWriters
      BY <1>1, <2>3 DEF WaitingWriters, In
    <3> QED
      BY <2>1, <2>3, <3>1
  <2> QED
    BY <2>2, <2>3
<1>4. NoLostWakeup'
  BY DEF NoLostWakeup, IsLocked
<1> QED
  BY <1>1, <1>2, <1>3, <1>4 DEF Reading, WaitingWriters, RWExclusion

\* A writer that leaves: nobody stays asleep.
LEMMA ReleaseWriterInv ==
    ASSUME NEW c \in Coroutines, RWInv, ReleaseWriter(c)
    PROVE  RWInv'
<1> DEFINE f == [at EXCEPT ![c] = "out"]
<1> USE DEF RWInv, RWCounts
<1>1. f \in [Coroutines -> Places] /\ f[c] = "out" /\ at[c] = "writing"
      /\ \A d \in Coroutines : d # c => f[d] = at[d]
  BY DEF ReleaseWriter, Places
<1>2. at' = NotifyAll(f) /\ readers' = readers /\ writer_active' = FALSE
      /\ waiting_writers' = waiting_writers
  BY DEF ReleaseWriter
<1> HIDE DEF f
<1>3. /\ at' \in [Coroutines -> Places]
      /\ \A d \in Coroutines :
           /\ at'[d] = "reading" <=> at[d] = "reading"
           /\ at'[d] = "writing" <=> (d # c /\ at[d] = "writing")
           /\ at'[d] \in {"w_sleep", "w_woken"} <=> at[d] \in {"w_sleep", "w_woken"}
           /\ at'[d] \notin {"r_sleep", "w_sleep"}
  BY <1>1, <1>2, NotifyAllMoves
<1>4. Reading' = Reading /\ WaitingWriters' = WaitingWriters
  BY <1>3 DEF Reading, WaitingWriters, In
<1>5. c \in In({"writing"}) /\ In({"writing"})' = In({"writing"}) \ {c}
      /\ In({"writing"}) \subseteq In({"reading", "writing"})
  BY <1>1, <1>3 DEF In
<1>6. In({"writing"})' = {}
  BY <1>5 DEF RWExclusion
<1>7. NoLostWakeup'
  BY <1>3 DEF NoLostWakeup, In
<1> QED
  BY <1>2, <1>3, <1>4, <1>6, <1>7 DEF Reading, WaitingWriters, RWExclusion

\* Every step of the lock keeps the invariant.
LEMMA RWStepInv ==
    ASSUME NEW c \in Coroutines, RWInv, RWStep(c)
    PROVE  RWInv'
BY AcquireReaderInv, SleepReaderInv, ReleaseReaderInv, AcquireWriterInv,
   SleepWriterInv, ReleaseWriterInv DEF RWStep

\* The lock stays in RWInv whatever its coroutines do, and however many they are.
THEOREM RWLockInvariant == RWSpec => []RWInv
<1>1. RWInv /\ [\E c \in Coroutines : RWStep(c)]_lockvars => RWInv'
  <2> SUFFICES ASSUME RWInv, [\E c \in Coroutines : RWStep(c)]_lockvars PROVE RWInv'
    OBVIOUS
  <2>1. CASE \E c \in Coroutines : RWStep(c)
    BY <2>1, RWStepInv
  <2>2. CASE UNCHANGED lockvars
    BY <2>2 DEF lockvars, RWInv, RWCounts, RWExclusion, NoLostWakeup, IsLocked, In
  <2> QED
    BY <2>1, <2>2
<1> QED
  BY <1>1, RWInitInv, PTL DEF RWSpec

\* A writer has the lock alone.
THEOREM WritersAlone == RWSpec => []RWExclusion
<1>1. RWInv => RWExclusion
  BY DEF RWInv
<1> QED
  BY <1>1, RWLockInvariant, PTL

\* A coroutine that sleeps on the lock will be notified.
THEOREM SleepersAreNotified == RWSpec => []NoLostWakeup
<1>1. RWInv => NoLostWakeup
  BY DEF RWInv
<1> QED
  BY <1>1, RWLockInvariant, PTL

-----------------------------------------------------------------------------
(* The tokenizer manager.                                                  *)

\* What a step of the manager may do to the lock.
LockStep == [\E c \in Coroutines : RWStep(c)]_lockvars

\* The lock steps of the handler of one request.
LEMMA HandlerLockStep ==
    ASSUME NEW r \in Reqs, Handler(r) \/ Disconnect(r)
    PROVE  LockStep
<1>1. r \in Coroutines
  BY ReqsAssumption
<1>2. ASSUME Leave(r) PROVE LockStep
  BY <1>1, <1>2 DEF Leave, LockStep, RWStep
<1>3. ASSUME TakeReader(r) PROVE LockStep
  BY <1>1, <1>3 DEF TakeReader, LockStep, RWStep
<1>4. CASE Receive(r) \/ CountList(r) \/ AbortTask(r)
  BY <1>4 DEF Receive, CountList, AbortTask, LockStep
<1>5. CASE PassGate(r) \/ WakeReader(r)
  BY <1>3, <1>5 DEF PassGate, WakeReader
<1>6. CASE Resolve(r)
  BY <1>2, <1>6 DEF Resolve, Acquire, LockStep
<1>7. CASE Tokenize(r)
  BY <1>2, <1>7 DEF Tokenize, LockStep
<1>8. CASE Resume(r)
  BY <1>2, <1>8 DEF Resume
<1>9. CASE Disconnect(r)
  BY <1>1, <1>9 DEF Disconnect, LockStep, RWStep
<1> QED
  BY <1>4, <1>5, <1>6, <1>7, <1>8, <1>9 DEF Handler

\* A request that loads its adapter may leave; the other steps of loading and
\* unloading do not touch the lock.
LEMMA LoRALockStep ==
    ASSUME NEW c \in Coroutines, LoRAOp(c)
    PROVE  LockStep
<1>1. ASSUME Leave(c) PROVE LockStep
  BY <1>1 DEF Leave, LockStep, RWStep
<1>2. ASSUME NEW reg, NEW result, EvictOrDone(c, reg, result) PROVE LockStep
  BY <1>1, <1>2 DEF EvictOrDone, LoadDone, Acquire, LockStep
<1>3. CASE LoadStart(c) \/ UnloadStart(c) \/ Drain(c)
  BY <1>3 DEF LoadStart, UnloadStart, Drain, LockStep
<1>4. CASE LoadReturn(c)
  BY <1>2, <1>4 DEF LoadReturn
<1>5. CASE UnloadReturn(c)
  BY <1>2, <1>5 DEF UnloadReturn, LockStep
<1> QED
  BY <1>3, <1>4, <1>5 DEF LoRAOp

\* Updates take the lock as writers or not at all; pause and continue only look at it.
LEMMA OperationLockStep ==
    ASSUME NEW c \in Coroutines, Operation(c) \/ PausePoll(c)
    PROVE  LockStep
<1>1. ASSUME TakeWriter(c) PROVE LockStep
  BY <1>1 DEF TakeWriter, LockStep, RWStep
<1>2. CASE UpdateStart(c)
  BY <1>1, <1>2 DEF UpdateStart, LockStep
<1>3. CASE WakeWriter(c)
  BY <1>1, <1>3 DEF WakeWriter
<1>4. CASE UpdateReturn(c)
  BY <1>4 DEF UpdateReturn, LockStep, RWStep
<1>5. CASE Pause(c) \/ PausePoll(c) \/ Continue(c)
  BY <1>5 DEF Pause, PausePoll, Continue, LockStep
<1> QED
  BY <1>2, <1>3, <1>4, <1>5 DEF Operation

\* handle_loop, its tasks and the scheduler leave the lock alone.
LEMMA OthersLockStep ==
    ASSUME Tasks \/ HandleLoop \/ Engine \/ Batch \/ (\E r \in Reqs : WaitingTimeout(r)) \/ Stop
    PROVE  LockStep
<1>1. CASE Tasks \/ HandleLoop
  BY <1>1 DEF Tasks, ReleaseTask, HandleLoop, HandleBatchOutput, HandleReply, LockStep
<1>2. ASSUME NEW replies, Answer(replies) PROVE LockStep
  BY <1>2 DEF Answer, LockStep
<1>3. CASE Engine
  BY <1>2, <1>3 DEF Engine, EngineGenerate, EngineAbort, EngineUpdate, EnginePause,
     EngineContinue, EngineLoad, EngineUnload
<1>4. ASSUME NEW r, NEW from, NEW to, EngineStep(r, from, to) PROVE LockStep
  BY <1>4 DEF EngineStep, LockStep
<1>5. CASE Batch \/ (\E r \in Reqs : WaitingTimeout(r))
  BY <1>4, <1>5 DEF Batch, Schedule, Finish, WaitingTimeout
<1>6. CASE Stop
  BY <1>6 DEF Stop, vars, LockStep
<1> QED
  BY <1>1, <1>3, <1>5, <1>6

\* The configuration stays one of Configs, so the operations are coroutines.
OpsOK == conf \in Configs

\* No step changes the configuration.
LEMMA ConfStep == [Next]_vars => UNCHANGED conf
<1> SUFFICES ASSUME [Next]_vars PROVE UNCHANGED conf
  OBVIOUS
<1>1. ASSUME NEW r, Handler(r) \/ Disconnect(r) \/ ReleaseTask(r) PROVE UNCHANGED conf
  BY <1>1 DEF Handler, Receive, PassGate, WakeReader, TakeReader, Resolve, CountList, Tokenize,
     Resume, AbortTask, Disconnect, ReleaseTask
<1>2. ASSUME NEW c, LoRAOp(c) PROVE UNCHANGED conf
  BY <1>2 DEF LoRAOp, LoadStart, LoadReturn, UnloadStart, Drain, UnloadReturn
<1>3. ASSUME NEW c, Operation(c) \/ PausePoll(c) PROVE UNCHANGED conf
  BY <1>3 DEF Operation, UpdateStart, WakeWriter, UpdateReturn, Pause, PausePoll, Continue
<1>4. CASE HandleLoop
  BY <1>4 DEF HandleLoop, HandleBatchOutput, HandleReply
<1>5. CASE Engine
  BY <1>5 DEF Engine, EngineGenerate, EngineAbort, EngineUpdate, EnginePause, EngineContinue,
     EngineLoad, EngineUnload, Answer
<1>6. CASE Batch \/ (\E r \in Reqs : WaitingTimeout(r))
  BY <1>6 DEF Batch, Schedule, Finish, WaitingTimeout, EngineStep
<1>7. CASE Stop \/ UNCHANGED vars
  BY <1>7 DEF Stop, vars
<1> QED
  BY <1>1, <1>2, <1>3, <1>4, <1>5, <1>6, <1>7 DEF Next, Run, Poll, Tasks

\* Every step of the manager is a step of the lock, or leaves it alone.
LEMMA NextLockStep ==
    ASSUME OpsOK, [Next]_vars
    PROVE  LockStep
<1>1. Ops \subseteq Coroutines
  BY ConfigsAssumption DEF OpsOK, Ops
<1>2. CASE Run
  BY <1>2, HandlerLockStep, LoRALockStep, OperationLockStep DEF Run
<1>3. CASE Poll
  BY <1>1, <1>3, OperationLockStep DEF Poll
<1>4. CASE \E r \in Reqs : Disconnect(r)
  BY <1>4, HandlerLockStep
<1>5. CASE UNCHANGED vars
  BY <1>5 DEF vars, LockStep
<1> QED
  BY <1>2, <1>3, <1>4, <1>5, OthersLockStep DEF Next

\* The manager uses model_update_lock through its methods only.
THEOREM ManagerUsesLock == Spec => UsesLock
<1>1. Init => OpsOK /\ RWInit
  BY DEF Init, OpsOK
<1>2. OpsOK /\ [Next]_vars => OpsOK'
  BY ConfStep DEF OpsOK
<1>3. OpsOK /\ [Next]_vars => [\E c \in Coroutines : RWStep(c)]_lockvars
  BY NextLockStep DEF LockStep
<1> QED
  BY <1>1, <1>2, <1>3, PTL DEF Spec, UsesLock, RWSpec

\* No request is being handled while an update holds the lock, and no two updates
\* hold it.
THEOREM UpdatesAlone == Spec => []RWExclusion
<1>1. UsesLock => RWSpec
  BY DEF UsesLock
<1> QED
  BY <1>1, ManagerUsesLock, WritersAlone, PTL

\* No request and no update sleeps on the lock while nobody is going to wake it.
THEOREM NobodyForgotten == Spec => []NoLostWakeup
<1>1. UsesLock => RWSpec
  BY DEF UsesLock
<1> QED
  BY <1>1, ManagerUsesLock, SleepersAreNotified, PTL

-----------------------------------------------------------------------------
(* Handlers hold the reader lock from their admission to their answer.     *)

HandlersRead ==
    /\ pc \in [Coroutines -> Inside \cup Outside]
    /\ \A r \in Reqs : pc[r] \in Inside => at[r] = "reading"

\* Only a coroutine itself gives up its hold on the lock.
LEMMA LockKeepsReaders ==
    ASSUME NEW c \in Coroutines, RWInv, RWStep(c) \/ UNCHANGED lockvars,
           NEW d \in Coroutines, d # c, at[d] = "reading"
    PROVE  at'[d] = "reading"
<1>1. at \in [Coroutines -> Places]
  BY DEF RWInv, RWCounts
<1>2. CASE AcquireReader(c) \/ SleepReader(c) \/ AcquireWriter(c) \/ SleepWriter(c)
  BY <1>1, <1>2 DEF AcquireReader, SleepReader, AcquireWriter, SleepWriter
<1>3. CASE ReleaseReader(c) \/ ReleaseWriter(c)
  BY <1>1, <1>3 DEF ReleaseReader, ReleaseWriter, NotifyAll
<1>4. CASE UNCHANGED lockvars
  BY <1>4 DEF lockvars
<1> QED
  BY <1>2, <1>3, <1>4 DEF RWStep

\* A step moves coroutine c only.
Moves(c) ==
    /\ pc' \in [Coroutines -> Inside \cup Outside]
    /\ \A d \in Coroutines : d # c => pc'[d] = pc[d]

\* Such a step keeps the invariant if c is outside afterwards or holds the lock.
LEMMA MoveKeeps ==
    ASSUME RWInv, HandlersRead, NEW c \in Coroutines, Moves(c),
           RWStep(c) \/ UNCHANGED lockvars,
           c \in Reqs /\ pc'[c] \in Inside => at'[c] = "reading"
    PROVE  HandlersRead'
<1>1. ASSUME NEW r \in Reqs, pc'[r] \in Inside PROVE at'[r] = "reading"
  <2>1. r \in Coroutines
    BY ReqsAssumption
  <2>2. CASE r = c
    BY <1>1, <2>2
  <2>3. CASE r # c
    <3>1. at[r] = "reading"
      BY <1>1, <2>1, <2>3 DEF HandlersRead, Moves
    <3> QED
      BY <2>1, <2>3, <3>1, LockKeepsReaders
  <2> QED
    BY <2>2, <2>3
<1> QED
  BY <1>1 DEF HandlersRead, Moves

\* A handler returns.
LEMMA LeaveKeeps ==
    ASSUME RWInv, HandlersRead, NEW c \in Coroutines, Leave(c)
    PROVE  HandlersRead'
<1>1. Moves(c) /\ pc'[c] \notin Inside
  BY DEF Leave, Goto, Moves, HandlersRead, Inside, Outside
<1>2. RWStep(c)
  BY DEF Leave, RWStep
<1> QED
  BY <1>1, <1>2, MoveKeeps

\* A handler is admitted, or waits for the lock.
LEMMA TakeReaderKeeps ==
    ASSUME RWInv, HandlersRead, NEW c \in Coroutines, TakeReader(c)
    PROVE  HandlersRead'
<1>1. Moves(c)
  BY DEF TakeReader, Goto, Moves, HandlersRead, Inside, Outside
<1>2. RWStep(c)
  BY DEF TakeReader, RWStep
<1>3. CASE AcquireReader(c)
  <2>1. at'[c] = "reading"
    BY <1>3 DEF AcquireReader, RWInv, RWCounts
  <2> QED
    BY <1>1, <1>2, <2>1, MoveKeeps
<1>4. CASE ~AcquireReader(c)
  <2>1. pc'[c] \notin Inside
    BY <1>4 DEF TakeReader, Goto, HandlersRead, Inside, Outside
  <2> QED
    BY <1>1, <1>2, <2>1, MoveKeeps
<1> QED
  BY <1>3, <1>4

\* A coroutine that goes on inside, or moves outside, and does not touch the lock.
LEMMA StayKeeps ==
    ASSUME RWInv, HandlersRead, NEW c \in Coroutines, Moves(c), UNCHANGED lockvars,
           c \in Reqs => pc[c] \in Inside \/ pc'[c] \notin Inside
    PROVE  HandlersRead'
<1>1. c \in Reqs /\ pc'[c] \in Inside => at'[c] = "reading"
  BY DEF HandlersRead, lockvars
<1> QED
  BY <1>1, MoveKeeps

\* The handler of a request.
LEMMA HandlerKeeps ==
    ASSUME RWInv, HandlersRead, NEW r \in Reqs, Handler(r) \/ Disconnect(r)
    PROVE  HandlersRead'
<1>1. r \in Coroutines
  BY ReqsAssumption
<1>2. CASE Receive(r) \/ AbortTask(r)
  <2>1. Moves(r) /\ pc'[r] \notin Inside /\ UNCHANGED lockvars
    BY <1>1, <1>2 DEF Receive, AbortTask, Goto, Moves, HandlersRead, Inside, Outside
  <2> QED
    BY <1>1, <2>1, StayKeeps
<1>3. CASE CountList(r)
  <2>1. Moves(r) /\ pc[r] \in Inside /\ UNCHANGED lockvars
    BY <1>1, <1>3 DEF CountList, Goto, Moves, HandlersRead, Inside, Outside
  <2> QED
    BY <1>1, <2>1, StayKeeps
<1>4. CASE PassGate(r) \/ WakeReader(r)
  BY <1>1, <1>4, TakeReaderKeeps DEF PassGate, WakeReader
<1>5. CASE Resolve(r)
  <2>1. CASE Leave(r)
    BY <1>1, <2>1, LeaveKeeps
  <2>2. CASE ~Leave(r)
    <3>1. Moves(r) /\ pc[r] \in Inside /\ UNCHANGED lockvars
      BY <1>1, <1>5, <2>2 DEF Resolve, Acquire, Goto, Moves, HandlersRead, Inside, Outside
    <3> QED
      BY <1>1, <3>1, StayKeeps
  <2> QED
    BY <2>1, <2>2
<1>6. CASE Tokenize(r)
  <2>1. CASE Leave(r)
    BY <1>1, <2>1, LeaveKeeps
  <2>2. CASE ~Leave(r)
    <3>1. Moves(r) /\ pc[r] \in Inside /\ UNCHANGED lockvars
      BY <1>1, <1>6, <2>2 DEF Tokenize, Goto, Moves, HandlersRead, Inside, Outside
    <3> QED
      BY <1>1, <3>1, StayKeeps
  <2> QED
    BY <2>1, <2>2
<1>7. CASE Resume(r)
  BY <1>1, <1>7, LeaveKeeps DEF Resume
<1>8. CASE Disconnect(r)
  <2>1. Moves(r) /\ pc'[r] \notin Inside /\ RWStep(r)
    BY <1>1, <1>8 DEF Disconnect, Goto, Moves, HandlersRead, Inside, Outside, RWStep
  <2> QED
    BY <1>1, <2>1, MoveKeeps
<1> QED
  BY <1>2, <1>3, <1>4, <1>5, <1>6, <1>7, <1>8 DEF Handler

\* Loading and unloading: a request stays inside until it leaves.
LEMMA LoRAKeeps ==
    ASSUME RWInv, HandlersRead, OpsOK, NEW c \in Coroutines, LoRAOp(c)
    PROVE  HandlersRead'
<1> USE DEF Goto, Moves, HandlersRead, Inside, Outside
<1>1. Ops \cap Reqs = {}
  BY ConfigsAssumption DEF OpsOK, Ops
<1>2. ASSUME NEW reg, NEW result, EvictOrDone(c, reg, result), pc[c] \in Inside PROVE HandlersRead'
  <2>1. CASE Leave(c)
    BY <2>1, LeaveKeeps
  <2>2. CASE ~Leave(c)
    <3>1. Moves(c) /\ UNCHANGED lockvars
      BY <1>2, <2>2 DEF EvictOrDone, LoadDone, Acquire
    <3> QED
      BY <1>2, <3>1, StayKeeps
  <2> QED
    BY <2>1, <2>2
<1>3. CASE LoadStart(c)
  <2>1. Moves(c) /\ UNCHANGED lockvars
    BY <1>3 DEF LoadStart
  <2>2. c \in Reqs => pc[c] \in Inside
    BY <1>1, <1>3 DEF LoadStart, Called, Kind
  <2> QED
    BY <2>1, <2>2, StayKeeps
<1>4. CASE UnloadStart(c)
  <2>1. Moves(c) /\ UNCHANGED lockvars
    BY <1>4 DEF UnloadStart
  <2>2. c \notin Reqs
    BY <1>1, <1>4 DEF UnloadStart, Called, Kind
  <2> QED
    BY <2>1, <2>2, StayKeeps
<1>5. CASE Drain(c)
  <2>1. Moves(c) /\ UNCHANGED lockvars /\ pc[c] \in Inside
    BY <1>5 DEF Drain
  <2> QED
    BY <2>1, StayKeeps
<1>6. CASE LoadReturn(c)
  BY <1>2, <1>6 DEF LoadReturn
<1>7. CASE UnloadReturn(c)
  <2>1. CASE Kind(c) = "unload"
    <3>1. Moves(c) /\ UNCHANGED lockvars /\ pc[c] \in Inside
      BY <1>7, <2>1 DEF UnloadReturn
    <3> QED
      BY <3>1, StayKeeps
  <2>2. CASE Kind(c) # "unload"
    BY <1>2, <1>7, <2>2 DEF UnloadReturn
  <2> QED
    BY <2>1, <2>2
<1> QED
  BY <1>3, <1>4, <1>5, <1>6, <1>7 DEF LoRAOp

\* Weight updates, pause and continue are not handlers of requests.
LEMMA OperationKeeps ==
    ASSUME RWInv, HandlersRead, OpsOK, NEW c \in Coroutines,
           Operation(c) \/ (c \in Ops /\ PausePoll(c))
    PROVE  HandlersRead'
<1> USE DEF Goto, Moves, HandlersRead, Inside, Outside
<1>1. c \in Ops => c \notin Reqs
  BY ConfigsAssumption DEF OpsOK, Ops
<1>2. c \notin Reqs
  BY <1>1 DEF Operation, UpdateStart, WakeWriter, UpdateReturn, Updates, Pause, Continue,
     Called, Kind
<1>3. Moves(c)
  <2>1. CASE UpdateStart(c) \/ WakeWriter(c)
    BY <2>1 DEF UpdateStart, WakeWriter, TakeWriter
  <2>2. CASE UpdateReturn(c) \/ Continue(c)
    BY <2>2 DEF UpdateReturn, Continue
  <2>3. CASE Pause(c) \/ PausePoll(c)
    BY <2>3 DEF Pause, PausePoll, AbortAllOrReturn
  <2> QED
    BY <2>1, <2>2, <2>3 DEF Operation
<1>4. RWStep(c) \/ UNCHANGED lockvars
  <2>1. CASE UpdateStart(c) \/ WakeWriter(c)
    BY <2>1 DEF UpdateStart, WakeWriter, TakeWriter, RWStep
  <2>2. CASE UpdateReturn(c)
    BY <2>2 DEF UpdateReturn, RWStep
  <2>3. CASE Pause(c) \/ PausePoll(c) \/ Continue(c)
    BY <2>3 DEF Pause, PausePoll, Continue
  <2> QED
    BY <2>1, <2>2, <2>3 DEF Operation
<1> QED
  BY <1>2, <1>3, <1>4, MoveKeeps

\* The rest moves no coroutine.
LEMMA OthersKeep ==
    ASSUME HandlersRead,
           Tasks \/ HandleLoop \/ Engine \/ Batch \/ (\E r \in Reqs : WaitingTimeout(r)) \/ Stop
    PROVE  HandlersRead'
<1>1. UNCHANGED <<pc, lockvars>>
  <2>1. CASE Tasks \/ HandleLoop
    BY <2>1 DEF Tasks, ReleaseTask, HandleLoop, HandleBatchOutput, HandleReply
  <2>2. ASSUME NEW replies, Answer(replies) PROVE UNCHANGED <<pc, lockvars>>
    BY <2>2 DEF Answer
  <2>3. CASE Engine
    BY <2>2, <2>3 DEF Engine, EngineGenerate, EngineAbort, EngineUpdate, EnginePause,
       EngineContinue, EngineLoad, EngineUnload
  <2>4. CASE Batch \/ (\E r \in Reqs : WaitingTimeout(r))
    BY <2>4 DEF Batch, Schedule, Finish, WaitingTimeout, EngineStep
  <2>5. CASE Stop
    BY <2>5 DEF Stop, vars
  <2> QED
    BY <2>1, <2>3, <2>4, <2>5
<1> QED
  BY <1>1 DEF HandlersRead, lockvars

\* While an update holds the lock no request is between admission and its answer.
THEOREM UpdatesExcludeRequests == Spec => []NoRequestWhileLocked
<1>1. Init => OpsOK /\ HandlersRead
  BY ReqsAssumption DEF Init, OpsOK, HandlersRead, Inside, Outside
<1>2. OpsOK /\ [Next]_vars => OpsOK'
  BY ConfStep DEF OpsOK
<1>3. RWInv /\ OpsOK /\ HandlersRead /\ [Next]_vars => HandlersRead'
  <2> SUFFICES ASSUME RWInv, OpsOK, HandlersRead, [Next]_vars PROVE HandlersRead'
    OBVIOUS
  <2>1. CASE Run
    BY <2>1, HandlerKeeps, LoRAKeeps, OperationKeeps DEF Run
  <2>2. CASE Poll
    <3>1. Ops \subseteq Coroutines
      BY ConfigsAssumption DEF OpsOK, Ops
    <3> QED
      BY <2>2, <3>1, OperationKeeps DEF Poll
  <2>3. CASE \E r \in Reqs : Disconnect(r)
    BY <2>3, HandlerKeeps
  <2>4. CASE UNCHANGED vars
    BY <2>4 DEF vars, HandlersRead, lockvars
  <2> QED
    BY <2>1, <2>2, <2>3, <2>4, OthersKeep DEF Next
<1>4. RWInv /\ HandlersRead => NoRequestWhileLocked
  <2> SUFFICES ASSUME RWInv, HandlersRead, NEW w \in In({"writing"}),
                      NEW r \in Reqs, pc[r] \in Inside
               PROVE  FALSE
    BY DEF NoRequestWhileLocked
  <2>1. r \in In({"reading", "writing"}) /\ w \in In({"reading", "writing"}) /\ r # w
    BY ReqsAssumption DEF HandlersRead, In
  <2> QED
    BY <2>1 DEF RWInv, RWExclusion
<1>5. UsesLock => RWSpec
  BY DEF UsesLock
<1> QED
  BY <1>1, <1>2, <1>3, <1>4, <1>5, ManagerUsesLock, RWLockInvariant, PTL DEF Spec
=============================================================================
