--------------------------- MODULE SchedulerProofs ---------------------------
(***************************************************************************)
(* The scheduler implements RequestFlow, and what is proved of the flow    *)
(* holds of the scheduler.                                                 *)
(***************************************************************************)
EXTENDS SchedulerSteps, RequestFlowProofs

-----------------------------------------------------------------------------
(* Merges and results.                                                     *)

LEMMA GetNextBatchToRunFlow ==
    ASSUME PlaceInv, GetNextBatchToRun, UNCHANGED <<conf, incoming>>
    PROVE  Merge
<1>1. /\ Loc = "begin" /\ Loc' = "policy"
      /\ running' = IF last.kind = "extend" THEN running \o Merged ELSE running
      /\ \/ req' = req
         \/ chunked # NoReq /\ req' = [req EXCEPT ![chunked] = CacheUnfinishedReq(kv, req[chunked]).q]
      /\ UNCHANGED <<conf, incoming, waiting, chunked, batch, last, queue, next, adder>>
  BY ZenonT(30) DEF GetNextBatchToRun, Loc, loop
<1>2. IF last.kind = "extend"
      THEN Lists(running', Running \cup (Live(Merging) \ {chunked, last.chunked}))
      ELSE running' = running
  <2>1. CASE last.kind = "extend"
    <3>1. /\ running \in Seq(Reqs) /\ IsInjective(running) /\ Merging \cap Running = {}
      BY <1>1, <2>1, ZenonT(30) DEF PlaceInv, PlaceTypes, Apart
    <3>2. /\ Merged \in Seq(Reqs) /\ IsInjective(Merged)
          /\ Range(Merged) = Live(Merging) \ {chunked, last.chunked}
      BY MergedFacts, ZenonT(30) DEF PlaceInv, Lists
    <3>3. Range(running) \cap Range(Merged) = {}
      BY <3>1, <3>2, ZenonT(30) DEF Running, Live
    <3>4. /\ running \o Merged \in Seq(Reqs) /\ IsInjective(running \o Merged)
          /\ Range(running \o Merged) = Range(running) \cup Range(Merged)
      BY <3>1, <3>2, <3>3, RangeCat
    <3> QED
      BY <1>1, <2>1, <3>2, <3>4, ZenonT(30) DEF Lists, Running
  <2> QED
    BY <1>1, <2>1, ZenonT(30)
<1>3. KeepsReqs({}) /\ KeepsFill({}) /\ KeepsChunks({})
  <2>1. CASE req' = req
    BY <2>1, UnchangedReqs, ZenonT(30) DEF PlaceInv
  <2>2. CASE chunked # NoReq /\ req' = [req EXCEPT ![chunked] = CacheUnfinishedReq(kv, req[chunked]).q]
    <3> DEFINE c == CacheUnfinishedReq(kv, req[chunked]).q
    <3>1. chunked \in Reqs /\ ReqTypes
      BY <2>2, ZenonT(30) DEF PlaceInv, PlaceTypes
    <3>2. Recached(req[chunked], c)
      BY <3>1, CacheUnfinishedFields, ZenonT(30) DEF ReqTypes
    <3>3. req' = [req EXCEPT ![chunked] = c]
      BY <2>2, ZenonT(30)
    <3> HIDE DEF c
    <3> QED
      BY <3>1, <3>2, <3>3, ZenonT(30) DEF ReqTypes, Recached, SameReq, KeepsReqs, KeepsFill, KeepsChunks
  <2> QED
    BY <1>1, <2>1, <2>2, ZenonT(30)
<1> QED
  BY <1>1, <1>2, <1>3, ZenonT(30) DEF Merge

LEMMA ProcessBatchResultFlow ==
    ASSUME PlaceInv, ProcessBatchResultPrefill \/ ProcessBatchResultDecode, UNCHANGED <<conf, incoming>>
    PROVE  ProcessNext
<1> DEFINE r == Result.reqs[next]
<1>1. /\ Loc = "process" /\ HasResult /\ next <= Len(Result.reqs) /\ next' = next + 1
      /\ UNCHANGED <<conf, incoming, waiting, running, chunked, batch, last, queue, adder, Loc>>
  BY ZenonT(30) DEF ProcessBatchResultPrefill, ProcessBatchResultDecode, NextOfResult, Loc, sched
<1>2. \/ Late(r) /\ req' = req
      \/ ~Late(r) /\ OfChunk(r) /\ req' = [req EXCEPT ![r].is_chunked = @ - 1]
      \/ ~Late(r) /\ ~OfChunk(r) /\ (FinishReq(r) \/ ContinueReq(r))
  BY ZenonT(30) DEF ProcessBatchResultPrefill, ProcessBatchResultDecode, NextOfResult, Skipped, IsChunkResult,
         Late, OfChunk
<1>3. r \in Reqs
  BY <1>1, ResultFacts, ZenonT(30)
<1>4. r = Result.reqs[next]
  BY ZenonT(30)
<1> HIDE DEF r
<1>5. ASSUME req' = [req EXCEPT ![r].is_chunked = @ - 1] PROVE ChunkDone(r)
  <2>1. DOMAIN req = Reqs /\ DOMAIN req[r] = ReqFields
    BY <1>3, ZenonT(30) DEF PlaceInv, ReqTypes
  <2> QED
    BY <1>3, <1>5, <2>1, ZenonT(30) DEF ChunkDone, ChangesOnly, ReqFields
<1>6. \/ Late(r) /\ req' = req
      \/ ~Late(r) /\ OfChunk(r) /\ ChunkDone(r)
      \/ ~Late(r) /\ ~OfChunk(r) /\ Output(r)
  BY <1>2, <1>3, <1>5, OutputFlow, ZenonT(30)
<1> QED
  BY <1>1, <1>4, <1>6, ZenonT(30) DEF ProcessNext

LEMMA EndIterationFlow ==
    ASSUME EndIteration, UNCHANGED <<conf, incoming>>
    PROVE  EndOfIteration
BY ZenonT(30) DEF EndIteration, EndOfIteration, Loc, sched

LEMMA InitFlow ==
    ASSUME Init
    PROVE  FlowInit
<1>1. /\ conf \in Configs /\ incoming = Load /\ waiting = {} /\ running = <<>> /\ chunked = NoReq
      /\ batch = NoBatch /\ last = NoBatch /\ queue = <<>> /\ next = 1 /\ adder = NoAdder /\ Loc = "begin"
  BY DEF Init, Loc
<1>2. /\ DOMAIN req = Reqs
      /\ \A r \in Reqs : \E o, p : /\ req[r] = NewReq(o, p)
                                   /\ o = <<>> \/ (r \in Load /\ o \in Prompts)
  <2>1. PICK o \in [Load -> Prompts], p \in [Load -> Priorities] :
          req = [r \in Reqs |-> IF r \in Load THEN NewReq(o[r], p[r]) ELSE NewReq(<<>>, 0)]
    BY DEF Init
  <2>2. ASSUME NEW r \in Reqs
        PROVE  \E a, b : req[r] = NewReq(a, b) /\ (a = <<>> \/ (r \in Load /\ a \in Prompts))
    <3>1. CASE r \in Load
      <4>1. req[r] = NewReq(o[r], p[r]) /\ o[r] \in Prompts
        BY <2>1, <3>1, ZenonT(30)
      <4> QED
        BY <3>1, <4>1, ZenonT(30)
    <3>2. CASE r \notin Load
      <4>1. req[r] = NewReq(<<>>, 0)
        BY <2>1, <3>2, ZenonT(30)
      <4> QED
        BY <4>1, ZenonT(30)
    <3> QED
      BY <3>1, <3>2, ZenonT(30)
  <2> QED
    BY <2>1, <2>2, ZenonT(30)
<1>3. ASSUME NEW r \in Reqs
      PROVE  /\ DOMAIN req[r] = ReqFields /\ req[r].output = <<>> /\ req[r].row = <<>>
             /\ req[r].origin = <<>> \/ (r \in Load /\ req[r].origin \in Prompts)
             /\ req[r].committed = 0 /\ req[r].is_chunked = 0
             /\ req[r].is_retracted = FALSE /\ req[r].finished = FALSE
  <2>1. PICK o, p : req[r] = NewReq(o, p) /\ (o = <<>> \/ (r \in Load /\ o \in Prompts))
    BY <1>2, ZenonT(30)
  <2> QED
    BY <2>1 DEF NewReq, ReqFields
<1> QED
  BY <1>1, <1>2, <1>3, ZenonT(30) DEF FlowInit

\* The other steps change no size.
LEMMA SameMem ==
    ASSUME PlaceInv, MemInv,
           \/ \E r \in Reqs : AddRequestToQueue(r) \/ AbortWaiting(r)
           \/ SkipPrefill \/ NoNewBatch \/ NewPrefillBatch
           \/ UpdateRunningBatch \/ CheckDecodeMem \/ PrepareForDecode \/ EndIteration
    PROVE  MemInv'
<1>1. \/ UNCHANGED <<kv, req>>
      \/ kv' = kv /\ \E r \in Reqs : req' = [req EXCEPT ![r].finished = TRUE]
      \/ kv' = kv /\ \E c \in Reqs : req' = [req EXCEPT ![c].is_chunked = @ + 1]
  <2>1. ASSUME NEW r \in Reqs, AddRequestToQueue(r) PROVE UNCHANGED <<kv, req>>
    BY <2>1, ZenonT(30) DEF AddRequestToQueue
  <2>2. ASSUME NEW r \in Reqs, AbortWaiting(r) PROVE kv' = kv /\ req' = [req EXCEPT ![r].finished = TRUE]
    BY <2>2, ZenonT(30) DEF AbortWaiting
  <2>3. ASSUME NewPrefillBatch
        PROVE  \/ UNCHANGED <<kv, req>>
               \/ kv' = kv /\ \E c \in Reqs : req' = [req EXCEPT ![c].is_chunked = @ + 1]
    <3>1. Admitting
      BY <2>3, ZenonT(30) DEF NewPrefillBatch, LoopEnds, Admitting, Loc
    <3>2. {adder.new_chunked, chunked} \ {NoReq} \subseteq Reqs
      BY <3>1, RangeFacts DEF PlaceInv, PlaceTypes, ChunkedPlace, Admitted
    <3> QED
      BY <2>3, <3>2, ZenonT(30) DEF NewPrefillBatch
  <2>4. ASSUME \/ SkipPrefill \/ NoNewBatch \/ UpdateRunningBatch \/ CheckDecodeMem \/ PrepareForDecode
               \/ EndIteration
        PROVE  UNCHANGED <<kv, req>>
    BY <2>4, ZenonT(30) DEF SkipPrefill, NoNewBatch, UpdateRunningBatch, CheckDecodeMem, PrepareForDecode,
                            EndIteration
  <2> QED
    BY <2>1, <2>2, <2>3, <2>4, ZenonT(30)
<1>2. IsKV(kv) /\ \A r \in Reqs : DOMAIN req[r] = ReqFields /\ Measured(req[r])
  BY ZenonT(30) DEF MemInv, PlaceInv, ReqTypes
<1>3. CASE UNCHANGED <<kv, req>>
  BY <1>3, ZenonT(30) DEF MemInv, Measured
<1>4. ASSUME NEW r \in Reqs, kv' = kv, req' = [req EXCEPT ![r].finished = TRUE] PROVE MemInv'
  <2>1. Measured([req[r] EXCEPT !.finished = TRUE])
    BY <1>2, ZenonT(30) DEF Measured, ReqFields
  <2>2. req' = [req EXCEPT ![r] = [req[r] EXCEPT !.finished = TRUE]] /\ IsKV(kv')
    BY <1>2, <1>4, ZenonT(30)
  <2> QED
    BY <2>1, <2>2, OneMeasured, ZenonT(30)
<1>5. ASSUME NEW c \in Reqs, kv' = kv, req' = [req EXCEPT ![c].is_chunked = @ + 1] PROVE MemInv'
  <2>1. Measured([req[c] EXCEPT !.is_chunked = @ + 1])
    BY <1>2, ZenonT(30) DEF Measured, ReqFields
  <2>2. req' = [req EXCEPT ![c] = [req[c] EXCEPT !.is_chunked = @ + 1]] /\ IsKV(kv')
    BY <1>2, <1>5, ZenonT(30)
  <2> QED
    BY <2>1, <2>2, OneMeasured, ZenonT(30)
<1> QED
  BY <1>1, <1>3, <1>4, <1>5, ZenonT(30)

LEMMA ProcessBatchResultMem ==
    ASSUME PlaceInv, PlaceInv', Origins, MemInv, ProcessBatchResultPrefill \/ ProcessBatchResultDecode,
           UNCHANGED conf
    PROVE  MemInv'
<1>1. PICK r : r = Result.reqs[next]
  BY ZenonT(30)
<1>2. HasResult /\ next <= Len(Result.reqs)
  BY ZenonT(30) DEF ProcessBatchResultPrefill, ProcessBatchResultDecode, NextOfResult
<1>3. r \in Reqs
  <2>1. Loc = "process"
    BY ZenonT(30) DEF ProcessBatchResultPrefill, ProcessBatchResultDecode, NextOfResult, Loc
  <2> QED
    BY <1>1, <1>2, <2>1, ResultFacts, ZenonT(30)
<1>4. \/ UNCHANGED <<kv, req>>
      \/ req' = [req EXCEPT ![r].is_chunked = @ - 1] /\ UNCHANGED kv
      \/ FinishReq(r) \/ ContinueReq(r)
  BY <1>1, ZenonT(30) DEF ProcessBatchResultPrefill, ProcessBatchResultDecode
<1>5. IsKV(kv) /\ DOMAIN req[r] = ReqFields /\ Measured(req[r])
  BY <1>3, ZenonT(30) DEF MemInv, PlaceInv, ReqTypes
<1>6. CASE UNCHANGED <<kv, req>>
  BY <1>6, ZenonT(30) DEF MemInv, Measured
<1>7. CASE req' = [req EXCEPT ![r].is_chunked = @ - 1] /\ UNCHANGED kv
  <2>1. Measured([req[r] EXCEPT !.is_chunked = @ - 1])
    BY <1>5, ZenonT(30) DEF Measured, ReqFields
  <2>2. req' = [req EXCEPT ![r] = [req[r] EXCEPT !.is_chunked = @ - 1]] /\ IsKV(kv')
    BY <1>5, <1>7, ZenonT(30)
  <2> QED
    BY <1>3, <2>1, <2>2, OneMeasured, ZenonT(30)
<1> QED
  BY <1>3, <1>4, <1>6, <1>7, ResultMem, ZenonT(30)

\* An eviction keeps the budget: without preemption there is none to keep.
LEMMA EvictTreeCacheMem ==
    ASSUME PlaceInv, MemInv, BudgetInv, EvictTreeCache, UNCHANGED <<conf, incoming>>
    PROVE  MemInv' /\ BudgetInv'
<1>1. pc = "evict" /\ kv' \in EvictFromTreeCache(kv, evict.need) /\ UNCHANGED <<req, chunked, adder>>
  BY ZenonT(30) DEF EvictTreeCache, sched
<1>2. IsKV(kv')
  BY <1>1, EvictKVFacts, ZenonT(30) DEF MemInv
<1>3. MemInv'
  BY <1>1, <1>2, ZenonT(30) DEF MemInv, Measured
<1>4. Loc' = Loc
  BY EvictTreeCacheFlow, ZenonT(30) DEF flow
<1>5. Admitting' = Admitting /\ Preemption' = Preemption
  BY <1>4, ZenonT(30) DEF Admitting, Preemption
<1>6. Admitting => Preemption
  BY <1>1, ZenonT(30) DEF BudgetInv
<1>7. BudgetInv'
  BY <1>1, <1>5, <1>6, ZenonT(30) DEF BudgetInv
<1> QED
  BY <1>3, <1>7, ZenonT(30)

\* At the start nothing is stored.
LEMMA InitMem ==
    ASSUME Init
    PROVE  MemInv /\ BudgetInv
<1>1. IsKV(kv)
  BY EmptyKVFacts, ZenonT(30) DEF Init
<1>2. PICK o \in [Load -> Prompts], p \in [Load -> Priorities] :
        req = [r \in Reqs |-> IF r \in Load THEN NewReq(o[r], p[r]) ELSE NewReq(<<>>, 0)]
  BY DEF Init
<1>3. ASSUME NEW r \in Reqs PROVE Measured(req[r])
  <2>1. req[r] = NewReq(o[r], p[r]) \/ req[r] = NewReq(<<>>, 0)
    BY <1>2, ZenonT(30)
  <2> QED
    BY <2>1 DEF Measured, NewReq
<1>4. PlaceInv
  BY InitFlow, FlowInitPlaces, ZenonT(30)
<1>5. ~Admitting
  BY ZenonT(30) DEF Init, Admitting, Loc
<1> QED
  BY <1>1, <1>3, <1>4, <1>5, NoBudget, ZenonT(30) DEF MemInv

-----------------------------------------------------------------------------
(* The refinement, and what follows from it.                               *)

\* The inductive invariant: where a request may be, and what the budget is.
SchedInv == PlaceInv /\ Origins /\ MemInv /\ BudgetInv

\* Every step of the scheduler is a step of the flow or leaves it alone.
LEMMA StepFlow ==
    ASSUME SchedInv, [Next]_vars
    PROVE  [FlowNext]_flow
<1> PlaceInv /\ Origins /\ MemInv /\ BudgetInv
  BY ZenonT(30) DEF SchedInv
<1>1. ASSUME NEW r \in Reqs, AddRequestToQueue(r), UNCHANGED conf PROVE FlowNext
  BY <1>1, AddRequestToQueueFlow, ZenonT(30) DEF FlowNext
<1>2. ASSUME LoopStep, UNCHANGED <<conf, incoming>> PROVE [FlowNext]_flow
  <2>1. CASE GetNextBatchToRun
    BY <1>2, <2>1, GetNextBatchToRunFlow, ZenonT(30) DEF FlowNext
  <2>2. CASE SkipPrefill \/ CheckDecodeMem \/ PrepareForDecode
    BY <1>2, <2>2, QuietStepFlow, ZenonT(30) DEF FlowNext
  <2>3. CASE StartPrefill
    BY <1>2, <2>3, StartPrefillFlow, ZenonT(30) DEF FlowNext
  <2>4. CASE NoNewBatch
    BY <1>2, <2>4, NoNewBatchFlow, ZenonT(30) DEF FlowNext
  <2>5. CASE NewPrefillBatch
    BY <1>2, <2>5, NewPrefillBatchFlow, ZenonT(30) DEF FlowNext
  <2>6. CASE PreemptOne
    BY <1>2, <2>6, PreemptOneFlow, ZenonT(30) DEF FlowNext
  <2>7. ASSUME NEW r \in Reqs, AbortWaiting(r) PROVE FlowNext
    BY <1>2, <2>7, AbortWaitingFlow, ZenonT(30) DEF FlowNext
  <2>8. ASSUME NEW r \in Reqs, AddOneReq(r) PROVE FlowNext
    BY <1>2, <2>8, AddOneReqFlow, ZenonT(30) DEF FlowNext
  <2>9. ASSUME NEW r \in Reqs, RejectOneReq(r) PROVE FlowNext
    BY <1>2, <2>9, RejectOneReqFlow, ZenonT(30) DEF FlowNext
  <2>10. ASSUME NEW r \in Reqs, PreemptToSchedule(r) PROVE FlowNext
    BY <1>2, <2>10, PreemptToScheduleFlow, ZenonT(30) DEF FlowNext
  <2>11. CASE EvictTreeCache
    BY <1>2, <2>11, EvictTreeCacheFlow, ZenonT(30)
  <2>12. CASE AllocForExtend
    BY <1>2, <2>12, AllocForExtendFlow, ZenonT(30) DEF FlowNext
  <2>13. CASE UpdateRunningBatch
    BY <1>2, <2>13, UpdateRunningBatchFlow, ZenonT(30) DEF FlowNext
  <2>14. CASE RetractOne
    BY <1>2, <2>14, RetractOneFlow, ZenonT(30) DEF FlowNext
  <2>15. CASE AbortLast
    BY <1>2, <2>15, AbortLastFlow, ZenonT(30) DEF FlowNext
  <2>16. CASE AllocForDecode
    BY <1>2, <2>16, AllocForDecodeFlow, ZenonT(30) DEF FlowNext
  <2>17. CASE ProcessBatchResultPrefill \/ ProcessBatchResultDecode
    BY <1>2, <2>17, ProcessBatchResultFlow, ZenonT(30) DEF FlowNext
  <2>18. CASE EndIteration
    BY <1>2, <2>18, EndIterationFlow, ZenonT(30) DEF FlowNext
  <2> QED
    BY <1>2, <2>1, <2>2, <2>3, <2>4, <2>5, <2>6, <2>7, <2>8, <2>9, <2>10, <2>11, <2>12, <2>13, <2>14,
       <2>15, <2>16, <2>17, <2>18, ZenonT(30) DEF LoopStep
<1>3. CASE UNCHANGED vars
  BY <1>3, ZenonT(30) DEF vars, sched, loop, flow, Loc
<1> QED
  BY <1>1, <1>2, <1>3, ZenonT(30) DEF Next

\* The places of the requests stay as they are when the memory and the budget change.
LEMMA StepPlaces ==
    ASSUME SchedInv, [Next]_vars
    PROVE  PlaceInv' /\ Origins'
<1>1. [FlowNext]_flow
  BY StepFlow, ZenonT(30)
<1> QED
  BY <1>1, FlowStep, OriginsStep, ZenonT(30) DEF SchedInv

\* The sizes stay numbers.
LEMMA StepMem ==
    ASSUME SchedInv, PlaceInv', Next
    PROVE  MemInv'
<1> PlaceInv /\ Origins /\ MemInv /\ BudgetInv
  BY ZenonT(30) DEF SchedInv
<1>1. ASSUME NEW r \in Reqs, AddRequestToQueue(r) PROVE MemInv'
  BY <1>1, SameMem, ZenonT(30)
<1>2. ASSUME LoopStep, UNCHANGED <<conf, incoming>> PROVE MemInv'
  <2>1. CASE GetNextBatchToRun
    BY <2>1, GetNextBatchToRunMem, ZenonT(30)
  <2>2. CASE \/ SkipPrefill \/ NoNewBatch \/ NewPrefillBatch
             \/ UpdateRunningBatch \/ CheckDecodeMem \/ PrepareForDecode \/ EndIteration
    BY <2>2, SameMem, ZenonT(30)
  <2>3. CASE StartPrefill
    BY <1>2, <2>3, StartPrefillFlow, ZenonT(30)
  <2>4. CASE PreemptOne
    BY <1>2, <2>4, PreemptOneMem, ZenonT(30)
  <2>5. ASSUME NEW r \in Reqs, AbortWaiting(r) PROVE MemInv'
    BY <2>5, SameMem, ZenonT(30)
  <2>6. ASSUME NEW r \in Reqs, AddOneReq(r) PROVE MemInv'
    BY <1>2, <2>6, AddOneReqFlow, ZenonT(30)
  <2>7. ASSUME NEW r \in Reqs, RejectOneReq(r) PROVE MemInv'
    BY <1>2, <2>7, RejectOneReqMem, ZenonT(30)
  <2>8. ASSUME NEW r \in Reqs, PreemptToSchedule(r) PROVE MemInv'
    BY <1>2, <2>8, PreemptToScheduleMem, ZenonT(30)
  <2>9. CASE EvictTreeCache
    BY <1>2, <2>9, EvictTreeCacheMem, ZenonT(30)
  <2>10. CASE AllocForExtend \/ AllocForDecode
    BY <2>10, AllocMem, ZenonT(30)
  <2>11. CASE RetractOne \/ AbortLast
    BY <2>11, RetractMem, ZenonT(30)
  <2>12. CASE ProcessBatchResultPrefill \/ ProcessBatchResultDecode
    BY <1>2, <2>12, ProcessBatchResultMem, ZenonT(30)
  <2> QED
    BY <1>2, <2>1, <2>2, <2>3, <2>4, <2>5, <2>6, <2>7, <2>8, <2>9, <2>10, <2>11, <2>12, ZenonT(30) DEF LoopStep
<1> QED
  BY <1>1, <1>2, ZenonT(30) DEF Next

\* The budget stays spent until the batch is built.
LEMMA StepBudget ==
    ASSUME SchedInv, PlaceInv', Next
    PROVE  BudgetInv'
<1> PlaceInv /\ Origins /\ MemInv /\ BudgetInv
  BY ZenonT(30) DEF SchedInv
<1>1. ASSUME ~Admitting' PROVE BudgetInv'
  <2>1. adder' = NoAdder
    BY <1>1, ZenonT(30) DEF PlaceInv, Places
  <2>2. adder'.chunk = 0 /\ adder'.offset = 0 /\ adder'.new_chunked = NoReq
    BY <2>1, ZenonT(30) DEF NoAdder
  <2> QED
    BY <1>1, <2>2 DEF BudgetInv
<1>2. ASSUME NEW r \in Reqs, AddRequestToQueue(r) PROVE ~Admitting'
  BY <1>2, ZenonT(30) DEF AddRequestToQueue, Admitting, Loc
<1>3. ASSUME LoopStep, UNCHANGED <<conf, incoming>> PROVE BudgetInv'
  <2>1. CASE StartPrefill
    BY <1>3, <2>1, StartPrefillFlow, ZenonT(30)
  <2>2. CASE PreemptOne
    BY <1>3, <2>2, PreemptOneMem, ZenonT(30)
  <2>3. ASSUME NEW r \in Reqs, AddOneReq(r) PROVE BudgetInv'
    BY <1>3, <2>3, AddOneReqFlow, ZenonT(30)
  <2>4. ASSUME NEW r \in Reqs, RejectOneReq(r) PROVE BudgetInv'
    BY <1>3, <2>4, RejectOneReqMem, ZenonT(30)
  <2>5. ASSUME NEW r \in Reqs, PreemptToSchedule(r) PROVE BudgetInv'
    BY <1>3, <2>5, PreemptToScheduleMem, ZenonT(30)
  <2>6. CASE EvictTreeCache
    BY <1>3, <2>6, EvictTreeCacheMem, ZenonT(30)
  <2>7. CASE GetNextBatchToRun \/ SkipPrefill \/ NoNewBatch \/ UpdateRunningBatch \/ AbortLast \/ EndIteration
    <3>1. pc' \in {"policy", "decode", "process", "check", "begin"}
      BY <2>7, ZenonT(30) DEF GetNextBatchToRun, SkipPrefill, NoNewBatch, UpdateRunningBatch, AbortLast,
                              EndIteration
    <3> QED
      BY <1>1, <3>1, ZenonT(30) DEF Admitting, Loc
  <2>8. CASE NewPrefillBatch \/ CheckDecodeMem \/ PrepareForDecode \/ RetractOne
    <3>1. pc' = "evict" /\ \E n : \E l \in {"extend", "checked", "decode_alloc", "check"} :
                                evict' = [need |-> n, then |-> l]
      BY <2>8, ZenonT(30) DEF NewPrefillBatch, CheckDecodeMem, PrepareForDecode, RetractOne, CallEvict
    <3> QED
      BY <1>1, <3>1 DEF Admitting, Loc
  <2>9. CASE AllocForExtend \/ AllocForDecode
    <3>1. \/ pc' = "evict" /\ \E n : evict' = [need |-> n, then |-> "decode_alloc"]
          \/ pc' = "process"
      <4>1. CASE AllocForExtend
        BY <4>1, ZenonT(30) DEF AllocForExtend, MixWithRunning, Launch, CallEvict
      <4>2. CASE AllocForDecode
        BY <4>2, ZenonT(30) DEF AllocForDecode, Launch
      <4> QED
        BY <2>9, <4>1, <4>2, ZenonT(30)
    <3> QED
      BY <1>1, <3>1 DEF Admitting, Loc
  <2>10. CASE ProcessBatchResultPrefill \/ ProcessBatchResultDecode
    BY <1>1, <2>10, ZenonT(30) DEF ProcessBatchResultPrefill, ProcessBatchResultDecode, NextOfResult, Admitting, Loc
  <2>11. ASSUME NEW r \in Reqs, AbortWaiting(r) PROVE BudgetInv'
    BY <1>1, <2>11, ZenonT(30) DEF AbortWaiting, Admitting, Loc
  <2> QED
    BY <1>3, <2>1, <2>2, <2>3, <2>4, <2>5, <2>6, <2>7, <2>8, <2>9, <2>10, <2>11, ZenonT(30) DEF LoopStep
<1> QED
  BY <1>1, <1>2, <1>3, ZenonT(30) DEF Next

\* The inductive invariant of the scheduler: the places of requests, with the
\* budget that keeps admission to one chunked request.
THEOREM SchedulerInvariant == Spec => []SchedInv
<1>1. Init => SchedInv
  BY InitFlow, FlowInitPlaces, FlowInitOrder, InitMem, ZenonT(30) DEF SchedInv
<1>2. SchedInv /\ [Next]_vars => SchedInv'
  <2> SUFFICES ASSUME SchedInv, [Next]_vars PROVE SchedInv'
    BY ZenonT(30)
  <2>1. PlaceInv' /\ Origins'
    BY StepPlaces, ZenonT(30)
  <2>2. CASE Next
    BY <2>1, <2>2, StepMem, StepBudget, ZenonT(30) DEF SchedInv
  <2>3. CASE UNCHANGED vars
    <3>1. UNCHANGED <<conf, kv, req, chunked, adder, pc, evict>>
      BY <2>3, ZenonT(30) DEF vars, sched
    <3>2. Loc' = Loc /\ Preemption' = Preemption
      BY <3>1, ZenonT(30) DEF Loc, Preemption
    <3>3. MemInv'
      BY <3>1, ZenonT(30) DEF SchedInv, MemInv, Measured
    <3>4. BudgetInv'
      BY <3>1, <3>2, ZenonT(30) DEF SchedInv, BudgetInv, Admitting, RemTotalTokens, AvailableSize
    <3> QED
      BY <2>1, <3>3, <3>4, ZenonT(30) DEF SchedInv
  <2> QED
    BY <2>2, <2>3, ZenonT(30)
<1> QED
  BY <1>1, <1>2, PTL DEF Spec

\* Where a request may be, in every reachable state of the event loop: the
\* inductive invariant of the flow holds of the scheduler.
THEOREM PlacesInvariant == Spec => []PlaceInv
<1>1. SchedInv => PlaceInv
  BY ZenonT(30) DEF SchedInv
<1> QED
  BY <1>1, SchedulerInvariant, PTL

\* The event loop (event_loop_normal and event_loop_overlap, with admission,
\* retraction, preemption and the processing of results) implements the flow of
\* requests: whatever the pool, the budgets and the priorities are, requests
\* move only as RequestFlow lets them.
THEOREM SchedulerImplementsFlow == Spec => FlowSpec
<1>1. Init => FlowInit
  BY InitFlow, ZenonT(30)
<1>2. SchedInv /\ [Next]_vars => [FlowNext]_flow
  BY StepFlow, ZenonT(30)
<1> QED
  BY <1>1, <1>2, SchedulerInvariant, PTL DEF Spec, FlowSpec

\* A request decodes in one batch and is queued for none; a queued request is
\* neither finished nor holding memory (waiting_queue, running_batch, chunked_req).
THEOREM RequestsInOnePlace == Spec => []OnePlace
<1>1. PlaceInv => OnePlace
  <2> SUFFICES ASSUME PlaceInv PROVE OnePlace
    BY ZenonT(30)
  <2>1. running \in Seq(Reqs) /\ IsInjective(running) /\ Running \cap waiting = {}
        /\ chunked \notin Running /\ chunked \notin waiting
    BY ZenonT(30) DEF PlaceInv, PlaceTypes, Apart
  <2>2. Cardinality(Range(running)) = Len(running)
    BY <2>1, InjectiveCardinality, ZenonT(30)
  <2>3. pc = "policy" => Admitted = {}
    BY NoAdderFacts, ZenonT(30) DEF PlaceInv, Admitting, Loc
  <2> QED
    BY <2>1, <2>2, <2>3, ZenonT(30) DEF OnePlace, PlaceInv, Queued, Running
<1> QED
  BY <1>1, PlacesInvariant, PTL

\* What a request has generated is never taken back, and a finished request is
\* never started again (reset_for_retract, process_batch_result with overlap).
THEOREM OutputsAreFinal == Spec => OutputFinal
<1>1. SchedInv /\ [Next]_vars =>
        [\A r \in Reqs : /\ IsPrefix(req[r].output, req'[r].output)
                         /\ Finished(r) => req'[r].finished /\ req'[r].output = req[r].output]_vars
  BY StepFlow, FlowStep, ZenonT(30) DEF OutputGrows, SchedInv
<1> QED
  BY <1>1, SchedulerInvariant, PTL DEF Spec, OutputFinal

\* Without priority preemption no request is dropped: until it is finished it
\* is queued, running, or in a prefill batch.
THEOREM NoRequestDropped == Spec => [](~Preemption => NoRequestLost)
<1>1. PlaceInv => (~Preemption => NoRequestLost)
  <2> SUFFICES ASSUME PlaceInv, ~Preemption PROVE NoRequestLost
    BY ZenonT(30)
  <2> QED
    BY ZenonT(30) DEF NoRequestLost, PlaceInv, Kept, InBatch, Running, Admitted, Batched, Merging
<1> QED
  BY <1>1, PlacesInvariant, PTL

\* Chunks and results of the event loop keep the order of the flow.
THEOREM SchedulerOrder == Spec => []OrderInv
<1>1. OrderInv /\ Origins => OrderInv
  BY ZenonT(30)
<1> QED
  BY <1>1, SchedulerImplementsFlow, FlowOrder, PTL

\* Without priority preemption one request is chunked at a time, and no other is
\* admitted with a part of its tokens (add_one_req, add_chunked_req).
THEOREM OneRequestChunked == Spec => [](~Preemption => OneChunkedReq)
<1>1. PlaceInv /\ Origins /\ OrderInv => (~Preemption => OneChunkedReq)
  <2> SUFFICES ASSUME PlaceInv, Origins, OrderInv, ~Preemption PROVE OneChunkedReq
    BY ZenonT(30)
  <2>1. adder.new_chunked # NoReq => chunked = NoReq
    BY ZenonT(30) DEF OrderInv, Filled
  <2>2. ASSUME NEW r \in Range(adder.can_run), r \notin {chunked, adder.new_chunked}
        PROVE  ~(req[r].fill < Len(TokenIds(req[r])))
    <3>1. r \in Reqs
      BY RangeFacts, ZenonT(30) DEF PlaceInv, PlaceTypes
    <3>2. Len(TokenIds(req[r])) = NumTokens(r) /\ NumTokens(r) \in Nat
      BY <3>1, NumTokensFacts, ZenonT(30)
    <3>3. req[r].fill = NumTokens(r)
      BY <2>2, ZenonT(30) DEF OrderInv, Filled, Admitted
    <3> QED
      BY <3>2, <3>3
  <2> QED
    BY <2>1, <2>2, ZenonT(30) DEF OneChunkedReq
<1>2. SchedInv => PlaceInv /\ Origins
  BY ZenonT(30) DEF SchedInv
<1> QED
  BY <1>1, <1>2, SchedulerInvariant, SchedulerOrder, PTL

\* Without priority preemption every token that is appended to an output was
\* sampled after exactly the tokens the request has, whatever is retracted,
\* aborted or finished while its batch is in flight (event_loop_overlap).
THEOREM OutputsInOrder == Spec /\ ~Preemption => OutputInOrder
<1> DEFINE A == \A r \in Reqs : req'[r].output # req[r].output => Result.upto[r] = Len(TokenIds(req[r]))
<1>1. SchedInv /\ OrderInv /\ ~Preemption /\ [Next]_vars => A \/ UNCHANGED vars
  <2> SUFFICES ASSUME SchedInv, OrderInv, ~Preemption, [Next]_vars PROVE A
    BY ZenonT(30)
  <2>1. SampledInOrder
    BY StepFlow, OrderStep, ZenonT(30) DEF SchedInv
  <2>2. \A r \in Reqs : Len(TokenIds(req[r])) = NumTokens(r)
    BY NumTokensFacts, ZenonT(30) DEF SchedInv
  <2> QED
    BY <2>1, <2>2, ZenonT(30) DEF SampledInOrder
<1>2. ~Preemption /\ [Next]_vars => ~Preemption'
  <2> SUFFICES ASSUME ~Preemption, [Next]_vars PROVE ~Preemption'
    BY ZenonT(30)
  <2>1. conf' = conf
    BY ZenonT(30) DEF Next, vars
  <2> QED
    BY <2>1, ZenonT(30) DEF Preemption
<1> HIDE DEF A
<1>3. Spec /\ ~Preemption => [][A]_vars
  BY <1>1, <1>2, SchedulerInvariant, SchedulerOrder, PTL DEF Spec
<1> QED
  BY <1>3, ZenonT(30) DEF OutputInOrder, A

=============================================================================
