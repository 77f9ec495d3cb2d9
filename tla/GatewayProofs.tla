---------------------------- MODULE GatewayProofs ----------------------------
(***************************************************************************)
(* The circuit breaker for any number of threads and any thresholds: the   *)
(* unlocked methods never settle in a state that their counters contradict.*)
(* The gateway uses its breaker only through the methods, so this holds of *)
(* a worker's circuit under any load; and the rate limiter is paid.        *)
(***************************************************************************)
EXTENDS Gateway, FiniteSetTheorems, TLAPS

-----------------------------------------------------------------------------
(* The circuit breaker.                                                    *)

USE ThresholdsAssumption DEF States, Places

\* A thread that gets on is the only one that does.
LEMMA MoveTypes ==
    ASSUME CBTypes, NEW t \in Threads, NEW from, NEW to \in Places, Move(t, from, to)
    PROVE  /\ at' \in [Threads -> Places] /\ at[t] = from /\ at'[t] = to
           /\ \A u \in Threads : u # t => at'[u] = at[u]
BY DEF CBTypes, Move

\* A new breaker is closed with no failures.
LEMMA CBInitInv == CBInit => CBInv
<1> SUFFICES ASSUME CBInit PROVE CBInv
  OBVIOUS
<1>1. at \in [Threads -> Places] /\ local \in [Threads -> Nat] /\ seen \in [Threads -> States]
  BY DEF CBInit
<1>2. timed_out \in BOOLEAN
  BY Zenon DEF CBInit
<1>3. CBTypes
  BY <1>1, <1>2 DEF CBInit, CBTypes
<1>4. ClosedInv /\ HalfOpenInv
  BY DEF CBInit, ClosedInv, HalfOpenInv
<1> QED
  BY <1>3, <1>4 DEF CBInv

\* Entering a method changes nothing that others see.
LEMMA CallInv ==
    ASSUME CBInv, NEW t \in Threads, NEW method \in {"check", "s_reset", "f_reset"},
           Call(t, method)
    PROVE  CBInv'
<1>1. /\ at' \in [Threads -> Places] /\ at[t] = "idle"
      /\ \A u \in Threads : u # t => at'[u] = at[u]
  BY MoveTypes DEF CBInv, Call
<1> QED
  BY <1>1 DEF CBInv, CBTypes, ClosedInv, HalfOpenInv, Call, counts

\* A store of 0 in consecutive_failures satisfies ClosedInv by itself.
LEMMA StoreFailuresInv ==
    ASSUME CBInv, NEW t \in Threads, NEW from, NEW to \in Places,
           StoreFailures(t, from, to),
           from \notin {"close", "s_load"}, from = "half_cf" => to = "half_cs",
           from \notin {"half_stamp", "half_cs"}
    PROVE  CBInv'
<1>1. /\ at' \in [Threads -> Places] /\ at[t] = from /\ at'[t] = to
      /\ \A u \in Threads : u # t => at'[u] = at[u]
  BY MoveTypes DEF CBInv, StoreFailures
<1>2. CBTypes' /\ ClosedInv'
  BY <1>1 DEF CBInv, CBTypes, ClosedInv, StoreFailures
<1>3. HalfOpenInv'
  BY <1>1 DEF CBInv, CBTypes, HalfOpenInv, StoreFailures
<1> QED
  BY <1>2, <1>3 DEF CBInv

\* A store of 0 in consecutive_successes satisfies HalfOpenInv by itself.
LEMMA StoreSuccessesInv ==
    ASSUME CBInv, NEW t \in Threads, NEW from, NEW to \in Places,
           StoreSuccesses(t, from, to),
           from \notin {"open", "closed_stamp", "closed_cf", "f_load"}
    PROVE  CBInv'
<1>1. /\ at' \in [Threads -> Places] /\ at[t] = from /\ at'[t] = to
      /\ \A u \in Threads : u # t => at'[u] = at[u]
  BY MoveTypes DEF CBInv, StoreSuccesses
<1>2. CBTypes' /\ HalfOpenInv'
  BY <1>1 DEF CBInv, CBTypes, HalfOpenInv, StoreSuccesses
<1>3. ClosedInv'
  BY <1>1 DEF CBInv, CBTypes, ClosedInv, StoreSuccesses
<1> QED
  BY <1>2, <1>3 DEF CBInv

\* A store of the time leaves the resets that follow it to do.
LEMMA StoreTimeInv ==
    ASSUME CBInv, NEW t \in Threads, NEW from, NEW to,
           StoreTime(t, from, to),
           <<from, to>> \in {<<"half_stamp", "half_cf">>, <<"closed_stamp", "closed_cf">>,
                             <<"open_stamp", "open_cs">>}
    PROVE  CBInv'
<1>1. /\ at' \in [Threads -> Places] /\ at[t] = from /\ at'[t] = to
      /\ \A u \in Threads : u # t => at'[u] = at[u]
  BY MoveTypes DEF CBInv, StoreTime
<1> QED
  BY <1>1 DEF CBInv, CBTypes, ClosedInv, HalfOpenInv, StoreTime, counts

\* state(): only the compare-and-swap enters half-open, and its thread resets after it.
LEMMA StateInv ==
    ASSUME CBInv, NEW t \in Threads,
           LoadState(t) \/ LoadTime(t) \/ CompareExchange(t) \/ Reread(t) \/ EnterHalfOpen(t)
    PROVE  CBInv'
<1>1. CASE LoadState(t) \/ LoadTime(t) \/ Reread(t)
  <2>1. /\ at' \in [Threads -> Places] /\ at[t] \in {"check", "elapsed", "reread"}
        /\ \A u \in Threads : u # t => at'[u] = at[u]
        /\ seen' \in [Threads -> States] /\ UNCHANGED <<state, counts, timed_out, local>>
    BY <1>1 DEF LoadState, LoadTime, Reread, Return, Move, CBInv, CBTypes
  <2> QED
    BY <2>1 DEF CBInv, CBTypes, ClosedInv, HalfOpenInv, counts
<1>2. CASE CompareExchange(t)
  <2>1. /\ at' \in [Threads -> Places] /\ at[t] = "cas"
        /\ \A u \in Threads : u # t => at'[u] = at[u]
        /\ \/ state' = "half_open" /\ at'[t] = "half_stamp"
           \/ state' = state
        /\ UNCHANGED <<counts, timed_out, local, seen>>
    BY <1>2 DEF CompareExchange, Move, CBInv, CBTypes
  <2> QED
    BY <2>1 DEF CBInv, CBTypes, ClosedInv, HalfOpenInv, counts
<1>3. CASE EnterHalfOpen(t)
  <2>1. CASE StoreTime(t, "half_stamp", "half_cf")
    BY <2>1, StoreTimeInv
  <2>2. CASE StoreFailures(t, "half_cf", "half_cs")
    BY <2>2, StoreFailuresInv
  <2>3. CASE Return(t, "half_cs", "half_open") /\ consecutive_successes' = 0
             /\ UNCHANGED <<state, consecutive_failures, timed_out, local>>
    BY <2>3 DEF Return, Move, CBInv, CBTypes, ClosedInv, HalfOpenInv
  <2> QED
    BY <1>3, <2>1, <2>2, <2>3 DEF EnterHalfOpen
<1> QED
  BY <1>1, <1>2, <1>3

\* record_success: the thread that reaches the threshold sees it.
LEMMA RecordSuccessInv ==
    ASSUME CBInv, NEW t \in Threads, RecordSuccess(t)
    PROVE  CBInv'
<1>1. CASE StoreFailures(t, "s_reset", "s_add")
  BY <1>1, StoreFailuresInv
<1>2. CASE AddSuccess(t)
  <2>1. /\ at' \in [Threads -> Places] /\ at[t] = "s_add" /\ at'[t] = "s_load"
        /\ \A u \in Threads : u # t => at'[u] = at[u]
    BY <1>2, MoveTypes DEF CBInv, AddSuccess
  <2>2. /\ consecutive_successes' = consecutive_successes + 1
        /\ local'[t] = consecutive_successes' /\ local' \in [Threads -> Nat]
        /\ \A u \in Threads : u # t => local'[u] = local[u]
        /\ UNCHANGED <<state, consecutive_failures, timed_out, seen>>
    BY <1>2 DEF CBInv, CBTypes, AddSuccess
  <2> QED
    BY <2>1, <2>2 DEF CBInv, CBTypes, ClosedInv, HalfOpenInv
<1>3. CASE JudgeSuccess(t)
  <2>1. /\ at' \in [Threads -> Places] /\ at[t] = "s_load"
        /\ at'[t] = IF MayClose(t) THEN "close" ELSE "idle"
        /\ \A u \in Threads : u # t => at'[u] = at[u]
    BY <1>3 DEF CBInv, CBTypes, JudgeSuccess, Move
  <2>2. /\ local' \in [Threads -> Nat] /\ \A u \in Threads : u # t => local'[u] = local[u]
        /\ UNCHANGED <<state, counts, timed_out, seen>>
    BY <1>3 DEF CBInv, CBTypes, JudgeSuccess
  <2>3. CBTypes' /\ ClosedInv'
    BY <2>1, <2>2 DEF CBInv, CBTypes, ClosedInv, counts
  <2>4. HalfOpenInv'
    BY <2>1, <2>2 DEF CBInv, CBTypes, HalfOpenInv, MayClose, counts
  <2> QED
    BY <2>3, <2>4 DEF CBInv
<1> QED
  BY <1>1, <1>2, <1>3 DEF RecordSuccess

\* record_failure: the thread that reaches the threshold sees it.
LEMMA RecordFailureInv ==
    ASSUME CBInv, NEW t \in Threads, RecordFailure(t)
    PROVE  CBInv'
<1>1. CASE StoreSuccesses(t, "f_reset", "f_add")
  BY <1>1, StoreSuccessesInv
<1>2. CASE AddFailure(t)
  <2>1. /\ at' \in [Threads -> Places] /\ at[t] = "f_add" /\ at'[t] = "f_load"
        /\ \A u \in Threads : u # t => at'[u] = at[u]
    BY <1>2, MoveTypes DEF CBInv, AddFailure
  <2>2. /\ consecutive_failures' = consecutive_failures + 1
        /\ local'[t] = consecutive_failures' /\ local' \in [Threads -> Nat]
        /\ \A u \in Threads : u # t => local'[u] = local[u]
        /\ UNCHANGED <<state, consecutive_successes, timed_out, seen>>
    BY <1>2 DEF CBInv, CBTypes, AddFailure
  <2> QED
    BY <2>1, <2>2 DEF CBInv, CBTypes, ClosedInv, HalfOpenInv
<1>3. CASE JudgeFailure(t)
  <2>1. /\ at' \in [Threads -> Places] /\ at[t] = "f_load"
        /\ at'[t] = IF MayOpen(t) THEN "open" ELSE "idle"
        /\ \A u \in Threads : u # t => at'[u] = at[u]
    BY <1>3 DEF CBInv, CBTypes, JudgeFailure, Move
  <2>2. /\ local' \in [Threads -> Nat] /\ \A u \in Threads : u # t => local'[u] = local[u]
        /\ UNCHANGED <<state, counts, timed_out, seen>>
    BY <1>3 DEF CBInv, CBTypes, JudgeFailure
  <2>3. CBTypes' /\ HalfOpenInv'
    BY <2>1, <2>2 DEF CBInv, CBTypes, HalfOpenInv, counts
  <2>4. ClosedInv'
    BY <2>1, <2>2 DEF CBInv, CBTypes, ClosedInv, MayOpen, counts
  <2> QED
    BY <2>3, <2>4 DEF CBInv
<1> QED
  BY <1>1, <1>2, <1>3 DEF RecordFailure

\* transition_to: a thread that closes the circuit resets the failures after it.
LEMMA TransitionInv ==
    ASSUME CBInv, NEW t \in Threads, TransitionToClosed(t) \/ TransitionToOpen(t)
    PROVE  CBInv'
<1>1. CASE Swap(t, "close", "closed", "closed_stamp")
  <2>1. /\ at' \in [Threads -> Places] /\ at[t] = "close" /\ state' = "closed"
        /\ state # "closed" => at'[t] = "closed_stamp"
        /\ \A u \in Threads : u # t => at'[u] = at[u]
        /\ UNCHANGED <<counts, timed_out, local, seen>>
    BY <1>1 DEF Swap, Move, CBInv, CBTypes
  <2> QED
    BY <2>1 DEF CBInv, CBTypes, ClosedInv, HalfOpenInv, counts
<1>2. CASE Swap(t, "open", "open", "open_stamp")
  <2>1. /\ at' \in [Threads -> Places] /\ state' = "open"
        /\ UNCHANGED <<counts, timed_out, local, seen>>
    BY <1>2 DEF Swap, Move, CBInv, CBTypes
  <2> QED
    BY <2>1 DEF CBInv, CBTypes, ClosedInv, HalfOpenInv, counts
<1>3. CASE StoreTime(t, "closed_stamp", "closed_cf") \/ StoreTime(t, "open_stamp", "open_cs")
  BY <1>3, StoreTimeInv
<1>4. CASE StoreFailures(t, "closed_cf", "closed_cs")
  BY <1>4, StoreFailuresInv
<1>5. CASE StoreSuccesses(t, "closed_cs", "idle") \/ StoreSuccesses(t, "open_cs", "idle")
  BY <1>5, StoreSuccessesInv
<1> QED
  BY <1>1, <1>2, <1>3, <1>4, <1>5 DEF TransitionToClosed, TransitionToOpen

\* Every step of every thread keeps the invariant.
LEMMA CBNextInv == CBInv /\ [CBNext]_cbvars => CBInv'
<1> SUFFICES ASSUME CBInv, [CBNext]_cbvars PROVE CBInv'
  OBVIOUS
<1>1. ASSUME NEW t \in Threads, Method(t) PROVE CBInv'
  BY <1>1, StateInv, RecordSuccessInv, RecordFailureInv, TransitionInv DEF Method
<1>2. ASSUME NEW t \in Threads, NEW method \in {"check", "s_reset", "f_reset"}, Call(t, method)
      PROVE  CBInv'
  BY <1>2, CallInv
<1>3. CASE Elapse \/ UNCHANGED cbvars
  BY <1>3 DEF Elapse, cbvars, CBInv, CBTypes, ClosedInv, HalfOpenInv, counts
<1> QED
  BY <1>1, <1>2, <1>3 DEF CBNext

\* The inductive invariant holds of every behaviour of the breaker.
THEOREM BreakerInvariant == CBSpec => []CBInv
BY CBInitInv, CBNextInv, PTL DEF CBSpec

\* With any number of threads and any thresholds, a closed circuit at rest has not
\* reached failure_threshold (record_failure, transition_to).
THEOREM ClosedIsJustified == CBSpec => []NotStuckClosed
<1>1. CBInv => NotStuckClosed
  BY DEF CBInv, CBTypes, ClosedInv, NotStuckClosed, Quiet
<1> QED
  BY <1>1, BreakerInvariant, PTL

\* With any number of threads and any thresholds, a half-open circuit at rest has not
\* reached success_threshold (record_success, check_and_update_state_returning).
THEOREM HalfOpenIsJustified == CBSpec => []NotStuckHalfOpen
<1>1. CBInv => NotStuckHalfOpen
  BY DEF CBInv, CBTypes, HalfOpenInv, NotStuckHalfOpen, Quiet
<1> QED
  BY <1>1, BreakerInvariant, PTL

HIDE ThresholdsAssumption DEF States, Places

-----------------------------------------------------------------------------
(* The gateway.                                                            *)

\* The load is one of the gateway's.
ConfOK == conf \in Configs

\* A handler leaves the breaker alone, calls a method, or runs a step of one.
LEMMA HandlerUsesBreaker ==
    ASSUME NEW r \in Threads, Handler(r)
    PROVE  [CBNext]_cbvars
<1>1. CASE TryAcquire(r) \/ TrySend(r) \/ ReceivePermit(r) \/ EndBody(r) \/ NotifyWaiters(r)
  BY <1>1 DEF TryAcquire, TrySend, ReceivePermit, EndBody, NotifyWaiters
<1>2. CASE Selected(r) \/ ShouldRetry(r) \/ Backoff(r)
  BY <1>2 DEF Selected, ShouldRetry, Backoff
<1>3. CASE Select(r)
  BY <1>3 DEF Select, CBNext
<1>4. CASE Respond(r)
  <2>1. PICK outcome \in conf.outcomes : Call(r, IF outcome = "ok" THEN "s_reset" ELSE "f_reset")
    BY <1>4 DEF Respond
  <2>2. CASE outcome = "ok"
    BY <2>1, <2>2 DEF CBNext
  <2>3. CASE outcome # "ok"
    BY <2>1, <2>3 DEF CBNext
  <2> QED
    BY <2>2, <2>3
<1>5. CASE BreakerStep(r)
  BY <1>5 DEF BreakerStep, CBNext
<1> QED
  BY <1>1, <1>2, <1>3, <1>4, <1>5 DEF Handler

\* What is not a handler does not touch the breaker, but for the time.
LEMMA OthersUseBreaker ==
    ASSUME Limiter \/ Refill \/ TimePasses \/ (\E r \in Load : Disconnect(r)) \/ Stop
    PROVE  [CBNext]_cbvars
<1>1. CASE Limiter
  BY <1>1 DEF Limiter, Processor, Recv, Process, Acquire, TryAgain, Listen, Poll, Expire
<1>2. CASE Refill \/ \E r \in Load : Disconnect(r)
  BY <1>2 DEF Refill, Disconnect
<1>3. CASE TimePasses
  BY <1>3 DEF TimePasses, CBNext
<1>4. CASE Stop
  BY <1>4 DEF Stop, vars
<1> QED
  BY <1>1, <1>2, <1>3, <1>4

\* The configuration does not change.
LEMMA ConfStays == ConfOK /\ [Next]_vars => ConfOK'
<1> SUFFICES ASSUME ConfOK, [Next]_vars PROVE UNCHANGED conf
  BY DEF ConfOK
<1>1. ASSUME NEW r \in Load, Handler(r) PROVE UNCHANGED conf
  BY <1>1 DEF Handler, TryAcquire, TrySend, ReceivePermit, EndBody, NotifyWaiters, Select,
     Selected, Respond, ShouldRetry, Backoff, BreakerStep, router
<1>2. CASE Limiter \/ Refill \/ TimePasses
  BY <1>2 DEF Limiter, Processor, Recv, Process, Acquire, TryAgain, Listen, Poll, Expire, Refill,
     TimePasses, router
<1>3. ASSUME NEW r \in Load, Disconnect(r) PROVE UNCHANGED conf
  BY <1>3 DEF Disconnect
<1>4. CASE Stop \/ UNCHANGED vars
  BY <1>4 DEF Stop, vars
<1> QED
  BY <1>1, <1>2, <1>3, <1>4 DEF Next, Handlers

\* Every behaviour of the gateway is one of the breaker: middleware, queue, retries and
\* disconnects reach it through state(), record_success and record_failure only.
THEOREM GatewayUsesBreaker == Spec => CBSpec
<1>1. Init => CBInit /\ ConfOK
  BY DEF Init, ConfOK
<1>2. ConfOK /\ [Next]_vars => [CBNext]_cbvars
  <2> SUFFICES ASSUME ConfOK, [Next]_vars PROVE [CBNext]_cbvars
    OBVIOUS
  <2>1. Load \subseteq Threads
    BY ConfigsAssumption DEF ConfOK, Load
  <2>2. CASE Handlers
    BY <2>1, <2>2, HandlerUsesBreaker DEF Handlers
  <2>3. CASE UNCHANGED vars
    BY <2>3 DEF vars
  <2> QED
    BY <2>2, <2>3, OthersUseBreaker DEF Next
<1> QED
  BY <1>1, <1>2, ConfStays, PTL DEF Spec, CBSpec

\* In the gateway, a worker whose last failure_threshold outcomes were failures is not in
\* service once the requests' tasks have recorded them.
THEOREM FailingWorkerLeaves == Spec => []NotStuckClosed
BY GatewayUsesBreaker, ClosedIsJustified, PTL

\* In the gateway, a worker that answered success_threshold times in a row on trial is
\* in service again.
THEOREM RecoveredWorkerReturns == Spec => []NotStuckHalfOpen
BY GatewayUsesBreaker, HalfOpenIsJustified, PTL

-----------------------------------------------------------------------------
(* Tokens: where each of them is, for any load, capacity and queue.        *)

GTypes ==
    /\ ConfOK /\ tokens \in Nat /\ refilled \in Nat /\ tokens <= conf.capacity
    /\ queue \in Seq(Load) /\ popped \in Load \cup {None} /\ acquiring \subseteq Load
    /\ permit \in [Threads -> {"none", "ok", "timeout", "used"}]
    /\ pc \in [Threads -> Stages]
GInv == GTypes /\ WaitsOnce /\ PermitsFresh /\ TokensAccounted

\* A configuration's load is finite and its numbers are numbers.
LEMMA ConfTypes ==
    ASSUME ConfOK
    PROVE  Load \subseteq Threads /\ IsFiniteSet(Load) /\ None \notin Load /\ conf.capacity \in Nat
BY ConfigsAssumption, NoneAssumption DEF ConfOK, Load

\* What a step may do to the tokens and to the requests that hold one or lost one.
Same == UNCHANGED <<tokens, refilled, Holders>> /\ Lost \subseteq Lost'
Given(r) ==
    /\ r \notin Holders /\ tokens >= 1 /\ tokens' = tokens - 1
    /\ Holders' = Holders \cup {r} /\ Lost' = Lost /\ UNCHANGED refilled
Wasted(r) ==
    /\ r \notin Lost /\ tokens >= 1 /\ tokens' = tokens - 1
    /\ Holders' = Holders /\ Lost' = Lost \cup {r} /\ UNCHANGED refilled
Returned(r) ==
    /\ r \in Holders /\ ReturnToken
    /\ Holders' = Holders \ {r} /\ Lost' = Lost /\ UNCHANGED refilled
Dropped(r) ==
    /\ r \in Holders /\ r \notin Lost /\ UNCHANGED <<tokens, refilled>>
    /\ Holders' = Holders \ {r} /\ Lost' = Lost \cup {r}
Added ==
    /\ tokens' = tokens + 1 /\ refilled' = refilled + 1
    /\ UNCHANGED <<Holders, Lost>>

\* Each of them keeps the account.
LEMMA AccountStep ==
    ASSUME GTypes, TokensAccounted, UNCHANGED conf, Holders' \subseteq Load, Lost' \subseteq Load,
           NEW r,
           Same \/ Given(r) \/ Wasted(r) \/ Returned(r) \/ Dropped(r) \/ Added
    PROVE  TokensAccounted'
<1>1. /\ IsFiniteSet(Holders) /\ IsFiniteSet(Lost) /\ IsFiniteSet(Holders') /\ IsFiniteSet(Lost')
  <2>1. IsFiniteSet(Load) /\ Holders \subseteq Load /\ Lost \subseteq Load
    BY ConfTypes DEF GTypes, Holders, Lost, Gone
  <2> QED
    BY <2>1, FS_Subset
<1> DEFINE h == Cardinality(Holders)
           l == Cardinality(Lost)
           h2 == Cardinality(Holders')
           l2 == Cardinality(Lost')
<1>2. h \in Nat /\ l \in Nat /\ h2 \in Nat /\ l2 \in Nat
  BY <1>1, FS_CardinalityType
<1>3. conf.capacity \in Nat /\ tokens \in Nat /\ refilled \in Nat /\ tokens <= conf.capacity
  BY ConfTypes DEF GTypes
<1>4. tokens + h <= conf.capacity + refilled /\ tokens + h + l >= conf.capacity
  BY DEF TokensAccounted
<1>5. SUFFICES /\ tokens' + h2 <= conf.capacity + refilled'
               /\ tokens' + h2 + l2 >= conf.capacity
  BY DEF TokensAccounted
<1>6. CASE Same
  <2>1. h2 = h /\ l <= l2
    BY <1>1, <1>6, FS_Subset DEF Same
  <2> HIDE DEF h, l, h2, l2
  <2> QED
    BY <1>2, <1>3, <1>4, <1>6, <2>1 DEF Same
<1>7. CASE Given(r)
  <2>1. h2 = h + 1 /\ l2 = l
    BY <1>1, <1>7, FS_AddElement DEF Given
  <2> HIDE DEF h, l, h2, l2
  <2> QED
    BY <1>2, <1>3, <1>4, <1>7, <2>1 DEF Given
<1>8. CASE Wasted(r)
  <2>1. h2 = h /\ l2 = l + 1
    BY <1>1, <1>8, FS_AddElement DEF Wasted
  <2> HIDE DEF h, l, h2, l2
  <2> QED
    BY <1>2, <1>3, <1>4, <1>8, <2>1 DEF Wasted
<1>9. CASE Returned(r)
  <2>1. h2 = h - 1 /\ l2 = l
    BY <1>1, <1>9, FS_RemoveElement DEF Returned
  <2> HIDE DEF h, l, h2, l2
  <2> QED
    BY <1>2, <1>3, <1>4, <1>9, <2>1 DEF Returned, ReturnToken
<1>10. CASE Dropped(r)
  <2>1. h2 = h - 1
    BY <1>1, <1>10, FS_RemoveElement DEF Dropped
  <2>2. l2 = l + 1
    BY <1>1, <1>10, FS_AddElement DEF Dropped
  <2> HIDE DEF h, l, h2, l2
  <2> QED
    BY <1>2, <1>3, <1>4, <1>10, <2>1, <2>2 DEF Dropped
<1>11. CASE Added
  <2>1. h2 = h /\ l2 = l
    BY <1>11 DEF Added
  <2> HIDE DEF h, l, h2, l2
  <2> QED
    BY <1>2, <1>3, <1>4, <1>11, <2>1 DEF Added
<1> QED
  BY <1>6, <1>7, <1>8, <1>9, <1>10, <1>11

\* Requests of the load wait, and nobody else.
LEMMA WaitingInLoad == ASSUME GTypes PROVE Waiting \subseteq Load
BY DEF GTypes, Waiting

\* Whoever waits, waits on.
LEMMA WaitingUntouched ==
    ASSUME WaitsOnce, UNCHANGED <<queue, popped, acquiring>>
    PROVE  Waiting' = Waiting /\ WaitsOnce'
<1>1. queue' = queue /\ popped' = popped /\ acquiring' = acquiring
  OBVIOUS
<1>2. Waiting' = Waiting
  BY <1>1 DEF Waiting
<1>3. WaitsOnce'
  BY <1>1 DEF WaitsOnce
<1> QED
  BY <1>2, <1>3

\* A handler that only moves between places where it holds a token, or out of the queue
\* with its permit used, keeps the account.
LEMMA RoutingInv ==
    ASSUME GInv, NEW r \in Load,
           Select(r) \/ Selected(r) \/ Respond(r) \/ ShouldRetry(r) \/ Backoff(r) \/ BreakerStep(r)
    PROVE  GInv'
<1> USE DEF Stages, Routing, Goto
<1>1. /\ UNCHANGED <<conf, tokens, refilled, queue, popped, acquiring, permit>>
      /\ \/ UNCHANGED pc
         \/ \E to \in Routing : pc[r] \in Routing /\ pc' = [pc EXCEPT ![r] = to]
  BY DEF Select, Selected, Respond, ShouldRetry, Backoff, BreakerStep, router, limiter
<1>2. r \in Threads /\ Load \subseteq Threads /\ Waiting \subseteq Load
  BY ConfTypes, WaitingInLoad, ZenonT(30) DEF GInv, GTypes
<1>3. GTypes'
  BY <1>1, <1>2 DEF GInv, GTypes, ConfOK, Load
<1>4. Waiting' = Waiting /\ WaitsOnce'
  BY <1>1, WaitingUntouched, ZenonT(30) DEF GInv
<1>5. PermitsFresh'
  BY <1>1, <1>2, <1>4 DEF GInv, GTypes, PermitsFresh, Load
<1>6. Holders' = Holders /\ Gone' = Gone
  BY <1>1, <1>2 DEF GInv, GTypes, Holders, Gone, Load
<1>7. TokensAccounted'
  BY <1>1, <1>4, <1>6 DEF GInv, TokensAccounted, Lost
<1> QED
  BY <1>3, <1>4, <1>5, <1>7 DEF GInv

\* Taking a token at once, and giving it back with the body.
LEMMA TokenInv ==
    ASSUME GInv, NEW r \in Load, TryAcquire(r) \/ EndBody(r) \/ NotifyWaiters(r)
    PROVE  GInv'
<1> USE DEF Stages, Routing, Goto
<1>1. /\ UNCHANGED <<conf, refilled, queue, popped, acquiring, permit>>
      /\ \/ pc[r] = "new" /\ pc' = [pc EXCEPT ![r] = "select"] /\ TakeToken
         \/ pc[r] = "new" /\ pc' = [pc EXCEPT ![r] = "enqueue"] /\ UNCHANGED tokens
         \/ pc[r] = "body" /\ pc' = [pc EXCEPT ![r] = "notify"] /\ ReturnToken
         \/ pc[r] = "notify" /\ pc' = [pc EXCEPT ![r] = "done"] /\ UNCHANGED tokens
  BY DEF TryAcquire, EndBody, NotifyWaiters, NoToken
<1>2. r \in Threads /\ Load \subseteq Threads /\ Waiting \subseteq Load /\ conf.capacity \in Nat
  BY ConfTypes, WaitingInLoad, ZenonT(30) DEF GInv, GTypes
<1>3. GTypes'
  <2>1. tokens' \in Nat /\ tokens' <= conf.capacity
    BY <1>1, <1>2 DEF GInv, GTypes, TakeToken, ReturnToken
  <2> QED
    BY <1>1, <1>2, <2>1 DEF GInv, GTypes, ConfOK, Load
<1>4. Waiting' = Waiting /\ WaitsOnce'
  BY <1>1, WaitingUntouched, ZenonT(30) DEF GInv
<1>5. r \notin Waiting
  BY <1>1, ZenonT(30) DEF GInv, PermitsFresh
<1>6. PermitsFresh'
  BY <1>1, <1>2, <1>4, <1>5, ZenonT(30) DEF GInv, GTypes, PermitsFresh, Load
<1>7. Gone' = Gone
  BY <1>1, <1>2, ZenonT(30) DEF GInv, GTypes, Gone, Load
<1>8. Holders' \subseteq Load /\ Lost' \subseteq Load /\ Lost' = Lost
  BY <1>1, <1>4, <1>7 DEF Holders, Lost, Gone, Load
<1>9. Same \/ Given(r) \/ Returned(r)
  <2>1. CASE pc[r] = "new" /\ pc' = [pc EXCEPT ![r] = "select"] /\ TakeToken
    <3>1. Holders' = Holders \cup {r} /\ r \notin Holders
      BY <1>1, <1>2, <2>1 DEF GInv, GTypes, Holders, Load
    <3> QED
      BY <1>1, <1>8, <2>1, <3>1, ZenonT(30) DEF Given, TakeToken
  <2>2. CASE pc[r] = "new" /\ pc' = [pc EXCEPT ![r] = "enqueue"] /\ UNCHANGED tokens
    <3>1. Holders' = Holders
      BY <1>1, <1>2, <2>2 DEF GInv, GTypes, Holders, Load
    <3> QED
      BY <1>1, <1>8, <2>2, <3>1, ZenonT(30) DEF Same
  <2>3. CASE pc[r] = "body" /\ pc' = [pc EXCEPT ![r] = "notify"] /\ ReturnToken
    <3>1. Holders' = Holders \ {r} /\ r \in Holders
      BY <1>1, <1>2, <2>3 DEF GInv, GTypes, Holders, Load
    <3> QED
      BY <1>1, <1>8, <2>3, <3>1 DEF Returned
  <2>4. CASE pc[r] = "notify" /\ pc' = [pc EXCEPT ![r] = "done"] /\ UNCHANGED tokens
    <3>1. Holders' = Holders
      BY <1>1, <1>2, <2>4 DEF GInv, GTypes, Holders, Load
    <3> QED
      BY <1>1, <1>8, <2>4, <3>1 DEF Same
  <2> QED
    BY <1>1, <2>1, <2>2, <2>3, <2>4
<1>10. TokensAccounted'
  BY <1>1, <1>8, <1>9, AccountStep DEF GInv
<1> QED
  BY <1>3, <1>4, <1>6, <1>10 DEF GInv

\* A request enters the queue once, without a permit.
LEMMA TrySendInv ==
    ASSUME GInv, NEW r \in Load, TrySend(r)
    PROVE  GInv'
<1> USE DEF Stages, Routing, Goto
<1>1. /\ UNCHANGED <<conf, tokens, refilled, popped, acquiring, permit>> /\ pc[r] = "enqueue"
      /\ \/ queue' = Append(queue, r) /\ pc' = [pc EXCEPT ![r] = "queued"]
         \/ queue' = queue /\ pc' = [pc EXCEPT ![r] = "done"]
  BY DEF TrySend, Answer
<1>2. r \in Threads /\ Load \subseteq Threads /\ Waiting \subseteq Load
  BY ConfTypes, WaitingInLoad, ZenonT(30) DEF GInv, GTypes
<1>3. r \notin Waiting /\ permit[r] = "none"
  BY <1>1 DEF GInv, PermitsFresh
<1>4. GTypes'
  <2>1. queue' \in Seq(Load)
    BY <1>1 DEF GInv, GTypes
  <2>2. pc' \in [Threads -> Stages]
    BY <1>1, <1>2 DEF GInv, GTypes
  <2> QED
    BY <1>1, <2>1, <2>2 DEF GInv, GTypes, ConfOK, Load
<1>5. Holders' = Holders /\ Gone' = Gone
  BY <1>1, <1>2, <1>3 DEF GInv, GTypes, Holders, Gone, Load
<1>6. Waiting' \subseteq Waiting \cup {r} /\ Waiting \subseteq Waiting' /\ WaitsOnce'
  <2>1. CASE queue' = Append(queue, r)
    <3>1. /\ Len(queue') = Len(queue) + 1 /\ Len(queue) \in Nat /\ queue'[Len(queue) + 1] = r
          /\ \A i \in 1 .. Len(queue) : queue'[i] = queue[i]
      BY <2>1 DEF GInv, GTypes
    <3>2. \A i \in 1 .. Len(queue) : queue[i] # r
      BY <1>3 DEF Waiting
    <3>3. r \notin acquiring /\ r # popped
      BY <1>3, ConfTypes DEF Waiting, GInv, GTypes
    <3>4. Waiting' \subseteq Waiting \cup {r}
      BY <1>1, <3>1 DEF Waiting
    <3>5. Waiting \subseteq Waiting'
      BY <1>1, <3>1 DEF Waiting
    <3>6. WaitsOnce'
      <4>1. ASSUME NEW i \in 1 .. Len(queue'), NEW j \in 1 .. Len(queue'), queue'[i] = queue'[j]
            PROVE  i = j
        BY <3>1, <3>2, <4>1 DEF GInv, WaitsOnce
      <4>2. ASSUME NEW i \in 1 .. Len(queue')
            PROVE  queue'[i] \notin acquiring /\ queue'[i] # popped
        BY <3>1, <3>3, <4>2 DEF GInv, WaitsOnce
      <4> QED
        BY <1>1, <4>1, <4>2 DEF GInv, WaitsOnce
    <3> QED
      BY <3>4, <3>5, <3>6
  <2>2. CASE queue' = queue
    BY <1>1, <2>2 DEF GInv, Waiting, WaitsOnce
  <2> QED
    BY <1>1, <2>1, <2>2
<1>7. PermitsFresh'
  <2>1. queue' = queue => Waiting' = Waiting
    BY <1>1 DEF Waiting
  <2> QED
    BY <1>1, <1>2, <1>3, <1>6, <2>1 DEF GInv, GTypes, PermitsFresh, Load
<1>8. Lost' = Lost
  BY <1>1, <1>2, <1>5, <1>6 DEF GInv, GTypes, Lost, Gone
<1>9. TokensAccounted'
  BY <1>1, <1>5, <1>8 DEF GInv, TokensAccounted
<1> QED
  BY <1>4, <1>6, <1>7, <1>9 DEF GInv

\* A permit is used by its request, which keeps the token, or had none.
LEMMA ReceivePermitInv ==
    ASSUME GInv, NEW r \in Load, ReceivePermit(r)
    PROVE  GInv'
<1> USE DEF Stages, Routing, Goto
<1>1. /\ UNCHANGED <<conf, tokens, refilled, queue, popped, acquiring>> /\ pc[r] = "queued"
      /\ permit' = [permit EXCEPT ![r] = "used"]
      /\ \/ permit[r] = "ok" /\ pc' = [pc EXCEPT ![r] = "select"]
         \/ permit[r] = "timeout" /\ pc' = [pc EXCEPT ![r] = "done"]
  BY DEF ReceivePermit, Answer
<1>2. r \in Threads /\ Load \subseteq Threads /\ Waiting \subseteq Load
  BY ConfTypes, WaitingInLoad, ZenonT(30) DEF GInv, GTypes
<1>3. GTypes'
  BY <1>1, <1>2 DEF GInv, GTypes, ConfOK, Load
<1>4. Waiting' = Waiting /\ WaitsOnce' /\ r \notin Waiting
  BY <1>1, WaitingUntouched, ZenonT(30) DEF GInv, PermitsFresh
<1>5. PermitsFresh'
  BY <1>1, <1>2, <1>4 DEF GInv, GTypes, PermitsFresh, Load
<1>6. Holders' = Holders /\ Gone' = Gone
  BY <1>1, <1>2 DEF GInv, GTypes, Holders, Gone, Load
<1>7. TokensAccounted'
  BY <1>1, <1>4, <1>6 DEF GInv, TokensAccounted, Lost
<1> QED
  BY <1>3, <1>4, <1>5, <1>7 DEF GInv

\* A disconnect drops the token of a request that has one.
LEMMA DisconnectInv ==
    ASSUME GInv, NEW r \in Load, Disconnect(r)
    PROVE  GInv'
<1> USE DEF Stages, Routing
<1>1. /\ UNCHANGED <<conf, tokens, refilled, queue, popped, acquiring, permit>>
      /\ pc[r] \in {"queued", "send", "backoff"} /\ pc' = [pc EXCEPT ![r] = "gone"]
  BY DEF Disconnect, limiter
<1>2. r \in Threads /\ Load \subseteq Threads /\ Waiting \subseteq Load
  BY ConfTypes, WaitingInLoad, ZenonT(30) DEF GInv, GTypes
<1>3. GTypes'
  BY <1>1, <1>2 DEF GInv, GTypes, ConfOK, Load
<1>4. Waiting' = Waiting /\ WaitsOnce'
  BY <1>1, WaitingUntouched, ZenonT(30) DEF GInv
<1>5. PermitsFresh'
  BY <1>1, <1>2, <1>4 DEF GInv, GTypes, PermitsFresh, Load
<1>6. Gone' = Gone \cup {r} /\ r \notin Gone
  BY <1>1, <1>2 DEF GInv, GTypes, Gone, Load
<1>7. Holders' = Holders \ {r}
  BY <1>1, <1>2 DEF GInv, GTypes, Holders, Load
<1>8. Holders' \subseteq Load /\ Lost' \subseteq Load
  BY <1>1 DEF Holders, Lost, Gone, Load
<1>9. Same \/ Dropped(r)
  <2>1. CASE r \in Holders
    <3>1. r \notin Waiting
      BY <1>1, <2>1 DEF GInv, PermitsFresh, Holders
    <3>2. Lost' = Lost \cup {r} /\ r \notin Lost
      BY <1>4, <1>6, <3>1 DEF Lost
    <3> QED
      BY <1>1, <1>7, <2>1, <3>2 DEF Dropped
  <2>2. CASE r \notin Holders
    <3>1. Lost \subseteq Lost'
      BY <1>4, <1>6 DEF Lost
    <3>2. Holders' = Holders
      BY <1>7, <2>2
    <3> QED
      BY <1>1, <3>1, <3>2 DEF Same
  <2> QED
    BY <2>1, <2>2
<1>10. TokensAccounted'
  BY <1>1, <1>8, <1>9, AccountStep DEF GInv
<1> QED
  BY <1>3, <1>4, <1>5, <1>10 DEF GInv

\* The processor takes the next request from the queue: it waits as before.
LEMMA RecvInv ==
    ASSUME GInv, Recv
    PROVE  GInv'
<1>1. /\ UNCHANGED <<conf, tokens, refilled, acquiring, permit, pc>>
      /\ popped = None /\ queue # <<>> /\ popped' = Head(queue) /\ queue' = Tail(queue)
  BY DEF Recv
<1>2. queue \in Seq(Load) /\ None \notin Load
  BY ConfTypes DEF GInv, GTypes
<1>3. /\ Len(queue) \in Nat \ {0} /\ Head(queue) = queue[1] /\ queue[1] \in Load
      /\ queue' \in Seq(Load) /\ Len(queue') = Len(queue) - 1
      /\ \A i \in 1 .. Len(queue') : queue'[i] = queue[i + 1]
  BY <1>1, <1>2
<1>4. GTypes'
  BY <1>1, <1>3 DEF GInv, GTypes, ConfOK, Load
<1>5. WaitsOnce'
  BY <1>1, <1>3 DEF GInv, WaitsOnce
<1>6. Waiting' = Waiting
  <2>1. ASSUME NEW x \in Waiting PROVE x \in Waiting'
    <3>1. CASE x \in acquiring
      BY <1>1, <3>1 DEF Waiting
    <3>2. CASE x \notin acquiring
      <4>1. PICK i \in 1 .. Len(queue) : x = queue[i]
        BY <1>1, <2>1, <3>2 DEF Waiting
      <4>2. CASE i = 1
        BY <1>1, <1>2, <1>3, <4>1, <4>2 DEF Waiting
      <4>3. CASE i # 1
        <5>1. i - 1 \in 1 .. Len(queue') /\ queue'[i - 1] = x
          BY <1>3, <4>1, <4>3
        <5> QED
          BY <5>1 DEF Waiting
      <4> QED
        BY <4>2, <4>3
    <3> QED
      BY <3>1, <3>2
  <2>2. ASSUME NEW x \in Waiting' PROVE x \in Waiting
    <3>1. CASE x \in acquiring
      BY <3>1 DEF Waiting
    <3>2. CASE x = Head(queue)
      BY <1>3, <3>2 DEF Waiting
    <3>3. CASE x \notin acquiring /\ x # Head(queue)
      <4>1. PICK i \in 1 .. Len(queue') : x = queue'[i]
        BY <1>1, <2>2, <3>3 DEF Waiting
      <4>2. i + 1 \in 1 .. Len(queue) /\ queue[i + 1] = x
        BY <1>3, <4>1
      <4> QED
        BY <4>2 DEF Waiting
    <3> QED
      BY <3>1, <3>2, <3>3
  <2> QED
    BY <2>1, <2>2
<1>7. PermitsFresh'
  BY <1>1, <1>6 DEF GInv, PermitsFresh, Load
<1>8. TokensAccounted'
  BY <1>1, <1>6 DEF GInv, TokensAccounted, Holders, Lost, Gone, Load
<1> QED
  BY <1>4, <1>5, <1>7, <1>8 DEF GInv

\* A request that waited is answered: with a token, which it holds unless it is gone,
\* or without.
LEMMA AnsweredInv ==
    ASSUME GInv, NEW r \in Waiting, UNCHANGED <<conf, refilled, pc>>,
           WaitsOnce', Waiting' = Waiting \ {r}, GTypes',
           Grant(r) \/ (Permit(r, "timeout") /\ UNCHANGED tokens)
    PROVE  GInv'
<1>1. r \in Load /\ r \in Threads /\ Load \subseteq Threads /\ Waiting \subseteq Load
  BY ConfTypes, WaitingInLoad, ZenonT(30) DEF GInv, GTypes
<1>2. permit[r] = "none" /\ pc[r] \in {"queued", "gone"}
  BY DEF GInv, PermitsFresh
<1>3. permit' = [permit EXCEPT ![r] = permit'[r]] /\ permit'[r] \in {"ok", "timeout"}
  BY <1>1, ZenonT(30) DEF Grant, Permit, GInv, GTypes
<1>4. PermitsFresh'
  BY <1>1, <1>2, <1>3 DEF GInv, GTypes, PermitsFresh, Load
<1>5. Gone' = Gone /\ r \notin Lost
  BY DEF Gone, Lost, Load
<1>6. r \notin Holders
  BY <1>2, ZenonT(30) DEF Holders, Routing
<1>7. Holders' = IF pc[r] = "queued" /\ permit'[r] = "ok" THEN Holders \cup {r} ELSE Holders
  BY <1>1, <1>2, <1>3 DEF GInv, GTypes, Holders, Load, Routing
<1>8. Lost' = IF pc[r] = "gone" THEN Lost \cup {r} ELSE Lost
  BY <1>1, <1>5 DEF Lost, Gone
<1>9. Same \/ Given(r) \/ Wasted(r)
  <2>1. CASE Grant(r)
    <3>1. permit'[r] = "ok" /\ tokens >= 1 /\ tokens' = tokens - 1
      BY <1>1, <2>1 DEF Grant, Permit, TakeToken, GInv, GTypes
    <3> QED
      BY <1>2, <1>5, <1>6, <1>7, <1>8, <3>1 DEF Given, Wasted
  <2>2. CASE Permit(r, "timeout") /\ UNCHANGED tokens
    <3>1. permit'[r] = "timeout"
      BY <1>1, <2>2, ZenonT(30) DEF Permit, GInv, GTypes
    <3> QED
      BY <1>7, <1>8, <2>2, <3>1 DEF Same
  <2> QED
    BY <2>1, <2>2, ZenonT(30)
<1>10. Holders' \subseteq Load /\ Lost' \subseteq Load
  BY DEF Holders, Lost, Gone, Load
<1>11. TokensAccounted'
  BY <1>9, <1>10, AccountStep DEF GInv
<1> QED
  BY <1>4, <1>11 DEF GInv

\* The processor answers its request or leaves it to a task.
LEMMA ProcessInv ==
    ASSUME GInv, Process
    PROVE  GInv'
<1>1. /\ UNCHANGED <<conf, refilled, queue, pc>> /\ popped # None /\ popped' = None
      /\ \/ Permit(popped, "timeout") /\ UNCHANGED <<tokens, acquiring>>
         \/ Grant(popped) /\ UNCHANGED acquiring
         \/ UNCHANGED tokens /\ acquiring' = acquiring \cup {popped} /\ UNCHANGED permit
  BY DEF Process, NoToken
<1>2. /\ popped \in Load /\ popped \in Waiting /\ None \notin Load
      /\ acquiring \subseteq Load /\ \A i \in 1 .. Len(queue) : queue[i] \in Load
  <2>1. popped \in Load /\ None \notin Load /\ acquiring \subseteq Load
    BY <1>1, ConfTypes, ZenonT(30) DEF GInv, GTypes
  <2>2. popped \in Waiting
    BY <1>1, ZenonT(30) DEF Waiting
  <2>3. \A i \in 1 .. Len(queue) : queue[i] \in Load
    BY DEF GInv, GTypes
  <2> QED
    BY <2>1, <2>2, <2>3, ZenonT(30)
<1>3. CASE UNCHANGED acquiring /\ (Grant(popped) \/ (Permit(popped, "timeout") /\ UNCHANGED tokens))
  <2>1. WaitsOnce'
    BY <1>1, <1>2, <1>3 DEF GInv, WaitsOnce
  <2>2. Waiting' = Waiting \ {popped}
    BY <1>1, <1>2, <1>3 DEF GInv, WaitsOnce, Waiting
  <2>3. permit' \in [Threads -> {"none", "ok", "timeout", "used"}]
    BY <1>3 DEF Grant, Permit, GInv, GTypes
  <2>4. tokens' \in Nat /\ tokens' <= conf.capacity
    BY <1>3, ConfTypes DEF Grant, TakeToken, GInv, GTypes
  <2>5. GTypes'
    BY <1>1, <1>3, <2>3, <2>4 DEF GInv, GTypes, ConfOK, Load
  <2> QED
    BY <1>1, <1>2, <1>3, <2>1, <2>2, <2>5, AnsweredInv
<1>4. CASE UNCHANGED <<tokens, permit>> /\ acquiring' = acquiring \cup {popped}
  <2>1. WaitsOnce'
    BY <1>1, <1>2, <1>4 DEF GInv, WaitsOnce
  <2>2. Waiting' = Waiting
    BY <1>1, <1>2, <1>4, ZenonT(30) DEF Waiting
  <2>3. GTypes'
    BY <1>1, <1>2, <1>4 DEF GInv, GTypes, ConfOK, Load
  <2>4. PermitsFresh' /\ TokensAccounted'
    BY <1>1, <1>4, <2>2 DEF GInv, PermitsFresh, TokensAccounted, Holders, Lost, Gone, Load
  <2> QED
    BY <2>1, <2>3, <2>4 DEF GInv
<1> QED
  BY <1>1, <1>3, <1>4

\* What the account does not speak of may change.
LEMMA UntouchedInv ==
    ASSUME GInv, UNCHANGED <<conf, tokens, refilled, queue, popped, acquiring, permit, pc>>
    PROVE  GInv'
<1>1. Waiting' = Waiting /\ WaitsOnce'
  BY WaitingUntouched, ZenonT(30) DEF GInv
<1>2. GTypes'
  BY DEF GInv, GTypes, ConfOK, Load
<1>3. Holders' = Holders /\ Gone' = Gone
  BY DEF Holders, Gone, Load
<1>4. PermitsFresh'
  BY <1>1 DEF GInv, PermitsFresh, Load
<1>5. TokensAccounted'
  BY <1>1, <1>3 DEF GInv, TokensAccounted, Lost
<1> QED
  BY <1>1, <1>2, <1>4, <1>5 DEF GInv

\* A task answers its request.
LEMMA TaskAnswersInv ==
    ASSUME GInv, NEW r \in Load, UNCHANGED <<conf, refilled, queue, popped, pc>>,
           r \in acquiring, acquiring' = acquiring \ {r},
           Grant(r) \/ (Permit(r, "timeout") /\ UNCHANGED tokens)
    PROVE  GInv'
<1>1. r \in Waiting /\ WaitsOnce'
  BY DEF GInv, Waiting, WaitsOnce
<1>2. Waiting' = Waiting \ {r}
  BY DEF GInv, Waiting, WaitsOnce
<1>3. permit' \in [Threads -> {"none", "ok", "timeout", "used"}]
  BY DEF Grant, Permit, GInv, GTypes
<1>4. tokens' \in Nat /\ tokens' <= conf.capacity
  BY ConfTypes DEF Grant, TakeToken, GInv, GTypes
<1>5. GTypes'
  BY <1>3, <1>4 DEF GInv, GTypes, ConfOK, Load
<1> QED
  BY <1>1, <1>2, <1>5, AnsweredInv

\* A task answers its request, or goes on in the loop of acquire.
LEMMA AcquireInv ==
    ASSUME GInv, NEW r \in Load, Acquire(r) \/ Expire(r)
    PROVE  GInv'
<1>1. \/ UNCHANGED <<conf, tokens, refilled, queue, popped, acquiring, permit, pc>>
      \/ /\ UNCHANGED <<conf, refilled, queue, popped, pc>>
         /\ r \in acquiring /\ acquiring' = acquiring \ {r}
         /\ Grant(r) \/ (Permit(r, "timeout") /\ UNCHANGED tokens)
  BY DEF Acquire, TryAgain, Listen, Poll, Expire, NoToken
<1> QED
  BY <1>1, UntouchedInv, TaskAnswersInv

\* Time adds a token, or changes only the breaker.
LEMMA TimeInv ==
    ASSUME GInv, Refill \/ TimePasses \/ UNCHANGED vars
    PROVE  GInv'
<1>1. CASE Refill
  <2>1. /\ UNCHANGED <<conf, queue, popped, acquiring, permit, pc>>
        /\ tokens < conf.capacity /\ tokens' = tokens + 1 /\ refilled' = refilled + 1
    BY <1>1 DEF Refill
  <2>2. GTypes'
    <3>1. conf.capacity \in Nat /\ tokens \in Nat /\ refilled \in Nat
      BY ConfTypes, ZenonT(30) DEF GInv, GTypes
    <3>2. tokens' \in Nat /\ refilled' \in Nat /\ tokens' <= conf.capacity
      BY <2>1, <3>1
    <3> QED
      BY <2>1, <3>2, ZenonT(30) DEF GInv, GTypes, ConfOK, Load
  <2>3. Waiting' = Waiting /\ WaitsOnce'
    BY <2>1, WaitingUntouched, ZenonT(30) DEF GInv
  <2>4. PermitsFresh' /\ Holders' = Holders /\ Lost' = Lost
    BY <2>1, <2>3 DEF GInv, PermitsFresh, Holders, Lost, Gone, Load
  <2>5. Holders' \subseteq Load /\ Lost' \subseteq Load
    BY <2>4 DEF Holders, Lost, Gone
  <2>6. TokensAccounted'
    BY <2>1, <2>4, <2>5, AccountStep DEF GInv, Added
  <2> QED
    BY <2>2, <2>3, <2>4, <2>6 DEF GInv
<1>2. CASE TimePasses \/ UNCHANGED vars
  BY <1>2, UntouchedInv DEF TimePasses, router, limiter, vars
<1> QED
  BY <1>1, <1>2

\* At the start the bucket is full and nobody waits.
LEMMA GInitInv == Init => GInv
<1> SUFFICES ASSUME Init PROVE GInv
  OBVIOUS
<1>1. ConfOK
  BY DEF Init, ConfOK
<1>2. conf.capacity \in Nat /\ Load \subseteq Threads
  BY <1>1, ConfTypes
<1>3. Waiting = {} /\ Holders = {} /\ Lost = {}
  <2>1. queue = <<>> /\ popped = None /\ acquiring = {}
    BY DEF Init
  <2>2. \A r \in Load : pc[r] = "new"
    BY <1>2 DEF Init
  <2>3. 1 .. Len(queue) = {}
    BY <2>1
  <2>4. Waiting = {}
    BY <2>1, <2>3 DEF Waiting
  <2> QED
    BY <2>2, <2>4 DEF Holders, Lost, Gone, Routing
<1>4. GTypes
  BY <1>1, <1>2 DEF Init, GTypes, Stages
<1>5. WaitsOnce /\ PermitsFresh
  <2>1. queue = <<>> /\ popped = None /\ acquiring = {} /\ permit = [r \in Threads |-> "none"]
    BY DEF Init
  <2>2. 1 .. Len(queue) = {}
    BY <2>1
  <2> QED
    BY <1>2, <1>3, <2>1, <2>2 DEF WaitsOnce, PermitsFresh
<1>6. TokensAccounted
  BY <1>2, <1>3, FS_EmptySet DEF Init, TokensAccounted
<1> QED
  BY <1>4, <1>5, <1>6 DEF GInv

\* Every step of the gateway keeps the account of the tokens.
LEMMA GNextInv == GInv /\ [Next]_vars => GInv'
<1> SUFFICES ASSUME GInv, [Next]_vars PROVE GInv'
  OBVIOUS
<1>1. ASSUME NEW r \in Load, Handler(r) PROVE GInv'
  BY <1>1, RoutingInv, TokenInv, TrySendInv, ReceivePermitInv DEF Handler
<1>2. CASE Limiter
  BY <1>2, RecvInv, ProcessInv, AcquireInv DEF Limiter, Processor
<1>3. ASSUME NEW r \in Load, Disconnect(r) PROVE GInv'
  BY <1>3, DisconnectInv
<1>4. CASE Refill \/ TimePasses \/ Stop \/ UNCHANGED vars
  BY <1>4, TimeInv DEF Stop
<1> QED
  BY <1>1, <1>2, <1>3, <1>4 DEF Next, Handlers

\* For any load, capacity and queue, whatever disconnects and races: the requests under
\* way are no more than the bucket's capacity and what time has added.
THEOREM LimiterIsPaid == Spec => []AdmittedHaveTokens
<1>1. GInv => AdmittedHaveTokens
  BY DEF GInv, TokensAccounted, AdmittedHaveTokens
<1> QED
  BY <1>1, GInitInv, GNextInv, PTL DEF Spec

\* For any load, capacity and queue: a missing token is with a request under way, or was
\* lost with a request whose client disconnected, at most one each.
THEOREM OnlyDisconnectsLoseTokens == Spec => []TokensComeBack
<1>1. GInv => TokensComeBack
  <2> SUFFICES ASSUME GInv PROVE TokensComeBack
    OBVIOUS
  <2>1. IsFiniteSet(Load) /\ Gone \subseteq Load /\ Holders \subseteq Load /\ Lost \subseteq Gone
    BY ConfTypes DEF GInv, GTypes, Gone, Holders, Lost
  <2>2. IsFiniteSet(Gone) /\ IsFiniteSet(Lost) /\ IsFiniteSet(Holders)
    BY <2>1, FS_Subset
  <2>3. Cardinality(Lost) <= Cardinality(Gone)
    BY <2>1, <2>2, FS_Subset
  <2>4. Cardinality(Gone) \in Nat /\ Cardinality(Lost) \in Nat /\ Cardinality(Holders) \in Nat
    BY <2>2, FS_CardinalityType
  <2>5. conf.capacity \in Nat /\ tokens \in Nat
    BY ConfTypes DEF GInv, GTypes
  <2> QED
    BY <2>3, <2>4, <2>5 DEF GInv, TokensAccounted, TokensComeBack
<1> QED
  BY <1>1, GInitInv, GNextInv, PTL DEF Spec

-----------------------------------------------------------------------------
(* The bounds of the queue, of the refills and of the attempts.            *)

\* A request that backs off has an attempt left, which bounds the attempts.
Bounded ==
    /\ refilled <= conf.refills /\ Len(queue) <= conf.queue_size
    /\ attempt \in [Threads -> Nat]
    /\ \A r \in Threads : attempt[r] < conf.max_retries
    /\ \A r \in Threads : pc[r] = "backoff" => ~IsLast(r)

\* A handler's step keeps the bounds.
LEMMA HandlerBounded ==
    ASSUME GInv, Bounded, NEW r \in Load, Handler(r)
    PROVE  Bounded'
<1>1. /\ ConfOK /\ queue \in Seq(Load) /\ pc \in [Threads -> Stages] /\ r \in Threads
      /\ attempt \in [Threads -> Nat] /\ refilled \in Nat
  BY ConfTypes DEF GInv, GTypes, Bounded
<1>2. conf.max_retries \in Nat \ {0} /\ conf.queue_size \in Nat
  BY <1>1, ConfigsAssumption DEF ConfOK
<1>3. CASE TrySend(r)
  <2>1. UNCHANGED <<conf, refilled, attempt>>
    BY <1>3 DEF TrySend
  <2>2. Len(queue') <= conf.queue_size
    <3>1. \/ Len(queue) < conf.queue_size /\ queue' = Append(queue, r)
          \/ queue' = queue
      BY <1>3 DEF TrySend
    <3>2. Len(Append(queue, r)) = Len(queue) + 1 /\ Len(queue) \in Nat
      BY <1>1
    <3> QED
      BY <1>2, <3>1, <3>2 DEF Bounded
  <2>3. \E to \in {"queued", "done"} : pc' = [pc EXCEPT ![r] = to]
    BY <1>3 DEF TrySend, Answer, Goto
  <2> QED
    BY <1>1, <2>1, <2>2, <2>3 DEF Bounded, IsLast
<1>4. CASE ShouldRetry(r)
  <2>1. UNCHANGED <<conf, refilled, queue, attempt>>
    BY <1>4 DEF ShouldRetry, router, limiter
  <2>2. \/ ~IsLast(r) /\ pc' = [pc EXCEPT ![r] = "backoff"]
        \/ pc' = [pc EXCEPT ![r] = "body"]
    BY <1>4 DEF ShouldRetry, Goto
  <2> QED
    BY <1>1, <2>1, <2>2 DEF Bounded, IsLast
<1>5. CASE Backoff(r)
  <2>1. /\ UNCHANGED <<conf, refilled, queue>> /\ pc[r] = "backoff"
        /\ pc' = [pc EXCEPT ![r] = "select"] /\ attempt' = [attempt EXCEPT ![r] = @ + 1]
    BY <1>5 DEF Backoff, Goto, router, limiter
  <2>2. attempt[r] + 1 < conf.max_retries
    BY <1>1, <1>2, <2>1 DEF Bounded, IsLast
  <2> QED
    BY <1>1, <1>2, <2>1, <2>2 DEF Bounded, IsLast
<1>6. CASE TryAcquire(r) \/ ReceivePermit(r) \/ EndBody(r) \/ NotifyWaiters(r) \/ Select(r)
           \/ Selected(r) \/ Respond(r) \/ BreakerStep(r)
  <2>1. UNCHANGED <<conf, refilled, queue, attempt>>
    <3>1. CASE TryAcquire(r) \/ ReceivePermit(r) \/ EndBody(r) \/ NotifyWaiters(r)
      BY <3>1, ZenonT(30) DEF TryAcquire, ReceivePermit, EndBody, NotifyWaiters
    <3>2. CASE Select(r) \/ Selected(r) \/ Respond(r) \/ BreakerStep(r)
      BY <3>2, ZenonT(30) DEF Select, Selected, Respond, BreakerStep, router, limiter
    <3> QED
      BY <1>6, <3>1, <3>2, ZenonT(30)
  <2>2. \/ UNCHANGED pc
        \/ \E to \in {"select", "enqueue", "notify", "done", "selecting", "send", "judge"} :
             pc' = [pc EXCEPT ![r] = to]
    BY <1>6 DEF TryAcquire, ReceivePermit, EndBody, NotifyWaiters, Select, Selected, Respond,
                BreakerStep, Goto, Answer
  <2> QED
    BY <1>1, <2>1, <2>2 DEF Bounded, IsLast
<1> QED
  BY <1>3, <1>4, <1>5, <1>6 DEF Handler

\* So does every step.
LEMMA BoundedStep == GInv /\ Bounded /\ [Next]_vars => Bounded'
<1> SUFFICES ASSUME GInv, Bounded, [Next]_vars PROVE Bounded'
  OBVIOUS
<1>1. ASSUME NEW r \in Load, Handler(r) PROVE Bounded'
  BY <1>1, HandlerBounded
<1>2. /\ ConfOK /\ queue \in Seq(Load) /\ pc \in [Threads -> Stages] /\ Load \subseteq Threads
      /\ refilled \in Nat
  BY ConfTypes DEF GInv, GTypes
<1>3. conf.refills \in Nat /\ conf.queue_size \in Nat
  BY <1>2, ConfigsAssumption DEF ConfOK
<1>4. CASE Recv
  <2>1. UNCHANGED <<conf, refilled, attempt, pc>> /\ queue # <<>> /\ queue' = Tail(queue)
    BY <1>4 DEF Recv
  <2>2. Len(Tail(queue)) = Len(queue) - 1 /\ Len(queue) \in Nat
    BY <1>2, <2>1
  <2>3. Len(queue') <= conf.queue_size
    BY <1>3, <2>1, <2>2 DEF Bounded
  <2> QED
    BY <2>1, <2>3 DEF Bounded, IsLast
<1>5. CASE Refill
  <2>1. UNCHANGED <<conf, queue, attempt, pc>> /\ refilled' = refilled + 1 /\ refilled < conf.refills
    BY <1>5 DEF Refill
  <2> QED
    BY <1>2, <1>3, <2>1 DEF Bounded, IsLast
<1>6. ASSUME NEW r \in Load, Disconnect(r) PROVE Bounded'
  BY <1>2, <1>6 DEF Disconnect, Bounded, IsLast, limiter
<1>7. CASE Process \/ (\E r \in Load : Acquire(r) \/ Expire(r)) \/ TimePasses \/ Stop
           \/ UNCHANGED vars
  <2>1. UNCHANGED <<conf, refilled, queue, attempt, pc>>
    BY <1>7 DEF Process, Acquire, TryAgain, Listen, Poll, Expire, TimePasses, Stop, vars, router,
                limiter
  <2> QED
    BY <2>1, ZenonT(30) DEF Bounded, IsLast
<1> QED
  BY <1>1, <1>4, <1>5, <1>6, <1>7 DEF Next, Handlers, Limiter, Processor

\* A task has one place in the loop of acquire.
PollingOK == polling \in [Threads -> {"try", "listen", "select"}]

\* It moves between these places only.
LEMMA PollingStep == PollingOK /\ [Next]_vars => PollingOK'
<1> SUFFICES ASSUME PollingOK, [Next]_vars PROVE PollingOK'
  OBVIOUS
<1>1. ASSUME NEW r \in Load, Handler(r) PROVE PollingOK'
  <2>1. CASE NotifyWaiters(r)
    <3>1. polling' = [t \in Threads |-> IF polling[t] = "select" THEN "try" ELSE polling[t]]
      BY <2>1 DEF NotifyWaiters
    <3> QED
      BY <3>1 DEF PollingOK
  <2>2. CASE UNCHANGED polling
    BY <2>2 DEF PollingOK
  <2>3. CASE TryAcquire(r) \/ TrySend(r) \/ ReceivePermit(r) \/ EndBody(r)
    BY <2>2, <2>3, ZenonT(30) DEF TryAcquire, TrySend, ReceivePermit, EndBody
  <2>4. CASE Select(r) \/ Selected(r) \/ Respond(r) \/ ShouldRetry(r) \/ Backoff(r) \/ BreakerStep(r)
    BY <2>2, <2>4, ZenonT(30) DEF Select, Selected, Respond, ShouldRetry, Backoff, BreakerStep, router,
       limiter
  <2> QED
    BY <1>1, <2>1, <2>3, <2>4, ZenonT(30) DEF Handler
<1>2. ASSUME NEW r \in Load, Acquire(r) \/ Expire(r) PROVE PollingOK'
  <2>1. UNCHANGED polling \/ \E to \in {"try", "listen", "select"} : polling' = [polling EXCEPT ![r] = to]
    BY <1>2 DEF Acquire, TryAgain, Listen, Poll, Expire
  <2> QED
    BY <2>1 DEF PollingOK
<1>3. ASSUME NEW r \in Load, Disconnect(r) PROVE PollingOK'
  BY <1>3, ZenonT(30) DEF Disconnect, limiter, PollingOK
<1>4. CASE Processor \/ Refill \/ TimePasses \/ Stop \/ UNCHANGED vars
  BY <1>4 DEF Processor, Recv, Process, Refill, TimePasses, Stop, vars, router, limiter, PollingOK
<1> QED
  BY <1>1, <1>2, <1>3, <1>4 DEF Next, Handlers, Limiter

\* For any load, capacity and queue: the bucket never holds more than its capacity
\* whatever is returned to it, the queue never more than its size, and no request is
\* sent more often than max_retries.
THEOREM LimitsKept == Spec => []TypeOK
<1>1. Init => Bounded
  <2> SUFFICES ASSUME Init PROVE Bounded
    OBVIOUS
  <2>1. ConfOK /\ refilled = 0 /\ queue = <<>> /\ attempt = [r \in Threads |-> 0]
    BY DEF Init, ConfOK
  <2>2. {conf.max_retries} \subseteq Nat \ {0} /\ {conf.queue_size, conf.refills} \subseteq Nat
    BY <2>1, ConfigsAssumption DEF ConfOK
  <2>3. Len(queue) = 0 /\ \A r \in Threads : pc[r] # "backoff"
    BY <2>1 DEF Init
  <2> QED
    BY <2>1, <2>2, <2>3 DEF Bounded
<1>2. GInv /\ Bounded /\ PollingOK => TypeOK
  <2> SUFFICES ASSUME GInv, Bounded, PollingOK PROVE TypeOK
    OBVIOUS
  <2>1. /\ ConfOK /\ tokens \in Nat /\ refilled \in Nat /\ tokens <= conf.capacity
        /\ queue \in Seq(Load)
    BY DEF GInv, GTypes
  <2>2. {conf.max_retries, conf.capacity} \subseteq Nat \ {0} /\ {conf.refills} \subseteq Nat
    BY <2>1, ConfigsAssumption DEF ConfOK
  <2>3. attempt \in [Threads -> 0 .. conf.max_retries - 1]
    BY <2>2 DEF Bounded
  <2> QED
    BY <2>1, <2>2, <2>3 DEF GInv, GTypes, Bounded, PollingOK, TypeOK, ConfOK
<1>3. Init => PollingOK
  BY DEF Init, PollingOK
<1> QED
  BY <1>1, <1>2, <1>3, GInitInv, GNextInv, BoundedStep, PollingStep, PTL DEF Spec
=============================================================================
