--------------------------- MODULE CircuitBreaker ---------------------------
(***************************************************************************)
(* The circuit breaker that the model gateway keeps for each worker        *)
(* (core/circuit_breaker.rs).  It has no lock: its methods are sequences   *)
(* of atomic loads, stores, swaps and one compare-and-swap, and each of    *)
(* these is a step here, so the methods of several threads interleave.     *)
(* Time is the one fact the code asks for: whether timeout_duration has    *)
(* passed since last_state_change_ms.                                      *)
(***************************************************************************)
EXTENDS Integers

CONSTANTS
    Threads,            \* threads that call the methods
    FailureThreshold,   \* failure_threshold
    SuccessThreshold    \* success_threshold

ASSUME ThresholdsAssumption == FailureThreshold \in Nat \ {0} /\ SuccessThreshold \in Nat \ {0}

VARIABLES
    state,
    consecutive_failures, consecutive_successes,
    timed_out,   \* timeout_duration has passed since last_state_change_ms
    at,          \* the next atomic operation of each thread, or "idle"
    local,       \* the count a thread got from fetch_add
    seen         \* the state that state() returned to a thread

cbvars == <<state, consecutive_failures, consecutive_successes, timed_out, at, local, seen>>
counts == <<consecutive_failures, consecutive_successes>>

States == {"closed", "open", "half_open"}
Places == {"idle", "check", "elapsed", "cas", "reread", "half_stamp", "half_cf", "half_cs",
           "s_reset", "s_add", "s_load", "f_reset", "f_add", "f_load",
           "close", "closed_stamp", "closed_cf", "closed_cs", "open", "open_stamp", "open_cs"}

CBInit ==
    /\ state = "closed" /\ consecutive_failures = 0 /\ consecutive_successes = 0
    /\ timed_out = FALSE
    /\ at = [t \in Threads |-> "idle"] /\ local = [t \in Threads |-> 0]
    /\ seen = [t \in Threads |-> "closed"]

Move(t, from, to) == at[t] = from /\ at' = [at EXCEPT ![t] = to]
Return(t, from, result) == Move(t, from, "idle") /\ seen' = [seen EXCEPT ![t] = result]

\* A store and the operation after it.
StoreFailures(t, from, to) ==
    /\ Move(t, from, to) /\ consecutive_failures' = 0
    /\ UNCHANGED <<state, consecutive_successes, timed_out, local, seen>>
StoreSuccesses(t, from, to) ==
    /\ Move(t, from, to) /\ consecutive_successes' = 0
    /\ UNCHANGED <<state, consecutive_failures, timed_out, local, seen>>
StoreTime(t, from, to) ==
    /\ Move(t, from, to) /\ timed_out' = FALSE
    /\ UNCHANGED <<state, counts, local, seen>>

\* A thread enters state() (which can_execute calls), record_success or record_failure.
Call(t, method) ==
    /\ Move(t, "idle", method)
    /\ UNCHANGED <<state, counts, timed_out, local, seen>>

\* check_and_update_state_returning: a circuit that is open for long enough becomes
\* half-open; the thread that makes the change resets the counters after it.
LoadState(t) ==
    /\ \/ state # "open" /\ Return(t, "check", state)
       \/ state = "open" /\ Move(t, "check", "elapsed") /\ UNCHANGED seen
    /\ UNCHANGED <<state, counts, timed_out, local>>
LoadTime(t) ==
    /\ \/ ~timed_out /\ Return(t, "elapsed", "open")
       \/ timed_out /\ Move(t, "elapsed", "cas") /\ UNCHANGED seen
    /\ UNCHANGED <<state, counts, timed_out, local>>
CompareExchange(t) ==
    /\ \/ state = "open" /\ state' = "half_open" /\ Move(t, "cas", "half_stamp")
       \/ state # "open" /\ UNCHANGED state /\ Move(t, "cas", "reread")
    /\ UNCHANGED <<counts, timed_out, local, seen>>
Reread(t) == Return(t, "reread", state) /\ UNCHANGED <<state, counts, timed_out, local>>
EnterHalfOpen(t) ==
    \/ StoreTime(t, "half_stamp", "half_cf")
    \/ StoreFailures(t, "half_cf", "half_cs")
    \/ /\ Return(t, "half_cs", "half_open") /\ consecutive_successes' = 0
       /\ UNCHANGED <<state, consecutive_failures, timed_out, local>>

-----------------------------------------------------------------------------

\* record_success: the count is taken before the state is read.
AddSuccess(t) ==
    /\ Move(t, "s_add", "s_load")
    /\ consecutive_successes' = consecutive_successes + 1
    /\ local' = [local EXCEPT ![t] = consecutive_successes']
    /\ UNCHANGED <<state, consecutive_failures, timed_out, seen>>

\* Mutant: one success too many is asked for.
MayCloseLate(t) == state = "half_open" /\ local[t] > SuccessThreshold

MayClose(t) == state = "half_open" /\ local[t] >= SuccessThreshold

JudgeSuccess(t) ==
    /\ Move(t, "s_load", IF MayClose(t) THEN "close" ELSE "idle")
    /\ local' = [local EXCEPT ![t] = 0]
    /\ UNCHANGED <<state, counts, timed_out, seen>>
RecordSuccess(t) ==
    StoreFailures(t, "s_reset", "s_add") \/ AddSuccess(t) \/ JudgeSuccess(t)

\* record_failure
AddFailure(t) ==
    /\ Move(t, "f_add", "f_load")
    /\ consecutive_failures' = consecutive_failures + 1
    /\ local' = [local EXCEPT ![t] = consecutive_failures']
    /\ UNCHANGED <<state, consecutive_successes, timed_out, seen>>

\* Mutant: the count is compared before it is taken.
MayOpenLate(t) == state = "half_open" \/ (state = "closed" /\ local[t] > FailureThreshold)

MayOpen(t) == state = "half_open" \/ (state = "closed" /\ local[t] >= FailureThreshold)
JudgeFailure(t) ==
    /\ Move(t, "f_load", IF MayOpen(t) THEN "open" ELSE "idle")
    /\ local' = [local EXCEPT ![t] = 0]
    /\ UNCHANGED <<state, counts, timed_out, seen>>
RecordFailure(t) ==
    StoreSuccesses(t, "f_reset", "f_add") \/ AddFailure(t) \/ JudgeFailure(t)

\* transition_to: an unconditional swap; whoever changed the state resets what the
\* new state needs.
Swap(t, from, new, next) ==
    /\ state' = new
    /\ Move(t, from, IF state # new THEN next ELSE "idle")
    /\ UNCHANGED <<counts, timed_out, local, seen>>

TransitionToClosed(t) ==
    \/ Swap(t, "close", "closed", "closed_stamp")
    \/ StoreTime(t, "closed_stamp", "closed_cf")
    \/ StoreFailures(t, "closed_cf", "closed_cs")
    \/ StoreSuccesses(t, "closed_cs", "idle")
TransitionToOpen(t) ==
    \/ Swap(t, "open", "open", "open_stamp")
    \/ StoreTime(t, "open_stamp", "open_cs")
    \/ StoreSuccesses(t, "open_cs", "idle")

Elapse == ~timed_out /\ timed_out' = TRUE /\ UNCHANGED <<state, counts, at, local, seen>>

Method(t) ==
    \/ LoadState(t) \/ LoadTime(t) \/ CompareExchange(t) \/ Reread(t) \/ EnterHalfOpen(t)
    \/ RecordSuccess(t) \/ RecordFailure(t) \/ TransitionToClosed(t) \/ TransitionToOpen(t)

CBNext ==
    \/ \E t \in Threads :
         Method(t) \/ \E method \in {"check", "s_reset", "f_reset"} : Call(t, method)
    \/ Elapse

CBSpec == CBInit /\ [][CBNext]_cbvars

-----------------------------------------------------------------------------
(* Properties.                                                             *)

Quiet == \A t \in Threads : at[t] = "idle"

\* However the calls interleave, when they are over a closed circuit has fewer failures
\* in a row than open it: record_failure never leaves a failing worker in service.
NotStuckClosed == Quiet /\ state = "closed" => consecutive_failures < FailureThreshold

\* When the calls are over, a half-open circuit has fewer successes in a row than close
\* it: record_success never leaves a recovered worker on trial.
NotStuckHalfOpen == Quiet /\ state = "half_open" => consecutive_successes < SuccessThreshold

\* The inductive form: the threshold is passed only while some thread is about to
\* change the state or to reset the count.
ClosedInv ==
    state = "closed" /\ consecutive_failures >= FailureThreshold =>
        \E t \in Threads : \/ at[t] \in {"open", "closed_stamp", "closed_cf"}
                           \/ at[t] = "f_load" /\ local[t] >= FailureThreshold
HalfOpenInv ==
    state = "half_open" /\ consecutive_successes >= SuccessThreshold =>
        \E t \in Threads : \/ at[t] \in {"close", "half_stamp", "half_cf", "half_cs"}
                           \/ at[t] = "s_load" /\ local[t] >= SuccessThreshold
CBTypes ==
    /\ state \in States /\ at \in [Threads -> Places] /\ timed_out \in BOOLEAN
    /\ consecutive_failures \in Nat /\ consecutive_successes \in Nat
    /\ local \in [Threads -> Nat] /\ seen \in [Threads -> States]
CBInv == CBTypes /\ ClosedInv /\ HalfOpenInv
=============================================================================
