------------------------------ MODULE Gateway ------------------------------
(***************************************************************************)
(* The way of a request through the model gateway: the concurrency limiter *)
(* (middleware.rs and core/token_bucket.rs) with its queue and the task    *)
(* that serves it, the router's attempts with retries (core/retry.rs,      *)
(* routers/http/router.rs) and the circuit breaker of the worker, whose    *)
(* methods the requests' tasks run step by step.  The runtime has several  *)
(* threads, so tasks interleave between any two accesses to shared state.  *)
(*                                                                         *)
(* A client may disconnect whenever its handler awaits: the handler's      *)
(* future is dropped there and nothing after the await happens.            *)
(*                                                                         *)
(* Tokens are whole (every caller takes 1.0) and the bucket refills over   *)
(* time, at any moment; a timeout may expire whenever its task awaits.     *)
(***************************************************************************)
EXTENDS CircuitBreaker, Sequences, FiniteSets

CONSTANTS
    Configs,   \* the gateways, and the loads on them, to consider
    None

ASSUME ConfigsAssumption ==
    \A c \in Configs :
      /\ c.reqs \subseteq Threads /\ IsFiniteSet(c.reqs)
      /\ {c.capacity, c.max_retries} \subseteq Nat \ {0}
      /\ {c.queue_size, c.refills} \subseteq Nat /\ {c.timeouts, c.disconnects} \subseteq BOOLEAN
      /\ c.outcomes \subseteq {"ok", "retryable", "bad_request"}   \* statuses of the worker

ASSUME NoneAssumption == None \notin Threads

VARIABLES
    conf,      \* the member of Configs this behaviour has
    tokens,    \* TokenBucketInner.tokens
    refilled,  \* tokens that time has added
    queue,     \* the requests in the channel of the QueueProcessor
    popped,    \* the request that the QueueProcessor handles
    acquiring, \* the requests with a spawned task that waits for a token
    polling,   \* where that task is in the loop of acquire
    permit,    \* what was sent on the oneshot channel of each request
    pc,        \* where the handler of each request is
    attempt,   \* attempt of execute_response_with_retry
    response   \* the status of each request's last response

limiter == <<tokens, refilled, queue, popped, acquiring, polling, permit>>
vars == <<conf, limiter, pc, attempt, response, cbvars>>

Load == conf.reqs

Init ==
    /\ conf \in Configs
    /\ tokens = conf.capacity /\ refilled = 0
    /\ queue = <<>> /\ popped = None /\ acquiring = {}
    /\ polling = [r \in Threads |-> "try"]
    /\ permit = [r \in Threads |-> "none"]
    /\ pc = [r \in Threads |-> IF r \in Load THEN "new" ELSE "done"]
    /\ attempt = [r \in Threads |-> 0] /\ response = [r \in Threads |-> "none"]
    /\ CBInit

Goto(r, from, to) == pc[r] = from /\ pc' = [pc EXCEPT ![r] = to]
Answer(r, from, status) ==
    Goto(r, from, "done") /\ response' = [response EXCEPT ![r] = status]

-----------------------------------------------------------------------------
(* The token bucket.                                                       *)

\* try_acquire_sync, with the mutex held: take a token when there is one.
TakeToken == tokens >= 1 /\ tokens' = tokens - 1
NoToken == tokens < 1 /\ UNCHANGED tokens

\* Mutant: the capacity is not a limit.
ReturnTokenUncapped == tokens' = tokens + 1

\* Mutant: the token is not returned.
ReturnTokenLost == UNCHANGED tokens

\* return_tokens_sync
ReturnToken == tokens' = IF tokens < conf.capacity THEN tokens + 1 ELSE tokens

\* What try_acquire_sync adds for the time since last_refill; the bound on how often
\* only limits the model.
Refill ==
    /\ tokens < conf.capacity /\ refilled < conf.refills
    /\ tokens' = tokens + 1 /\ refilled' = refilled + 1
    /\ UNCHANGED <<conf, queue, popped, acquiring, polling, permit, pc, attempt, response, cbvars>>

-----------------------------------------------------------------------------
(* concurrency_limit_middleware.                                           *)

\* The handler takes a token at once, or tries the queue.
TryAcquire(r) ==
    /\ \/ TakeToken /\ Goto(r, "new", "select")
       \/ NoToken /\ Goto(r, "new", "enqueue")
    /\ UNCHANGED <<conf, refilled, queue, popped, acquiring, polling, permit, attempt, response, cbvars>>

\* try_send: a full queue, or none, is 429.
TrySend(r) ==
    /\ \/ /\ Len(queue) < conf.queue_size /\ queue' = Append(queue, r)
          /\ Goto(r, "enqueue", "queued") /\ UNCHANGED response
       \/ /\ Len(queue) >= conf.queue_size /\ UNCHANGED queue
          /\ Answer(r, "enqueue", "too_many")
    /\ UNCHANGED <<conf, tokens, refilled, popped, acquiring, polling, permit, attempt, cbvars>>

\* permit_rx.await returns.  The sender is not dropped unused while the processor and
\* its tasks live, so there is no closed channel.
ReceivePermit(r) ==
    /\ \/ permit[r] = "ok" /\ Goto(r, "queued", "select") /\ UNCHANGED response
       \/ permit[r] = "timeout" /\ Answer(r, "queued", "timeout")
    /\ permit' = [permit EXCEPT ![r] = "used"]
    /\ UNCHANGED <<conf, tokens, refilled, queue, popped, acquiring, polling, attempt, cbvars>>

\* QueueProcessor::run: the next request; when it has not waited too long it gets a
\* token, or a task that waits for one.
Recv ==
    /\ popped = None /\ queue # <<>>
    /\ popped' = Head(queue) /\ queue' = Tail(queue)
    /\ UNCHANGED <<conf, tokens, refilled, acquiring, polling, permit, pc, attempt, response, cbvars>>

Permit(r, status) == permit' = [permit EXCEPT ![r] = status]

\* Mutant: the permit is sent without a token.
GrantUnpaid(r) == UNCHANGED tokens /\ Permit(r, "ok")

\* A token is taken for the request and the permit sent, received or not.
Grant(r) == TakeToken /\ Permit(r, "ok")

Process ==
    /\ popped # None /\ popped' = None
    /\ \/ conf.timeouts /\ Permit(popped, "timeout") /\ UNCHANGED <<tokens, acquiring>>
       \/ Grant(popped) /\ UNCHANGED acquiring
       \/ NoToken /\ acquiring' = acquiring \cup {popped} /\ UNCHANGED permit
    /\ UNCHANGED <<conf, refilled, queue, polling, pc, attempt, response, cbvars>>

\* The loop of acquire, in the spawned task: try_acquire ...
TryAgain(r) ==
    /\ r \in acquiring /\ polling[r] = "try"
    /\ \/ Grant(r) /\ acquiring' = acquiring \ {r} /\ UNCHANGED polling
       \/ NoToken /\ polling' = [polling EXCEPT ![r] = "listen"] /\ UNCHANGED <<acquiring, permit>>
    /\ UNCHANGED <<conf, refilled, queue, popped, pc, attempt, response, cbvars>>

\* ... then notified(), which hears only what is notified from now on ...
Listen(r) ==
    /\ r \in acquiring /\ polling[r] = "listen" /\ polling' = [polling EXCEPT ![r] = "select"]
    /\ UNCHANGED <<conf, tokens, refilled, queue, popped, acquiring, permit, pc, attempt, response, cbvars>>

\* Mutant: only a notification lets the task try again.
PollWithoutTrying(r) ==
    /\ r \in acquiring /\ polling[r] = "select" /\ polling' = [polling EXCEPT ![r] = "listen"]
    /\ UNCHANGED <<conf, tokens, refilled, queue, popped, acquiring, permit, pc, attempt, response, cbvars>>

\* ... or 10 ms pass ...
Poll(r) ==
    /\ r \in acquiring /\ polling[r] = "select" /\ polling' = [polling EXCEPT ![r] = "try"]
    /\ UNCHANGED <<conf, tokens, refilled, queue, popped, acquiring, permit, pc, attempt, response, cbvars>>

\* ... or a timeout expires, that of acquire or that of acquire_timeout.  Both poll the
\* loop first, so a token that was taken is not given up.
Expire(r) ==
    /\ conf.timeouts
    /\ r \in acquiring /\ polling[r] = "select" /\ acquiring' = acquiring \ {r}
    /\ polling' = [polling EXCEPT ![r] = "try"] /\ Permit(r, "timeout")
    /\ UNCHANGED <<conf, tokens, refilled, queue, popped, pc, attempt, response, cbvars>>

\* The body of the response is sent or dropped, and TokenGuardBody with it:
\* return_tokens_sync unlocks the bucket before it notifies.
EndBody(r) ==
    /\ Goto(r, "body", "notify") /\ ReturnToken
    /\ UNCHANGED <<conf, refilled, queue, popped, acquiring, polling, permit, attempt, response, cbvars>>
NotifyWaiters(r) ==
    /\ Goto(r, "notify", "done")
    /\ polling' = [t \in Threads |-> IF polling[t] = "select" THEN "try" ELSE polling[t]]
    /\ UNCHANGED <<conf, tokens, refilled, queue, popped, acquiring, permit, attempt, response, cbvars>>

\* The client is gone while the handler awaits the permit, the worker or the backoff.
Disconnect(r) ==
    /\ conf.disconnects
    /\ pc[r] \in {"queued", "send", "backoff"} /\ pc' = [pc EXCEPT ![r] = "gone"]
    /\ UNCHANGED <<conf, limiter, attempt, response, cbvars>>

-----------------------------------------------------------------------------
(* The router: route_typed_request in RetryExecutor.                       *)

router == <<conf, limiter>>

\* select_worker_for_model asks the breaker through is_available.
Select(r) ==
    /\ Goto(r, "select", "selecting") /\ Call(r, "check")
    /\ UNCHANGED <<router, attempt, response>>

\* With an open circuit there is no worker: 503, which is retryable.
Selected(r) ==
    /\ at[r] = "idle"
    /\ \/ seen[r] # "open" /\ Goto(r, "selecting", "send") /\ UNCHANGED response
       \/ seen[r] = "open" /\ Goto(r, "selecting", "judge")
          /\ response' = [response EXCEPT ![r] = "retryable"]
    /\ UNCHANGED <<router, attempt, cbvars>>

\* The worker's response arrives and its outcome is recorded.
Respond(r) ==
    /\ Goto(r, "send", "judge")
    /\ \E outcome \in conf.outcomes :
         /\ response' = [response EXCEPT ![r] = outcome]
         /\ Call(r, IF outcome = "ok" THEN "s_reset" ELSE "f_reset")
    /\ UNCHANGED <<router, attempt>>

IsLast(r) == attempt[r] + 1 >= conf.max_retries

\* A retryable response is retried after a backoff, unless it was the last; otherwise
\* the response goes to the middleware, which guards its body.
ShouldRetry(r) ==
    /\ at[r] = "idle"
    /\ \/ /\ response[r] = "retryable" /\ ~IsLast(r)
          /\ Goto(r, "judge", "backoff")
       \/ /\ response[r] # "retryable" \/ IsLast(r)
          /\ Goto(r, "judge", "body")
    /\ UNCHANGED <<router, attempt, response, cbvars>>

\* Mutant: the attempts are not counted.
BackoffUncounted(r) ==
    /\ Goto(r, "backoff", "select")
    /\ UNCHANGED <<router, attempt, response, cbvars>>

Backoff(r) ==
    /\ Goto(r, "backoff", "select")
    /\ attempt' = [attempt EXCEPT ![r] = @ + 1]
    /\ UNCHANGED <<router, response, cbvars>>

\* A method of the breaker goes on.
BreakerStep(r) == Method(r) /\ UNCHANGED <<router, pc, attempt, response>>

Handler(r) ==
    \/ TryAcquire(r) \/ TrySend(r) \/ ReceivePermit(r) \/ EndBody(r) \/ NotifyWaiters(r)
    \/ Select(r) \/ Selected(r) \/ Respond(r) \/ ShouldRetry(r) \/ Backoff(r)
    \/ BreakerStep(r)
Handlers == \E r \in Load : Handler(r)
Processor == Recv \/ Process
Acquire(r) == TryAgain(r) \/ Listen(r) \/ Poll(r)
Limiter == Processor \/ \E r \in Load : Acquire(r) \/ Expire(r)
TimePasses == Elapse /\ UNCHANGED <<router, pc, attempt, response>>

Idle ==
    /\ queue = <<>> /\ popped = None /\ acquiring = {}
    /\ \A r \in Load : pc[r] \in {"done", "gone"} /\ at[r] = "idle"
Stop == Idle /\ UNCHANGED vars

Next ==
    \/ Handlers \/ Limiter \/ Refill \/ TimePasses
    \/ \E r \in Load : Disconnect(r)
    \/ Stop

Spec == Init /\ [][Next]_vars

\* The runtime runs tasks that can run, workers answer and clients read their
\* responses.  A timeout, where there are timeouts, has a deadline, which the loop of
\* acquire passes: it expires if the task awaits again and again.  That a token comes
\* in time is not assumed.
FairSpec ==
    /\ Spec /\ WF_vars(Handlers) /\ WF_vars(Processor)
    /\ \A r \in Threads : WF_vars(r \in Load /\ Acquire(r)) /\ SF_vars(r \in Load /\ Expire(r))

-----------------------------------------------------------------------------
(* Properties.                                                             *)

Routing == {"select", "selecting", "send", "judge", "backoff", "body"}
Stages == {"new", "enqueue", "queued", "notify", "done", "gone"} \cup Routing

\* Requests that have a token, and disconnected requests.
Holders == {r \in Load : pc[r] \in Routing \/ (pc[r] = "queued" /\ permit[r] = "ok")}
Gone == {r \in Load : pc[r] = "gone"}

\* A request is in one place, and the bucket holds at most its capacity.
TypeOK ==
    /\ conf \in Configs /\ tokens \in 0 .. conf.capacity /\ refilled \in 0 .. conf.refills
    /\ Len(queue) <= conf.queue_size /\ popped \in Load \cup {None} /\ acquiring \subseteq Load
    /\ polling \in [Threads -> {"try", "listen", "select"}]
    /\ permit \in [Threads -> {"none", "ok", "timeout", "used"}]
    /\ pc \in [Threads -> Stages]
    /\ attempt \in [Threads -> 0 .. conf.max_retries - 1]

\* However requests, queue and tasks race, no more are under way than the bucket had
\* tokens for: its capacity and what time has added.
AdmittedHaveTokens == tokens + Cardinality(Holders) <= conf.capacity + refilled

\* Tokens come back: when the time adds none, every token that is missing is with a
\* request under way, or was lost with a request whose client disconnected, one each.
TokensComeBack == tokens + Cardinality(Holders) + Cardinality(Gone) >= conf.capacity

\* The inductive form.  A request that waits in the queue, with the processor or in a
\* task waits in one of them and has no permit; a disconnected request has cost its
\* token only when it waits no more.
Waiting == {queue[i] : i \in 1 .. Len(queue)} \cup acquiring \cup ({popped} \ {None})
Lost == Gone \ Waiting
WaitsOnce ==
    /\ \A i, j \in 1 .. Len(queue) : queue[i] = queue[j] => i = j
    /\ \A i \in 1 .. Len(queue) : queue[i] \notin acquiring /\ queue[i] # popped
    /\ popped \notin acquiring
PermitsFresh ==
    /\ \A r \in Waiting : permit[r] = "none" /\ pc[r] \in {"queued", "gone"}
    /\ \A r \in Load : pc[r] \in {"new", "enqueue"} => permit[r] = "none"
TokensAccounted ==
    /\ tokens + Cardinality(Holders) <= conf.capacity + refilled
    /\ tokens + Cardinality(Holders) + Cardinality(Lost) >= conf.capacity

\* A free token does not stay in the bucket while a task waits for one: the notification
\* that a task misses between try_acquire and notified(), and the refill that nobody
\* notifies about, are made up for by the poll, also when no timeout expires.
FreeTokenIsTaken == tokens >= 1 /\ acquiring # {} ~> tokens < 1 \/ acquiring = {}

\* Every request is answered, unless its client left.
EveryoneAnswered == <>(\A r \in Load : pc[r] \in {"done", "gone"})
=============================================================================
