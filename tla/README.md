# A TLA+ model of the SGLang serving runtime

This directory models three parts of the repository:

- the scheduler in `src/python/sglang/srt`, which decides, iteration by iteration,
  which requests run, on which pages of KV memory, and what happens to their results;
- the tokenizer manager in front of it, whose coroutines admit requests, pause the
  server, update the weights and load and unload adapters;
- the path of a request through the model gateway (`src/sgl-model-gateway`): rate
  limiter, retries and circuit breaker.

The rest of the repository is inventoried in `PROJECT.json` with the reason it is not
modelled. The repository has about 705,000 lines, most of them kernels, models and
layers. The definitions here stand for less than one percent of them: the
concurrent control code above, not the numeric code.

Contents: [the system](#the-system), [the modules](#the-modules),
[runs](#runs), [properties](#properties), [bounds](#bounds),
[fairness](#fairness), [proofs](#proofs), [findings](#findings),
[not modelled](#not-modelled), [next steps](#next-steps).

## The system

A request reaches an HTTP or gRPC entrypoint, is tokenized by the
*tokenizer manager* (an asyncio process) and sent over ZeroMQ to one or more
*scheduler* processes. A scheduler owns one model replica. Its event loop
repeats: receive requests, choose the next batch, launch it on the GPU, process
a result. Outputs go to the *detokenizer* and back to the tokenizer manager. In
front of several servers the Rust *model gateway* routes and retries.

What makes this hard to test:

- *Overlap.* `event_loop_overlap` launches batch *n+1* before it has processed
  the result of batch *n*. A request may finish, or be retracted, with a
  result still in flight.
- *Shared memory.* Requests share the KV pages of common prefixes through a radix
  tree. A page is free, cached, or owned by a request. Locks on tree nodes keep
  eviction away from pages in use. Whoever computes a prefix that is already
  cached frees its own copy and moves to the cached one.
- *Over-commitment.* Admission reserves only part of what a request may
  generate. When the pool runs out, requests are retracted and later start again
  from the queue. Priority preemption takes memory and slots from running requests.
- *Partial prefills.* A long prompt is computed in chunks. The chunked request is
  in no queue between its chunks, and with mixed chunked prefill the running
  requests decode inside the prefill batches.
- *Coroutines.* The tokenizer manager (`FanOutCommunicator`, the LoRA registry, the
  reader-writer lock, pause and updates) is asyncio code in which every `await` that
  suspends is a place where another call may run. A woken coroutine does not run at once.
- *Two ways back.* Outputs return through the detokenizer, other answers of the
  scheduler directly, so one may overtake the other.
- *Threads without locks.* The gateway's breaker is a handful of atomics, and its
  handlers are futures that are dropped at an `await` when the client leaves.

| Part | State | Operations | Module |
| --- | --- | --- | --- |
| `managers/communicator.py` | `_result_event`, `_result_values`, `_ready_queue` | `queueing_call`, `watching_call`, `handle_recv` | `FanOutCommunicator` |
| `mem_cache/radix_cache.py` | nodes, `lock_ref`, `evictable_leaves`, `evictable_size_`, `protected_size_` | match, split, insert, lock, evict | `RadixTree` |
| `mem_cache/allocator.py`, `mem_cache/common.py` | free pages, rows of `req_to_token` | alloc, free, `cache_finished_req`, `cache_unfinished_req` | `KVCache` |
| `managers/schedule_policy.py` | `PrefillAdder` budgets | `add_one_req`, `add_chunked_req`, `preempt_to_schedule` | `Scheduler` |
| `managers/schedule_batch.py` | `Req`, `ScheduleBatch` | prepare, filter, merge, retract, release | `Scheduler` |
| `managers/scheduler.py` | queues, `running_batch`, `last_batch`, `chunked_req` | the event loops | `Scheduler` |
| `managers/scheduler_output_processor_mixin.py` | results in flight | `process_batch_result_*` | `Scheduler` |
| `utils/aio_rwlock.py` | `_readers`, `_writer_active`, `_waiting_writers` | acquire and release, reader and writer | `RWLock` |
| `lora/lora_registry.py`, `lora/lora_manager.py` | registered adapters, counters; loaded adapters | register, unregister, acquire, release, `wait_for_unload` | `LoRARegistry`, `TokenizerManager` |
| `managers/tokenizer_manager.py`, `managers/tokenizer_control_mixin.py` | `rid_to_state`, `is_pause`, `model_update_lock`, `lora_update_lock` | generate, abort, update, pause, continue, load, unload, `handle_loop` | `TokenizerManager` |
| gateway `core/circuit_breaker.rs` | state, counters, time of change | `can_execute`, `record_success`, `record_failure` | `CircuitBreaker` |
| gateway `middleware.rs`, `core/token_bucket.rs`, `core/retry.rs`, `routers/http/router.rs` | tokens, queue, permits, attempts | limiter, queue processor, retries | `Gateway` |

All other parts are listed as components in `PROJECT.json`.

## The modules

**FanOutCommunicator** models the request/response primitive. An element of `Calls`
is one invocation of `__call__`, and its `pc` says at which `await` it is.
The code between two awaits is one action: `QueueingCall`, `QueueingReady` (after
`ready_event.wait()`), `QueueingFinish`, `WatchingCall`, `WatchingFinish`,
`HandleRecv`. Events and value lists are named by the call that created them,
so a call that holds an old event is visible. `inbox` is the ZeroMQ channel to
each recipient; recipients answer in order, as the single-threaded schedulers do.

**RadixTree** has the operations of the tree on a record. A node is named by the
token path from the root to its end. Its key is then the part below its
parent, and a split adds one name. `lock`, `leaves`, `evictable` and `protected`
are the counters of the code, updated where the code updates them and not
derived from each other, so that they can disagree. `EvictChoices` is the set
of outcomes of `evict` under any eviction policy.

**KVCache** adds the pages. `free[p]` counts how often a page is on the free
lists, so a double free shows. `slots[p]` says which token prefix each slot of
a page holds the KV of; a freed page loses its contents. With it "the right KV is
read" is a state predicate. `CacheFinishedReq` and `CacheUnfinishedReq`
are the two functions that hand pages between a request and the tree.
`PageSize = 1` is `TokenToKVPoolAllocator`, larger sizes are
`PagedTokenToKVPoolAllocator`.

**Scheduler** is the event loop. It is one thread, and `pc` is its program counter:

| `pc` | code | actions |
| --- | --- | --- |
| `begin` | `recv_requests`, start of `get_next_batch_to_run` | `AddRequestToQueue`, `AbortWaiting`, `GetNextBatchToRun` |
| `policy` | `_get_new_batch_prefill_raw`, `calc_priority`, new adder | `SkipPrefill`, `StartPrefill` |
| `prefill` | the loop over the waiting queue | `AddOneReq`, `RejectOneReq`, `PreemptToSchedule`, `NoNewBatch`, `NewPrefillBatch` |
| `preempt` | the release loop of `preempt_to_schedule` | `PreemptOne` |
| `evict` | `evict_from_tree_cache`, then `evict.then` | `EvictTreeCache` |
| `extend` | `alloc_for_extend`, rest of `prepare_for_extend` | `AllocForExtend` |
| `decode`, `check`, `checked` | `update_running_batch`, `check_decode_mem`, `retract_decode` | `UpdateRunningBatch`, `CheckDecodeMem`, `PrepareForDecode`, `RetractOne`, `AbortLast` |
| `decode_alloc` | `alloc_for_decode` and the launch | `AllocForDecode` |
| `process` | `process_batch_result`, end of the iteration | `ProcessBatchResultPrefill`, `ProcessBatchResultDecode`, `EndIteration` |

Since the loop is sequential, splitting it into these steps adds no
interleaving; it keeps each nondeterministic choice (which leaves are evicted, which
token is sampled) in one place. The choices are:

- the order of the waiting queue, which is any order (a superset of every policy);
- the eviction order;
- the sampled tokens, and whether a token ends its request (stop conditions,
  and aborts of running requests, which set `to_finish`);
- `new_token_ratio`, at its extremes 0 and 1 in every iteration. The
  code lets it decay and raises it after a retraction.

A batch's KV writes are recorded when it is launched, because the GPU executes
batches in launch order. `Pending(r)` is the token a launched batch
will have sampled: a decode batch launched before that result is processed
reads it through `FutureMap`.

`AbortWaiting` and `AbortLast` set `finished`, where the code drops the request and
tells the client. `reset_for_retract` keeps `fill_ids`; the model clears `fill`,
which `init_next_round_input` recomputes before any use.

**SchedulerState** declares the variables of the loop, the server's arguments and the
records of requests, batches and adders. `Scheduler` and **RequestFlow** share it. `RequestFlow` is the
scheduler with memory, budgets and priorities forgotten: which request is queued, admitted, in
a batch, running or preempted, and which results are in flight. It allows any request to be admitted, with all its tokens or as the one
that is chunked, and any running request to be a victim. Of the budgets it keeps one consequence: without
preemption nobody is admitted after a chunk. Its action for an action of `Scheduler` makes the same moves:
`Merge` is `GetNextBatchToRun`, `Start` is `StartPrefill`, `Admit` is `AddOneReq`, `Build` is `NewPrefillBatch`,
`ExtendBatch` and `DecodeBatch` are the allocations and launches, `ProcessNext` is one request of a
result. `Proceed` covers the steps that move nobody. That `Scheduler` implements it is proved, not model-checked.

**SeqHelpers** has the slices, filters and sums the modules use. They are written over
`Cardinality` instead of taken from `SequencesExt`: the prover knows nothing about `SelectSeq`, and the modules that
`SequencesExt` brings along slow down every proof.

**PrefixCache** is what the memory promises, without tree, locks, sizes or
scheduling: a map from paths to pages; requests that read a path and own the rest
of their row; steps `Admit`, `Grow`, `Share`, `Release`, `Evict`.
**SchedulerRefinesCache** is the refinement mapping from `Scheduler`, checked as
the property `ImplementsPrefixCache`.

**RWLock** is the lock as a specification of its own: a coroutine is out, asleep,
woken, reading or writing, and each method is one step up to its wait. `_lock` is never held
across a suspension other than the wait, which gives it up. **LoRARegistry** has the
registry's methods as operators on a record.

**TokenizerManager** composes both. Its coroutines are requests and control operations,
and `pc` says where each is suspended:

| `pc` | code | actions |
| --- | --- | --- |
| `new`, `gate`, `lock` | `_init_req_state`, `is_pause_cond.wait_for`, `model_update_lock` | `Receive`, `PassGate`, `WakeReader`; `UpdateStart`, `WakeWriter` |
| `resolve`, `count` | `_validate_and_resolve_lora`, `acquire` | `Resolve`, `CountList` |
| `load`, `loading`, `drain`, `unloading` | `load_lora_adapter` with its eviction loop, `unload_lora_adapter` | `LoadStart`, `LoadReturn`, `UnloadStart`, `Drain`, `UnloadReturn` |
| `tokenize`, `wait`, `cancelled` | `_tokenize_one_request`, `_wait_one_response`, `create_abort_task` | `Tokenize`, `Resume`, `Disconnect`, `AbortTask` |
| `updating`, `poll` | the wait for the update, the loop of `pause_generation` | `UpdateReturn`, `Pause`, `PausePoll`, `Continue` |

`HandleBatchOutput`, `ReleaseTask` and `HandleReply` are `handle_loop` and the task it
creates. The `Engine*` actions are the scheduler's handlers of what the manager
sends, over a scheduler reduced to where each request is (`queued`, `running`,
`stopping`), whether it is paused and which adapters it has. Which of these the manager
can tell apart decides what is kept; the details are in `Scheduler`. The
variable `conf` is the server and its load, chosen in `Init` from `Configs`, so one run
covers several loads. `Scheduler` and `Gateway` do the same.

**CircuitBreaker** takes one atomic operation per step. `at[t]` is the next one of
thread `t`, `local[t]` the count it got from `fetch_add`. Time is one Boolean, whether
`timeout_duration` has passed since the last store of the time. **Gateway** runs these
methods from the tasks of its requests, behind the
limiter: `TryAcquire`, `TrySend`, `ReceivePermit` are the middleware, `Recv` and `Process` the
queue processor, `Select` to `Backoff` an attempt of the
router. `Disconnect` drops a handler at one of its awaits. The tasks of the processor run the loop of
`acquire`, where `polling[r]` is the place of the task of `r`: `TryAgain` is `try_acquire`, `Listen` creates the
`notified()` of the `select!`, `Poll` is its `sleep`, `Expire` either timeout. `EndBody` returns a
token and `NotifyWaiters` wakes the tasks that listen, in two steps, as the code unlocks the
bucket in between. A task between `TryAgain` and `Listen` misses the notification.

`MC*` modules give the constants values for TLC. `*Proofs` modules hold the
theorems, `OperatorLemmas` and `SchedulerSteps` lemmas for those of the scheduler. Definitions under a comment that starts with "Mutant" are plausible bugs, each
a variant of the definition that follows it; they are used nowhere in the
specifications. Substituting one for its original shows that a property
depends on that line of the code. `PROJECT.json` lists, for each property of each run,
the one that breaks it.

## Runs

`tlc -config X.cfg MODULE`, where the module is the `MC` module of the component. With two
workers the largest takes about two minutes.

| cfg | configuration | what it shows |
| --- | --- | --- |
| `FanOut` | four calls, two recipients, both modes; 3,354 states | responses never mix, all calls return |
| `FanOutAssertion` | the same | **violated**, see [findings](#findings) |
| `PrefixCache` | two requests, four pages, paths to length 3 | the abstract promises |
| `SchedulerToken` | four servers with the overlap loop and pages of one token: chunked prefill of shared prefixes, requests that outgrow the pool, mixed chunked prefill, preemption among three requests; 185,024 states | KV contents, locks, places and outputs are right with results one batch late, and every queued request finishes |
| `SchedulerPaged` | both loops, 8 pages of 2 tokens, prompts of 3 and 5 that share one page; 22,323 states | conservation, splits, tails, retraction at page boundaries, refinement of `PrefixCache` |
| `SchedulerPreemptLost`, `SchedulerMixedDecode` | tighter pools | **violated**, see [findings](#findings) |
| `TokenizerManager` | seven loads, see [bounds](#bounds); 136,801 states | updates exclude requests, adapters in use stay loaded, everyone returns |
| `TokenizerPauseRace`, `TokenizerFlush`, `TokenizerAbort` | one load each | **violated**, see [findings](#findings) |
| `Gateway` | three requests for one token and a queue of one; two that never time out; two that retry; 162,616 states | tokens are accounted for, a free token is taken, the breaker is never stuck, everyone is answered |

Deadlock is checked in all of them but `TokenizerPauseRace`. The event loop never stops, so a deadlock of
`Scheduler` would be an allocation that raises: the guards of
`AllocForExtend` and `AllocForDecode` are the conditions under which the code
does not throw. In the other components a step (`AllReturned`, `Stop`) that
is enabled only when everyone has returned and nothing is under way stands for
the end, so a coroutine or task that waits for ever is a deadlock.

In `TokenizerPauseRace` nobody continues the paused server, so requests may wait at the
gate for ever.

## Properties

Memory: `PagesConserved` (each page in exactly one place), `CachedKVIsRight` and
`RowKVIsRight` (contents, not only ownership), `LocksCounted`,
`EvictableAccounting` (four redundant data structures agree),
`ImplementsPrefixCache` (what a request reads from the tree stays there). Capacity: `PrefillFits`
and `DecodeFits` (the two exceptions that end a scheduler are not raised). Requests:
`NoRequestLost`, `OnePlace`, `OneChunkedReq`. Results: `OutputFinal` (tokens are never taken back,
and none is added after the end), `OutputInOrder` (a token is appended exactly where it was sampled).

Tokenizer manager: `RWExclusion`, `NoLostWakeup`, `UsesLock` (the lock, and that the
manager uses it only through its methods); `NoRequestWhileLocked` and `UpdateQuiet` (weights do
not change under a request that the engine works on); `OwnAnswer` (an update that has
returned was done); `AdapterLoaded`, `LoadedBounded` (adapters in use stay loaded, within the
limit); `HandleLoopSafe` (no message ends `handle_loop`).

Gateway: `AdmittedHaveTokens` (no more requests under way than tokens, those that time has
added included), `TokensComeBack` (only a disconnected client loses a token),
`NotStuckClosed`, `NotStuckHalfOpen` (when no method is running, the counters are below the
threshold that the state waits for).

Communicator: `OneInFlight`, `CompleteResults`, and in `TypeOK` that no list of responses grows past
`fan_out`, which the comparison in `handle_recv` relies on.

Liveness: `EveryRequestFinishes`, `CallsTerminate`, `AllReturn`, `EveryoneAnswered`, `FreeTokenIsTaken` (no
task of the limiter sleeps next to a free token, although notifications are lost).

Some properties hold under conditions that belong to the statement:

- `NoRequestLost` and `DecodeFits` hold in the configurations of their passing runs
  (a pool large enough for the refused admission not to occur after a
  preemption; no mixed chunks) and fail in those of the findings.
- `UpdateQuiet` holds when updates either take the lock or come after a pause that met no
  other update, and fails in the load of `TokenizerPauseRace`.
- `AdapterLoaded`, `OwnAnswer` and `AllReturn` hold for the loads of `TokenizerManager`.
  With an unload of the adapter that a list request names, with two updates from disk during
  one pause, or with a running timeout next to an unload of its adapter, respectively, the
  model violates them; the hazards in `PROJECT.json` say how. The first
  case disagrees with the comment in `_unload_lora_adapter_locked` that unloading starts
  "only after all ongoing requests using this LoRA adapter are finished". None of the three
  has a run of its own: they were seen on loads that are not kept here, and are recorded as hazards.

## Bounds

*Scheduler.* Two requests suffice for sharing, duplicate prefixes, locks on a common ancestor and
eviction of one request's pages for another. Three are used where a third party
matters (preempted, preempting, bystander). Two tokens give prompts that are equal,
distinct, or diverge after a shared page. `max_new` is larger than `clip_max_new` wherever
over-commitment is the point, as when `max_new_tokens` exceeds
`CLIP_MAX_NEW_TOKENS`. Pools are sized between "one request fits" and "all fit", which
is where eviction, refusal and retraction occur. `MaxPages` only bounds the sets of the
refinement mapping. Requests (and pages, in `PrefixCache`) are interchangeable, so the runs of
`Scheduler` and `PrefixCache` without a liveness property use symmetry. The others do not.
The pool of `SchedulerPaged` shows why a size matters: with five pages
two requests are never in memory together, and with eight pages but `max_new = 4` nothing is
retracted. In both cases some property could not fail, which its mutant shows.

*TokenizerManager.* A load is one to three requests and up to three operations: `Lora` (two adapters
for one place, so that requests evict each other's adapters while an unload waits, with a
full queue and waiting timeouts), `Pinned` (a pinned adapter, loads that fail, an unknown
name), `Listed` (an adapter named in a list), `Weights` (two updates against requests that fail
validation or whose clients leave), `Paused` in the three modes (pause, update, and a `continue` at any time
after the pause). `conf.faults` names what may go wrong. `PausePoll` turns again only after the scheduler
has seen the last abort, which bounds the channel.

*Gateway.* `Limited`: three requests, one token, a queue of one, one refill, and clients that
disconnect; one holds the token, one is queued, one is refused or with a task. `Patient`: two requests, one token, no
timeout and no disconnect, so that only the poll makes up for a lost notification. `Retrying`: two requests
with two attempts each and every outcome, which take the breaker (thresholds 2 and 1)
through all its states with two methods interleaved. `refills` bounds how often time adds a token.
The proofs cover any number of threads and any thresholds.

## Fairness

`Scheduler`: the event loop is a `while True` of one thread, so some step is taken
for ever: `[]<><<Next>>_vars`. Nothing is assumed about which request the
queue's order favours or how long a request generates, up to `max_new`. New
requests and aborts are finitely many.
`FanOutCommunicator`: weak fairness of each coroutine (asyncio runs what is
ready) and of each recipient (a live scheduler answers what it was sent).
`TokenizerManager`: weak fairness of the coroutines together, of the loop of a pause (it
sleeps and turns again), of the tasks, of `handle_loop`, of the scheduler's messages and of its
batches. Disconnects and waiting timeouts are not fair: they need not happen.
`Gateway`: weak fairness of the handlers together (the runtime polls what can run, workers answer,
clients read), of the processor, and of each task in the loop of `acquire` (its sleep of 10 ms ends); strong
fairness of each task's timeout, whose deadline is fixed: a task that comes to the `select!` again and again
finds it passed. `Patient` has no timeouts. That a token becomes free in time is not assumed.

## Proofs

Checked by TLAPS for every value of the constants that satisfies the named assumptions.

`FanOutCommunicatorProofs`: `TypeCorrect`, `OneInFlightHolds`, `CompleteResultsHold`.
`OneInFlight` is not inductive: to see that the request of a finished call has left all
inboxes one needs to know what is in its list. The invariant `IInv` adds that the list
of the current event holds exactly the responses no longer in an inbox
(`Collected`), that a fired event has all of them (`FiredIsComplete`), that no list has responses to
another request (`OwnResponses`, from which the bound in `TypeOK` follows), and that
whoever waits in queueing mode waits for the current event (`WaitingForCurrent`). One lemma
per action. The assumptions are that there are finitely many recipients and at least one, and that `NoCall`
is not a call.

`PrefixCacheProofs`: `PagesPartitioned` (no page is in two places), `NoPageLeaks`,
`PinnedStays`, `CacheReachable`. The invariant is the conjunction of all four
properties and the types, and each needs the others. A page freed as a duplicate
is the request's own only because pinned paths are cached on the row's pages.
`Share` puts a page under one path only because pages are in one place. An evicted
path takes its descendants along only because nobody pins them, which for a reader
further down needs prefix closure. `Paths` may be any prefix-closed set of paths, `Rows` any set of
rows.

`SchedulerRefinesCache` connects the second set of theorems to the code's data
structures, on the instances of `SchedulerPaged`.

The scheduler: where requests are, that their outputs are final, in which order their chunks and tokens come, for
any set of requests, pool, page size, prompts and server arguments. The argument has two layers.

- `RequestFlow` and its invariants. `RequestFlowInvariant` defines them, `RequestFlowProofs` has one lemma per action
  for each and combines them to `FlowInvariant` (`FlowSpec => []PlaceInv`) and `FlowOrder` (`OrderInv`, and the action
  property `SampledInOrder`).
- `SchedulerSteps` and `SchedulerProofs` show that every step of `Scheduler` is a step of `RequestFlow` or leaves
  its variables alone (`SchedulerImplementsFlow`), one lemma per action. `OperatorLemmas` has what the
  operators of `SeqHelpers`, `RadixTree` and `KVCache` return.

*Places.* `OnePlace` is not inductive. Whether a
request of the last prefill batch may join the running batch depends on which batch it was
in, whether it was chunked and whether its result has been processed; whether a result may be applied
depends on where its request has gone since. `PlaceInv` therefore says of each
place of the loop which of queue, adder, batch, last batch, running batch and results in flight
a request may be in (`Apart`, `Queued`, `Kept`), and what the results hold (`PlaceTypes` and the conjuncts
about batches and results). `RequestsInOnePlace`, `OutputsAreFinal` and `NoRequestDropped` follow. `NoRequestDropped`
has the condition `~Preemption`: with preemption the code does drop a request (finding 2).

*Order.* With overlap a request has up to two results in flight, of a chunk or of a sampled token,
and one may have been launched before a retraction. `OrderInv` counts them: `is_chunked` is the number of chunks without
a result (`ChunksCounted`), the committed KV is all tokens but the last, plus the sampled tokens not processed
(`CommittedTokens`), and the token of a result was sampled after the tokens its request has and the one of an
earlier result (`SampledAfter`). The rest says why these counts stay right: the request of the last chunk is
in the next batch (`ChunkFollowed`), is alive (`ChunksLive`), nobody else who is prefilled has a result to
come (`PrefillApart`), and nobody else is admitted with a part of its tokens (`Filled`). `OutputsInOrder` and
`OneRequestChunked` follow.

*Budget.* `Filled` rests on admission. That after a chunk no other request is admitted is a fact of arithmetic:
`add_one_req` truncates a chunk to pages, what is left of the chunk budget is less than a page, and
the next request, rounded up to pages, does not fit and would be truncated to nothing; `add_chunked_req` takes all that is
left of the chunk budget or of the pool, and admission stops when either is used up. `SchedInv` is `PlaceInv` with this budget (`BudgetInv`) and with the sizes it is computed
from being numbers (`MemInv`); `SchedulerInvariant` proves it inductive. `OrderInv` is not part of it: it
is proved of `RequestFlow` and carried over by the refinement (`SchedulerOrder`). The condition `~Preemption` is
needed: a preemption gives tokens back to the budget in the middle of the admission.

`OperatorLemmas` proves what the filter `Without` and `Nth` return (the members that
are kept, each once), rounding to pages, what `LongestCached` finds, and that the operations on tree and memory
return trees and memories. Induction there is the least-number principle for a set of naturals, which needs no operator as a parameter.
The fold behind `Total` is opaque to the prover; `Total` is a number by its definition, and no theorem uses which.

`TokenizerManagerProofs`, first part: `WritersAlone`, `SleepersAreNotified`, from `RWLockInvariant`, for any finite set of
coroutines. The invariant `RWInv` joins the two properties with `RWCounts` (the counters are
the cardinalities of the sets they stand for). Neither property is inductive without it: that the lock is
free is read off the counters, and that a woken writer will notify needs the count of waiting writers.

Second part: `ManagerUsesLock` is a refinement, every step of the manager is a step of
`RWLock` or leaves its variables alone, so `UpdatesAlone` and `NobodyForgotten` carry the lock's
theorems over to `model_update_lock`. `UpdatesExcludeRequests` adds `HandlersRead`: a handler is
between admission and answer only while it reads. For any requests, operations and adapters. This is also
where the places of the coroutines are shown to be the ones listed, so the module has no
type invariant of its own for TLC.

`GatewayProofs`, first part: `ClosedIsJustified` and `HalfOpenIsJustified`, from `BreakerInvariant`, for any set of
threads and any thresholds of at least 1. They speak of moments when no method is running. The
inductive form says who is responsible in between: while a counter is at its threshold in the
state that waits for it, some thread has yet to judge it, to change the state or to reset the count
(`ClosedInv`, `HalfOpenInv`). One case per atomic operation.

Second part: `GatewayUsesBreaker`, that the gateway implements `CBSpec`, carries these theorems over to the gateway
(`FailingWorkerLeaves`, `RecoveredWorkerReturns`). `LimiterIsPaid`, `OnlyDisconnectsLoseTokens` and `LimitsKept` hold for
any capacity, queue size, number of requests and refills. Their invariant says
that a request waits in one place only (`WaitsOnce`), that whoever waits has no permit yet
(`PermitsFresh`), and counts tokens, holders and lost tokens (`TokensAccounted`): a disconnected
request that still waits has cost nothing so far.

Only model-checked:

- of `Scheduler`: memory and its sizes (`TypeOK`, `PagesConserved`, `CachedKVIsRight`, `RowKVIsRight`,
  `LocksCounted`, `EvictableAccounting`, `PrefillFits`, `DecodeFits`, `ImplementsPrefixCache`). They speak of sums over
  batches and over the nodes of the tree, whose proofs need induction over data. `OneChunkedReq` and
  `OutputInOrder` for servers with priority preemption;
- of `TokenizerManager`: adapters, answers and the pause;
- liveness, which is outside the prover's reach, as are `ENABLED` and facts that
  need induction over data, such as what a fold computes.

## Findings

1. *A woken call can fail its assertion* (`FanOutAssertion`). The call that finishes
   clears the fields and pops the last waiter. If another call starts before the waiter
   runs, it finds the communicator idle and sends; the waiter's assertion then fails. `OneInFlight` still
   holds: the error hits the waiter only.
2. *A preempted request can be lost* (`SchedulerPreemptLost`). Two low-priority
   requests run, a high-priority one arrives. `preempt_to_schedule` releases a
   victim, using an `extend_input_len` that is still 0 for the new request and no page overhead.
   `add_one_req` then refuses the new request; the batch is empty and
   `_get_new_batch_prefill_raw` returns before it puts the victim back in the
   queue.
3. *A mixed batch can run out of memory in decode* (`SchedulerMixedDecode`). Running requests
   mixed into a prefill batch skip `check_decode_mem` and retraction, while
   the chunked request is admitted whatever remains.
4. *A paused update can change the weights under a request* (`TokenizerPauseRace`). A request waits for the
   model lock behind an update. The update returns and wakes it. Before it runs, a pause in mode abort finds the
   lock free and returns. The request then runs, in an engine that this mode does not pause, and an
   update sent after the pause skips the lock.
5. *An update after a retracting pause fails its assertion* (`TokenizerFlush`). The retracted
   requests are in the waiting queue, and the cache is flushed only when that is empty. The weights have
   been changed by then.
6. *A request aborted in the queue leaves its state behind* (`TokenizerAbort`). `_handle_abort_req` does not delete
   the entry of `rid_to_state`, although the table of abort handling says so, and
   does not release the adapter: an unload of it then never returns.

## Not modelled

The components with status `not_modelled` in `PROJECT.json`, each with its reason. Inside the modelled files:

*Scheduler and memory.* Speculative decoding (bigram keys, over-allocation), SWA,
Mamba, hierarchical and disaggregated caches, diffusion LLMs, LoRA admission,
grammar queue, sessions, the prefill delayer, the non-overlap fallback for consecutive prefills,
and testing switches such as `TEST_RETRACT`. Pause, the queue limit and timeouts are in
`TokenizerManager` and not in `Scheduler`.

*Communicator and lock.* Callers cancelled while they wait. A cancelled call of
`FanOutCommunicator` leaves its event in the FIFO, and a hand-over to it wakes nobody.

*Tokenizer manager.* Cancellation at awaits other than the wait for the answer; `abort_all_requests` of updates; batch
requests other than a list of adapters; parallel sampling; `dp_size > 1`; an unload that fails in
the backend; the queue limit applied to retracted requests; a
finished request that lingers in `last_batch` when the cache is flushed.
A retracting pause maps a request that is stopping to `queued`.

*Gateway.* Several workers and the policies that choose among them, the worker registry, health checks, the mesh's
global limit, `refill_rate = 0` (no caller sets it), fractional tokens,
`WorkerLoadGuard`, the 500 for a permit channel that closes unused (the processor or a task would have to die), the counter `EMBEDDINGS_QUEUE_SIZE` (never read), `reset`, `force_open` and the
`record_test_*` methods (no callers), and wrap-around of the 32-bit counters. Atomic accesses are
sequentially consistent in the model; the code uses acquire and release on single variables.
The queue's length bounds only the channel: requests that the
processor has handed to tasks wait without bound and in no order, and the model has that.

## Next steps

1. Cancellation in `FanOutCommunicator` and `RWLock`; a run at the `max_req_len` boundary (the hazard at
   `schedule_policy.py:855`).
2. Control plane between ranks: `SchedulerInputBlocker` over `PollBasedBarrier`, with the
   blocker as an abstract specification.
3. Hierarchical cache: write-through and load-back as asynchronous steps over
   `RadixTree`, refining `PrefixCache` extended with host copies.
4. Prefill/decode disaggregation: the queues of both sides and failing transfers.
5. Proofs: `RadixTree`'s lock counting (`LocksCounted`, `EvictableAccounting`) over an abstract forest;
   the refinement of `PrefixCache` for the memory operations of `KVCache`.
