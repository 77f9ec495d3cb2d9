------------------------------ MODULE Scheduler ------------------------------
(***************************************************************************)
(* The scheduler's event loop (managers/scheduler.py) over the KV memory:  *)
(* admission of waiting requests into a prefill batch (PrefillAdder),      *)
(* chunked and mixed prefill, priority preemption, decoding, retraction    *)
(* when the pool is full, and the processing of results, which with the    *)
(* overlap loop lags one batch behind the launches.                        *)
(*                                                                         *)
(* The loop is one thread.  pc names the place it has reached, and a call  *)
(* of evict_from_tree_cache is a step of its own (pc = "evict") after      *)
(* which the loop continues at evict.then.  The GPU executes batches in    *)
(* launch order, so what a batch writes is recorded when it is launched.   *)
(***************************************************************************)
EXTENDS KVCache, SchedulerState

ASSUME PoolsAssumption == \A c \in Configs : c.pages \subseteq Pages

loop == <<last, queue, next, batch>>
sched == <<waiting, running, chunked, stash, full>>
vars == <<conf, kv, req, incoming, sched, loop, adder, evict, pc>>

-----------------------------------------------------------------------------
(* Data.                                                                   *)

NewReq(origin, prio) ==
    [origin |-> origin, output |-> <<>>, prio |-> prio,
     fill |-> 0, prefix |-> 0, extend |-> 0,   \* fill_ids, prefix_indices, extend_input_len
     row |-> <<>>,                             \* pages of its req_to_token row
     committed |-> 0,                          \* kv_committed_len
     protected |-> 0,                          \* cache_protected_len
     last_node |-> Root, is_chunked |-> 0, is_retracted |-> FALSE, finished |-> FALSE]

SlotHolders == {r \in Reqs : req[r].committed > 0}   \* req_pool_idx is set

\* The token of r sampled by the batch in flight whose result is not processed.
Pending(r) ==
    IF queue # <<>> /\ r \in Range(queue[1].reqs) THEN <<queue[1].out[r]>> ELSE <<>>

CallEvict(need, then) == evict' = [need |-> need, then |-> then] /\ pc' = "evict"

\* run_batch: the model samples a token for each request.
Launch(b) ==
    /\ \E out \in [Range(b.reqs) -> Tokens] :
         queue' = Append(queue, [b EXCEPT !.out = out,
                                          !.upto = [r \in DOMAIN out |-> req'[r].committed]])
    /\ batch' = b
    /\ pc' = "process"

Init ==
    /\ conf \in Configs
    /\ kv = EmptyKV(conf.pages)
    /\ req \in {[r \in Reqs |-> IF r \in Load THEN NewReq(o[r], p[r]) ELSE NewReq(<<>>, 0)] :
                  o \in [Load -> Prompts], p \in [Load -> Priorities]}
    /\ incoming = Load /\ waiting = {}
    /\ running = <<>> /\ chunked = NoReq /\ stash = FALSE /\ full = FALSE
    /\ batch = NoBatch /\ last = NoBatch /\ queue = <<>> /\ next = 1
    /\ adder = NoAdder /\ evict = NoEvict /\ pc = "begin"

-----------------------------------------------------------------------------
(* get_next_batch_to_run: merge the last prefill batch.                    *)

\* Mutant: the chunked request is merged with the others.
MergedKeepingChunked == Unfinished(last.reqs)

\* The requests of the last prefill batch that go on to decode.
Merged == Without(Unfinished(last.reqs), {chunked, last.chunked})

\* batch_is_full is reset when the last batch shrinks, and when the running
\* batch is empty and the last batch takes its place.
ResetFull ==
    /\ last.kind = "extend"
    /\ Len(Merged) < Len(last.reqs) \/ running = <<>>

\* Stash the chunked request and merge the last prefill batch.
GetNextBatchToRun ==
    /\ pc = "begin"
    /\ IF chunked # NoReq /\ stash
       THEN LET c == CacheUnfinishedReq(kv, req[chunked])
            IN kv' = c.kv /\ req' = [req EXCEPT ![chunked] = c.q]
       ELSE UNCHANGED <<kv, req>>
    /\ running' = IF last.kind = "extend" THEN running \o Merged ELSE running
    /\ full' = (full /\ ~ResetFull)
    /\ pc' = "policy"
    /\ UNCHANGED <<waiting, chunked, stash, loop, adder, evict>>

\* recv_requests and handle_generate_request: a request is queued.
AddRequestToQueue(r) ==
    /\ pc = "begin" /\ r \in incoming
    /\ incoming' = incoming \ {r}
    /\ waiting' = waiting \cup {r}
    /\ UNCHANGED <<kv, req, running, chunked, stash, full, loop, adder, evict, pc>>

\* abort_request on a queued request: popped from the queue.
AbortWaiting(r) ==
    /\ pc = "begin" /\ r \in waiting
    /\ waiting' = waiting \ {r}
    /\ req' = [req EXCEPT ![r].finished = TRUE]
    /\ UNCHANGED <<kv, running, chunked, stash, full, loop, adder, evict, pc>>

-----------------------------------------------------------------------------
(* _get_new_batch_prefill_raw and PrefillAdder.                            *)

NumAllocatableReqs == Min({MaxRunning - Len(running), MaxRunning - Cardinality(SlotHolders)})

\* The checks before the adder is made.  Priority preemption resets the flag.
NothingToPrefill ==
    /\ chunked = NoReq
    /\ waiting = {} \/ (~Preemption /\ (full \/ NumAllocatableReqs <= 0))

\* No prefill is tried.
SkipPrefill ==
    /\ pc = "policy" /\ NothingToPrefill
    /\ full' = (~Preemption /\ (full \/ waiting # {}))
    /\ pc' = "decode"
    /\ UNCHANGED <<kv, req, waiting, running, chunked, stash, loop, adder, evict>>

\* calc_priority: a cache-aware policy matches every waiting request.  A match
\* only splits nodes, so it does not change what the others match.
CalcPriority ==
    SplitNodes(kv.tree, {MatchPrefix(kv.tree, TokenIds(req[r])).node :
                           r \in IF CacheAware THEN waiting ELSE {}})

\* _get_running_request_total_token_offset; new_token_ratio is between 0 and
\* 1 and only its extremes are taken.
RunningOffset(r, ratio) == ratio * Min({MaxNew - Len(req[r].output), ClipMaxNew})

\* min(max_new_tokens, CLIP_MAX_NEW_TOKENS)
ReservedNew == Min({MaxNew, ClipMaxNew})

RemTotalTokens(t, a) == AvailableSize(kv) + t.evictable - a.offset

\* Mutant: the chunk budget is not charged.
UpdatePrefillBudgetKeepsChunk(a, extend, max_new) ==
    [a EXCEPT !.offset = @ + CeilPaged(extend) + max_new + PageSize,
              !.cur = @ + CeilPaged(extend) + PageSize,
              !.input = @ - CeilPaged(extend)]

\* _update_prefill_budget
UpdatePrefillBudget(a, extend, max_new) ==
    [a EXCEPT !.offset = @ + CeilPaged(extend) + max_new + PageSize,
              !.cur = @ + CeilPaged(extend) + PageSize,
              !.input = @ - CeilPaged(extend),
              !.chunk = @ - CeilPaged(extend)]

\* budget_state() = NO_TOKEN, and budget_state() # CONTINUE.
NoTokenLeft(t, a) ==
    RemTotalTokens(t, a) <= 0 \/ AvailableSize(kv) + t.evictable - a.cur <= 0
BudgetSpent(t, a) == NoTokenLeft(t, a) \/ a.input <= 0 \/ a.chunk <= 0

\* How many tokens add_chunked_req takes: the chunked request must be added.
ChunkTokens(a, q) ==
    LET rem == Min({a.chunk, RemTotalTokens(kv.tree, a)})
    IN Min({Len(TokenIds(q)) - q.prefix, IF rem <= 0 THEN a.chunk ELSE rem})

\* calc_priority, a new PrefillAdder, and add_chunked_req for a chunked request.
StartPrefill ==
    /\ pc = "policy" /\ ~NothingToPrefill
    /\ \E ratio \in {0, 1} :
         LET mixed == IF MixedChunk THEN Len(running) ELSE 0
             new == [NoAdder EXCEPT
                       !.ratio = ratio, !.cur = mixed,
                       !.input = MaxPrefill - mixed, !.chunk = ChunkSize - mixed,
                       !.offset = mixed + Total([r \in Range(running) |-> RunningOffset(r, ratio)])]
             q == req[chunked]
             extend == ChunkTokens(new, q)
             truncated == q.prefix + extend < Len(TokenIds(q))
         IN IF chunked = NoReq
            THEN adder' = new /\ stash' = FALSE /\ UNCHANGED <<req, chunked>>
            ELSE /\ adder' = [UpdatePrefillBudget(new, extend, IF truncated THEN 0 ELSE ReservedNew)
                                EXCEPT !.can_run = <<chunked>>]
                 /\ req' = [req EXCEPT ![chunked].fill = q.prefix + extend,
                                       ![chunked].extend = extend]
                 /\ chunked' = IF truncated THEN chunked ELSE NoReq
                 /\ stash' = truncated
    /\ kv' = [kv EXCEPT !.tree = CalcPriority]
    /\ full' = (full /\ ~Preemption)
    /\ pc' = "prefill"
    /\ UNCHANGED <<waiting, running, loop, evict>>

\* running_batch.batch_is_full when the loop reaches a request.
BatchIsFull == full \/ Len(adder.can_run) >= NumAllocatableReqs

Unvisited == waiting \ Range(adder.can_run)   \* requests the loop may reach next

\* The loop reaches request r: it has a slot, or was favoured by a preemption.
Reached(r) ==
    /\ pc = "prefill" /\ ~adder.stop /\ r \in Unvisited
    /\ IF BatchIsFull THEN adder.favoured = r ELSE adder.favoured = NoReq

\* init_next_round_input with the tree: at least one token is left to compute.
NextRoundInput(q) ==
    LET m == MatchPrefix(kv.tree, Take(TokenIds(q), Len(TokenIds(q)) - 1))
        n == Len(TokenIds(q))
    IN [tree |-> m.tree,
        q |-> [q EXCEPT !.fill = n, !.prefix = Len(m.node), !.extend = n - Len(m.node),
                        !.protected = Len(m.node), !.last_node = m.node]]

\* Mutant: max_new_tokens and the page overhead are left out of the check.
NoTokenOptimistic(t, q) == q.extend > RemTotalTokens(t, adder) + PageSize

\* total_tokens >= rem_total_tokens
NoToken(t, q) ==
    q.extend + Min({Max({MaxNew - Len(q.output), 0}), ClipMaxNew}) + PageSize >= RemTotalTokens(t, adder)

\* rem_input_tokens only stops a batch that is not empty.
NoInput(q) == adder.can_run # <<>> /\ CeilPaged(q.extend) >= adder.input

\* The length of the first chunk of a request that does not fit in the budget.
TruncLen(q) == PageFloor(PageFloor(adder.chunk) + q.prefix) - q.prefix

\* add_one_req succeeds: lock the matched prefix and charge the budget.
AddOneReq(r) ==
    /\ Reached(r)
    /\ LET i == NextRoundInput(req[r])
           t == IncLockRef(i.tree, i.q.last_node)
           whole == CeilPaged(i.q.extend) <= adder.chunk
           extend == IF whole THEN i.q.extend ELSE TruncLen(i.q)
           a == [UpdatePrefillBudget(adder, extend, IF whole THEN ReservedNew ELSE 0)
                   EXCEPT !.can_run = Append(@, r), !.favoured = NoReq,
                          !.new_chunked = IF whole THEN @ ELSE r]
       IN /\ ~NoToken(i.tree, i.q) /\ ~NoInput(i.q) /\ ~NoToken(t, i.q)
          /\ extend > 0
          /\ kv' = [kv EXCEPT !.tree = t]
          /\ req' = [req EXCEPT ![r] = [i.q EXCEPT !.row = PagesOf(t, i.q.last_node),
                                                   !.fill = i.q.prefix + extend,
                                                   !.extend = extend]]
          /\ adder' = [a EXCEPT !.stop = BudgetSpent(t, a)]
          /\ full' = (BatchIsFull \/ NoTokenLeft(t, a))
    /\ UNCHANGED <<waiting, running, chunked, stash, loop, evict, pc>>

\* add_one_req returns NO_TOKEN or OTHER: the prefix was matched, the loop ends.
RejectOneReq(r) ==
    /\ Reached(r)
    /\ LET i == NextRoundInput(req[r])
           t == IncLockRef(i.tree, i.q.last_node)
           noToken == NoToken(i.tree, i.q) \/ (~NoInput(i.q) /\ NoToken(t, i.q))
       IN /\ \/ noToken \/ NoInput(i.q)
             \/ (CeilPaged(i.q.extend) > adder.chunk /\ TruncLen(i.q) <= 0)
          /\ kv' = [kv EXCEPT !.tree = i.tree]
          /\ req' = [req EXCEPT ![r] = i.q]
          /\ full' = (BatchIsFull \/ noToken)
    /\ adder' = [adder EXCEPT !.stop = TRUE, !.favoured = NoReq]
    /\ UNCHANGED <<waiting, running, chunked, stash, loop, evict, pc>>

\* The running requests preempt_to_schedule considers.
Preemptible == {v \in Range(running) : v \notin adder.preempt_list /\ ~Finished(v)}

\* The victims preempt_to_schedule may choose for r: the lowest priorities, by
\* more than the threshold, until the missing tokens are covered.  It reads
\* extend_input_len before init_next_round_input has set it for this round.
VictimSets(r) ==
    LET missing == req[r].extend + ReservedNew - RemTotalTokens(kv.tree, adder)
        gain(S) == Total([v \in S |-> RunningOffset(v, adder.ratio)])
        prio(v) == req[v].prio
    IN {S \in SUBSET Preemptible :
          /\ S # {} /\ missing - gain(S) <= 0
          /\ \A v \in S : /\ prio(r) - prio(v) > Threshold
                          /\ \A u \in Preemptible \ S : prio(v) <= prio(u)
          /\ \E x \in S : /\ \A v \in S : prio(v) <= prio(x)
                          /\ S = {x} \/ missing - gain(S \ {x}) > 0}

\* preempt_to_schedule commits for r.
PreemptToSchedule(r) ==
    /\ Preemption
    /\ pc = "prefill" /\ ~adder.stop /\ adder.favoured = NoReq
    /\ r \in Unvisited /\ BatchIsFull
    /\ \E S \in VictimSets(r) :
         adder' = [adder EXCEPT
                     !.favoured = r, !.victims = S,
                     !.offset = @ - Total([v \in S |-> RunningOffset(v, adder.ratio)])]
    /\ full' = TRUE
    /\ pc' = "preempt"
    /\ UNCHANGED <<kv, req, waiting, running, chunked, stash, loop, evict>>

\* Mutant: the lock on the cached prefix is kept.
ReleaseReqKeepsLock(v) ==
    LET k == CacheFinishedReq(kv, req[v], FALSE)
    IN /\ kv' = [k EXCEPT !.tree = kv.tree]
       /\ req' = [req EXCEPT ![v] = [NewReq(@.origin, @.prio) EXCEPT
                                       !.output = req[v].output, !.is_retracted = TRUE]]

\* release_req up to its eviction, and reset_for_retract.
ReleaseReq(v) ==
    /\ kv' = CacheFinishedReq(kv, req[v], FALSE)
    /\ req' = [req EXCEPT ![v] = [NewReq(@.origin, @.prio) EXCEPT
                                    !.output = req[v].output, !.is_retracted = TRUE]]

\* Release the next victim in batch order.
PreemptOne ==
    /\ pc = "preempt"
    /\ LET v == running[Min({i \in DOMAIN running : running[i] \in adder.victims})]
           rest == Without(running, {v})
       IN /\ ReleaseReq(v)
          /\ running' = rest
          /\ adder' = [adder EXCEPT !.victims = @ \ {v}, !.preempt_list = @ \cup {v}]
          /\ CallEvict(Len(rest) * RetractSteps,
                       IF adder.victims = {v} THEN "prefill" ELSE "preempt")
    /\ UNCHANGED <<waiting, chunked, stash, full, loop>>

\* The batch is full, and the next request preempts nobody.
BrokenByFull ==
    BatchIsFull /\ \E r \in Unvisited : ~Preemption \/ VictimSets(r) = {}

\* The admission loop ends: a request was refused, all were added, or full.
LoopEnds ==
    /\ pc = "prefill" /\ adder.favoured = NoReq
    /\ adder.stop \/ Unvisited = {} \/ BrokenByFull
    /\ full' = (full \/ (~adder.stop /\ Unvisited # {}))

\* It ends with nothing to run: try to decode instead.
NoNewBatch ==
    /\ LoopEnds /\ adder.can_run = <<>>
    /\ adder' = NoAdder
    /\ pc' = "decode"
    /\ UNCHANGED <<kv, req, waiting, running, chunked, stash, loop, evict>>

\* Mutant: preempted requests are not queued again.
RequeuedNone == {}

\* The requests put back into the waiting queue with a new prefill batch.
Requeued == adder.preempt_list

\* It ends with a batch: queues and chunk bookkeeping, then
\* prepare_for_extend up to the eviction in alloc_for_extend.
NewPrefillBatch ==
    /\ LoopEnds /\ adder.can_run # <<>>
    /\ LET c == IF adder.new_chunked # NoReq THEN adder.new_chunked ELSE chunked
           batched == Range(adder.can_run)
           extend == Total([r \in batched |-> req[r].extend])
       IN /\ waiting' = (waiting \ batched) \cup Requeued
          /\ chunked' = c
          /\ stash' = (stash \/ adder.new_chunked # NoReq)
          /\ req' = IF c = NoReq THEN req ELSE [req EXCEPT ![c].is_chunked = @ + 1]
          /\ batch' = [NoBatch EXCEPT !.kind = "extend", !.reqs = adder.can_run, !.chunked = c]
          /\ CallEvict(extend + (IF PageSize = 1 THEN 0 ELSE Cardinality(batched) * PageSize),
                       "extend")
    /\ adder' = NoAdder
    /\ UNCHANGED <<kv, running, last, queue, next>>
-----------------------------------------------------------------------------
(* Allocation and launch.                                                  *)

\* evict_from_tree_cache
EvictTreeCache ==
    /\ pc = "evict"
    /\ kv' \in EvictFromTreeCache(kv, evict.need)
    /\ pc' = evict.then
    /\ evict' = NoEvict
    /\ UNCHANGED <<req, sched, loop, adder>>

\* The new pages of a batch, and the row of its i-th request, when request r
\* grows to len[r] tokens.
NewPages(r, len) == NumPages(len[r]) - Len(req[r].row)
BatchPages(s, len) == Total([i \in DOMAIN s |-> NewPages(s[i], len)])
GrownRow(s, i, len) ==
    LET before == BatchPages(SubSeq(s, 1, i - 1), len)
    IN req[s[i]].row \o [j \in 1 .. NewPages(s[i], len) |-> NthFree(kv, before + j)]
IndexOf(s, r) == CHOOSE i \in DOMAIN s : s[i] = r
FreeCount == AvailableSize(kv) \div PageSize

\* The requests of s with their rows grown to len and their KV committed.
Grown(s, len) ==
    [r \in Reqs |-> IF r \in Range(s)
                    THEN [req[r] EXCEPT !.row = GrownRow(s, IndexOf(s, r), len),
                                        !.committed = len[r], !.is_retracted = FALSE]
                    ELSE req[r]]

\* The memory after a batch s whose requests grow from from[r] tokens.
Written(s, new, toks, from) ==
    WriteKV(Alloc(kv, BatchPages(s, [r \in Reqs |-> new[r].committed])),
            UNION {RowWrites(new[r].row, toks[r], from[r], new[r].committed) : r \in Range(s)})

\* With mixed chunked prefill the running requests are filtered and prepared for
\* decode, to run in the prefill batch.
MixWithRunning ==
    /\ running' = IF MixedChunk THEN Unfinished(running) ELSE running
    /\ IF MixedChunk /\ running' # <<>>
       THEN CallEvict(Len(running') * PageSize, "decode_alloc") /\ UNCHANGED <<batch, queue>>
       ELSE Launch(batch) /\ UNCHANGED evict

\* prepare_for_extend, which calls alloc_for_extend.
AllocForExtend ==
    LET s == batch.reqs
        len == [r \in Reqs |-> req[r].fill]
        prefix == [r \in Reqs |-> req[r].prefix]
        toks == [r \in Reqs |-> TokenIds(req[r])]
        new == Grown(s, len)
    IN /\ pc = "extend"
       /\ BatchPages(s, len) <= FreeCount
       /\ req' = new
       /\ kv' = Written(s, new, toks, prefix)
       /\ MixWithRunning
       /\ UNCHANGED <<waiting, chunked, stash, full, last, next, adder>>

-----------------------------------------------------------------------------
(* update_running_batch.                                                   *)

\* Mutant: batch_is_full is kept when finished requests leave.
RunningShrinksNever == FALSE

\* batch_size() < initial_bs
RunningShrinks == Len(Unfinished(running)) < Len(running)

\* filter_batch; without requests there is no batch to run.
UpdateRunningBatch ==
    /\ pc = "decode"
    /\ running' = Unfinished(running)
    /\ full' = (full /\ ~RunningShrinks)
    /\ pc' = IF running' = <<>> THEN "process" ELSE "check"
    /\ UNCHANGED <<kv, req, waiting, chunked, stash, loop, adder, evict>>

\* Mutant: pages are counted where tokens are meant.
NewTokensRequiredInPages ==
    Cardinality({r \in Range(running) : req[r].committed % PageSize = 0})

\* new_tokens_required_next_decode
NewTokensRequired ==
    PageSize * Cardinality({r \in Range(running) : req[r].committed % PageSize = 0})

\* check_decode_mem: evict, then compare.
CheckDecodeMem ==
    /\ pc = "check"
    /\ CallEvict(NewTokensRequired, "checked")
    /\ UNCHANGED <<kv, req, sched, loop, adder>>

DecodeMemFits == AvailableSize(kv) >= NewTokensRequired

\* It fits: prepare_for_decode up to the eviction in alloc_for_decode.
PrepareForDecode ==
    /\ pc = "checked" /\ DecodeMemFits
    /\ CallEvict(Len(running) * PageSize, "decode_alloc")
    /\ UNCHANGED <<kv, req, sched, loop, adder>>

\* The request retract_decode pops: fewest output tokens, then longest prompt.
RetractionOrder(a, b) ==
    \/ Len(req[a].output) < Len(req[b].output)
    \/ /\ Len(req[a].output) = Len(req[b].output)
       /\ Len(req[a].origin) >= Len(req[b].origin)

\* It does not fit: retract a request, as long as another one stays.
RetractOne ==
    /\ pc = "checked" /\ ~DecodeMemFits /\ Len(running) > 1
    /\ \E v \in Range(running) :
         /\ \A u \in Range(running) : RetractionOrder(v, u)
         /\ ReleaseReq(v)
         /\ running' = Without(running, {v})
         /\ waiting' = waiting \cup {v}
    /\ full' = FALSE
    /\ CallEvict(Len(running') * RetractSteps, "check")
    /\ UNCHANGED <<chunked, stash, loop, adder>>

\* Not even the last request fits: abort it.
AbortLast ==
    /\ pc = "checked" /\ ~DecodeMemFits /\ Len(running) = 1
    /\ LET v == running[1]
       IN /\ kv' = CacheFinishedReq(kv, req[v], FALSE)
          /\ req' = [req EXCEPT ![v] = [NewReq(@.origin, @.prio) EXCEPT
                                          !.output = req[v].output,
                                          !.is_retracted = TRUE, !.finished = TRUE]]
    /\ running' = <<>> /\ full' = FALSE
    /\ pc' = "process"
    /\ UNCHANGED <<waiting, chunked, stash, loop, adder, evict>>

\* alloc_for_decode, the rest of prepare_for_decode and the launch, of the
\* decode batch or of the prefill batch the running requests are mixed into.
AllocForDecode ==
    LET len == [r \in Reqs |-> req[r].committed + 1]
        from == [r \in Reqs |-> req[r].committed]
        toks == [r \in Reqs |-> TokenIds(req[r]) \o Pending(r)]
        new == Grown(running, len)
        mixed == batch.kind = "extend"
    IN /\ pc = "decode_alloc"
       /\ BatchPages(running, len) <= FreeCount
       /\ req' = new
       /\ kv' = Written(running, new, toks, from)
       /\ running' = IF mixed THEN <<>> ELSE running
       /\ Launch(IF mixed
                 THEN [batch EXCEPT !.reqs = @ \o running, !.decoding = Range(running)]
                 ELSE [NoBatch EXCEPT !.kind = "decode", !.reqs = running])
       /\ UNCHANGED <<waiting, chunked, stash, full, last, next, adder, evict>>

-----------------------------------------------------------------------------
(* Results.                                                                *)

\* Mutant: the result of a request finished in between is applied.
SkippedIfRetracted(r) == req[r].is_retracted

\* A result that arrives after its request finished or was retracted.
Skipped(r) == (Overlap \/ Result.kind = "extend") /\ (Finished(r) \/ req[r].is_retracted)

\* req.output_ids.append(next_token_id)
WithOutput(r) == [req[r] EXCEPT !.output = Append(@, Result.out[r])]

\* check_finished: at max_new_tokens, and at any token by a stop condition or
\* an abort.  The request's pages go to the tree and its slot is given back.
FinishReq(r) ==
    LET q == WithOutput(r)
    IN /\ kv' = CacheFinishedReq(kv, q, TRUE)
       /\ req' = [req EXCEPT ![r] = [NewReq(q.origin, q.prio) EXCEPT
                                       !.output = q.output, !.finished = TRUE]]

\* The request goes on; after its prefill its prompt is cached.
ContinueReq(r) ==
    LET q == WithOutput(r)
        c == CacheUnfinishedReq(kv, q)
    IN /\ Len(q.output) < MaxNew
       /\ IF Result.kind = "extend" /\ r \notin Result.decoding
          THEN kv' = c.kv /\ req' = [req EXCEPT ![r] = c.q]
          ELSE kv' = kv /\ req' = [req EXCEPT ![r] = q]

\* Mutant: every prefill result counts as that of the last chunk.
IsChunkResultNever(r) == FALSE

\* The result of a chunk that is not the last one: nothing was sampled.
IsChunkResult(r) == req[r].is_chunked > 0

\* The loop over the requests of a result, for a batch of the given kind.
NextOfResult(kind) ==
    /\ pc = "process" /\ HasResult /\ Result.kind = kind /\ next <= Len(Result.reqs)
    /\ next' = next + 1
    /\ UNCHANGED <<sched, batch, last, queue, adder, evict, pc>>

\* One request of process_batch_result_prefill.
ProcessBatchResultPrefill ==
    /\ NextOfResult("extend")
    /\ LET r == Result.reqs[next]
       IN \/ Skipped(r) /\ UNCHANGED <<kv, req>>
          \/ /\ ~Skipped(r) /\ IsChunkResult(r)
             /\ req' = [req EXCEPT ![r].is_chunked = @ - 1]
             /\ UNCHANGED kv
          \/ ~Skipped(r) /\ ~IsChunkResult(r) /\ (FinishReq(r) \/ ContinueReq(r))

\* One request of process_batch_result_decode.
ProcessBatchResultDecode ==
    /\ NextOfResult("decode")
    /\ LET r == Result.reqs[next]
       IN \/ Skipped(r) /\ UNCHANGED <<kv, req>>
          \/ ~Skipped(r) /\ (FinishReq(r) \/ ContinueReq(r))

\* The iteration ends.
EndIteration ==
    /\ pc = "process" /\ (HasResult => next > Len(Result.reqs))
    /\ queue' = IF HasResult THEN Tail(queue) ELSE queue
    /\ last' = batch
    /\ batch' = NoBatch /\ next' = 1
    /\ pc' = "begin"
    /\ UNCHANGED <<kv, req, sched, adder, evict>>

LoopStep ==
    \/ GetNextBatchToRun \/ SkipPrefill \/ StartPrefill \/ NoNewBatch \/ NewPrefillBatch \/ PreemptOne
    \/ \E r \in Reqs : \/ AbortWaiting(r) \/ AddOneReq(r)
                       \/ RejectOneReq(r) \/ PreemptToSchedule(r)
    \/ EvictTreeCache \/ AllocForExtend
    \/ UpdateRunningBatch \/ CheckDecodeMem \/ PrepareForDecode
    \/ RetractOne \/ AbortLast \/ AllocForDecode
    \/ ProcessBatchResultPrefill \/ ProcessBatchResultDecode \/ EndIteration

Next ==
    /\ (\E r \in Reqs : AddRequestToQueue(r)) \/ (LoopStep /\ UNCHANGED incoming)
    /\ UNCHANGED conf

Spec == Init /\ [][Next]_vars

\* The event loop is a thread that keeps running.
FairSpec == Spec /\ []<><<Next>>_vars
-----------------------------------------------------------------------------
(* Properties.                                                             *)

ReqOK(q) ==
    /\ q.finished \in BOOLEAN /\ q.is_retracted \in BOOLEAN
    /\ {q.fill, q.prefix, q.extend, q.committed, q.protected, q.is_chunked} \subseteq Nat
    /\ Range(q.row) \subseteq Pages /\ Range(q.output) \subseteq Tokens

\* The variables keep their types; in particular is_chunked, lock_ref and the
\* sizes of the tree never go below zero.
TypeOK ==
    /\ \A r \in Reqs : ReqOK(req[r])
    /\ \A n \in kv.tree.nodes : kv.tree.lock[n] \in Nat
    /\ {kv.tree.evictable, kv.tree.protected} \subseteq Nat
    /\ incoming \subseteq Reqs /\ waiting \subseteq Reqs /\ Range(running) \subseteq Reqs
    /\ chunked \in Reqs \cup {NoReq} /\ stash \in BOOLEAN
    /\ Len(queue) <= 2

\* The pages of a request that are not in the tree.
OwnPages(q) == {i \in DOMAIN q.row : i > q.protected \div PageSize}
Owners(p) == {o \in Reqs \X (1 .. Cardinality(Pages)) :
                o[2] \in OwnPages(req[o[1]]) /\ req[o[1]].row[o[2]] = p}
CachedAs(p) == {k \in DOMAIN kv.tree.value : kv.tree.value[k] = p}

\* Every page is in exactly one place: free, cached for one token path, or in
\* the row of one request.  So no page leaks, none is freed twice, and no two
\* requests write the same page (check_memory and the allocator's debug mode
\* look for the first two).
PagesConserved ==
    \A p \in conf.pages : kv.free[p] + Cardinality(CachedAs(p)) + Cardinality(Owners(p)) = 1

\* A cached page holds the KV of the very tokens it is cached under.
CachedKVIsRight ==
    \A k \in DOMAIN kv.tree.value : \A s \in 1 .. PageSize :
      kv.slots[kv.tree.value[k]][s] = Take(k, Len(k) - PageSize + s)

\* The committed part of a request's row holds the KV of its own tokens, those
\* sampled but not processed included: sharing, retraction and the reuse of
\* freed pages never put another request's KV under its attention.
RowKVIsRight ==
    \A r \in Reqs : \A i \in 1 .. req[r].committed :
      LET toks == TokenIds(req[r]) \o Pending(r)
      IN kv.slots[req[r].row[NumPages(i)]][i - (NumPages(i) - 1) * PageSize] = Take(toks, i)

\* lock_ref of a node counts the requests that use it: admitted or running
\* requests whose last_node is the node or below it.
LocksCounted ==
    \A n \in kv.tree.nodes \ {Root} :
      kv.tree.lock[n] = Cardinality({r \in Reqs : req[r].row # <<>> /\ IsPrefix(n, req[r].last_node)})

\* evictable_size_ and protected_size_ are the tokens in unlocked and locked
\* nodes, and evictable_leaves are the unlocked leaves: admission, which
\* counts on evictable_size, and eviction, which starts from the leaves, agree.
EvictableAccounting ==
    LET t == kv.tree
        unlocked == {n \in t.nodes \ {Root} : t.lock[n] = 0}
    IN /\ t.evictable = SizeOf(t, unlocked)
       /\ t.protected = SizeOf(t, t.nodes \ ({Root} \cup unlocked))
       /\ t.leaves = {n \in t.nodes : IsEvictableLeaf(t, n)}
       /\ Evictable(t) = unlocked

\* The admission budget is enough: when a prefill batch allocates, the pages
\* are there and "Prefill out of memory", which ends the scheduler, is not raised.
PrefillFits ==
    pc = "extend" => BatchPages(batch.reqs, [r \in Reqs |-> req[r].fill]) <= FreeCount

\* So is the decode check: "Decode out of memory" is not raised either.
DecodeFits ==
    pc = "decode_alloc" => BatchPages(running, [r \in Reqs |-> req[r].committed + 1]) <= FreeCount

\* At most one request is chunked at a time ("assert self.chunked_req is None"
\* when a new one is chosen), and no other is admitted with a part of its tokens.
OneChunkedReq ==
    /\ adder.new_chunked # NoReq => chunked = NoReq
    /\ \A r \in Range(adder.can_run) :
         req[r].fill < Len(TokenIds(req[r])) => r \in {chunked, adder.new_chunked}

InBatch(b, r) == b.kind = "extend" /\ r \in Range(b.reqs)

\* A request that is not finished is in the waiting queue, in the running batch,
\* in a prefill batch that has not been merged, or being preempted; it is never
\* dropped.
NoRequestLost ==
    \A r \in Load \ incoming : ~Finished(r) =>
      \/ r \in waiting \/ r \in Range(running) \/ r = chunked
      \/ r \in Range(adder.can_run) \/ r \in adder.preempt_list
      \/ InBatch(batch, r) \/ InBatch(last, r)

\* A request decodes in one batch and is queued for none: it is never twice in
\* the running batch, nor running and waiting or chunked at once, and a queued
\* request is neither finished nor holding memory.
OnePlace ==
    /\ Cardinality(Range(running)) = Len(running)
    /\ Range(running) \cap waiting = {} /\ chunked \notin Range(running)
    /\ chunked \notin waiting
    /\ \A r \in waiting : ~Finished(r) /\ (pc = "policy" => req[r].row = <<>>)

\* What a request has generated is never taken back, by retraction or preemption,
\* and once it is finished nothing is added and it is not started again, although
\* with overlap the next batch was launched before its result was known.
OutputFinal ==
    [][\A r \in Reqs : /\ IsPrefix(req[r].output, req'[r].output)
                       /\ Finished(r) => req'[r].finished /\ req'[r].output = req[r].output]_vars

\* A token appended to a request was sampled after exactly the tokens the
\* request has: no result is lost, applied twice, applied to a request that was
\* retracted in between, or taken from a chunk that is not the last.
OutputInOrder ==
    [][\A r \in Reqs : req'[r].output # req[r].output =>
                         Result.upto[r] = Len(TokenIds(req[r]))]_vars

\* Every request that fits in the pool is finished in the end: admission does
\* not refuse it for ever, batch_is_full is reset in time, and preemption and
\* retraction do not undo each other's progress for ever.
EveryRequestFinishes == \A r \in Reqs : r \in waiting ~> Finished(r)
=============================================================================
