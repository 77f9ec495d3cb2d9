--------------------------- MODULE SchedulerState ---------------------------
(***************************************************************************)
(* The state of the scheduler (managers/scheduler.py): its variables, the  *)
(* server and the load a behaviour has, and the records it keeps.          *)
(***************************************************************************)
EXTENDS SeqHelpers

CONSTANTS
    Reqs, NoReq,   \* requests
    Configs        \* the launches of the server, and the loads on it, to consider

VARIABLES
    conf,      \* the member of Configs this behaviour has: server_args and load
    kv,        \* KV memory
    req,       \* the fields of each Req
    incoming,  \* requests that have not been received yet
    waiting,   \* waiting_queue; the scheduling policy may pick any order
    running,   \* running_batch.reqs
    chunked,   \* chunked_req
    stash,     \* _chunked_req_scheduled_last_iter
    full,      \* running_batch.batch_is_full
    batch,     \* cur_batch, while it is built and launched
    last,      \* last_batch
    queue,     \* result_queue
    next,      \* the next request of the result being processed
    adder,     \* the PrefillAdder of this iteration
    evict,     \* the pending evict_from_tree_cache call
    pc

\* The load.
Load == conf.reqs               \* the requests that are sent
Tokens == conf.tokens           \* tokens the model may sample
Prompts == conf.prompts         \* what origin_input_ids may be
Priorities == conf.priorities   \* the requests' priorities, larger first
MaxNew == conf.max_new          \* max_new_tokens

\* The arguments of the server, and two limits set in the environment.
ClipMaxNew == conf.clip_max_new      \* CLIP_MAX_NEW_TOKENS, the most that admission reserves
ChunkSize == conf.chunk_size         \* chunked_prefill_size
MaxPrefill == conf.max_prefill       \* max_prefill_tokens
MaxRunning == conf.max_running       \* max_running_requests, and request slots in the pool
RetractSteps == conf.retract_steps   \* SGLANG_RETRACT_DECODE_STEPS
Threshold == conf.threshold          \* priority_scheduling_preemption_threshold
Overlap == conf.overlap              \* enable_overlap
MixedChunk == conf.mixed_chunk       \* is_mixed_chunk
CacheAware == conf.cache_aware       \* schedule_policy is lpm or dfs-weight
Preemption == conf.preemption        \* enable_priority_preemption

ASSUME ReqsAssumption == IsFiniteSet(Reqs) /\ NoReq \notin Reqs
ASSUME ConfigsAssumption ==
    \A c \in Configs :
      /\ c.reqs \subseteq Reqs
      /\ \A p \in c.prompts : p \in Seq(Range(p)) /\ p # <<>>
      /\ {c.max_new, c.clip_max_new, c.chunk_size, c.max_prefill, c.max_running,
          c.retract_steps} \subseteq Nat \ {0}
      /\ c.threshold \in Nat
      /\ {c.overlap, c.mixed_chunk, c.cache_aware, c.preemption} \subseteq BOOLEAN
      /\ c.preemption => ~c.cache_aware   \* priority scheduling takes fcfs or lof

-----------------------------------------------------------------------------
NoBatch == [kind |-> "none", reqs |-> <<>>, chunked |-> NoReq, decoding |-> {},
            out |-> <<>>, upto |-> <<>>]   \* sampled tokens, and after how many tokens
NoAdder == [ratio |-> 0, offset |-> 0, cur |-> 0, input |-> 0, chunk |-> 0, can_run |-> <<>>,
            new_chunked |-> NoReq, preempt_list |-> {}, victims |-> {}, favoured |-> NoReq,
            stop |-> FALSE]
NoEvict == [need |-> 0, then |-> "begin"]

Finished(r) == req[r].finished
Unfinished(s) == Without(s, {r \in Reqs : Finished(r)})

\* The loop processes the last batch (overlap) or the current one.
HasResult == IF Overlap THEN last.kind # "none" ELSE batch.kind # "none"
Result == queue[1]
=============================================================================
