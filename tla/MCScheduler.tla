----------------------------- MODULE MCScheduler -----------------------------
(* Instances of Scheduler for TLC: one server and load per record. *)
EXTENDS SchedulerRefinesCache, TLC

CONSTANTS tokA, tokB, r1, r2, r3

LongAndShort == {<<tokA, tokB>>, <<tokB, tokB, tokB, tokB, tokB>>}

\* Prompts that share a prefix and are prefilled in chunks, with overlap.
Chunks ==
    [reqs |-> {r1, r2}, tokens |-> {tokA, tokB},
     prompts |-> {<<tokA, tokA, tokA>>, <<tokA, tokB, tokA>>},
     priorities |-> {0}, pages |-> 1 .. 6, max_new |-> 3, clip_max_new |-> 1,
     chunk_size |-> 2, max_prefill |-> 4, max_running |-> 2, retract_steps |-> 2, threshold |-> 0,
     overlap |-> TRUE, mixed_chunk |-> FALSE, cache_aware |-> TRUE, preemption |-> FALSE]

\* Requests that outgrow the pool.
Retract ==
    [Chunks EXCEPT !.tokens = {tokA}, !.prompts = {<<tokA, tokB>>, <<tokB, tokB>>},
                   !.pages = 1 .. 7, !.max_new = 7]

\* Prefill chunks and decoding requests in one batch.
Mixed ==
    [Chunks EXCEPT !.tokens = {tokA}, !.prompts = LongAndShort, !.pages = 1 .. 13,
                   !.clip_max_new = 2, !.max_prefill = 16, !.mixed_chunk = TRUE]

\* Three requests on two slots, with priorities.
Preempt ==
    [Chunks EXCEPT !.reqs = {r1, r2, r3}, !.tokens = {tokA}, !.prompts = {<<tokA, tokB>>},
                   !.priorities = {0, 1}, !.pages = 1 .. 10, !.max_new = 2, !.clip_max_new = 2,
                   !.cache_aware = FALSE, !.preemption = TRUE]

\* Pages of two tokens, with the overlap loop and with the normal one.
Paged ==
    [Chunks EXCEPT !.tokens = {tokA},
                   !.prompts = {<<tokA, tokA, tokB>>, <<tokA, tokA, tokA, tokB, tokB>>},
                   !.pages = 1 .. 8, !.max_new = 6, !.chunk_size = 6, !.max_prefill = 8]
PagedNormal == [Paged EXCEPT !.overlap = FALSE]

\* A small pool: a victim is preempted and then nothing can be admitted.
PreemptSmallPool ==
    [Preempt EXCEPT !.prompts = LongAndShort, !.pages = 1 .. 7, !.clip_max_new = 1,
                    !.chunk_size = 6, !.max_prefill = 8]

\* A pool that the mixed batch's decoding requests fill.
MixedSmallPool == [Mixed EXCEPT !.pages = 1 .. 11, !.max_new = 7, !.clip_max_new = 1]

TokenConfigs == {Chunks, Retract, Mixed, Preempt}
PagedConfigs == {Paged, PagedNormal}
PreemptLostConfigs == {PreemptSmallPool}
MixedDecodeConfigs == {MixedSmallPool}
Symmetry == Permutations(Reqs)
=============================================================================
