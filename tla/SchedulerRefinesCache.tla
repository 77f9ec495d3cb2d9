------------------------ MODULE SchedulerRefinesCache ------------------------
(***************************************************************************)
(* The scheduler with its radix tree, allocator and rows implements        *)
(* PrefixCache: splits, lock counts, sizes, batches and results are hidden,*)
(* and every step is one PrefixCache step or none.                         *)
(***************************************************************************)
EXTENDS Scheduler

CONSTANT MaxPages   \* longest path, in pages

\* Every token that is sent or sampled.
Alphabet == UNION {c.tokens \cup UNION {Range(p) : p \in c.prompts} : c \in Configs}
PageKeys == [1 .. PageSize -> Alphabet]
ToPath(k) == [i \in 1 .. Len(k) \div PageSize |->
                SubSeq(k, (i - 1) * PageSize + 1, i * PageSize)]
PathCache ==
    LET paths == {ToPath(k) : k \in DOMAIN kv.tree.value}
    IN [j \in paths |-> kv.tree.value[CHOOSE k \in DOMAIN kv.tree.value : ToPath(k) = j]]

Cache == INSTANCE PrefixCache WITH
    Keys <- PageKeys,
    Paths <- UNION {[1 .. n -> PageKeys] : n \in 0 .. MaxPages},
    Rows <- Seq(Pages),
    cache <- PathCache,
    free <- {p \in Pages : kv.free[p] > 0},
    row <- [r \in Reqs |-> req[r].row],
    pin <- [r \in Reqs |-> IF req[r].row = <<>> THEN <<>> ELSE ToPath(req[r].last_node)]

\* The promise the memory makes to the scheduler: a request is admitted on pages
\* that are cached, shares and releases its row in one step each, batches take
\* free pages only, and eviction takes only paths nobody reads, with all
\* below them (match_prefix, cache_finished_req, cache_unfinished_req,
\* alloc_for_extend, alloc_for_decode, evict).
ImplementsPrefixCache == Cache!Spec
=============================================================================
