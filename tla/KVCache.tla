------------------------------- MODULE KVCache -------------------------------
(***************************************************************************)
(* KV memory: the page allocator, the radix tree and the rows of the       *)
(* request-to-token table, as operators on a record kv with                *)
(*   tree   the RadixTree                                                  *)
(*   free   how many times each page is on the allocator's free lists      *)
(*   slots  what the GPU wrote into each slot of a page: the token prefix  *)
(*          whose KV it holds, <<>> when it holds nothing of use           *)
(* and on the memory fields of a request q (see Scheduler).  A page that   *)
(* is freed loses its contents, so a later use of it shows as a mismatch   *)
(* whoever gets the page next, and free pages are interchangeable: the     *)
(* allocator takes the lowest ones.                                        *)
(***************************************************************************)
EXTENDS RadixTree

CONSTANT Pages   \* the pages a token-to-KV pool may have

ASSUME PagesAssumption == Pages \subseteq Nat /\ IsFiniteSet(Pages)

NumPages(n) == (n + PageSize - 1) \div PageSize
CeilPaged(n) == NumPages(n) * PageSize
NoKV == [i \in 1 .. PageSize |-> <<>>]

\* The memory of a server whose pool has the pages pool.
EmptyKV(pool) ==
    [tree |-> EmptyTree, free |-> [p \in Pages |-> IF p \in pool THEN 1 ELSE 0],
     slots |-> [p \in Pages |-> NoKV]]

-----------------------------------------------------------------------------
(* The allocator.                                                          *)

\* available_size(), in tokens.
AvailableSize(kv) == PageSize * Total(kv.free)

\* free(indices) for the pages S.
Free(kv, S) ==
    [kv EXCEPT !.free = [p \in Pages |-> @[p] + IF p \in S THEN 1 ELSE 0],
               !.slots = [p \in Pages |-> IF p \in S THEN NoKV ELSE @[p]]]

\* The i-th page alloc hands out, and the pages left when n are taken.
NthFree(kv, i) == Nth({p \in Pages : kv.free[p] > 0}, i)
Alloc(kv, n) ==
    LET out == {NthFree(kv, i) : i \in 1 .. n}
    IN [kv EXCEPT !.free = [p \in Pages |-> @[p] - IF p \in out THEN 1 ELSE 0]]

\* The forward pass writes: a write puts the KV of the last token of path into a
\* slot of a page.  The requests of a batch write to pages of their own.
WriteKV(kv, writes) ==
    [kv EXCEPT !.slots =
       [p \in Pages |-> [i \in 1 .. PageSize |->
          LET here == {w \in writes : w.page = p /\ w.slot = i}
          IN IF here = {} THEN @[p][i] ELSE (CHOOSE w \in here : TRUE).path]]]

\* The writes of positions from + 1 .. to of toks through row.
RowWrites(row, toks, from, to) ==
    {[page |-> row[NumPages(i)], slot |-> i - (NumPages(i) - 1) * PageSize,
      path |-> Take(toks, i)] : i \in from + 1 .. to}

\* evict_from_tree_cache: the memories it may leave behind.
EvictFromTreeCache(kv, num_tokens) ==
    IF AvailableSize(kv) >= num_tokens THEN {kv}
    ELSE {[Free(kv, EvictedPages(kv.tree, E)) EXCEPT !.tree = Evict(kv.tree, E)] :
            E \in EvictChoices(kv.tree, num_tokens)}

-----------------------------------------------------------------------------
(* Caching a request.                                                      *)

TokenIds(q) == q.origin \o q.output
\* Pages of the row that hold tokens from + 1 .. to (from is page-aligned).
RowPages(q, from, to) == {q.row[i] : i \in from \div PageSize + 1 .. NumPages(to)}

\* Mutant: the tail below a whole page is not freed.
CacheFinishedReqKeepsTail(kv, q, is_insert) ==
    LET key == PageAligned(Take(TokenIds(q), q.committed))
        ins == Insert(kv.tree, key, q.row)
        dup == RowPages(q, q.protected, IF is_insert THEN ins.prefix_len ELSE Len(key))
    IN [Free(kv, dup) EXCEPT
          !.tree = DecLockRef(IF is_insert THEN ins.tree ELSE kv.tree, q.last_node)]

\* cache_finished_req: hand the committed pages to the tree (is_insert) or
\* back to the allocator, free the duplicates and the tail, unlock.
CacheFinishedReq(kv, q, is_insert) ==
    LET toks == Take(TokenIds(q), q.committed)
        key == PageAligned(toks)
        ins == Insert(kv.tree, key, q.row)
        dup == RowPages(q, q.protected, IF is_insert THEN ins.prefix_len ELSE Len(key))
        tail == RowPages(q, Len(key), Len(toks))
    IN [Free(Free(kv, dup), tail) EXCEPT
          !.tree = DecLockRef(IF is_insert THEN ins.tree ELSE kv.tree, q.last_node)]

\* Mutant: the row keeps the duplicate pages that were just freed.
CacheUnfinishedReqStaleRow(kv, q) ==
    LET key == PageAligned(Take(TokenIds(q), q.fill))
        ins == Insert(kv.tree, key, q.row)
        m == MatchPrefix(ins.tree, key)
        dup == RowPages(q, q.protected, ins.prefix_len)
    IN [kv |-> [Free(kv, dup) EXCEPT
                  !.tree = IncLockRef(DecLockRef(m.tree, q.last_node), m.node)],
        q |-> [q EXCEPT !.protected = Len(m.node), !.prefix = q.fill, !.last_node = m.node]]

\* cache_unfinished_req: share the pages of fill_ids through the tree, free
\* the duplicates, continue on the tree's pages and move the lock to them.
CacheUnfinishedReq(kv, q) ==
    LET key == PageAligned(Take(TokenIds(q), q.fill))
        ins == Insert(kv.tree, key, q.row)
        m == MatchPrefix(ins.tree, key)
        dup == RowPages(q, q.protected, ins.prefix_len)
        now == PagesOf(m.tree, m.node)
        rewritten == q.protected \div PageSize + 1 .. Len(m.node) \div PageSize
    IN [kv |-> [Free(kv, dup) EXCEPT
                  !.tree = IncLockRef(DecLockRef(m.tree, q.last_node), m.node)],
        q |-> [q EXCEPT !.row = [i \in DOMAIN @ |-> IF i \in rewritten THEN now[i] ELSE @[i]],
                        !.protected = Len(m.node), !.prefix = q.fill,
                        !.last_node = m.node]]
=============================================================================
