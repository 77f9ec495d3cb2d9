------------------------------ MODULE RadixTree ------------------------------
(***************************************************************************)
(* The prefix tree of mem_cache/radix_cache.py as operators on a record:   *)
(*   nodes      the tree nodes; a node is named by the token path from the *)
(*              root to its end, so the root is <<>>                       *)
(*   value      the KV page cached for every page-aligned token path       *)
(*   lock       lock_ref of every node                                     *)
(*   leaves     evictable_leaves                                           *)
(*   evictable  evictable_size_                                            *)
(*   protected  protected_size_                                            *)
(* TreeNode.key is the part of the path below the parent, TreeNode.value   *)
(* the pages of that part, and the children of a node are the nodes whose  *)
(* longest proper prefix it is, so a split only adds a name.               *)
(***************************************************************************)
EXTENDS SeqHelpers

CONSTANT PageSize   \* tokens per KV page

ASSUME PageSizeAssumption == PageSize \in Nat \ {0}

Root == <<>>

\* RadixKey.page_aligned: drop the tokens of an incomplete last page.
PageFloor(n) == (n \div PageSize) * PageSize
PageAligned(s) == Take(s, PageFloor(Len(s)))

\* The page-aligned, non-empty prefixes of a page-aligned path.
PagePaths(k) == {Take(k, i * PageSize) : i \in 1 .. Len(k) \div PageSize}

EmptyTree == [nodes |-> {Root}, value |-> <<>>, lock |-> [n \in {Root} |-> 1],
              leaves |-> {}, evictable |-> 0, protected |-> 0]

-----------------------------------------------------------------------------
(* Structure.                                                              *)

Ancestors(t, n) == {m \in t.nodes : IsPrefix(m, n)}
Parent(t, n) ==
    LET above == {m \in t.nodes : IsStrictPrefix(m, n)}
    IN CHOOSE m \in above : \A a \in above : Len(a) <= Len(m)
KeyLen(t, n) == Len(n) - Len(Parent(t, n))
HasChild(t, n) == \E m \in t.nodes : IsStrictPrefix(n, m)
SegmentPaths(t, n) == {k \in PagePaths(n) : Len(k) > Len(Parent(t, n))}
SizeOf(t, S) == Total([n \in S |-> KeyLen(t, n)])

\* The pages of a cached path, in order.
PagesOf(t, k) == [i \in 1 .. Len(k) \div PageSize |-> t.value[Take(k, i * PageSize)]]

IsEvictableLeaf(t, n) == t.lock[n] = 0 /\ ~HasChild(t, n)

\* Mutant: a node that becomes a leaf is never added.
UpdateLeafStatusRemoveOnly(t, S) ==
    [t EXCEPT !.leaves = @ \ {n \in S : ~IsEvictableLeaf(t, n)}]

\* _update_leaf_status on each node of S.
UpdateLeafStatus(t, S) ==
    [t EXCEPT !.leaves = (@ \ S) \cup {n \in S : IsEvictableLeaf(t, n)}]

-----------------------------------------------------------------------------
(* Matching and insertion.                                                 *)

\* The longest cached page-aligned prefix of key.
LongestCached(t, key) ==
    LET hits == {k \in PagePaths(key) : k \in DOMAIN t.value}
    IN IF hits = {} THEN Root ELSE CHOOSE k \in hits : \A h \in hits : Len(h) <= Len(k)

\* The node on whose edge the cached path k ends; k itself when it is a node.
NodeBelow(t, k) ==
    LET below == {m \in t.nodes : IsPrefix(k, m)}
    IN CHOOSE m \in below : \A b \in below : Len(m) <= Len(b)

\* Mutant: the upper half of a split node starts unlocked.
SplitNodesUnlocked(t, K) ==
    [t EXCEPT !.nodes = @ \cup K,
              !.lock = [m \in t.nodes \cup K |-> IF m \in t.nodes THEN @[m] ELSE 0]]

\* _split_node: cached paths that end inside a node become nodes, with the
\* lock_ref of the node that is split.  Sizes and leaves do not change.
SplitNodes(t, K) ==
    [t EXCEPT !.nodes = @ \cup K,
              !.lock = [m \in t.nodes \cup K |-> @[NodeBelow(t, m)]]]

\* match_prefix: the tree after it and the last node.
MatchPrefix(t, key) ==
    LET k == LongestCached(t, PageAligned(key))
    IN [tree |-> SplitNodes(t, {k}), node |-> k]

\* Mutant: the pages of the part that was cached are not skipped.
InsertUnsliced(t, key, row) ==
    LET k == LongestCached(t, key)
        s == SplitNodes(t, {k})
        new == {p \in PagePaths(key) : Len(p) > Len(k)}
        grown == [s EXCEPT !.nodes = @ \cup {key},
                           !.lock = [m \in s.nodes \cup {key} |-> IF m = key THEN 0 ELSE @[m]],
                           !.value = [p \in DOMAIN @ \cup new |->
                                       IF p \in new THEN row[(Len(p) - Len(k)) \div PageSize] ELSE @[p]],
                           !.evictable = @ + Len(key) - Len(k)]
    IN [tree |-> IF new = {} THEN s ELSE UpdateLeafStatus(grown, {k, key}),
        prefix_len |-> Len(k)]

\* insert / _insert_helper: key is page-aligned, row[i] is the page of its
\* i-th page.  prefix_len is the part that was cached already.
Insert(t, key, row) ==
    LET k == LongestCached(t, key)
        s == SplitNodes(t, {k})
        new == {p \in PagePaths(key) : Len(p) > Len(k)}
        grown == [s EXCEPT !.nodes = @ \cup {key},
                           !.lock = [m \in s.nodes \cup {key} |-> IF m = key THEN 0 ELSE @[m]],
                           !.value = [p \in DOMAIN @ \cup new |->
                                       IF p \in new THEN row[Len(p) \div PageSize] ELSE @[p]],
                           !.evictable = @ + Len(key) - Len(k)]
    IN [tree |-> IF new = {} THEN s ELSE UpdateLeafStatus(grown, {k, key}),
        prefix_len |-> Len(k)]

-----------------------------------------------------------------------------
(* Locks.                                                                  *)

\* inc_lock_ref: every node from n up to, but not including, the root.
IncLockRef(t, n) ==
    LET path == Ancestors(t, n) \ {Root}
        size == SizeOf(t, {m \in path : t.lock[m] = 0})
        locked == [t EXCEPT !.lock = [m \in t.nodes |-> @[m] + IF m \in path THEN 1 ELSE 0],
                            !.evictable = @ - size, !.protected = @ + size]
    IN UpdateLeafStatus(locked, path)

\* dec_lock_ref.
DecLockRef(t, n) ==
    LET path == Ancestors(t, n) \ {Root}
        size == SizeOf(t, {m \in path : t.lock[m] = 1})
        unlocked == [t EXCEPT !.lock = [m \in t.nodes |-> @[m] - IF m \in path THEN 1 ELSE 0],
                              !.evictable = @ + size, !.protected = @ - size]
    IN UpdateLeafStatus(unlocked, path)

-----------------------------------------------------------------------------
(* Eviction.                                                               *)

\* What evict may reach from the heap of evictable leaves: a leaf in the heap,
\* or an unlocked node once all its children are gone.
Evictable(t) ==
    {n \in t.nodes \ {Root} :
       \A m \in {d \in t.nodes : IsPrefix(n, d)} :
          IF HasChild(t, m) THEN t.lock[m] = 0 ELSE m \in t.leaves}

\* The sets of nodes evict(num_tokens) may remove.  The order of the heap is
\* the eviction policy's, so any order that takes children before parents: the
\* loop stops at the first node with which the total reaches num_tokens, or
\* when nothing is left.
EvictChoices(t, num_tokens) ==
    LET all == Evictable(t)
        closed == {E \in SUBSET all :
                     \A e \in E : \A m \in t.nodes : IsPrefix(e, m) => m \in E}
        isLast(E, x) == /\ Parent(t, x) \notin E
                        /\ SizeOf(t, E) - KeyLen(t, x) < num_tokens
    IN IF SizeOf(t, all) < num_tokens THEN {all}
       ELSE {E \in closed : SizeOf(t, E) >= num_tokens /\ \E x \in E : isLast(E, x)}

EvictedPages(t, E) == {t.value[k] : k \in UNION {SegmentPaths(t, e) : e \in E}}

\* The loop of evict, _delete_leaf included, for the nodes E.
Evict(t, E) ==
    LET gone == UNION {SegmentPaths(t, e) : e \in E}
        kept == t.nodes \ E
        left == [t EXCEPT !.nodes = kept,
                          !.lock = [m \in kept |-> @[m]],
                          !.value = [k \in DOMAIN @ \ gone |-> @[k]],
                          !.leaves = @ \ E,
                          !.evictable = @ - SizeOf(t, E)]
    IN UpdateLeafStatus(left, {Parent(t, e) : e \in E} \ E)
=============================================================================
