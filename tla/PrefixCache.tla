----------------------------- MODULE PrefixCache -----------------------------
(***************************************************************************)
(* What the KV memory promises to the scheduler, without the tree: a cache *)
(* from paths to pages, shared by requests that each read a path of it and *)
(* own the rest of their row.  A path is a sequence of page keys (the      *)
(* tokens of one page).  Scheduler implements this specification.          *)
(***************************************************************************)
EXTENDS Naturals, Sequences

CONSTANTS
    Reqs,    \* requests
    Pages,   \* KV pages
    Keys,    \* page keys
    Paths,   \* paths that may be cached, <<>> included
    Rows     \* rows a request may have

ASSUME PathsAssumption ==
    /\ Paths \subseteq Seq(Keys) /\ <<>> \in Paths
    /\ \A k \in Paths : \A i \in 1 .. Len(k) : SubSeq(k, 1, i) \in Paths
ASSUME RowsAssumption == Rows \subseteq Seq(Pages)

VARIABLES
    cache,   \* the page of every cached path
    free,    \* the free pages
    row,     \* the pages of each request
    pin      \* the path each request reads from the cache

vars == <<cache, free, row, pin>>

Upto(k, i) == SubSeq(k, 1, i)
Above(k) == {Upto(k, i) : i \in 1 .. Len(k)}
Extends(k, j) == Len(j) <= Len(k) /\ j = Upto(k, Len(j))

\* The positions of the row that are the request's own.
Own(r) == Len(pin[r]) + 1 .. Len(row[r])
Cached == DOMAIN cache

Init ==
    /\ cache = [k \in {} |-> 0]
    /\ free = Pages
    /\ row = [r \in Reqs |-> <<>>]
    /\ pin = [r \in Reqs |-> <<>>]

\* A request starts to read a cached path.
Admit(r, k) ==
    /\ row[r] = <<>> /\ Above(k) \subseteq Cached
    /\ row' = [row EXCEPT ![r] = [i \in 1 .. Len(k) |-> cache[Upto(k, i)]]]
    /\ pin' = [pin EXCEPT ![r] = k]
    /\ UNCHANGED <<cache, free>>

\* A batch takes free pages: rows grow, each page goes to one place.
Grow ==
    /\ row' \in {f \in [Reqs -> Rows] :
         /\ \A r \in Reqs : Extends(f[r], row[r])
         /\ \A r \in Reqs : \A i \in Len(row[r]) + 1 .. Len(f[r]) : f[r][i] \in free
         /\ \A r, s \in Reqs : \A i \in Len(row[r]) + 1 .. Len(f[r]) :
              \A j \in Len(row[s]) + 1 .. Len(f[s]) :
                f[r][i] = f[s][j] => r = s /\ i = j}
    /\ free' = free \ UNION {{row'[r][i] : i \in Len(row[r]) + 1 .. Len(row'[r])} : r \in Reqs}
    /\ UNCHANGED <<cache, pin>>

\* The cache with the pages of r's row added for the paths up to k.
New(k) == Above(k) \ Cached
Inserted(r, k) == [j \in Cached \cup New(k) |-> IF j \in Cached THEN cache[j] ELSE row[r][Len(j)]]

\* Mutant: pages below the pinned path count as duplicates.
DuplicatesAll(r, k) == {row[r][Len(j)] : j \in Above(k) \ New(k)}

\* Mutant: duplicates are not freed.
DuplicatesNone(r, k) == {}

\* The own pages of r that the cache holds already for a path up to k.
Duplicates(r, k) == {row[r][Len(j)] : j \in {h \in Above(k) \ New(k) : Len(h) > Len(pin[r])}}

MayInsert(r, k) == Extends(k, pin[r]) /\ Len(k) <= Len(row[r])

\* A request shares its row up to k and reads it from the cache from then on.
Share(r, k) ==
    /\ MayInsert(r, k)
    /\ cache' = Inserted(r, k)
    /\ free' = free \cup Duplicates(r, k)
    /\ row' = [row EXCEPT ![r] = [i \in 1 .. Len(row[r]) |->
                 IF i <= Len(k) THEN cache'[Upto(k, i)] ELSE row[r][i]]]
    /\ pin' = [pin EXCEPT ![r] = k]

\* A request leaves: its row up to k is cached, the rest is freed.
Release(r, k) ==
    /\ row[r] # <<>> /\ MayInsert(r, k)
    /\ cache' = Inserted(r, k)
    /\ free' = free \cup Duplicates(r, k) \cup {row[r][i] : i \in Len(k) + 1 .. Len(row[r])}
    /\ row' = [row EXCEPT ![r] = <<>>]
    /\ pin' = [pin EXCEPT ![r] = <<>>]

\* Mutant: locks are ignored.
EvictPinned(K) ==
    /\ \A j \in K : \A h \in Cached : Extends(h, j) => h \in K
    /\ cache' = [j \in Cached \ K |-> cache[j]]
    /\ free' = free \cup {cache[j] : j \in K}
    /\ UNCHANGED <<row, pin>>

\* Mutant: inner paths are dropped.
EvictInner(K) ==
    /\ \A r \in Reqs : K \cap Above(pin[r]) = {}
    /\ cache' = [j \in Cached \ K |-> cache[j]]
    /\ free' = free \cup {cache[j] : j \in K}
    /\ UNCHANGED <<row, pin>>

\* Paths that nobody reads are dropped, with everything below them.
Evict(K) ==
    /\ \A j \in K : \A h \in Cached : Extends(h, j) => h \in K
    /\ \A r \in Reqs : K \cap Above(pin[r]) = {}
    /\ cache' = [j \in Cached \ K |-> cache[j]]
    /\ free' = free \cup {cache[j] : j \in K}
    /\ UNCHANGED <<row, pin>>

Next ==
    \/ Grow
    \/ \E K \in SUBSET Cached : Evict(K)
    \/ \E r \in Reqs, k \in Paths : Admit(r, k) \/ Share(r, k) \/ Release(r, k)

Spec == Init /\ [][Next]_vars

-----------------------------------------------------------------------------

\* The cache maps paths to pages, rows are sequences of pages.
TypeOK ==
    /\ Cached \subseteq Paths /\ cache \in [Cached -> Pages]
    /\ free \subseteq Pages
    /\ row \in [Reqs -> Seq(Pages)] /\ pin \in [Reqs -> Paths]

\* No page is in two places, free, cached or owned: what one request writes or
\* eviction frees is never read by another.
PageInOnePlace ==
    /\ \A j, h \in Cached : cache[j] = cache[h] => j = h
    /\ \A j \in Cached : cache[j] \notin free
    /\ \A r \in Reqs : \A i \in Own(r) :
         /\ row[r][i] \notin free
         /\ \A j \in Cached : row[r][i] # cache[j]
         /\ \A s \in Reqs : \A m \in Own(s) : row[r][i] = row[s][m] => r = s /\ i = m

\* No page is lost.
NoLeak ==
    \A p \in Pages : \/ p \in free \/ \E j \in Cached : cache[j] = p
                     \/ \E r \in Reqs : \E i \in Own(r) : row[r][i] = p

\* A request reads the cache's pages of its path; they stay while it reads them.
PinnedCached ==
    \A r \in Reqs : /\ Len(pin[r]) <= Len(row[r])
                    /\ \A i \in 1 .. Len(pin[r]) :
                         /\ Upto(pin[r], i) \in Cached
                         /\ row[r][i] = cache[Upto(pin[r], i)]

\* A cached path can be reached: all the paths above it are cached.
PrefixClosed == \A j \in Cached : Above(j) \subseteq Cached

\* The inductive invariant: each part needs the others.
IInv == TypeOK /\ PageInOnePlace /\ NoLeak /\ PinnedCached /\ PrefixClosed
=============================================================================
