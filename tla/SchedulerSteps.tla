--------------------------- MODULE SchedulerSteps ---------------------------
(***************************************************************************)
(* The steps of the scheduler: each that moves requests is a step of       *)
(* RequestFlow, for any server, load, pool and page size, and none spends  *)
(* more of the budget of a prefill batch than there is.                    *)
(***************************************************************************)
EXTENDS Scheduler, RequestFlowInvariant, OperatorLemmas

-----------------------------------------------------------------------------
(* What the operations do to the fields of a request.                      *)

\* The members of a batch are requests.
LEMMA BatchMembers ==
    ASSUME NEW s \in Seq(Reqs)
    PROVE  Range(s) \subseteq Reqs
BY DEF Range

\* q2 is q with other memory, of which it has none if q had none.
Recached(q, q2) ==
    SameReq(q, q2) /\ q2.fill = q.fill /\ q2.is_chunked = q.is_chunked /\ (q.row = <<>> => q2.row = <<>>)

\* cache_unfinished_req
LEMMA CacheUnfinishedFields ==
    ASSUME NEW k, NEW q, DOMAIN q = ReqFields
    PROVE  Recached(q, CacheUnfinishedReq(k, q).q)
<1> DEFINE key == PageAligned(Take(TokenIds(q), q.fill))
           m == MatchPrefix(Insert(k.tree, key, q.row).tree, key)
           pages == PagesOf(m.tree, m.node)
           old == q.protected \div PageSize + 1 .. Len(m.node) \div PageSize
           row == [i \in DOMAIN q.row |-> IF i \in old THEN pages[i] ELSE q.row[i]]
           c == CacheUnfinishedReq(k, q).q
<1>1. c = [q EXCEPT !.row = row, !.protected = Len(m.node), !.prefix = q.fill, !.last_node = m.node]
  BY ZenonT(30) DEF CacheUnfinishedReq, ReqFields
<1>2. q.row = <<>> => row = <<>>
  OBVIOUS
<1> HIDE DEF c, row, m
<1>3. Recached(q, c)
  BY <1>1, <1>2, ZenonT(30) DEF Recached, SameReq, ReqFields
<1> QED
  BY <1>3, ZenonT(30) DEF c

\* init_next_round_input
LEMMA NextRoundInputFields ==
    ASSUME NEW q, DOMAIN q = ReqFields
    PROVE  LET c == NextRoundInput(q).q
           IN SameReq(q, c) /\ c.row = q.row /\ c.is_chunked = q.is_chunked
<1> DEFINE n == Len(TokenIds(q))
           m == MatchPrefix(kv.tree, Take(TokenIds(q), n - 1))
           c == NextRoundInput(q).q
<1>1. c = [q EXCEPT !.fill = n, !.prefix = Len(m.node), !.extend = n - Len(m.node),
                    !.protected = Len(m.node), !.last_node = m.node]
  BY ZenonT(30) DEF NextRoundInput
<1> HIDE DEF c, m, n
<1>2. SameReq(q, c) /\ c.row = q.row /\ c.is_chunked = q.is_chunked
  BY <1>1, ZenonT(30) DEF SameReq, ReqFields
<1> QED
  BY <1>2, ZenonT(30) DEF c

\* alloc_for_extend and alloc_for_decode
LEMMA GrownFields ==
    ASSUME ReqTypes, NEW s \in Seq(Reqs), NEW len, req' = Grown(s, len)
    PROVE  Grows(s, len)
<1>1. Range(s) \subseteq Reqs
  BY BatchMembers, ZenonT(30)
<1>2. \A r \in Range(s) : \E w : req'[r] = [req[r] EXCEPT !.row = w, !.committed = len[r],
                                                         !.is_retracted = FALSE]
  BY <1>1, ZenonT(30) DEF Grown
<1>3. DOMAIN req' = Reqs /\ \A r \in Reqs \ Range(s) : req'[r] = req[r]
  BY <1>1, ZenonT(30) DEF Grown
<1>4. ASSUME NEW r \in Range(s)
      PROVE  /\ DOMAIN req'[r] = ReqFields /\ req'[r].origin = req[r].origin
             /\ req'[r].output = req[r].output /\ req'[r].finished = req[r].finished
             /\ req'[r].is_chunked = req[r].is_chunked /\ req'[r].fill = req[r].fill
             /\ req'[r].committed = len[r] /\ req'[r].is_retracted = FALSE
  <2>1. PICK w : req'[r] = [req[r] EXCEPT !.row = w, !.committed = len[r], !.is_retracted = FALSE]
    BY <1>2, ZenonT(30)
  <2>2. DOMAIN req[r] = ReqFields
    BY <1>1, ZenonT(30) DEF ReqTypes
  <2> QED
    BY <2>1, <2>2, ZenonT(30) DEF ReqFields
<1> QED
  BY <1>3, <1>4, ZenonT(30) DEF Grows

\* reset_for_retract, of a request that goes back to the queue
LEMMA ReleaseFields ==
    ASSUME ReqTypes, NEW v \in Reqs,
           req' = [req EXCEPT ![v] = [NewReq(@.origin, @.prio) EXCEPT
                                        !.output = req[v].output, !.is_retracted = TRUE]]
    PROVE  /\ Resets(v) /\ req'[v].output = req[v].output
           /\ req'[v].is_retracted = TRUE /\ req'[v].finished = FALSE
BY ZenonT(30) DEF ReqTypes, Resets, ChangesOnly, NewReq, ReqFields

\* A step that leaves the requests alone.
LEMMA UnchangedReqs ==
    ASSUME ReqTypes, req' = req
    PROVE  KeepsReqs({}) /\ KeepsFill({}) /\ KeepsChunks({})
BY ZenonT(30) DEF ReqTypes, KeepsReqs, KeepsFill, KeepsChunks, SameReq

-----------------------------------------------------------------------------
(* Filters.                                                                *)

\* filter_batch
LEMMA UnfinishedFacts ==
    ASSUME NEW s \in Seq(Reqs), IsInjective(s)
    PROVE  Lists(Unfinished(s), Live(Range(s)))
<1>1. Range(s) \subseteq Reqs
  BY BatchMembers, ZenonT(30)
<1>2. /\ Unfinished(s) \in Seq(Reqs) /\ IsInjective(Unfinished(s))
      /\ Range(Unfinished(s)) = Range(s) \ {r \in Reqs : Finished(r)}
  BY WithoutFacts, ZenonT(30) DEF Unfinished
<1> QED
  BY <1>1, <1>2, ZenonT(30) DEF Lists, Live

LEMMA MergedFacts ==
    ASSUME PlaceTypes, Apart
    PROVE  Lists(Merged, Live(Merging) \ {chunked, last.chunked})
<1>1. last.reqs \in Seq(Reqs) /\ IsInjective(last.reqs)
  BY ZenonT(30) DEF PlaceTypes, Apart
<1>2. /\ Unfinished(last.reqs) \in Seq(Reqs) /\ IsInjective(Unfinished(last.reqs))
      /\ Range(Unfinished(last.reqs)) = Live(Merging)
  BY <1>1, UnfinishedFacts, ZenonT(30) DEF Merging, Lists
<1> QED
  BY <1>2, WithoutFacts DEF Merged, Lists

-----------------------------------------------------------------------------
(* Budgets.                                                                *)

\* The sizes that are kept are numbers.
Measured(q) == q.prefix \in Int /\ q.fill \in Int /\ q.committed \in Int
MemInv == IsKV(kv) /\ \A r \in Reqs : Measured(req[r])

\* After a chunk less than a page is left of the chunk budget, so that no other
\* request is admitted; after the next chunk of the chunked request nothing is
\* left of it, or of the pool.  Only a preemption gives tokens back.
BudgetInv ==
    /\ adder.chunk \in Int /\ adder.offset \in Int
    /\ adder.new_chunked # NoReq => adder.chunk < PageSize
    /\ ~Preemption /\ Admitting =>
         /\ chunked # NoReq => adder.chunk <= 0 \/ RemTotalTokens(kv.tree, adder) <= 0
         /\ pc # "evict"

\* The tokens of a request.
LEMMA TokenIdsFacts ==
    ASSUME PlaceInv, Origins, NEW r \in Reqs, NEW q, q.origin = req[r].origin, q.output \in Seq(Tokens)
    PROVE  /\ TokenIds(q) \in Seq(Range(req[r].origin) \cup Tokens)
           /\ Len(TokenIds(q)) = Len(req[r].origin) + Len(q.output)
<1> DEFINE T == Range(req[r].origin) \cup Tokens
<1>1. q.origin \in Seq(T)
  <2>1. CASE req[r].origin = <<>>
    BY <2>1
  <2>2. CASE req[r].origin \in Prompts
    <3>1. req[r].origin \in Seq(Range(req[r].origin))
      BY <2>2, ConfigsAssumption, ZenonT(30) DEF PlaceInv, PlaceTypes, Prompts
    <3> QED
      BY <3>1, SeqUnion, ZenonT(30)
  <2> QED
    BY <2>1, <2>2, ZenonT(30) DEF Origins
<1>2. q.output \in Seq(T)
  BY SeqUnion, ZenonT(30)
<1> HIDE DEF T
<1>3. /\ q.origin \o q.output \in Seq(T)
      /\ Len(q.origin \o q.output) = Len(q.origin) + Len(q.output)
  BY <1>1, <1>2
<1> QED
  BY <1>3, ZenonT(30) DEF TokenIds, T

LEMMA NumTokensFacts ==
    ASSUME PlaceInv, Origins, NEW r \in Reqs
    PROVE  /\ Len(TokenIds(req[r])) = NumTokens(r) /\ NumTokens(r) \in Nat
           /\ TokenIds(req[r]) \in Seq(Range(req[r].origin) \cup Tokens)
<1>1. req[r].output \in Seq(Tokens)
  BY ZenonT(30) DEF PlaceInv, ReqTypes
<1>2. /\ TokenIds(req[r]) \in Seq(Range(req[r].origin) \cup Tokens)
      /\ Len(TokenIds(req[r])) = NumTokens(r)
  BY <1>1, TokenIdsFacts, ZenonT(30) DEF NumTokens
<1>3. Len(TokenIds(req[r])) \in Nat
  BY <1>2
<1> QED
  BY <1>2, <1>3, ZenonT(30)

\* How much is left of the pool.
LEMMA RemFacts ==
    ASSUME NEW t, NEW a, t.evictable \in Int, a.offset \in Int
    PROVE  /\ AvailableSize(kv) \in Int /\ RemTotalTokens(t, a) \in Int
           /\ RemTotalTokens(t, a) = AvailableSize(kv) + t.evictable - a.offset
<1>1. AvailableSize(kv) \in Int
  BY PageSizeAssumption, SumFacts DEF AvailableSize
<1> QED
  BY <1>1 DEF RemTotalTokens

\* The tokens that are reserved for the output of a request.
LEMMA ReservedFacts ==
    ASSUME conf \in Configs
    PROVE  ReservedNew \in Int /\ \A n \in Int : Min({Max({n, 0}), ClipMaxNew}) \in Nat
<1>1. MaxNew \in Int /\ ClipMaxNew \in Int /\ ClipMaxNew >= 0
  BY ConfigsAssumption DEF MaxNew, ClipMaxNew
<1>2. Min({MaxNew, ClipMaxNew}) \in {MaxNew, ClipMaxNew}
  BY <1>1, MinMaxTwo, ZenonT(30)
<1>3. ASSUME NEW n \in Int PROVE Min({Max({n, 0}), ClipMaxNew}) \in Nat
  <2>1. Max({n, 0}) \in {n, 0} /\ Max({n, 0}) >= 0
    BY MinMaxTwo
  <2> DEFINE m == Max({n, 0})
  <2> HIDE DEF m
  <2>2. m \in Int /\ m >= 0
    BY <2>1 DEF m
  <2>3. Min({m, ClipMaxNew}) \in {m, ClipMaxNew}
    BY <1>1, <2>2, MinMaxTwo, ZenonT(30)
  <2> QED
    BY <1>1, <2>2, <2>3 DEF m
<1> QED
  BY <1>1, <1>2, <1>3, ZenonT(30) DEF ReservedNew

\* Without admission there is no budget.
LEMMA NoBudget ==
    ASSUME PlaceInv, ~Admitting
    PROVE  BudgetInv
<1>1. adder.chunk = 0 /\ adder.offset = 0 /\ adder.new_chunked = NoReq
  BY DEF PlaceInv, Places, NoAdder
<1> QED
  BY <1>1 DEF BudgetInv

\* init_next_round_input: the matched prefix ends with a page.
LEMMA NextRoundFacts ==
    ASSUME PlaceInv, Origins, MemInv, NEW r \in Reqs
    PROVE  LET i == NextRoundInput(req[r])
           IN /\ IsTree(i.tree) /\ i.tree.evictable = kv.tree.evictable
              /\ i.q.fill = NumTokens(r) /\ i.q.extend = NumTokens(r) - i.q.prefix
              /\ \E j \in Nat : i.q.prefix = j * PageSize
              /\ i.q.committed = req[r].committed /\ i.q.output = req[r].output
<1> DEFINE T == Range(req[r].origin) \cup Tokens
           n == Len(TokenIds(req[r]))
           key == Take(TokenIds(req[r]), n - 1)
           m == MatchPrefix(kv.tree, key)
           i == NextRoundInput(req[r])
<1>1. TokenIds(req[r]) \in Seq(T) /\ n = NumTokens(r) /\ n \in Nat
  BY NumTokensFacts, ZenonT(30)
<1>2. i = [tree |-> m.tree,
           q |-> [req[r] EXCEPT !.fill = n, !.prefix = Len(m.node), !.extend = n - Len(m.node),
                                !.protected = Len(m.node), !.last_node = m.node]]
  BY ZenonT(30) DEF NextRoundInput
<1>3. key \in Seq(T)
  <2>1. n - 1 \in Int
    BY <1>1
  <2> QED
    BY <1>1, <2>1, TakeFacts, ZenonT(30)
<1> HIDE DEF key, T
<1>4. /\ IsTree(m.tree) /\ m.tree.evictable = kv.tree.evictable
      /\ \E j \in Nat : Len(m.node) = j * PageSize
  BY <1>3, MatchFacts, ZenonT(30) DEF MemInv, IsKV
<1> HIDE DEF m, n, i
<1>5. DOMAIN req[r] = ReqFields
  BY ZenonT(30) DEF PlaceInv, ReqTypes
<1>6. /\ i.tree = m.tree /\ i.q.fill = n /\ i.q.prefix = Len(m.node) /\ i.q.extend = n - Len(m.node)
      /\ i.q.committed = req[r].committed /\ i.q.output = req[r].output
  BY <1>2, <1>5, ZenonT(30) DEF ReqFields
<1>7. /\ IsTree(i.tree) /\ i.tree.evictable = kv.tree.evictable
      /\ i.q.fill = NumTokens(r) /\ i.q.extend = NumTokens(r) - i.q.prefix
      /\ \E j \in Nat : i.q.prefix = j * PageSize
      /\ i.q.committed = req[r].committed /\ i.q.output = req[r].output
  BY <1>1, <1>4, <1>6, ZenonT(30)
<1> QED
  BY <1>7, ZenonT(30) DEF i

-----------------------------------------------------------------------------
(* Each step of the scheduler is a step of the flow.                       *)

LEMMA AddRequestToQueueFlow ==
    ASSUME NEW r \in Reqs, AddRequestToQueue(r), UNCHANGED conf
    PROVE  Receive(r)
BY ZenonT(30) DEF AddRequestToQueue, Receive, Loc, loop

LEMMA AbortWaitingFlow ==
    ASSUME PlaceInv, NEW r \in Reqs, AbortWaiting(r), UNCHANGED <<conf, incoming>>
    PROVE  Abort(r)
<1>1. /\ Loc = "begin" /\ r \in waiting /\ waiting' = waiting \ {r}
      /\ req' = [req EXCEPT ![r].finished = TRUE]
      /\ UNCHANGED <<conf, incoming, running, chunked, batch, last, queue, next, adder, Loc>>
  BY ZenonT(30) DEF AbortWaiting, Loc, loop
<1>2. DOMAIN req = Reqs /\ DOMAIN req[r] = ReqFields
  BY ZenonT(30) DEF PlaceInv, ReqTypes
<1>3. /\ ChangesOnly(r)
      /\ req'[r].output = req[r].output /\ req'[r].is_retracted = req[r].is_retracted
      /\ req'[r].finished = TRUE /\ req'[r].is_chunked = req[r].is_chunked
      /\ req'[r].committed = req[r].committed
  BY <1>1, <1>2, ZenonT(30) DEF ChangesOnly, ReqFields
<1> QED
  BY <1>1, <1>3, ZenonT(30) DEF Abort

\* SkipPrefill, CheckDecodeMem and PrepareForDecode move no request.
LEMMA QuietStepFlow ==
    ASSUME PlaceInv, SkipPrefill \/ CheckDecodeMem \/ PrepareForDecode, UNCHANGED <<conf, incoming>>
    PROVE  Proceed
<1>1. /\ \/ Loc = "policy" /\ Loc' = "decode" /\ chunked = NoReq
         \/ Loc = "check" /\ Loc' = "checked"
         \/ Loc = "checked" /\ Loc' = "decode_alloc"
      /\ UNCHANGED <<conf, req, incoming, waiting, running, chunked, batch, last, queue, next, adder>>
  BY DEF SkipPrefill, NothingToPrefill, CheckDecodeMem, PrepareForDecode, CallEvict, Loc, loop, sched
<1>2. KeepsReqs({}) /\ KeepsFill({}) /\ KeepsChunks({})
  BY <1>1, UnchangedReqs, ZenonT(30) DEF PlaceInv
<1>3. KeepsAdder /\ adder'.victims = adder.victims
  BY <1>1, ZenonT(30) DEF PlaceInv, PlaceTypes, KeepsAdder
<1> QED
  BY <1>1, <1>2, <1>3, ZenonT(30) DEF Proceed, KeepsFill

\* An eviction changes nothing in the flow.
LEMMA EvictTreeCacheFlow ==
    ASSUME PlaceInv, EvictTreeCache, UNCHANGED <<conf, incoming>>
    PROVE  UNCHANGED flow
<1>1. /\ pc = "evict" /\ pc' = evict.then
      /\ UNCHANGED <<conf, req, incoming, waiting, running, chunked, batch, last, queue, next, adder>>
  BY ZenonT(30) DEF EvictTreeCache, loop, sched
<1>2. Loc' = Loc
  BY <1>1, ZenonT(30) DEF PlaceInv, Places, Loc
<1> QED
  BY <1>1, <1>2, ZenonT(30) DEF flow

\* add_one_req refuses r: only its match with the tree is new.
LEMMA RejectOneReqFlow ==
    ASSUME PlaceInv, NEW r \in Reqs, RejectOneReq(r), UNCHANGED <<conf, incoming>>
    PROVE  Proceed
<1> DEFINE c == NextRoundInput(req[r]).q
<1>1. /\ Loc = "prefill" /\ Loc' = "prefill" /\ r \in waiting \ Admitted
      /\ UNCHANGED <<conf, incoming, waiting, running, chunked, batch, last, queue, next>>
      /\ adder' = [adder EXCEPT !.stop = TRUE, !.favoured = NoReq]
      /\ req' = [req EXCEPT ![r] = c]
  BY ZenonT(30) DEF RejectOneReq, Reached, Unvisited, Admitted, Loc, loop
<1>2. DOMAIN adder = AdderFields /\ ReqTypes
  BY ZenonT(30) DEF PlaceInv, PlaceTypes
<1>3. SameReq(req[r], c) /\ c.row = req[r].row /\ c.is_chunked = req[r].is_chunked
  BY <1>2, NextRoundInputFields, ZenonT(30) DEF ReqTypes
<1> HIDE DEF c
<1>4. KeepsReqs({}) /\ KeepsFill(waiting \ Admitted) /\ KeepsChunks({})
  BY <1>1, <1>2, <1>3, ZenonT(30) DEF ReqTypes, KeepsReqs, KeepsFill, KeepsChunks, SameReq
<1>5. KeepsAdder /\ adder'.victims = adder.victims
  BY <1>1, <1>2, ZenonT(30) DEF KeepsAdder, AdderFields, Admitting
<1> QED
  BY <1>1, <1>4, <1>5, ZenonT(30) DEF Proceed

\* A new adder has admitted the chunked request only: as a chunk that uses up a
\* budget, or with all that is left of it.
LEMMA StartPrefillFlow ==
    ASSUME PlaceInv, Origins, MemInv, StartPrefill, UNCHANGED <<conf, incoming>>
    PROVE  Start /\ MemInv' /\ BudgetInv'
<1>1. /\ Loc = "policy" /\ Loc' = "prefill" /\ pc' = "prefill" /\ kv' = [kv EXCEPT !.tree = CalcPriority]
      /\ UNCHANGED <<conf, incoming, waiting, running, batch, last, queue, next>>
  BY ZenonT(30) DEF StartPrefill, Loc, loop
<1>2. PICK ratio \in {0, 1} :
        LET mixed == IF MixedChunk THEN Len(running) ELSE 0
            new == [NoAdder EXCEPT
                      !.ratio = ratio, !.cur = mixed,
                      !.input = MaxPrefill - mixed, !.chunk = ChunkSize - mixed,
                      !.offset = mixed + Total([r \in Range(running) |-> RunningOffset(r, ratio)])]
            q == req[chunked]
            extend == ChunkTokens(new, q)
            truncated == q.prefix + extend < Len(TokenIds(q))
        IN IF chunked = NoReq
           THEN adder' = new /\ stash' = FALSE /\ UNCHANGED <<req, chunked>>
           ELSE /\ adder' = [UpdatePrefillBudget(new, extend, IF truncated THEN 0 ELSE ReservedNew)
                               EXCEPT !.can_run = <<chunked>>]
                /\ req' = [req EXCEPT ![chunked].fill = q.prefix + extend,
                                      ![chunked].extend = extend]
                /\ chunked' = IF truncated THEN chunked ELSE NoReq
                /\ stash' = truncated
  BY ZenonT(30) DEF StartPrefill
<1> DEFINE mixed == IF MixedChunk THEN Len(running) ELSE 0
           reserved == Total([r \in Range(running) |-> RunningOffset(r, ratio)])
           new == [NoAdder EXCEPT
                     !.ratio = ratio, !.cur = mixed,
                     !.input = MaxPrefill - mixed, !.chunk = ChunkSize - mixed,
                     !.offset = mixed + reserved]
           q == req[chunked]
           extend == ChunkTokens(new, q)
           truncated == q.prefix + extend < Len(TokenIds(q))
           more == IF truncated THEN 0 ELSE ReservedNew
           charged == UpdatePrefillBudget(new, extend, more)
<1>3. /\ DOMAIN new = AdderFields /\ new.new_chunked = NoReq /\ new.preempt_list = {} /\ new.victims = {}
      /\ new.can_run = <<>> /\ new.chunk = ChunkSize - mixed /\ new.offset = mixed + reserved
  BY ZenonT(30) DEF NoAdder, AdderFields
<1>4. new.chunk \in Int /\ new.offset \in Int /\ ReservedNew \in Int
  <2>1. ChunkSize \in Nat /\ MaxNew \in Nat /\ ClipMaxNew \in Nat
    BY ConfigsAssumption, ZenonT(30) DEF PlaceInv, PlaceTypes, ChunkSize, MaxNew, ClipMaxNew
  <2>2. mixed \in Nat
    BY DEF PlaceInv, PlaceTypes
  <2>3. reserved \in Int
    BY SumFacts, ZenonT(30)
  <2>4. ReservedNew \in Int
    BY ReservedFacts, ZenonT(30) DEF PlaceInv, PlaceTypes
  <2> HIDE DEF mixed, reserved, new
  <2> QED
    BY <1>3, <2>1, <2>2, <2>3, <2>4
<1>5. /\ chunked = NoReq => adder' = new /\ req' = req /\ chunked' = chunked
      /\ chunked # NoReq => /\ adder' = [charged EXCEPT !.can_run = <<chunked>>]
                            /\ req' = [req EXCEPT ![chunked].fill = q.prefix + extend,
                                                  ![chunked].extend = extend]
                            /\ chunked' = IF truncated THEN chunked ELSE NoReq
  BY <1>2, ZenonT(30)
<1> HIDE DEF new
<1>6. /\ DOMAIN charged = AdderFields /\ charged.new_chunked = NoReq /\ charged.preempt_list = {}
      /\ charged.victims = {}
      /\ charged.chunk = new.chunk - CeilPaged(extend)
      /\ charged.offset = new.offset + CeilPaged(extend) + more + PageSize
  BY <1>3, ZenonT(30) DEF AdderFields, UpdatePrefillBudget
<1> HIDE DEF charged
<1>7. /\ DOMAIN adder' = AdderFields /\ adder'.new_chunked = NoReq
      /\ adder'.preempt_list = {} /\ adder'.victims = {}
      /\ adder'.can_run = IF chunked = NoReq THEN <<>> ELSE <<chunked>>
      /\ adder'.chunk = IF chunked = NoReq THEN new.chunk ELSE charged.chunk
      /\ adder'.offset = IF chunked = NoReq THEN new.offset ELSE charged.offset
  BY <1>3, <1>5, <1>6, ZenonT(30) DEF AdderFields
<1>8. ReqTypes /\ chunked \in Reqs \cup {NoReq}
  BY ZenonT(30) DEF PlaceInv, PlaceTypes
<1>9. IsKV(kv') /\ kv'.free = kv.free /\ kv'.tree.evictable = kv.tree.evictable
  <2>1. IsTree(CalcPriority) /\ CalcPriority.evictable = kv.tree.evictable
    BY SplitFacts, ZenonT(30) DEF CalcPriority, MemInv, IsKV
  <2> QED
    BY <1>1, <2>1, FreeFacts, ZenonT(30) DEF MemInv
<1>10. CASE chunked = NoReq
  <2>1. Start
    BY <1>1, <1>5, <1>7, <1>8, <1>10, UnchangedReqs, ZenonT(30) DEF Start, KeepsFill
  <2>2. MemInv'
    BY <1>5, <1>9, <1>10, ZenonT(30) DEF MemInv, Measured
  <2>3. BudgetInv'
    BY <1>1, <1>4, <1>5, <1>7, <1>10, ZenonT(30) DEF BudgetInv
  <2> QED
    BY <2>1, <2>2, <2>3, ZenonT(30)
<1>11. CASE chunked # NoReq
  <2>1. /\ chunked \in Reqs /\ DOMAIN q = ReqFields
        /\ req' = [req EXCEPT ![chunked] = [q EXCEPT !.fill = q.prefix + extend, !.extend = extend]]
    BY <1>5, <1>8, <1>11, ZenonT(30) DEF ReqTypes
  <2> DEFINE c == [q EXCEPT !.fill = q.prefix + extend, !.extend = extend]
             R == RemTotalTokens(kv.tree, new)
             n == Len(TokenIds(q)) - q.prefix
  <2>2. /\ SameReq(q, c) /\ c.row = q.row /\ c.is_chunked = q.is_chunked
        /\ c.fill = q.prefix + extend /\ c.prefix = q.prefix
    BY <2>1, ZenonT(30) DEF SameReq, ReqFields
  <2> HIDE DEF c
  <2>3. KeepsReqs({}) /\ KeepsFill({chunked}) /\ KeepsChunks({}) /\ req'[chunked].fill = q.prefix + extend
    BY <1>8, <2>1, <2>2, ZenonT(30) DEF ReqTypes, KeepsReqs, KeepsFill, KeepsChunks, SameReq, c
  <2>4. /\ R \in Int /\ R = AvailableSize(kv) + kv.tree.evictable - new.offset /\ AvailableSize(kv) \in Int
        /\ kv.tree.evictable \in Int
    BY <1>4, RemFacts, ZenonT(30) DEF MemInv, IsKV, IsTree
  <2>5. Len(TokenIds(q)) = NumTokens(chunked) /\ NumTokens(chunked) \in Nat /\ q.prefix \in Int
    BY <2>1, NumTokensFacts, ZenonT(30) DEF MemInv, Measured
  <2>6. extend = LET rem == Min({new.chunk, R}) IN Min({n, IF rem <= 0 THEN new.chunk ELSE rem})
    BY ZenonT(30) DEF ChunkTokens
  <2> HIDE DEF R, extend
  <2>7. n \in Int
    BY <2>5
  <2> HIDE DEF n
  <2>8. /\ extend \in Int /\ CeilPaged(extend) \in Int /\ extend <= n
        /\ extend < n => new.chunk - CeilPaged(extend) <= 0 \/ R - CeilPaged(extend) - PageSize <= 0
    <3>1. new.chunk \in Int /\ R \in Int
      BY <1>4, <2>4, ZenonT(30)
    <3> QED
      BY <2>6, <2>7, <3>1, ChunkTaken, ZenonT(30)
  <2>9. /\ truncated => extend < n
        /\ ~truncated => q.prefix + extend = NumTokens(chunked)
        /\ truncated => more = 0
        /\ more \in Int /\ PageSize \in Int
    <3>1. truncated <=> q.prefix + extend < NumTokens(chunked)
      BY <2>5, ZenonT(30)
    <3>2. n = NumTokens(chunked) - q.prefix
      BY <2>5, ZenonT(30) DEF n
    <3>3. (truncated => more = 0) /\ more \in Int /\ PageSize \in Int
      BY <1>4, PageSizeAssumption
    <3> HIDE DEF truncated, more, q
    <3> QED
      BY <2>5, <2>8, <3>1, <3>2, <3>3
  <2> HIDE DEF truncated, more, q
  <2>10. Start
    <3>1. \/ chunked' = chunked
          \/ chunked' = NoReq /\ req'[chunked].fill = NumTokens(chunked)
      BY <1>5, <1>11, <2>3, <2>9, ZenonT(30)
    <3> QED
      BY <1>1, <1>7, <2>3, <3>1, ZenonT(30) DEF Start
  <2>11. MemInv'
    <3>1. Measured(c)
      BY <2>1, <2>2, <2>5, <2>8 DEF MemInv, Measured, SameReq, q
    <3>2. req' = [req EXCEPT ![chunked] = c]
      BY <2>1, ZenonT(30) DEF c
    <3> QED
      BY <1>8, <1>9, <3>1, <3>2, ZenonT(30) DEF MemInv, ReqTypes
  <2>12. BudgetInv'
    <3>1. adder'.chunk = new.chunk - CeilPaged(extend)
          /\ adder'.offset = new.offset + CeilPaged(extend) + more + PageSize
      BY <1>6, <1>7, <1>11, ZenonT(30)
    <3>2. adder'.chunk \in Int /\ adder'.offset \in Int
      BY <1>4, <2>8, <2>9, <3>1
    <3>3. RemTotalTokens(kv.tree, adder)' = AvailableSize(kv) + kv.tree.evictable - adder'.offset
      BY <1>9, ZenonT(30) DEF RemTotalTokens, AvailableSize
    <3>4. chunked' # NoReq => truncated
      BY <1>5, <1>11, ZenonT(30)
    <3>5. chunked' # NoReq => adder'.chunk <= 0 \/ RemTotalTokens(kv.tree, adder)' <= 0
      <4> SUFFICES ASSUME chunked' # NoReq, ~(adder'.chunk <= 0) PROVE RemTotalTokens(kv.tree, adder)' <= 0
        BY ZenonT(30)
      <4>1. R - CeilPaged(extend) - PageSize <= 0 /\ more = 0
        BY <2>8, <2>9, <3>1, <3>4, ZenonT(30)
      <4>2. RemTotalTokens(kv.tree, adder)' = R - CeilPaged(extend) - PageSize
        BY <1>4, <2>4, <2>8, <2>9, <3>1, <3>3, <4>1
      <4> QED
        BY <4>1, <4>2, ZenonT(30)
    <3> QED
      BY <1>1, <1>7, <3>2, <3>5, ZenonT(30) DEF BudgetInv
  <2> QED
    BY <2>10, <2>11, <2>12, ZenonT(30)
<1> QED
  BY <1>10, <1>11, ZenonT(30)

\* add_one_req: r is admitted with all its tokens, or with a chunk that leaves
\* less than a page of the chunk budget; and there was at least a page of it.
LEMMA AddOneReqFlow ==
    ASSUME PlaceInv, Origins, MemInv, BudgetInv, NEW r \in Reqs, AddOneReq(r), UNCHANGED <<conf, incoming>>
    PROVE  Admit(r) /\ MemInv' /\ BudgetInv'
<1> DEFINE i == NextRoundInput(req[r])
           c == i.q
           t == IncLockRef(i.tree, c.last_node)
           whole == CeilPaged(c.extend) <= adder.chunk
           extend == IF whole THEN c.extend ELSE TruncLen(c)
           more == IF whole THEN ReservedNew ELSE 0
           a == [UpdatePrefillBudget(adder, extend, more) EXCEPT
                   !.can_run = Append(@, r), !.favoured = NoReq, !.new_chunked = IF whole THEN @ ELSE r]
           d == [c EXCEPT !.row = PagesOf(t, c.last_node), !.fill = c.prefix + extend, !.extend = extend]
<1>1. /\ Loc = "prefill" /\ Loc' = "prefill" /\ pc = "prefill" /\ pc' = "prefill" /\ r \in waiting \ Admitted
      /\ UNCHANGED <<conf, incoming, waiting, running, chunked, batch, last, queue, next>>
  BY ZenonT(30) DEF AddOneReq, Reached, Unvisited, Admitted, Loc, loop
<1>2. /\ ~NoToken(i.tree, c) /\ extend > 0 /\ kv' = [kv EXCEPT !.tree = t]
      /\ req' = [req EXCEPT ![r] = d] /\ adder' = [a EXCEPT !.stop = BudgetSpent(t, a)]
  BY ZenonT(30) DEF AddOneReq
<1>3. DOMAIN adder = AdderFields /\ ReqTypes /\ conf \in Configs /\ DOMAIN req[r] = ReqFields
      /\ req[r].output \in Seq(Tokens) /\ Len(req[r].output) \in Nat
  BY DEF PlaceInv, PlaceTypes, ReqTypes
<1>4. /\ IsTree(i.tree) /\ i.tree.evictable = kv.tree.evictable
      /\ c.fill = NumTokens(r) /\ c.extend = NumTokens(r) - c.prefix
      /\ \E j \in Nat : c.prefix = j * PageSize
      /\ c.committed = req[r].committed /\ c.output = req[r].output
  BY NextRoundFacts, ZenonT(30)
<1>5. SameReq(req[r], c) /\ c.is_chunked = req[r].is_chunked
  BY <1>3, NextRoundInputFields, ZenonT(30)
<1> HIDE DEF i, c
<1>6. /\ DOMAIN adder' = AdderFields /\ adder'.new_chunked = IF whole THEN adder.new_chunked ELSE r
      /\ adder'.preempt_list = adder.preempt_list /\ adder'.victims = adder.victims
      /\ adder'.can_run = Append(adder.can_run, r)
      /\ adder'.chunk = adder.chunk - CeilPaged(extend)
      /\ adder'.offset = adder.offset + CeilPaged(extend) + more + PageSize
  <2> HIDE DEF t, whole, extend, more
  <2>1. /\ DOMAIN a = AdderFields /\ a.new_chunked = IF whole THEN adder.new_chunked ELSE r
        /\ a.preempt_list = adder.preempt_list /\ a.victims = adder.victims
        /\ a.can_run = Append(adder.can_run, r)
        /\ a.chunk = adder.chunk - CeilPaged(extend)
        /\ a.offset = adder.offset + CeilPaged(extend) + more + PageSize
    BY <1>3, ZenonT(30) DEF AdderFields, UpdatePrefillBudget
  <2> HIDE DEF a
  <2> QED
    BY <1>2, <2>1, ZenonT(30) DEF AdderFields
<1>7. PICK j \in Nat : c.prefix = j * PageSize
  BY <1>4, ZenonT(30)
<1>8. /\ PageSize \in Nat /\ PageSize > 0 /\ c.prefix \in Int /\ NumTokens(r) \in Nat /\ c.extend \in Int
      /\ adder.chunk \in Int /\ adder.offset \in Int
  <2>0. NumTokens(r) \in Nat
    BY NumTokensFacts, ZenonT(30)
  <2>1. PageSize \in Nat /\ PageSize > 0 /\ NumTokens(r) \in Nat
    BY <2>0, PageSizeAssumption
  <2>2. c.prefix \in Int
    BY <1>7, <2>1
  <2>3. c.extend \in Int
    BY <1>4, <2>1, <2>2
  <2> QED
    BY <2>1, <2>2, <2>3, ZenonT(30) DEF BudgetInv
<1>9. /\ CeilPaged(c.extend) \in Int /\ (CeilPaged(c.extend) > 0 <=> c.extend > 0)
      /\ c.extend > 0 => CeilPaged(c.extend) >= PageSize
  BY <1>8, CeilFacts, ZenonT(30)
<1>10. /\ TruncLen(c) = PageFloor(adder.chunk) /\ CeilPaged(TruncLen(c)) = TruncLen(c) /\ TruncLen(c) \in Int
       /\ TruncLen(c) <= adder.chunk /\ adder.chunk < TruncLen(c) + PageSize
  <2>1. TruncLen(c) = PageFloor(PageFloor(adder.chunk) + j * PageSize) - j * PageSize
    BY <1>7, ZenonT(30) DEF TruncLen
  <2> QED
    BY <1>8, <2>1, TruncFacts, FloorFacts
<1>11. extend \in Int /\ CeilPaged(extend) \in Int /\ c.extend > 0 /\ adder.chunk >= PageSize
  <2>1. CASE whole
    BY <1>2, <1>8, <1>9, <2>1
  <2>2. CASE ~whole
    <3>1. TruncLen(c) > 0 /\ CeilPaged(c.extend) > adder.chunk
      BY <1>2, <1>8, <1>9, <2>2
    <3>2. TruncLen(c) >= PageSize
      <4>1. CeilPaged(TruncLen(c)) >= PageSize
        BY <1>10, <3>1, CeilFacts, ZenonT(30)
      <4> QED
        BY <1>10, <4>1, ZenonT(30)
    <3> QED
      BY <1>8, <1>9, <1>10, <2>2, <3>1, <3>2
  <2> QED
    BY <2>1, <2>2, ZenonT(30)
<1>12. adder.new_chunked = NoReq
  BY <1>8, <1>11 DEF BudgetInv
<1>13. ~Preemption => chunked = NoReq
  <2> SUFFICES ASSUME ~Preemption, chunked # NoReq PROVE NoToken(i.tree, c)
    BY <1>2, ZenonT(30)
  <2>1. RemTotalTokens(kv.tree, adder) <= 0
    BY <1>1, <1>8, <1>11 DEF BudgetInv, Admitting
  <2>2. RemTotalTokens(i.tree, adder) = RemTotalTokens(kv.tree, adder) /\ RemTotalTokens(kv.tree, adder) \in Int
    BY <1>4, <1>8, RemFacts, ZenonT(30) DEF RemTotalTokens, MemInv, IsKV, IsTree
  <2> DEFINE reserved == Min({Max({MaxNew - Len(c.output), 0}), ClipMaxNew})
  <2>3. reserved \in Nat
    <3>1. MaxNew - Len(c.output) \in Int
      BY <1>3, <1>4, ConfigsAssumption DEF MaxNew
    <3> QED
      BY <1>3, <3>1, ReservedFacts, ZenonT(30)
  <2>4. NoToken(i.tree, c) <=> c.extend + reserved + PageSize >= RemTotalTokens(i.tree, adder)
    BY ZenonT(30) DEF NoToken
  <2> HIDE DEF reserved
  <2> QED
    BY <1>8, <1>11, <2>1, <2>2, <2>3, <2>4
<1>14. /\ SameReq(req[r], d) /\ d.is_chunked = req[r].is_chunked /\ d.fill = c.prefix + extend
       /\ d.prefix = c.prefix /\ d.committed = req[r].committed
  <2> HIDE DEF extend
  <2> QED
    BY <1>5, ZenonT(30) DEF SameReq, ReqFields
<1>15. whole => d.fill = NumTokens(r)
  BY <1>4, <1>8, <1>14
<1> HIDE DEF whole, extend, more, a, d, t
<1>16. KeepsReqs({r}) /\ KeepsFill({r}) /\ KeepsChunks({}) /\ req'[r] = d
  BY <1>2, <1>3, <1>14, ZenonT(30) DEF ReqTypes, KeepsReqs, KeepsFill, KeepsChunks, SameReq
<1>17. Admit(r)
  <2>1. \/ adder'.new_chunked = r
        \/ adder'.new_chunked = adder.new_chunked /\ req'[r].fill = NumTokens(r)
    BY <1>6, <1>15, <1>16, ZenonT(30)
  <2> QED
    BY <1>1, <1>6, <1>12, <1>13, <1>16, <2>1, ZenonT(30) DEF Admit
<1>18. MemInv'
  <2>1. IsTree(t)
    BY <1>4, LockFacts, ZenonT(30) DEF t
  <2>2. IsKV(kv')
    BY <1>2, <2>1, FreeFacts, ZenonT(30) DEF MemInv
  <2>3. Measured(d)
    BY <1>8, <1>11, <1>14 DEF MemInv, Measured
  <2> QED
    BY <1>2, <1>3, <2>2, <2>3, ZenonT(30) DEF MemInv, ReqTypes
<1>19. BudgetInv'
  <2>1. more \in Int
    <3>1. ReservedNew \in Int
      BY <1>3, ReservedFacts, ZenonT(30)
    <3> QED
      BY <3>1 DEF more
  <2>2. adder'.chunk \in Int /\ adder'.offset \in Int
    <3> DEFINE p == CeilPaged(extend)
    <3>1. /\ adder'.chunk = adder.chunk - p /\ adder'.offset = adder.offset + p + more + PageSize
          /\ p \in Int /\ adder.chunk \in Int /\ adder.offset \in Int /\ PageSize \in Nat
      BY <1>6, <1>8, <1>11, ZenonT(30)
    <3> HIDE DEF p
    <3> QED
      BY <2>1, <3>1
  <2>3. adder'.new_chunked # NoReq => adder'.chunk < PageSize
    <3> SUFFICES ASSUME ~whole PROVE adder'.chunk < PageSize
      BY <1>6, <1>12, ZenonT(30)
    <3>1. CeilPaged(extend) = TruncLen(c)
      BY <1>10, ZenonT(30) DEF extend
    <3> QED
      BY <1>6, <1>8, <1>10, <3>1
  <2>4. ~Preemption' => chunked' = NoReq
    BY <1>1, <1>13, ZenonT(30) DEF Preemption
  <2> QED
    BY <1>1, <2>2, <2>3, <2>4, ZenonT(30) DEF BudgetInv
<1> QED
  BY <1>17, <1>18, <1>19, ZenonT(30)

LEMMA PreemptToScheduleFlow ==
    ASSUME PlaceInv, NEW r \in Reqs, PreemptToSchedule(r), UNCHANGED <<conf, incoming>>
    PROVE  ChooseVictims
<1>1. /\ Loc = "prefill" /\ Loc' = "preempt" /\ Preemption
      /\ UNCHANGED <<conf, req, incoming, waiting, running, chunked, batch, last, queue, next>>
  BY ZenonT(30) DEF PreemptToSchedule, Loc, loop
<1>2. PICK S \in VictimSets(r) :
        adder' = [adder EXCEPT !.favoured = r, !.victims = S,
                               !.offset = @ - Total([v \in S |-> RunningOffset(v, adder.ratio)])]
  BY ZenonT(30) DEF PreemptToSchedule
<1>3. S # {} /\ S \subseteq Running /\ \A v \in S : ~Finished(v)
  BY ZenonT(30) DEF VictimSets, Preemptible, Running
<1>4. DOMAIN adder = AdderFields
  BY ZenonT(30) DEF PlaceInv, PlaceTypes
<1>5. KeepsAdder /\ adder'.victims = S
  BY <1>1, <1>2, <1>4, ZenonT(30) DEF KeepsAdder, AdderFields, Admitting
<1> QED
  BY <1>1, <1>3, <1>5, ZenonT(30) DEF ChooseVictims

\* The next victim, in the order of the running batch.
LEMMA VictimFacts ==
    ASSUME PlaceInv, Loc = "preempt"
    PROVE  LET v == running[Min({i \in DOMAIN running : running[i] \in adder.victims})]
           IN v \in adder.victims /\ v \in Reqs
<1> DEFINE I == {i \in DOMAIN running : running[i] \in adder.victims}
<1>1. running \in Seq(Reqs) /\ adder.victims # {} /\ VictimsRun
  BY ZenonT(30) DEF PlaceInv, PlaceTypes, VictimsRun
<1>2. \A i \in DOMAIN running : i \in Nat /\ running[i] \in Reqs
  BY <1>1
<1>3. I \subseteq Nat /\ I # {}
  BY <1>1, <1>2, ZenonT(30) DEF VictimsRun, Running, Range
<1> HIDE DEF I
<1>4. Min(I) \in I
  BY <1>3, MinNat, ZenonT(30)
<1> QED
  BY <1>2, <1>4, ZenonT(30) DEF I

\* The next victim in batch order is one of the victims.
LEMMA PreemptOneFlow ==
    ASSUME PlaceInv, PreemptOne, UNCHANGED <<conf, incoming>>
    PROVE  PreemptVictim
<1> DEFINE I == {i \in DOMAIN running : running[i] \in adder.victims}
           v == running[Min(I)]
<1>1. /\ Loc = "preempt"
      /\ Loc' = IF adder.victims = {v} THEN "prefill" ELSE "preempt"
      /\ running' = Without(running, {v})
      /\ adder' = [adder EXCEPT !.victims = @ \ {v}, !.preempt_list = @ \cup {v}]
      /\ req' = [req EXCEPT ![v] = [NewReq(@.origin, @.prio) EXCEPT
                                    !.output = req[v].output, !.is_retracted = TRUE]]
      /\ UNCHANGED <<conf, incoming, waiting, chunked, batch, last, queue, next>>
  BY ZenonT(30) DEF PreemptOne, ReleaseReq, CallEvict, Loc, loop
<1>2. running \in Seq(Reqs) /\ IsInjective(running) /\ adder.victims # {} /\ VictimsRun /\ ReqTypes
      /\ DOMAIN adder = AdderFields
  BY <1>1, ZenonT(30) DEF PlaceInv, PlaceTypes, Apart, VictimsRun
<1>3. v \in adder.victims /\ v \in Reqs
  BY <1>1, VictimFacts, ZenonT(30)
<1> HIDE DEF v
<1>4. Lists(running', Running \ {v})
  BY <1>1, <1>2, WithoutFacts, ZenonT(30) DEF Lists, Running
<1>5. /\ DOMAIN adder' = AdderFields /\ adder'.can_run = adder.can_run
      /\ adder'.new_chunked = adder.new_chunked
      /\ adder'.preempt_list = adder.preempt_list \cup {v} /\ adder'.victims = adder.victims \ {v}
  BY <1>1, <1>2, ZenonT(30) DEF AdderFields
<1>6. /\ Resets(v) /\ req'[v].output = req[v].output
      /\ req'[v].is_retracted = TRUE /\ req'[v].finished = FALSE
  BY <1>1, <1>2, <1>3, ReleaseFields, ZenonT(30)
<1> QED
  BY <1>1, <1>3, <1>4, <1>5, <1>6, ZenonT(30) DEF PreemptVictim

LEMMA NoNewBatchFlow ==
    ASSUME NoNewBatch, UNCHANGED <<conf, incoming>>
    PROVE  GiveUp
BY ZenonT(30) DEF NoNewBatch, LoopEnds, GiveUp, Loc, loop

LEMMA NewPrefillBatchFlow ==
    ASSUME PlaceInv, NewPrefillBatch, UNCHANGED <<conf, incoming>>
    PROVE  Build
<1> DEFINE c == IF adder.new_chunked # NoReq THEN adder.new_chunked ELSE chunked
<1>1. /\ Loc = "prefill" /\ Loc' = "extend" /\ adder.can_run # <<>>
      /\ waiting' = (waiting \ Admitted) \cup Preempted /\ chunked' = c
      /\ req' = IF c = NoReq THEN req ELSE [req EXCEPT ![c].is_chunked = @ + 1]
      /\ batch' = [NoBatch EXCEPT !.kind = "extend", !.reqs = adder.can_run, !.chunked = c]
      /\ adder' = NoAdder
      /\ UNCHANGED <<conf, incoming, running, last, queue, next>>
  BY ZenonT(30) DEF NewPrefillBatch, LoopEnds, Requeued, CallEvict, Loc, Admitted, Preempted
<1>2. c = NoReq \/ c \in Reqs
  <2>1. Admitted \subseteq Reqs
    BY BatchMembers, ZenonT(30) DEF PlaceInv, PlaceTypes, Admitted
  <2> QED
    BY <1>1, <2>1, ZenonT(30) DEF PlaceInv, PlaceTypes, ChunkedPlace, Admitting
<1>3. ReqTypes
  BY ZenonT(30) DEF PlaceInv
<1>4. c = IF adder.new_chunked # NoReq THEN adder.new_chunked ELSE chunked
  BY ZenonT(30)
<1> HIDE DEF c
<1>5. /\ KeepsReqs({}) /\ KeepsFill({}) /\ KeepsChunks({c})
      /\ c # NoReq => req'[c].is_chunked = req[c].is_chunked + 1
  <2>1. CASE c = NoReq
    BY <1>1, <1>3, <2>1, UnchangedReqs, ZenonT(30) DEF KeepsChunks
  <2>2. CASE c # NoReq
    BY <1>1, <1>2, <1>3, <2>2, ZenonT(30) DEF ReqTypes, KeepsReqs, KeepsFill, KeepsChunks, SameReq, ReqFields
  <2> QED
    BY <2>1, <2>2, ZenonT(30)
<1> QED
  BY <1>1, <1>4, <1>5, ZenonT(30) DEF Build

LEMMA LaunchFlow ==
    ASSUME NEW b, Launch(b)
    PROVE  Launches(b)
BY ZenonT(30) DEF Launch, Launches, Loc

LEMMA AllocForExtendFlow ==
    ASSUME PlaceInv, AllocForExtend, UNCHANGED <<conf, incoming>>
    PROVE  ExtendBatch
<1> DEFINE len == [r \in Reqs |-> req[r].fill]
<1>1. /\ Loc = "extend" /\ req' = Grown(batch.reqs, len) /\ MixWithRunning
      /\ UNCHANGED <<conf, incoming, waiting, chunked, last, next, adder>>
  BY ZenonT(30) DEF AllocForExtend, Loc
<1> HIDE DEF len
<1>2. /\ batch.reqs \in Seq(Reqs) /\ running \in Seq(Reqs) /\ IsInjective(running) /\ ReqTypes
  BY ZenonT(30) DEF PlaceInv, PlaceTypes, Apart
<1>3. Grows(batch.reqs, len)
  BY <1>1, <1>2, GrownFields, ZenonT(30)
<1>4. IF MixedChunk THEN Lists(running', Live(Running)) ELSE running' = running
  BY <1>1, <1>2, UnfinishedFacts, ZenonT(30) DEF MixWithRunning, Running
<1>5. \/ MixedChunk /\ running' # <<>> /\ Loc' = "decode_alloc" /\ UNCHANGED <<batch, queue>>
      \/ Launches(batch)
  BY <1>1, LaunchFlow DEF MixWithRunning, CallEvict, Loc
<1> QED
  BY <1>1, <1>3, <1>4, <1>5, ZenonT(30) DEF ExtendBatch, len

LEMMA UpdateRunningBatchFlow ==
    ASSUME PlaceInv, UpdateRunningBatch, UNCHANGED <<conf, incoming>>
    PROVE  Filter
<1>1. /\ Loc = "decode" /\ running' = Unfinished(running)
      /\ Loc' = IF running' = <<>> THEN "process" ELSE "check"
      /\ UNCHANGED <<conf, req, incoming, waiting, chunked, batch, last, queue, next, adder>>
  BY ZenonT(30) DEF UpdateRunningBatch, Loc, loop
<1>2. running \in Seq(Reqs) /\ IsInjective(running)
  BY ZenonT(30) DEF PlaceInv, PlaceTypes, Apart
<1>3. Lists(running', Live(Running))
  BY <1>1, <1>2, UnfinishedFacts, ZenonT(30) DEF Running
<1> QED
  BY <1>1, <1>3, ZenonT(30) DEF Filter

LEMMA RetractOneFlow ==
    ASSUME PlaceInv, RetractOne, UNCHANGED <<conf, incoming>>
    PROVE  RetractRunning
<1>1. PICK v \in Range(running) :
        /\ running' = Without(running, {v}) /\ waiting' = waiting \cup {v}
        /\ req' = [req EXCEPT ![v] = [NewReq(@.origin, @.prio) EXCEPT
                                        !.output = req[v].output, !.is_retracted = TRUE]]
  BY ZenonT(30) DEF RetractOne, ReleaseReq
<1>2. /\ Loc = "checked" /\ Loc' = "check" /\ Len(running) > 1
      /\ UNCHANGED <<conf, incoming, chunked, batch, last, queue, next, adder>>
  BY ZenonT(30) DEF RetractOne, CallEvict, Loc, loop
<1>3. running \in Seq(Reqs) /\ IsInjective(running) /\ ReqTypes /\ v \in Reqs /\ v \in Running
  BY BatchMembers, ZenonT(30) DEF PlaceInv, PlaceTypes, Apart, Running
<1>4. Lists(running', Running \ {v})
  BY <1>1, <1>3, WithoutFacts, ZenonT(30) DEF Lists, Running
<1>5. /\ Resets(v) /\ req'[v].output = req[v].output
      /\ req'[v].is_retracted = TRUE /\ req'[v].finished = FALSE
  BY <1>1, <1>3, ReleaseFields, ZenonT(30)
<1> QED
  BY <1>1, <1>2, <1>3, <1>4, <1>5, ZenonT(30) DEF RetractRunning

LEMMA AbortLastFlow ==
    ASSUME PlaceInv, AbortLast, UNCHANGED <<conf, incoming>>
    PROVE  GiveUpLast
<1> DEFINE v == running[1]
<1>1. /\ Loc = "checked" /\ Loc' = "process" /\ Len(running) = 1 /\ running' = <<>>
      /\ req' = [req EXCEPT ![v] = [NewReq(@.origin, @.prio) EXCEPT
                                      !.output = req[v].output,
                                      !.is_retracted = TRUE, !.finished = TRUE]]
      /\ UNCHANGED <<conf, incoming, waiting, chunked, batch, last, queue, next, adder>>
  BY ZenonT(30) DEF AbortLast, Loc, loop
<1>2. ReqTypes /\ running \in Seq(Reqs)
  BY ZenonT(30) DEF PlaceInv, PlaceTypes
<1>3. v \in Reqs
  BY <1>1, <1>2
<1>4. v = running[1]
  BY ZenonT(30)
<1> HIDE DEF v
<1>5. /\ Resets(v) /\ req'[v].output = req[v].output
      /\ req'[v].is_retracted = TRUE /\ req'[v].finished = TRUE
  BY <1>1, <1>2, <1>3, ZenonT(30) DEF ReqTypes, Resets, ChangesOnly, NewReq, ReqFields
<1> QED
  BY <1>1, <1>4, <1>5, ZenonT(30) DEF GiveUpLast

LEMMA AllocForDecodeFlow ==
    ASSUME PlaceInv, AllocForDecode, UNCHANGED <<conf, incoming>>
    PROVE  DecodeBatch
<1> DEFINE len == [r \in Reqs |-> req[r].committed + 1]
           mixed == batch.kind = "extend"
           b == IF mixed
                THEN [batch EXCEPT !.reqs = @ \o running, !.decoding = Range(running)]
                ELSE [NoBatch EXCEPT !.kind = "decode", !.reqs = running]
<1>1. /\ Loc = "decode_alloc" /\ req' = Grown(running, len)
      /\ running' = IF mixed THEN <<>> ELSE running
      /\ Launch(b)
      /\ UNCHANGED <<conf, incoming, waiting, chunked, last, next, adder>>
  BY ZenonT(30) DEF AllocForDecode, Loc
<1> HIDE DEF len
<1>2. running \in Seq(Reqs) /\ ReqTypes
  BY ZenonT(30) DEF PlaceInv, PlaceTypes
<1>3. Grows(running, len)
  BY <1>1, <1>2, GrownFields, ZenonT(30)
<1>4. Launches(b)
  BY <1>1, LaunchFlow, ZenonT(30)
<1> QED
  BY <1>1, <1>3, <1>4, ZenonT(30) DEF DecodeBatch, len

\* The token of a result is the next output of its request.
LEMMA OutputFlow ==
    ASSUME PlaceInv, NEW r \in Reqs, FinishReq(r) \/ ContinueReq(r)
    PROVE  Output(r)
<1> DEFINE q == WithOutput(r)
<1>1. DOMAIN req = Reqs /\ DOMAIN req[r] = ReqFields
  BY ZenonT(30) DEF PlaceInv, ReqTypes
<1>2. /\ DOMAIN q = ReqFields /\ q.output = Append(req[r].output, Result.out[r])
      /\ q.origin = req[r].origin /\ q.finished = req[r].finished /\ q.is_retracted = req[r].is_retracted
      /\ q.committed = req[r].committed /\ q.fill = req[r].fill /\ q.is_chunked = req[r].is_chunked
  BY <1>1, ZenonT(30) DEF WithOutput, ReqFields
<1>3. CASE FinishReq(r)
  <2>1. req' = [req EXCEPT ![r] = [NewReq(q.origin, q.prio) EXCEPT !.output = q.output, !.finished = TRUE]]
    BY <1>3, ZenonT(30) DEF FinishReq
  <2> HIDE DEF q
  <2>2. /\ DOMAIN req' = Reqs /\ \A x \in Reqs \ {r} : req'[x] = req[x]
        /\ DOMAIN req'[r] = ReqFields /\ req'[r].origin = q.origin /\ req'[r].output = q.output
        /\ req'[r].finished = TRUE /\ req'[r].is_retracted = FALSE
        /\ req'[r].row = <<>> /\ req'[r].committed = 0 /\ req'[r].is_chunked = 0
    BY <1>1, <2>1, ZenonT(30) DEF NewReq, ReqFields
  <2> QED
    BY <1>2, <2>2, ZenonT(30) DEF Output, Resets, ChangesOnly
<1>4. CASE ContinueReq(r)
  <2> DEFINE c == CacheUnfinishedReq(kv, q).q
  <2>1. req' = [req EXCEPT ![r] = c] \/ req' = [req EXCEPT ![r] = q]
    BY <1>4, ZenonT(30) DEF ContinueReq
  <2> HIDE DEF q
  <2>2. Recached(q, c)
    BY <1>2, CacheUnfinishedFields, ZenonT(30)
  <2> HIDE DEF c
  <2>3. /\ DOMAIN req' = Reqs /\ \A x \in Reqs \ {r} : req'[x] = req[x]
        /\ DOMAIN req'[r] = ReqFields /\ req'[r].origin = q.origin /\ req'[r].output = q.output
        /\ req'[r].finished = q.finished /\ req'[r].is_retracted = q.is_retracted
        /\ req'[r].committed = q.committed /\ req'[r].fill = q.fill /\ req'[r].is_chunked = q.is_chunked
    BY <1>1, <1>2, <2>1, <2>2, ZenonT(30) DEF Recached, SameReq
  <2> QED
    BY <1>2, <2>3, ZenonT(30) DEF Output, ChangesOnly
<1> QED
  BY <1>3, <1>4, ZenonT(30)

-----------------------------------------------------------------------------
(* The sizes stay numbers, and the budget stays spent.                     *)

\* Of one request and the memory.
LEMMA OneMeasured ==
    ASSUME PlaceInv, MemInv, NEW r \in Reqs, NEW q, req' = [req EXCEPT ![r] = q], Measured(q), IsKV(kv')
    PROVE  MemInv'
<1>1. DOMAIN req = Reqs
  BY ZenonT(30) DEF PlaceInv, ReqTypes
<1> QED
  BY <1>1, ZenonT(30) DEF MemInv, Measured

\* release_req: a request gives back its memory.
LEMMA ReleasedMem ==
    ASSUME PlaceInv, Origins, MemInv, NEW r \in Reqs, NEW q, req' = [req EXCEPT ![r] = q],
           kv' = CacheFinishedReq(kv, req[r], FALSE), Measured(q)
    PROVE  MemInv'
<1>1. TokenIds(req[r]) \in Seq(Range(req[r].origin) \cup Tokens)
  BY NumTokensFacts, ZenonT(30)
<1>2. IsKV(kv) /\ req[r].committed \in Int
  BY ZenonT(30) DEF MemInv, Measured
<1>3. IsKV(kv')
  BY <1>1, <1>2, CacheFinishedFacts, ZenonT(30)
<1> QED
  BY <1>3, OneMeasured, ZenonT(30)

\* A request that starts again.
LEMMA NewMeasured ==
    ASSUME NEW o, NEW p, NEW w
    PROVE  /\ Measured(NewReq(o, p))
           /\ Measured([NewReq(o, p) EXCEPT !.output = w, !.is_retracted = TRUE])
           /\ Measured([NewReq(o, p) EXCEPT !.output = w, !.is_retracted = TRUE, !.finished = TRUE])
           /\ Measured([NewReq(o, p) EXCEPT !.output = w, !.finished = TRUE])
BY DEF Measured, NewReq

\* cache_unfinished_req
LEMMA CachedMem ==
    ASSUME PlaceInv, Origins, MemInv, NEW r \in Reqs, NEW q, DOMAIN q = ReqFields,
           q.origin = req[r].origin, q.output \in Seq(Tokens), q.fill = req[r].fill,
           q.committed = req[r].committed,
           req' = [req EXCEPT ![r] = CacheUnfinishedReq(kv, q).q], kv' = CacheUnfinishedReq(kv, q).kv
    PROVE  MemInv'
<1> DEFINE c == CacheUnfinishedReq(kv, q).q
<1>1. TokenIds(q) \in Seq(Range(req[r].origin) \cup Tokens)
  BY TokenIdsFacts, ZenonT(30)
<1>2. IsKV(kv) /\ q.fill \in Int /\ q.committed \in Int
  BY ZenonT(30) DEF MemInv, Measured
<1>3. IsKV(kv')
  BY <1>1, <1>2, CacheUnfinishedFacts, ZenonT(30)
<1>4. c.prefix = q.fill /\ c.fill = q.fill /\ c.committed = q.committed
  BY ZenonT(30) DEF CacheUnfinishedReq, ReqFields
<1> HIDE DEF c
<1>5. Measured(c)
  BY <1>2, <1>4, ZenonT(30) DEF Measured
<1> QED
  BY <1>3, <1>5, OneMeasured, ZenonT(30) DEF c

LEMMA GetNextBatchToRunMem ==
    ASSUME PlaceInv, Origins, MemInv, GetNextBatchToRun
    PROVE  MemInv'
<1>1. CASE chunked # NoReq /\ stash
  <2>1. chunked \in Reqs /\ DOMAIN req[chunked] = ReqFields /\ req[chunked].output \in Seq(Tokens)
    BY <1>1, ZenonT(30) DEF PlaceInv, PlaceTypes, ReqTypes
  <2>2. PICK r \in Reqs : r = chunked
    BY <2>1, ZenonT(30)
  <2>3. /\ req' = [req EXCEPT ![r] = CacheUnfinishedReq(kv, req[r]).q]
        /\ kv' = CacheUnfinishedReq(kv, req[r]).kv
    BY <1>1, <2>2, ZenonT(30) DEF GetNextBatchToRun
  <2> QED
    BY <2>1, <2>2, <2>3, CachedMem, ZenonT(30)
<1>2. CASE ~(chunked # NoReq /\ stash)
  <2>1. kv' = kv /\ req' = req
    BY <1>2, ZenonT(30) DEF GetNextBatchToRun
  <2> QED
    BY <2>1, ZenonT(30) DEF MemInv, Measured
<1> QED
  BY <1>1, <1>2, ZenonT(30)

\* init_next_round_input
LEMMA RejectOneReqMem ==
    ASSUME PlaceInv, Origins, MemInv, BudgetInv, NEW r \in Reqs, RejectOneReq(r), UNCHANGED conf
    PROVE  MemInv' /\ BudgetInv'
<1> DEFINE i == NextRoundInput(req[r])
<1>1. /\ pc = "prefill" /\ pc' = "prefill" /\ kv' = [kv EXCEPT !.tree = i.tree]
      /\ req' = [req EXCEPT ![r] = i.q] /\ UNCHANGED <<conf, chunked, evict>>
      /\ adder' = [adder EXCEPT !.stop = TRUE, !.favoured = NoReq]
  BY ZenonT(30) DEF RejectOneReq, Reached
<1>2. /\ IsTree(i.tree) /\ i.tree.evictable = kv.tree.evictable /\ i.q.fill = NumTokens(r)
      /\ \E j \in Nat : i.q.prefix = j * PageSize
      /\ i.q.committed = req[r].committed
  BY NextRoundFacts, ZenonT(30)
<1> HIDE DEF i
<1>3. /\ adder'.chunk = adder.chunk /\ adder'.offset = adder.offset
      /\ adder'.new_chunked = adder.new_chunked
  BY <1>1, ZenonT(30) DEF PlaceInv, PlaceTypes, AdderFields
<1>4. Measured(i.q)
  <2>1. NumTokens(r) \in Nat
    BY NumTokensFacts, ZenonT(30)
  <2>2. i.q.prefix \in Int
    BY <1>2, PageSizeAssumption
  <2>3. req[r].committed \in Int
    BY ZenonT(30) DEF MemInv, Measured
  <2> QED
    BY <1>2, <2>1, <2>2, <2>3 DEF Measured
<1>5. IsKV(kv') /\ kv'.free = kv.free /\ kv'.tree.evictable = kv.tree.evictable
  <2>1. IsTree(i.tree) /\ i.tree.evictable = kv.tree.evictable /\ kv' = [kv EXCEPT !.tree = i.tree]
    BY <1>1, <1>2, ZenonT(30)
  <2> QED
    BY <2>1, FreeFacts, ZenonT(30) DEF MemInv
<1>6. MemInv'
  BY <1>1, <1>4, <1>5, OneMeasured, ZenonT(30)
<1>7. RemTotalTokens(kv.tree, adder)' = RemTotalTokens(kv.tree, adder)
  BY <1>3, <1>5, ZenonT(30) DEF RemTotalTokens, AvailableSize
<1>8. Admitting
  BY <1>1, ZenonT(30) DEF Admitting, Loc
<1>9. Preemption' = Preemption
  BY ZenonT(30) DEF Preemption
<1>10. BudgetInv'
  BY <1>1, <1>3, <1>7, <1>8, <1>9, ZenonT(30) DEF BudgetInv
<1> QED
  BY <1>6, <1>10, ZenonT(30)

\* Preemption gives tokens back.
LEMMA PreemptToScheduleMem ==
    ASSUME PlaceInv, MemInv, BudgetInv, NEW r \in Reqs, PreemptToSchedule(r), UNCHANGED conf
    PROVE  MemInv' /\ BudgetInv'
<1>1. PICK S \in VictimSets(r) :
        adder' = [adder EXCEPT
                    !.favoured = r, !.victims = S,
                    !.offset = @ - Total([v \in S |-> RunningOffset(v, adder.ratio)])]
  BY ZenonT(30) DEF PreemptToSchedule
<1> DEFINE n == Total([v \in S |-> RunningOffset(v, adder.ratio)])
<1>2. n \in Int
  BY SumFacts, ZenonT(30)
<1>3. Preemption /\ UNCHANGED <<kv, req>>
  BY ZenonT(30) DEF PreemptToSchedule
<1>4. adder' = [adder EXCEPT !.favoured = r, !.victims = S, !.offset = @ - n]
  BY <1>1, ZenonT(30)
<1> HIDE DEF n
<1>5. /\ adder'.chunk = adder.chunk /\ adder'.new_chunked = adder.new_chunked
      /\ adder'.offset = adder.offset - n
  BY <1>4, ZenonT(30) DEF PlaceInv, PlaceTypes, AdderFields
<1>6. MemInv'
  BY <1>3, ZenonT(30) DEF MemInv, Measured
<1>7. adder'.offset \in Int
  BY <1>2, <1>5 DEF BudgetInv
<1>8. Preemption'
  BY <1>3, ZenonT(30) DEF Preemption
<1>9. BudgetInv'
  BY <1>5, <1>7, <1>8, ZenonT(30) DEF BudgetInv
<1> QED
  BY <1>6, <1>9, ZenonT(30)

LEMMA PreemptOneMem ==
    ASSUME PlaceInv, Origins, MemInv, BudgetInv, PreemptOne, UNCHANGED conf
    PROVE  MemInv' /\ BudgetInv'
<1> DEFINE v == running[Min({i \in DOMAIN running : running[i] \in adder.victims})]
<1>1. /\ pc = "preempt" /\ ReleaseReq(v)
      /\ adder' = [adder EXCEPT !.victims = @ \ {v}, !.preempt_list = @ \cup {v}]
  BY ZenonT(30) DEF PreemptOne
<1>2. Preemption
  BY <1>1, ZenonT(30) DEF PlaceInv, Kept, Loc
<1>3. v \in Reqs
  <2>1. Loc = "preempt"
    BY <1>1, ZenonT(30) DEF Loc
  <2> QED
    BY <2>1, VictimFacts, ZenonT(30)
<1> HIDE DEF v
<1>4. /\ adder'.chunk = adder.chunk /\ adder'.new_chunked = adder.new_chunked
      /\ adder'.offset = adder.offset
  BY <1>1, ZenonT(30) DEF PlaceInv, PlaceTypes, AdderFields
<1>5. MemInv'
  <2> DEFINE q == [NewReq(req[v].origin, req[v].prio) EXCEPT !.output = req[v].output, !.is_retracted = TRUE]
  <2>1. req' = [req EXCEPT ![v] = q] /\ kv' = CacheFinishedReq(kv, req[v], FALSE)
    BY <1>1, <1>3, ZenonT(30) DEF ReleaseReq, PlaceInv, ReqTypes
  <2>2. Measured(q)
    BY NewMeasured, ZenonT(30)
  <2> HIDE DEF q
  <2> QED
    BY <1>3, <2>1, <2>2, ReleasedMem, ZenonT(30)
<1>6. Preemption'
  BY <1>2, ZenonT(30) DEF Preemption
<1>7. BudgetInv'
  BY <1>4, <1>6, ZenonT(30) DEF BudgetInv
<1> QED
  BY <1>5, <1>7, ZenonT(30)

\* The KV of a batch is committed.
LEMMA GrownMem ==
    ASSUME PlaceInv, MemInv, NEW s \in Seq(Reqs), NEW len, \A r \in Reqs : len[r] \in Int,
           req' = Grown(s, len), NEW n, NEW W, kv' = WriteKV(Alloc(kv, n), W)
    PROVE  MemInv'
<1>1. IsKV(kv')
  BY WriteFacts, ZenonT(30) DEF MemInv
<1>2. Range(s) \subseteq Reqs
  BY BatchMembers, ZenonT(30)
<1>3. \A r \in Range(s) : \E w : req'[r] = [req[r] EXCEPT !.row = w, !.committed = len[r],
                                                         !.is_retracted = FALSE]
  BY <1>2, ZenonT(30) DEF Grown
<1>4. \A r \in Reqs \ Range(s) : req'[r] = req[r]
  BY <1>2, ZenonT(30) DEF Grown
<1>5. ASSUME NEW r \in Range(s) PROVE Measured(req'[r])
  <2>1. PICK w : req'[r] = [req[r] EXCEPT !.row = w, !.committed = len[r], !.is_retracted = FALSE]
    BY <1>3, ZenonT(30)
  <2>2. DOMAIN req[r] = ReqFields /\ Measured(req[r]) /\ len[r] \in Int
    BY <1>2, ZenonT(30) DEF PlaceInv, ReqTypes, MemInv
  <2> QED
    BY <2>1, <2>2, ZenonT(30) DEF ReqFields, Measured
<1>6. \A r \in Reqs : Measured(req'[r])
  BY <1>4, <1>5, ZenonT(30) DEF MemInv
<1> QED
  BY <1>1, <1>6, ZenonT(30) DEF MemInv, Measured

LEMMA AllocMem ==
    ASSUME PlaceInv, MemInv, AllocForExtend \/ AllocForDecode
    PROVE  MemInv'
<1>1. batch.reqs \in Seq(Reqs) /\ running \in Seq(Reqs)
  BY ZenonT(30) DEF PlaceInv, PlaceTypes
<1>2. CASE AllocForExtend
  <2> DEFINE len == [r \in Reqs |-> req[r].fill]
  <2>1. req' = Grown(batch.reqs, len) /\ \E n, W : kv' = WriteKV(Alloc(kv, n), W)
    BY <1>2, ZenonT(30) DEF AllocForExtend, Written
  <2>2. \A r \in Reqs : len[r] \in Int
    BY ZenonT(30) DEF MemInv, Measured
  <2> HIDE DEF len
  <2> QED
    BY <1>1, <2>1, <2>2, GrownMem, ZenonT(30)
<1>3. CASE AllocForDecode
  <2> DEFINE len == [r \in Reqs |-> req[r].committed + 1]
  <2>1. req' = Grown(running, len) /\ \E n, W : kv' = WriteKV(Alloc(kv, n), W)
    BY <1>3, ZenonT(30) DEF AllocForDecode, Written
  <2>2. \A r \in Reqs : len[r] \in Int
    BY DEF MemInv, Measured
  <2> HIDE DEF len
  <2> QED
    BY <1>1, <2>1, <2>2, GrownMem, ZenonT(30)
<1> QED
  BY <1>2, <1>3, ZenonT(30)

LEMMA RetractMem ==
    ASSUME PlaceInv, Origins, MemInv, RetractOne \/ AbortLast
    PROVE  MemInv'
<1>1. running \in Seq(Reqs) /\ DOMAIN req = Reqs
  BY ZenonT(30) DEF PlaceInv, PlaceTypes, ReqTypes
<1>2. CASE RetractOne
  <2>1. PICK v \in Range(running) : ReleaseReq(v)
    BY <1>2, ZenonT(30) DEF RetractOne
  <2> DEFINE q == [NewReq(req[v].origin, req[v].prio) EXCEPT !.output = req[v].output, !.is_retracted = TRUE]
  <2>2. v \in Reqs
    BY <1>1, BatchMembers, ZenonT(30)
  <2>3. req' = [req EXCEPT ![v] = q] /\ kv' = CacheFinishedReq(kv, req[v], FALSE)
    BY <1>1, <2>1, <2>2, ZenonT(30) DEF ReleaseReq
  <2>4. Measured(q)
    BY NewMeasured, ZenonT(30)
  <2> HIDE DEF q
  <2> QED
    BY <2>2, <2>3, <2>4, ReleasedMem, ZenonT(30)
<1>3. CASE AbortLast
  <2>1. Len(running) = 1
    BY <1>3, ZenonT(30) DEF AbortLast
  <2>2. running[1] \in Reqs
    BY <1>1, <2>1
  <2>3. PICK v \in Reqs : v = running[1]
    BY <2>2, ZenonT(30)
  <2> DEFINE q == [NewReq(req[v].origin, req[v].prio) EXCEPT !.output = req[v].output,
                                                            !.is_retracted = TRUE, !.finished = TRUE]
  <2>4. req' = [req EXCEPT ![v] = q] /\ kv' = CacheFinishedReq(kv, req[v], FALSE)
    BY <1>1, <1>3, <2>3, ZenonT(30) DEF AbortLast
  <2>5. Measured(q)
    BY NewMeasured, ZenonT(30)
  <2> HIDE DEF q
  <2> QED
    BY <2>4, <2>5, ReleasedMem, ZenonT(30)
<1> QED
  BY <1>2, <1>3, ZenonT(30)

\* The results: the output of the request is in the tokens, as the flow says.
LEMMA ResultMem ==
    ASSUME PlaceInv, PlaceInv', Origins, MemInv, NEW r \in Reqs, FinishReq(r) \/ ContinueReq(r),
           UNCHANGED conf
    PROVE  MemInv'
<1>1. PICK q : q = WithOutput(r)
  BY ZenonT(30)
<1>2. DOMAIN req = Reqs /\ DOMAIN req[r] = ReqFields /\ Measured(req[r])
  BY ZenonT(30) DEF PlaceInv, ReqTypes, MemInv
<1>3. /\ DOMAIN q = ReqFields /\ q.origin = req[r].origin /\ q.fill = req[r].fill
      /\ q.committed = req[r].committed /\ q.prefix = req[r].prefix
      /\ q.output = Append(req[r].output, Result.out[r])
  BY <1>1, <1>2, ZenonT(30) DEF WithOutput, ReqFields
<1>4. q.output \in Seq(Tokens)
  <2>1. Output(r)
    BY OutputFlow, ZenonT(30)
  <2>2. req'[r].output = q.output
    BY <1>3, <2>1, ZenonT(30) DEF Output
  <2>3. req'[r].output \in Seq(Tokens)
    BY ZenonT(30) DEF PlaceInv, ReqTypes, Tokens
  <2> QED
    BY <2>2, <2>3, ZenonT(30)
<1>5. Measured(q)
  BY <1>2, <1>3, ZenonT(30) DEF Measured
<1>6. CASE FinishReq(r)
  <2> DEFINE f == [NewReq(q.origin, q.prio) EXCEPT !.output = q.output, !.finished = TRUE]
  <2>1. req' = [req EXCEPT ![r] = f] /\ kv' = CacheFinishedReq(kv, q, TRUE)
    BY <1>1, <1>6, ZenonT(30) DEF FinishReq
  <2>2. Measured(f)
    BY NewMeasured, ZenonT(30)
  <2> HIDE DEF f
  <2>3. TokenIds(q) \in Seq(Range(req[r].origin) \cup Tokens)
    BY <1>3, <1>4, TokenIdsFacts, ZenonT(30)
  <2>4. IsKV(kv')
    BY <1>5, <2>1, <2>3, CacheFinishedFacts, ZenonT(30) DEF MemInv, Measured
  <2> QED
    BY <2>1, <2>2, <2>4, OneMeasured, ZenonT(30)
<1>7. CASE ContinueReq(r)
  <2>1. \/ /\ req' = [req EXCEPT ![r] = CacheUnfinishedReq(kv, q).q]
           /\ kv' = CacheUnfinishedReq(kv, q).kv
        \/ req' = [req EXCEPT ![r] = q] /\ kv' = kv
    BY <1>1, <1>7, ZenonT(30) DEF ContinueReq
  <2>2. CASE req' = [req EXCEPT ![r] = q] /\ kv' = kv
    <3>1. IsKV(kv')
      BY <2>2, ZenonT(30) DEF MemInv
    <3> QED
      BY <1>5, <2>2, <3>1, OneMeasured, ZenonT(30)
  <2> QED
    BY <1>3, <1>4, <2>1, <2>2, CachedMem, ZenonT(30)
<1> QED
  BY <1>6, <1>7, ZenonT(30)

=============================================================================
