----------------------- MODULE RequestFlowInvariant -----------------------
(***************************************************************************)
(* The inductive invariant of RequestFlow, for any server and load: where  *)
(* a request may be at each place of the loop, which results are still to  *)
(* come for it, and, without preemption, in which order.                   *)
(***************************************************************************)
EXTENDS RequestFlow

-----------------------------------------------------------------------------
(* The inductive invariant.                                                *)

\* Requests are records, and their outputs sequences of tokens.
ReqTypes ==
    /\ DOMAIN req = Reqs
    /\ \A r \in Reqs : /\ DOMAIN req[r] = ReqFields /\ req[r].output \in Seq(Tokens)
                       /\ req[r].finished \in BOOLEAN /\ req[r].is_retracted \in BOOLEAN

\* The sets and sequences of requests.
PlaceTypes ==
    /\ conf \in Configs
    /\ incoming \subseteq Reqs /\ waiting \subseteq Reqs /\ chunked \in Reqs \cup {NoReq}
    /\ running \in Seq(Reqs) /\ batch.reqs \in Seq(Reqs) /\ last.reqs \in Seq(Reqs)
    /\ adder.can_run \in Seq(Reqs) /\ adder.preempt_list \subseteq Reqs
    /\ DOMAIN adder = AdderFields /\ DOMAIN batch = BatchFields
    /\ batch.kind \in {"none", "extend", "decode"} /\ last.kind \in {"none", "extend", "decode"}
    /\ next \in Nat \ {0}

\* Which variables are in use where.
Places ==
    /\ Loc \in {"begin", "policy", "prefill", "preempt", "extend", "decode", "check", "checked",
                "decode_alloc", "process"}
    /\ Loc \in {"begin", "policy", "prefill", "preempt", "decode", "check", "checked"} => batch = NoBatch
    /\ Loc = "extend" => batch.kind = "extend"
    /\ Loc = "decode_alloc" => batch = NoBatch \/ batch.kind = "extend"
    /\ ~Admitting => adder = NoAdder
    /\ Loc # "process" => next = 1

\* No request is twice in a batch, nor in two of the places that exclude each other.
Apart ==
    /\ IsInjective(running) /\ IsInjective(adder.can_run)
    /\ IsInjective(batch.reqs) /\ IsInjective(last.reqs)
    /\ waiting \cap Running = {} /\ chunked \notin waiting /\ chunked \notin Running
    /\ Admitted \cap Running = {}
    /\ Preempted \cap waiting = {} /\ Preempted \cap Running = {} /\ Preempted \cap Admitted = {}
    /\ chunked \notin Preempted
    /\ batch.kind = "extend" => /\ Batched \cap waiting = {} /\ Batched \cap Running = {}
                                /\ batch.chunked = chunked
    /\ batch.kind = "decode" /\ Loc = "process" => batch.reqs = running
    /\ last.kind = "extend" /\ Loc = "begin" => /\ Merging \cap waiting = {} /\ Merging \cap Running = {}
                                                /\ last.chunked = chunked

\* The chunked request is part of the batch that is built or was launched last.
ChunkedPlace ==
    /\ Loc = "begin" => chunked = NoReq \/ (last.kind = "extend" /\ chunked \in Merging)
    /\ Admitting => /\ chunked = NoReq \/ chunked \in Admitted
                    /\ adder.new_chunked = NoReq \/ adder.new_chunked \in Admitted
    /\ batch.kind = "extend" => chunked = NoReq \/ chunked \in Batched
    /\ Loc \in {"decode", "check", "checked", "decode_alloc", "process"} /\ batch.kind # "extend"
         => chunked = NoReq

\* Victims run and have not finished.
VictimsRun ==
    /\ adder.victims \subseteq Running /\ \A v \in adder.victims : ~Finished(v)
    /\ Loc = "preempt" => adder.victims # {}

\* When memory for the next decode is looked for, all running requests need it.
Decoding ==
    Loc \in {"check", "checked", "decode_alloc"} => running # <<>> /\ \A r \in Running : ~Finished(r)

\* The results that are not processed: of the last batch, with overlap, and of
\* the batch just launched.
Holds(e, b) == e.kind = b.kind /\ e.reqs = b.reqs /\ e.chunked = b.chunked /\ e.decoding = b.decoding
FromLast == Overlap /\ last.kind # "none"
FromBatch == Loc = "process" /\ batch.kind # "none"
Results ==
    /\ ~FromLast /\ ~FromBatch => queue = <<>>
    /\ FromLast /\ ~FromBatch => queue = <<queue[1]>> /\ Holds(queue[1], last)
    /\ ~FromLast /\ FromBatch => queue = <<queue[1]>> /\ Holds(queue[1], batch)
    /\ FromLast /\ FromBatch => /\ queue = <<queue[1], queue[2]>>
                                /\ Holds(queue[1], last) /\ Holds(queue[2], batch)
    /\ \A i \in DOMAIN queue : \A r \in Range(queue[i].reqs) : queue[i].out[r] \in Tokens

\* The requests with a result that is not processed.
InFlight == UNION {Range(queue[i].reqs) : i \in DOMAIN queue}

\* A request that was not received is nowhere.
Unsent ==
    /\ incoming \cap waiting = {} /\ incoming \cap Running = {} /\ incoming \cap Admitted = {}
    /\ incoming \cap Preempted = {} /\ incoming \cap Batched = {} /\ incoming \cap Merging = {}
    /\ chunked \notin incoming
    /\ \A r \in incoming : ~Finished(r) /\ req[r].row = <<>>

\* A request that waits is not finished and has no memory, and a result that is
\* still to come for it was sampled before it was retracted.
Queued ==
    /\ \A r \in waiting : ~Finished(r) /\ (r \notin Admitted => req[r].row = <<>>)
    /\ \A r \in Preempted : ~Finished(r) /\ req[r].row = <<>> /\ req[r].is_retracted
    /\ \A r \in waiting \cap InFlight : req[r].is_retracted

\* Without overlap a decode result is for requests that have not finished.
Awaited ==
    ~Overlap /\ batch.kind = "decode" /\ Loc = "process" =>
      \A i \in next .. Len(batch.reqs) : ~Finished(batch.reqs[i])

\* Without preemption, a request that was received and has not finished is queued,
\* running, or in the prefill batch that is built or about to be merged.
Kept ==
    ~Preemption =>
      /\ Loc # "preempt" /\ Preempted = {}
      /\ \A r \in Load \ incoming :
           \/ Finished(r) \/ r \in waiting \/ r \in Running \/ r \in Admitted \/ r = chunked
           \/ batch.kind = "extend" /\ r \in Batched
           \/ Loc = "begin" /\ last.kind = "extend" /\ r \in Merging

PlaceInv ==
    /\ ReqTypes /\ PlaceTypes /\ Places /\ Apart /\ ChunkedPlace /\ VictimsRun /\ Decoding
    /\ Results /\ Unsent /\ Queued /\ Awaited /\ Kept

\* A step adds no output and restarts no finished request.
OutputsKept ==
    \A r \in Reqs : req'[r].output = req[r].output /\ (req[r].finished => req'[r].finished)

\* An output grows at its end, and that of a finished request is final.
OutputGrows ==
    \A r \in Reqs : /\ IsPrefix(req[r].output, req'[r].output)
                    /\ Finished(r) => req'[r].finished /\ req'[r].output = req[r].output

-----------------------------------------------------------------------------
(* The order of chunks and results, without preemption.                    *)

Fresh(r) == ~Finished(r) /\ ~req[r].is_retracted
One(P) == IF P THEN 1 ELSE 0

\* The requests whose results are to be processed: of the last batch, with
\* overlap, and of the batch just launched.
Rest(s) == {s[i] : i \in next .. Len(s)}
OfLast == IF FromLast THEN Rest(last.reqs) ELSE {}
OfBatch == IF ~FromBatch THEN {} ELSE IF Overlap THEN Batched ELSE Rest(batch.reqs)

\* The result for r is that of a chunk, or a token it samples.
LastChunk(r) == r \in OfLast /\ last.chunked = r
BatchChunk(r) == batch.chunked = r /\ (Loc = "process" => r \in OfBatch)
LastSample(r) == r \in OfLast /\ last.chunked # r
BatchSample(r) == r \in OfBatch /\ batch.chunked # r

\* is_chunked counts the chunks that were scheduled and have no result yet.
ChunksCounted ==
    \A r \in Reqs : req[r].is_chunked = One(LastChunk(r)) + One(BatchChunk(r))

\* The request of the last chunk goes on in the next batch.
ChunkFollowed ==
    /\ Loc \in {"begin", "policy"} => last.chunked = chunked
    /\ Loc = "process" => batch.chunked = chunked
    /\ last.kind # "extend" => last.chunked = NoReq
    /\ last.chunked # NoReq =>
         /\ Loc = "prefill" => last.chunked \in Admitted
         /\ Loc \in {"extend", "decode_alloc", "process"} =>
              batch.kind = "extend" /\ last.chunked \in Batched \ batch.decoding
         /\ Loc \notin {"decode", "check", "checked"}

\* The request of a chunk is not finished, nor retracted once it was launched.
ChunksLive ==
    /\ \A r \in Reqs : /\ LastChunk(r) => Fresh(r)
                       /\ BatchChunk(r) /\ Loc # "extend" => Fresh(r)
    /\ \A r \in Admitted : ~Finished(r)
    /\ chunked # NoReq => ~Finished(chunked)
    /\ Loc \in {"extend", "decode_alloc"} => \A r \in Batched : ~Finished(r)

\* A request that is prefilled has no other result to come, but for its last chunk.
PrefillApart ==
    /\ Loc \in {"begin", "policy", "prefill"} => waiting \cap Merging = {}
    /\ Admitted \cap Merging \subseteq {last.chunked}
    /\ batch.kind = "extend" => (Batched \ batch.decoding) \cap Merging \subseteq {last.chunked}
    /\ batch.kind = "none" => Batched = {}
    /\ batch.chunked \notin batch.decoding /\ (Loc # "process" => batch.decoding = {})

\* A request is admitted with all its tokens, or as the one that is chunked.
Filled ==
    /\ adder.new_chunked # NoReq => chunked = NoReq
    /\ \A r \in Admitted : r \in {chunked, adder.new_chunked} \/ req[r].fill = NumTokens(r)
    /\ Loc = "extend" => \A r \in Batched : r = chunked \/ req[r].fill = NumTokens(r)
    /\ Loc = "decode_alloc" => \A r \in Batched : r = chunked \/ (Fresh(r) /\ req[r].committed = NumTokens(r))

\* KV is committed for all tokens but the last, and for those sampled and not processed.
Decodes(r) ==
    \/ r \in Running
    \/ Loc = "process" /\ batch.kind = "extend" /\ r \in Batched /\ r # chunked
    \/ Loc = "begin" /\ last.kind = "extend" /\ r \in Merging /\ r # chunked
CommittedTokens ==
    \A r \in Reqs : Decodes(r) /\ ~Finished(r) =>
      /\ ~req[r].is_retracted
      /\ req[r].committed = NumTokens(r) - 1 + One(LastSample(r)) + One(BatchSample(r))

\* A sampled token follows the tokens its request has, and the one of an earlier result.
SampledAfter ==
    \A r \in Reqs : Fresh(r) =>
      /\ LastSample(r) => queue[1].upto[r] = NumTokens(r)
      /\ BatchSample(r) => queue[Len(queue)].upto[r] = NumTokens(r) + One(LastSample(r))

\* A token that is appended was sampled after exactly the tokens the request has.
SampledInOrder ==
    \A r \in Reqs : req'[r].output # req[r].output => Result.upto[r] = NumTokens(r)

\* A prompt is what was sent.
Origins == \A r \in Reqs : req[r].origin = <<>> \/ req[r].origin \in Prompts

OrderInv ==
    ~Preemption =>
      /\ ChunksCounted /\ ChunkFollowed /\ ChunksLive /\ PrefillApart /\ Filled
      /\ CommittedTokens /\ SampledAfter

=============================================================================
