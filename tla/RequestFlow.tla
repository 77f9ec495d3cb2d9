----------------------------- MODULE RequestFlow -----------------------------
(***************************************************************************)
(* Where a request may be, and how the scheduler moves it: from the queue  *)
(* to a prefill batch, to the running batch, back to the queue when it is  *)
(* retracted or preempted, and through the results until it is finished.   *)
(* This is the part of Scheduler that is left when memory, budgets and     *)
(* priorities are forgotten: any number of tokens may fit, and any running *)
(* request may be a victim.                                                *)
(***************************************************************************)
EXTENDS SchedulerState

\* Where the loop is; an eviction call counts as the place it returns to.
Loc == IF pc = "evict" THEN evict.then ELSE pc

flow == <<conf, req, incoming, waiting, running, chunked, batch, last, queue, next, adder, Loc>>

Running == Range(running)
Admitted == Range(adder.can_run)
Preempted == adder.preempt_list
Batched == Range(batch.reqs)
Merging == Range(last.reqs)
Admitting == Loc \in {"prefill", "preempt"}
Live(S) == {r \in S : ~Finished(r)}
NumTokens(r) == Len(req[r].origin) + Len(req[r].output)                  \* Req.seqlen

\* The sequence s has the members of S, each once, in any order.
Lists(s, S) == s \in Seq(Reqs) /\ IsInjective(s) /\ Range(s) = S

ReqFields == {"origin", "output", "prio", "fill", "prefix", "extend", "row", "committed", "protected",
              "last_node", "is_chunked", "is_retracted", "finished"}
BatchFields == {"kind", "reqs", "chunked", "decoding", "out", "upto"}
AdderFields == {"ratio", "offset", "cur", "input", "chunk", "can_run", "new_chunked", "preempt_list",
                "victims", "favoured", "stop"}

-----------------------------------------------------------------------------
(* What a step does to the requests.                                       *)

\* q2 is q with other memory, or with another part of its tokens to compute.
SameReq(q, q2) ==
    /\ DOMAIN q2 = ReqFields
    /\ q2.origin = q.origin /\ q2.output = q.output /\ q2.committed = q.committed
    /\ q2.is_retracted = q.is_retracted /\ q2.finished = q.finished

\* All requests stay the same but for that, and only those in S get memory.
KeepsReqs(S) ==
    /\ DOMAIN req' = Reqs
    /\ \A r \in Reqs : SameReq(req[r], req'[r])
    /\ \A r \in Reqs \ S : req[r].row = <<>> => req'[r].row = <<>>
KeepsFill(S) == \A r \in Reqs \ S : req'[r].fill = req[r].fill
KeepsChunks(S) == \A r \in Reqs \ S : req'[r].is_chunked = req[r].is_chunked

\* Only the record of r changes.
ChangesOnly(r) ==
    /\ DOMAIN req' = Reqs /\ DOMAIN req'[r] = ReqFields
    /\ \A x \in Reqs \ {r} : req'[x] = req[x]
    /\ req'[r].origin = req[r].origin

\* The request gives back its memory.
Resets(r) ==
    /\ ChangesOnly(r)
    /\ req'[r].row = <<>> /\ req'[r].committed = 0 /\ req'[r].is_chunked = 0

\* The requests of s grow to len tokens.
Grows(s, len) ==
    /\ DOMAIN req' = Reqs
    /\ \A r \in Reqs \ Range(s) : req'[r] = req[r]
    /\ \A r \in Range(s) :
         /\ DOMAIN req'[r] = ReqFields /\ req'[r].origin = req[r].origin
         /\ req'[r].output = req[r].output /\ req'[r].finished = req[r].finished
         /\ req'[r].is_chunked = req[r].is_chunked /\ req'[r].fill = req[r].fill
         /\ req'[r].committed = len[r] /\ req'[r].is_retracted = FALSE

\* The adder keeps what it has decided, and ends with admission.
KeepsAdder ==
    /\ DOMAIN adder' = AdderFields
    /\ adder'.can_run = adder.can_run /\ adder'.new_chunked = adder.new_chunked
    /\ adder'.preempt_list = adder.preempt_list
    /\ ~Admitting => adder' = adder

-----------------------------------------------------------------------------
(* The queue and the prefill batch.                                        *)

FlowInit ==
    /\ conf \in Configs
    /\ DOMAIN req = Reqs
    /\ \A r \in Reqs :
         /\ DOMAIN req[r] = ReqFields /\ req[r].output = <<>> /\ req[r].row = <<>>
         /\ req[r].origin = <<>> \/ (r \in Load /\ req[r].origin \in Prompts)
         /\ req[r].committed = 0 /\ req[r].is_chunked = 0
         /\ req[r].is_retracted = FALSE /\ req[r].finished = FALSE
    /\ incoming = Load /\ waiting = {} /\ running = <<>> /\ chunked = NoReq
    /\ batch = NoBatch /\ last = NoBatch /\ queue = <<>> /\ next = 1
    /\ adder = NoAdder /\ Loc = "begin"

Receive(r) ==
    /\ Loc = "begin" /\ r \in incoming
    /\ incoming' = incoming \ {r}
    /\ waiting' = waiting \cup {r}
    /\ UNCHANGED <<conf, req, running, chunked, batch, last, queue, next, adder, Loc>>

\* A queued request is aborted.
Abort(r) ==
    /\ Loc = "begin" /\ r \in waiting
    /\ waiting' = waiting \ {r}
    /\ ChangesOnly(r)
    /\ req'[r].output = req[r].output /\ req'[r].is_retracted = req[r].is_retracted
    /\ req'[r].finished = TRUE /\ req'[r].is_chunked = req[r].is_chunked
    /\ req'[r].committed = req[r].committed
    /\ UNCHANGED <<conf, incoming, running, chunked, batch, last, queue, next, adder, Loc>>

\* The last prefill batch joins the running batch.
Merge ==
    /\ Loc = "begin" /\ Loc' = "policy"
    /\ IF last.kind = "extend"
       THEN Lists(running', Running \cup (Live(Merging) \ {chunked, last.chunked}))
       ELSE running' = running
    /\ KeepsReqs({}) /\ KeepsFill({}) /\ KeepsChunks({})
    /\ UNCHANGED <<conf, incoming, waiting, chunked, batch, last, queue, next, adder>>

\* A step that moves no request: a request is refused, nothing is to prefill,
\* memory is evicted or found.
Proceed ==
    /\ \/ Loc' = Loc /\ Loc # "process"
       \/ Loc = "policy" /\ Loc' = "decode" /\ chunked = NoReq
       \/ Loc = "check" /\ Loc' = "checked"
       \/ Loc = "checked" /\ Loc' = "decode_alloc"
    /\ KeepsReqs({}) /\ KeepsFill(waiting \ Admitted) /\ KeepsChunks({})
    /\ KeepsAdder /\ adder'.victims = adder.victims
    /\ UNCHANGED <<conf, incoming, waiting, running, chunked, batch, last, queue, next>>

\* Admission starts with the chunked request: its next chunk, or all that is left of it.
Start ==
    /\ Loc = "policy" /\ Loc' = "prefill"
    /\ DOMAIN adder' = AdderFields /\ adder'.new_chunked = NoReq
    /\ adder'.preempt_list = {} /\ adder'.victims = {}
    /\ adder'.can_run = IF chunked = NoReq THEN <<>> ELSE <<chunked>>
    /\ KeepsReqs({}) /\ KeepsFill({chunked}) /\ KeepsChunks({})
    /\ \/ chunked' = chunked
       \/ chunked' = NoReq /\ req'[chunked].fill = NumTokens(chunked)
    /\ UNCHANGED <<conf, incoming, waiting, running, batch, last, queue, next>>

\* A queued request is admitted, with all its tokens or with the first chunk.
\* After a chunk there is no budget for another request, unless a preemption
\* gives tokens back.
Admit(r) ==
    /\ Loc = "prefill" /\ Loc' = "prefill" /\ r \in waiting \ Admitted
    /\ DOMAIN adder' = AdderFields
    /\ adder'.can_run = Append(adder.can_run, r)
    /\ \/ adder'.new_chunked = r
       \/ adder'.new_chunked = adder.new_chunked /\ req'[r].fill = NumTokens(r)
    /\ ~Preemption => chunked = NoReq /\ adder.new_chunked = NoReq
    /\ adder'.preempt_list = adder.preempt_list /\ adder'.victims = adder.victims
    /\ KeepsReqs({r}) /\ KeepsFill({r}) /\ KeepsChunks({})
    /\ UNCHANGED <<conf, incoming, waiting, running, chunked, batch, last, queue, next>>

\* Running requests are chosen to make room for another one.
ChooseVictims ==
    /\ Preemption
    /\ Loc = "prefill" /\ Loc' = "preempt"
    /\ KeepsAdder
    /\ adder'.victims # {} /\ adder'.victims \subseteq Running
    /\ \A v \in adder'.victims : ~Finished(v)
    /\ UNCHANGED <<conf, req, incoming, waiting, running, chunked, batch, last, queue, next>>

\* A victim leaves the running batch.
PreemptVictim ==
    /\ Loc = "preempt"
    /\ \E v \in adder.victims :
         /\ Loc' = IF adder.victims = {v} THEN "prefill" ELSE "preempt"
         /\ Lists(running', Running \ {v})
         /\ DOMAIN adder' = AdderFields
         /\ adder'.can_run = adder.can_run /\ adder'.new_chunked = adder.new_chunked
         /\ adder'.preempt_list = adder.preempt_list \cup {v}
         /\ adder'.victims = adder.victims \ {v}
         /\ Resets(v) /\ req'[v].output = req[v].output
         /\ req'[v].is_retracted = TRUE /\ req'[v].finished = FALSE
    /\ UNCHANGED <<conf, incoming, waiting, chunked, batch, last, queue, next>>

\* Nothing was admitted.
GiveUp ==
    /\ Loc = "prefill" /\ Loc' = "decode" /\ adder.can_run = <<>>
    /\ adder' = NoAdder
    /\ UNCHANGED <<conf, req, incoming, waiting, running, chunked, batch, last, queue, next>>

\* The admitted requests are the next batch, and the preempted ones are queued.
Build ==
    LET c == IF adder.new_chunked # NoReq THEN adder.new_chunked ELSE chunked
    IN /\ Loc = "prefill" /\ Loc' = "extend" /\ adder.can_run # <<>>
       /\ waiting' = (waiting \ Admitted) \cup Preempted
       /\ chunked' = c
       /\ batch' = [NoBatch EXCEPT !.kind = "extend", !.reqs = adder.can_run, !.chunked = c]
       /\ adder' = NoAdder
       /\ KeepsReqs({}) /\ KeepsFill({}) /\ KeepsChunks({c})
       /\ c # NoReq => req'[c].is_chunked = req[c].is_chunked + 1
       /\ UNCHANGED <<conf, incoming, running, last, queue, next>>

-----------------------------------------------------------------------------
(* Launches.                                                               *)

\* Batch b is launched: a token is sampled for each of its requests.
Launches(b) ==
    /\ batch' = b /\ Loc' = "process"
    /\ \E out \in [Range(b.reqs) -> Tokens] :
         queue' = Append(queue, [b EXCEPT !.out = out,
                                          !.upto = [r \in DOMAIN out |-> req'[r].committed]])

\* The prefill batch gets memory, and is launched or waits for the running batch.
ExtendBatch ==
    /\ Loc = "extend"
    /\ Grows(batch.reqs, [r \in Reqs |-> req[r].fill])
    /\ IF MixedChunk THEN Lists(running', Live(Running)) ELSE running' = running
    /\ \/ MixedChunk /\ running' # <<>> /\ Loc' = "decode_alloc" /\ UNCHANGED <<batch, queue>>
       \/ Launches(batch)
    /\ UNCHANGED <<conf, incoming, waiting, chunked, last, next, adder>>

\* Finished requests leave the running batch.
Filter ==
    /\ Loc = "decode" /\ Loc' = IF running' = <<>> THEN "process" ELSE "check"
    /\ Lists(running', Live(Running))
    /\ UNCHANGED <<conf, req, incoming, waiting, chunked, batch, last, queue, next, adder>>

\* A running request goes back to the queue for lack of memory.
RetractRunning ==
    /\ Loc = "checked" /\ Loc' = "check" /\ Len(running) > 1
    /\ \E v \in Running :
         /\ Lists(running', Running \ {v})
         /\ waiting' = waiting \cup {v}
         /\ Resets(v) /\ req'[v].output = req[v].output
         /\ req'[v].is_retracted = TRUE /\ req'[v].finished = FALSE
    /\ UNCHANGED <<conf, incoming, chunked, batch, last, queue, next, adder>>

\* The only running request does not fit and is aborted.
GiveUpLast ==
    /\ Loc = "checked" /\ Loc' = "process" /\ Len(running) = 1
    /\ running' = <<>>
    /\ LET v == running[1]
       IN /\ Resets(v) /\ req'[v].output = req[v].output
          /\ req'[v].is_retracted = TRUE /\ req'[v].finished = TRUE
    /\ UNCHANGED <<conf, incoming, waiting, chunked, batch, last, queue, next, adder>>

\* The running batch gets memory and is launched, alone or in the prefill batch.
DecodeBatch ==
    LET mixed == batch.kind = "extend"
    IN /\ Loc = "decode_alloc"
       /\ Grows(running, [r \in Reqs |-> req[r].committed + 1])
       /\ running' = IF mixed THEN <<>> ELSE running
       /\ Launches(IF mixed
                   THEN [batch EXCEPT !.reqs = @ \o running, !.decoding = Range(running)]
                   ELSE [NoBatch EXCEPT !.kind = "decode", !.reqs = running])
       /\ UNCHANGED <<conf, incoming, waiting, chunked, last, next, adder>>

-----------------------------------------------------------------------------
(* Results.                                                                *)

\* The result comes too late.
Late(r) == (Overlap \/ Result.kind = "extend") /\ (Finished(r) \/ req[r].is_retracted)

\* The result is of a chunk that is not the last.
OfChunk(r) == Result.kind = "extend" /\ req[r].is_chunked > 0

ChunkDone(r) ==
    /\ ChangesOnly(r)
    /\ req'[r].output = req[r].output /\ req'[r].finished = req[r].finished
    /\ req'[r].is_retracted = req[r].is_retracted /\ req'[r].committed = req[r].committed
    /\ req'[r].fill = req[r].fill /\ req'[r].is_chunked = req[r].is_chunked - 1

\* The token that was sampled for r is its next output; r is finished or goes on.
Output(r) ==
    /\ req'[r].output = Append(req[r].output, Result.out[r])
    /\ \/ Resets(r) /\ req'[r].finished = TRUE /\ req'[r].is_retracted = FALSE
       \/ /\ ChangesOnly(r) /\ req'[r].finished = req[r].finished
          /\ req'[r].is_retracted = req[r].is_retracted
          /\ req'[r].committed = req[r].committed /\ req'[r].fill = req[r].fill
          /\ req'[r].is_chunked = req[r].is_chunked

ProcessNext ==
    /\ Loc = "process" /\ HasResult /\ next <= Len(Result.reqs)
    /\ next' = next + 1
    /\ LET r == Result.reqs[next]
       IN \/ Late(r) /\ req' = req
          \/ ~Late(r) /\ OfChunk(r) /\ ChunkDone(r)
          \/ ~Late(r) /\ ~OfChunk(r) /\ Output(r)
    /\ UNCHANGED <<conf, incoming, waiting, running, chunked, batch, last, queue, adder, Loc>>

EndOfIteration ==
    /\ Loc = "process" /\ (HasResult => next > Len(Result.reqs)) /\ Loc' = "begin"
    /\ queue' = IF HasResult THEN Tail(queue) ELSE queue
    /\ last' = batch
    /\ batch' = NoBatch /\ next' = 1
    /\ UNCHANGED <<conf, req, incoming, waiting, running, chunked, adder>>

FlowNext ==
    \/ \E r \in Reqs : Receive(r) \/ Abort(r) \/ Admit(r)
    \/ Merge \/ Proceed \/ Start \/ ChooseVictims \/ PreemptVictim \/ GiveUp \/ Build
    \/ ExtendBatch \/ Filter \/ RetractRunning \/ GiveUpLast \/ DecodeBatch
    \/ ProcessNext \/ EndOfIteration

FlowSpec == FlowInit /\ [][FlowNext]_flow
=============================================================================
