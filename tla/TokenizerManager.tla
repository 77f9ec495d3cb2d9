-------------------------- MODULE TokenizerManager --------------------------
(***************************************************************************)
(* The coroutines of managers/tokenizer_manager.py and its control mixin   *)
(* that share the pause flag, model_update_lock and the LoRA registry:     *)
(* the handlers of generate requests, weight updates, pause and continue,  *)
(* loading and unloading adapters, and handle_loop.  The code between two  *)
(* awaits that can suspend is one step.                                    *)
(*                                                                         *)
(* They talk to the scheduler over FIFO sockets.  Of the scheduler this    *)
(* module keeps what they can tell apart: where a request is, whether the  *)
(* engine is paused, which adapters are loaded.  Final outputs come back   *)
(* through the detokenizer, other answers directly, so one may overtake    *)
(* the other.                                                              *)
(***************************************************************************)
EXTENDS RWLock, LoRARegistry

CONSTANTS
    Reqs,      \* generate requests; the other coroutines are control operations
    Configs,   \* the server and its load, see conf
    None

ASSUME ReqsAssumption == Reqs \subseteq Coroutines /\ None \notin Coroutines
ASSUME ConfigsAssumption ==
    \A config \in Configs : DOMAIN config.lora \subseteq Reqs /\ DOMAIN config.kind \subseteq Coroutines \ Reqs

VARIABLES
    conf,               \* the configuration of this behaviour
    pc,                 \* where each coroutine is suspended
    is_pause,
    cond_owner,         \* the coroutine that holds is_pause_cond, or None
    lora_update_lock,   \* the coroutine that holds it, or None
    registry,           \* lora_registry
    lora_ref_cache,     \* names of the adapters that were loaded once
    lora_ref,           \* per coroutine, the adapter it loads or unloads
    next_id,            \* IDs of new LoRARefs
    lora_id,            \* per request, obj.lora_id
    rid_to_state,       \* the requests that have a state
    answer,             \* per coroutine, what it was answered and has not seen
    releases,           \* tasks that will release the adapter of a request
    update_result,      \* the update whose future model_update_result is
    to_scheduler, to_tokenizer, outputs,   \* messages under way
    engine,             \* per request, where the scheduler has it
    engine_paused,      \* _engine_paused
    loaded,             \* lora_refs of the LoRA manager
    applied             \* weight updates done by the workers

ctl == <<is_pause, cond_owner>>
lora == <<lora_update_lock, registry, lora_ref_cache, lora_ref, next_id, lora_id>>
handling == <<rid_to_state, answer, releases, update_result>>
channels == <<to_scheduler, to_tokenizer, outputs>>
backend == <<engine, engine_paused, loaded, applied>>
vars == <<conf, pc, lockvars, ctl, lora, handling, channels, backend>>

\* conf.lora: adapter of each request of the load (None: the base model).
\* conf.kind, conf.name, conf.after: per operation, what it does, to which adapter,
\* and the operations that its client waits for before it sends this one.
Load == DOMAIN conf.lora
Ops == DOMAIN conf.kind
Kind(c) == IF c \in Ops THEN conf.kind[c] ELSE "generate"
Target(c) == IF c \in Ops THEN conf.name[c] ELSE conf.lora[c]
May(fault) == fault \in conf.faults

Init ==
    /\ conf \in Configs
    /\ RWInit
    /\ pc = [c \in Coroutines |-> IF c \in Load \cup Ops THEN "new" ELSE "done"]
    /\ is_pause = FALSE /\ cond_owner = None
    /\ lora_update_lock = None
    /\ registry = [refs |-> [i \in DOMAIN conf.lora_paths |-> [name |-> conf.lora_paths[i], id |-> i]],
                   counters |-> [i \in DOMAIN conf.lora_paths |-> 0]]
    /\ lora_ref_cache = Range(conf.lora_paths) \cup conf.evicted
    /\ lora_ref = [c \in Coroutines |-> None]
    /\ next_id = Len(conf.lora_paths) + 1
    /\ lora_id = [r \in Reqs |-> None]
    /\ rid_to_state = {} /\ answer = [c \in Coroutines |-> "none"]
    /\ releases = {} /\ update_result = None
    /\ to_scheduler = <<>> /\ to_tokenizer = <<>> /\ outputs = {}
    /\ engine = [r \in Reqs |-> "none"] /\ engine_paused = FALSE
    /\ loaded = Range(registry.refs)
    /\ applied = {}

\* The client of operation c has the answers it waits for.
Called(c, kinds) ==
    Kind(c) \in kinds /\ pc[c] = "new" /\ \A d \in conf.after[c] : pc[d] = "done"

Goto(c, place) == pc' = [pc EXCEPT ![c] = place]
Send(type, c) == to_scheduler' = Append(to_scheduler, [type |-> type, who |-> c])
Message(type, c, status) == [type |-> type, who |-> c, status |-> status]

-----------------------------------------------------------------------------
(* generate_request.                                                       *)

\* _init_req_state
Receive(r) ==
    /\ pc[r] = "new"
    /\ rid_to_state' = rid_to_state \cup {r}
    /\ Goto(r, "gate")
    /\ UNCHANGED <<conf, lockvars, ctl, lora, answer, releases, update_result, channels, backend>>

\* Mutant: the gate is passed without a look at the pause flag.
GateIsOpenAlways == cond_owner = None

\* is_pause_cond.wait_for(lambda: not self.is_pause)
GateIsOpen == cond_owner = None /\ ~is_pause

TakeReader(r) ==
    /\ \/ AcquireReader(r) /\ Goto(r, "resolve")
       \/ SleepReader(r) /\ Goto(r, "lock")
    /\ UNCHANGED <<conf, ctl, lora, handling, channels, backend>>
PassGate(r) == pc[r] = "gate" /\ GateIsOpen /\ TakeReader(r)
WakeReader(r) == pc[r] = "lock" /\ at[r] = "r_woken" /\ TakeReader(r)

\* Mutant: the handler leaves the lock on success only.
LeaveUnlocked(r) ==
    /\ at' = [at EXCEPT ![r] = "out"] /\ UNCHANGED <<readers, writer_active, waiting_writers>>
    /\ Goto(r, "done")

\* The handler returns or raises: it leaves the reader lock.
Leave(r) == ReleaseReader(r) /\ Goto(r, "done")

\* lora_registry.acquire with registry reg.  A name is looked up and counted in one
\* step, a list is counted by tasks that run later.
Acquire(r, reg) ==
    IF Target(r) \notin Registered(reg)
    THEN Leave(r) /\ registry' = reg /\ UNCHANGED lora_id
    ELSE LET found == Lookup(reg, Target(r))
             id == RefOf(reg, Target(r)).id
         IN /\ lora_id' = [lora_id EXCEPT ![r] = id]
            /\ IF conf.batch
               THEN registry' = found /\ Goto(r, "count")
               ELSE registry' = Count(found, id) /\ Goto(r, "tokenize")
            /\ UNCHANGED lockvars
CountList(r) ==
    /\ pc[r] = "count"
    /\ registry' = Count(registry, lora_id[r])
    /\ Goto(r, "tokenize")
    /\ UNCHANGED <<conf, lockvars, ctl, lora_update_lock, lora_ref_cache, lora_ref, next_id,
                   lora_id, handling, channels, backend>>

\* _validate_and_resolve_lora up to its first suspension.
Resolve(r) ==
    /\ pc[r] = "resolve"
    /\ UNCHANGED <<conf, ctl, lora_update_lock, lora_ref_cache, lora_ref, next_id,
                   handling, channels, backend>>
    /\ \/ /\ Target(r) = None
          /\ Goto(r, "tokenize") /\ UNCHANGED <<lockvars, registry, lora_id>>
       \/ /\ Target(r) \in Registered(registry)
          /\ Acquire(r, registry)
       \/ /\ Target(r) \notin Registered(registry) \cup lora_ref_cache \cup {None}
          /\ Leave(r) /\ UNCHANGED <<registry, lora_id>>
       \/ /\ Target(r) \in lora_ref_cache \ Registered(registry)
          /\ Goto(r, "load") /\ UNCHANGED <<lockvars, registry, lora_id>>

\* _tokenize_one_request sends the request or raises.  A request that raises keeps
\* its state and its count.
Tokenize(r) ==
    /\ pc[r] = "tokenize"
    /\ \/ Send("generate", r) /\ Goto(r, "wait") /\ UNCHANGED lockvars
       \/ May("validation") /\ Leave(r) /\ UNCHANGED to_scheduler
    /\ UNCHANGED <<conf, ctl, lora, handling, to_tokenizer, outputs, backend>>

\* _wait_one_response sees the final output.  _handle_abort_finish_reason cleans up
\* after a 503, whatever has been cleaned up before.
Resume(r) ==
    /\ pc[r] = "wait" /\ answer[r] # "none"
    /\ Leave(r)
    /\ IF answer[r] = "503"
       THEN /\ rid_to_state' = rid_to_state \ {r}
            /\ registry' = Release(registry, lora_id[r])
       ELSE UNCHANGED <<rid_to_state, registry>>
    /\ UNCHANGED <<conf, ctl, lora_update_lock, lora_ref_cache, lora_ref, next_id, lora_id,
                   answer, releases, update_result, channels, backend>>

\* abort_request(rid)
AbortRequest(r) ==
    IF r \in rid_to_state THEN Send("abort", r) ELSE UNCHANGED to_scheduler

\* The client is gone.  Without streaming the waiting handler finds out, aborts and
\* raises; with streaming the handler is cancelled and create_abort_task aborts later.
Disconnect(r) ==
    /\ May("disconnect") /\ pc[r] = "wait" /\ answer[r] = "none"
    /\ ReleaseReader(r)
    /\ \/ Goto(r, "done") /\ AbortRequest(r)
       \/ Goto(r, "cancelled") /\ UNCHANGED to_scheduler
    /\ UNCHANGED <<conf, ctl, lora, handling, to_tokenizer, outputs, backend>>
AbortTask(r) ==
    /\ pc[r] = "cancelled"
    /\ Goto(r, "done") /\ AbortRequest(r)
    /\ UNCHANGED <<conf, lockvars, ctl, lora, handling, to_tokenizer, outputs, backend>>

-----------------------------------------------------------------------------
(* load_lora_adapter, for a request or as an operation, and unload_lora_adapter. *)

LoadStart(c) ==
    /\ pc[c] = "load" \/ Called(c, {"load"})
    /\ lora_update_lock = None
    /\ lora_update_lock' = c
    /\ lora_ref' = [lora_ref EXCEPT ![c] = [name |-> Target(c), id |-> next_id]]
    /\ next_id' = next_id + 1
    /\ Send("load", c) /\ Goto(c, "loading")
    /\ UNCHANGED <<conf, lockvars, ctl, registry, lora_ref_cache, lora_id, handling,
                   to_tokenizer, outputs, backend>>

\* The load returns with registry reg and gives back lora_update_lock.  A request
\* goes on to acquire, unless the load failed for another reason than "already loaded".
LoadDone(c, reg, result) ==
    /\ lora_update_lock' = None /\ UNCHANGED lora_ref
    /\ IF c \in Ops
       THEN Goto(c, "done") /\ registry' = reg /\ UNCHANGED <<lockvars, lora_id>>
       ELSE IF result = "error"
       THEN Leave(c) /\ registry' = reg /\ UNCHANGED lora_id
       ELSE Acquire(c, reg)

\* Mutant: one adapter more than the limit is kept.
TooManyByOne(reg) == Len(reg.refs) > conf.max_loaded_loras + 1

\* The condition of the loop that evicts adapters.
TooMany(reg) == Len(reg.refs) > conf.max_loaded_loras

\* One turn of that loop, or the end of it.
EvictOrDone(c, reg, result) ==
    IF TooMany(reg) /\ Evictable(reg, conf.pinned) # <<>>
    THEN LET lru == Head(Evictable(reg, conf.pinned))
         IN /\ lora_ref' = [lora_ref EXCEPT ![c] = lru]
            /\ registry' = Unregister(reg, lru.name)
            /\ Goto(c, "drain")
            /\ UNCHANGED <<lockvars, lora_update_lock, lora_id>>
    ELSE LoadDone(c, reg, IF TooMany(reg) THEN "error" ELSE result)

\* The backend has answered the load: the adapter is registered if it was loaded.
LoadReturn(c) ==
    /\ pc[c] = "loading" /\ answer[c] # "none"
    /\ answer' = [answer EXCEPT ![c] = "none"]
    /\ IF answer[c] = "ok"
       THEN /\ lora_ref_cache' = lora_ref_cache \cup {Target(c)}
            /\ EvictOrDone(c, Register(registry, lora_ref[c]), "ok")
       ELSE UNCHANGED lora_ref_cache /\ EvictOrDone(c, registry, answer[c])
    /\ UNCHANGED <<conf, ctl, next_id, rid_to_state, releases, update_result, channels, backend>>

\* unload_lora_adapter: unregister, or the ValueError of an unknown name.
UnloadStart(c) ==
    /\ Called(c, {"unload"}) /\ lora_update_lock = None
    /\ IF Target(c) \in Registered(registry)
       THEN /\ lora_update_lock' = c
            /\ lora_ref' = [lora_ref EXCEPT ![c] = RefOf(registry, Target(c))]
            /\ registry' = Unregister(registry, Target(c))
            /\ Goto(c, "drain")
       ELSE Goto(c, "done") /\ UNCHANGED <<lora_update_lock, lora_ref, registry>>
    /\ UNCHANGED <<conf, lockvars, ctl, lora_ref_cache, next_id, lora_id, handling,
                   channels, backend>>

\* Mutant: the backend unloads without waiting for the requests that are counted.
NotInUseNever(id) == TRUE

\* wait_for_zero
NotInUse(id) == registry.counters[id] = 0

\* wait_for_unload is over: the backend is told to unload.
Drain(c) ==
    /\ pc[c] = "drain" /\ NotInUse(lora_ref[c].id)
    /\ registry' = Forget(registry, lora_ref[c].id)
    /\ Send("unload", c) /\ Goto(c, "unloading")
    /\ UNCHANGED <<conf, lockvars, ctl, lora_update_lock, lora_ref_cache, lora_ref, next_id,
                   lora_id, handling, to_tokenizer, outputs, backend>>

\* The backend has unloaded.  A load goes on with its loop.
UnloadReturn(c) ==
    /\ pc[c] = "unloading" /\ answer[c] # "none"
    /\ answer' = [answer EXCEPT ![c] = "none"]
    /\ IF Kind(c) = "unload"
       THEN /\ Goto(c, "done") /\ lora_update_lock' = None
            /\ UNCHANGED <<lockvars, registry, lora_ref, lora_id>>
       ELSE EvictOrDone(c, registry, "ok")
    /\ UNCHANGED <<conf, ctl, lora_ref_cache, next_id, rid_to_state, releases, update_result,
                   channels, backend>>

-----------------------------------------------------------------------------
(* Weight updates, pause and continue.                                     *)

Disk(u) == Kind(u) = "update_disk"
Updates == {u \in Ops : Kind(u) \in {"update_disk", "update_tensor"}}

\* The update goes to the scheduler.  update_weights_from_disk waits on a future that
\* it stores in model_update_result, the others on a communicator.
SendUpdate(u) ==
    /\ Send("update", u)
    /\ update_result' = IF Disk(u) THEN u ELSE update_result

TakeWriter(u) ==
    \/ AcquireWriter(u) /\ SendUpdate(u) /\ Goto(u, "updating")
    \/ SleepWriter(u) /\ Goto(u, "lock") /\ UNCHANGED <<to_scheduler, update_result>>

\* update_weights_from_*: in a paused server without the model lock, and with
\* is_pause_cond held until the end except by update_weights_from_disk.
UpdateStart(u) ==
    /\ Called(u, {"update_disk", "update_tensor"}) /\ cond_owner = None
    /\ IF is_pause
       THEN /\ SendUpdate(u) /\ Goto(u, "updating") /\ UNCHANGED lockvars
            /\ cond_owner' = IF Disk(u) THEN None ELSE u
       ELSE TakeWriter(u) /\ UNCHANGED cond_owner
    /\ UNCHANGED <<conf, is_pause, lora, rid_to_state, answer, releases, to_tokenizer, outputs,
                   backend>>
WakeWriter(u) ==
    /\ u \in Updates /\ pc[u] = "lock" /\ at[u] = "w_woken" /\ TakeWriter(u)
    /\ UNCHANGED <<conf, ctl, lora, rid_to_state, answer, releases, to_tokenizer, outputs, backend>>
UpdateReturn(u) ==
    /\ u \in Updates /\ pc[u] = "updating" /\ answer[u] # "none"
    /\ Goto(u, "done")
    /\ IF at[u] = "writing" THEN ReleaseWriter(u) ELSE UNCHANGED lockvars
    /\ cond_owner' = IF cond_owner = u THEN None ELSE cond_owner
    /\ UNCHANGED <<conf, is_pause, lora, handling, channels, backend>>

\* A turn of the loop of pause_generation in mode abort.
AbortAllOrReturn(p) ==
    /\ Send("abort_all", p)
    /\ IF IsLocked THEN Goto(p, "poll") /\ cond_owner' = p ELSE Goto(p, "done") /\ cond_owner' = None
Pause(p) ==
    /\ Called(p, {"abort", "retract", "in_place"}) /\ cond_owner = None
    /\ is_pause' = TRUE
    /\ IF Kind(p) = "abort" THEN AbortAllOrReturn(p)
       ELSE Send("pause", p) /\ Goto(p, "done") /\ UNCHANGED cond_owner
    /\ UNCHANGED <<conf, lockvars, lora, handling, to_tokenizer, outputs, backend>>

\* Bound: the loop turns again only after the scheduler has seen its last message.
PausePoll(p) ==
    /\ pc[p] = "poll" /\ to_scheduler = <<>>
    /\ AbortAllOrReturn(p)
    /\ UNCHANGED <<conf, lockvars, is_pause, lora, handling, to_tokenizer, outputs, backend>>

Continue(k) ==
    /\ Called(k, {"continue"}) /\ cond_owner = None
    /\ is_pause' = FALSE
    /\ Send("continue", k) /\ Goto(k, "done")
    /\ UNCHANGED <<conf, lockvars, cond_owner, lora, handling, to_tokenizer, outputs, backend>>

-----------------------------------------------------------------------------
(* handle_loop.                                                            *)

\* _handle_batch_output, for a request that is finished: its state goes, and a task
\* will release its adapter.  Without a state the output is dropped.
HandleBatchOutput ==
    \E o \in outputs :
        /\ outputs' = outputs \ {o}
        /\ IF o.who \in rid_to_state
           THEN /\ answer' = [answer EXCEPT ![o.who] = o.status]
                /\ rid_to_state' = rid_to_state \ {o.who}
                /\ releases' = IF Target(o.who) = None THEN releases ELSE releases \cup {o.who}
           ELSE UNCHANGED <<answer, rid_to_state, releases>>
        /\ UNCHANGED <<conf, pc, lockvars, ctl, lora, update_result, to_scheduler, to_tokenizer,
                       backend>>
ReleaseTask(r) ==
    /\ r \in releases
    /\ releases' = releases \ {r}
    /\ registry' = Release(registry, lora_id[r])
    /\ UNCHANGED <<conf, pc, lockvars, ctl, lora_update_lock, lora_ref_cache, lora_ref, next_id,
                   lora_id, rid_to_state, answer, update_result, channels, backend>>

\* Whose result a message of the scheduler is: _handle_abort_req sets the state of the
\* request, _handle_update_weights_from_disk_req_output the future that is there now,
\* and a communicator the call it belongs to.
Addressee(m) == IF m.type = "update" /\ Disk(m.who) THEN update_result ELSE m.who
HandleReply ==
    /\ to_tokenizer # <<>>
    /\ LET m == Head(to_tokenizer)
       IN answer' = [answer EXCEPT ![Addressee(m)] = m.status]
    /\ to_tokenizer' = Tail(to_tokenizer)
    /\ UNCHANGED <<conf, pc, lockvars, ctl, lora, rid_to_state, releases, update_result,
                   to_scheduler, outputs, backend>>

-----------------------------------------------------------------------------
(* The scheduler.                                                          *)

\* It takes the next message m and answers with replies.
Answer(replies) ==
    /\ to_scheduler' = Tail(to_scheduler)
    /\ to_tokenizer' = to_tokenizer \o replies
    /\ UNCHANGED <<conf, pc, lockvars, ctl, lora, handling, outputs>>

\* The request is queued, or _abort_on_queued_limit rejects it or, with priority
\* scheduling, a queued request in its place.
EngineGenerate(m) ==
    /\ m.type = "generate" /\ UNCHANGED <<engine_paused, loaded, applied>>
    /\ \/ Answer(<<>>) /\ engine' = [engine EXCEPT ![m.who] = "queued"]
       \/ /\ May("queue_full") /\ UNCHANGED engine
          /\ Answer(<<Message("abort", m.who, "503")>>)
       \/ \E r \in Reqs :
            /\ May("queue_full") /\ engine[r] = "queued"
            /\ engine' = [engine EXCEPT ![r] = "none", ![m.who] = "queued"]
            /\ Answer(<<Message("abort", r, "503")>>)

\* Mutant: a queued request is answered and stays in the queue.
AbortSetKeepsQueued(S) ==
    [r \in Reqs |-> IF r \in S /\ engine[r] = "running" THEN "stopping" ELSE engine[r]]

\* abort_request: queued requests are answered, running ones stop at their next step.
AbortSet(S) ==
    [r \in Reqs |-> IF r \notin S THEN engine[r]
                    ELSE IF engine[r] = "queued" THEN "none"
                    ELSE IF engine[r] = "running" THEN "stopping" ELSE engine[r]]
AbortReplies(S) ==
    LET hit == {r \in S : engine[r] = "queued"}
        queued == CHOOSE f \in Bijection(1 .. Cardinality(hit), hit) : TRUE
    IN [i \in DOMAIN queued |-> Message("abort", queued[i], "abort")]
EngineAbort(m) ==
    /\ UNCHANGED <<engine_paused, loaded, applied>>
    /\ \/ m.type = "abort" /\ Answer(AbortReplies({m.who})) /\ engine' = AbortSet({m.who})
       \/ m.type = "abort_all" /\ Answer(AbortReplies(Reqs)) /\ engine' = AbortSet(Reqs)

EngineUpdate(m) ==
    /\ m.type = "update" /\ Answer(<<Message("update", m.who, "ok")>>)
    /\ applied' = applied \cup {m.who}
    /\ UNCHANGED <<engine, engine_paused, loaded>>

\* pause_generation: mode retract moves the running requests back to the queue.
EnginePause(m) ==
    /\ m.type = "pause" /\ Answer(<<>>)
    /\ engine_paused' = TRUE
    /\ engine' = [r \in Reqs |-> IF Kind(m.who) = "retract" /\ engine[r] # "none" THEN "queued"
                                 ELSE engine[r]]
    /\ UNCHANGED <<loaded, applied>>
EngineContinue(m) ==
    /\ m.type = "continue" /\ Answer(<<>>)
    /\ engine_paused' = FALSE
    /\ UNCHANGED <<engine, loaded, applied>>

\* load_lora_adapter of the LoRA manager fails for a name that is loaded, and may
\* fail for other reasons.
EngineLoad(m) ==
    /\ m.type = "load" /\ UNCHANGED <<engine, engine_paused, applied>>
    /\ \/ /\ \A ref \in loaded : ref.name # lora_ref[m.who].name
          /\ Answer(<<Message("load", m.who, "ok")>>)
          /\ loaded' = loaded \cup {lora_ref[m.who]}
       \/ /\ \E ref \in loaded : ref.name = lora_ref[m.who].name
          /\ Answer(<<Message("load", m.who, "already loaded")>>) /\ UNCHANGED loaded
       \/ /\ May("load_error")
          /\ Answer(<<Message("load", m.who, "error")>>) /\ UNCHANGED loaded
EngineUnload(m) ==
    /\ m.type = "unload" /\ Answer(<<Message("unload", m.who, "ok")>>)
    /\ loaded' = loaded \ {lora_ref[m.who]}
    /\ UNCHANGED <<engine, engine_paused, applied>>

\* Steps of a batch.  to: where the request is afterwards.
EngineStep(r, from, to) ==
    /\ ~engine_paused /\ engine[r] = from
    /\ engine' = [engine EXCEPT ![r] = to]
    /\ UNCHANGED <<conf, pc, lockvars, ctl, lora, handling, to_scheduler, engine_paused, loaded,
                   applied>>
Schedule(r) == EngineStep(r, "queued", "running") /\ UNCHANGED <<to_tokenizer, outputs>>
Finish(r) ==
    /\ UNCHANGED to_tokenizer
    /\ \/ /\ EngineStep(r, "running", "none")
          /\ outputs' = outputs \cup {Message("output", r, "ok")}
       \/ /\ EngineStep(r, "stopping", "none")
          /\ outputs' = outputs \cup {Message("output", r, "abort")}
       \/ /\ May("running_timeout") /\ EngineStep(r, "running", "none")   \* _abort_on_running_timeout
          /\ outputs' = outputs \cup {Message("output", r, "503")}

\* _abort_on_waiting_timeout
WaitingTimeout(r) ==
    /\ May("waiting_timeout") /\ EngineStep(r, "queued", "none")
    /\ to_tokenizer' = Append(to_tokenizer, Message("abort", r, "503"))
    /\ UNCHANGED outputs

-----------------------------------------------------------------------------
Handler(r) ==
    \/ Receive(r) \/ PassGate(r) \/ WakeReader(r) \/ Resolve(r) \/ CountList(r) \/ Tokenize(r)
    \/ Resume(r) \/ AbortTask(r)
LoRAOp(c) == LoadStart(c) \/ LoadReturn(c) \/ UnloadStart(c) \/ Drain(c) \/ UnloadReturn(c)
Operation(c) == UpdateStart(c) \/ WakeWriter(c) \/ UpdateReturn(c) \/ Pause(c) \/ Continue(c)
Run == (\E r \in Reqs : Handler(r)) \/ (\E c \in Coroutines : LoRAOp(c) \/ Operation(c))
Poll == \E p \in Ops : PausePoll(p)
Tasks == \E r \in Reqs : ReleaseTask(r)
HandleLoop == HandleBatchOutput \/ HandleReply
Engine ==
    /\ to_scheduler # <<>>
    /\ LET m == Head(to_scheduler)
       IN \/ EngineGenerate(m) \/ EngineAbort(m) \/ EngineUpdate(m) \/ EnginePause(m)
          \/ EngineContinue(m) \/ EngineLoad(m) \/ EngineUnload(m)
Batch == \E r \in Reqs : Schedule(r) \/ Finish(r)

\* Every coroutine has returned and nothing is under way.
Idle ==
    /\ \A c \in Coroutines : pc[c] = "done"
    /\ to_scheduler = <<>> /\ to_tokenizer = <<>> /\ outputs = {} /\ releases = {}
    /\ \A r \in Reqs : engine[r] = "none"
Stop == Idle /\ UNCHANGED vars

Next ==
    \/ Run \/ Poll \/ Tasks \/ HandleLoop \/ Engine \/ Batch
    \/ \E r \in Reqs : Disconnect(r) \/ WaitingTimeout(r)
    \/ Stop

Spec == Init /\ [][Next]_vars

\* The event loop runs coroutines, the loop of a pause, tasks and handle_loop when
\* they can run, and the scheduler takes its messages and runs batches.
FairSpec ==
    /\ Spec
    /\ WF_vars(Run) /\ WF_vars(Poll) /\ WF_vars(Tasks) /\ WF_vars(HandleLoop)
    /\ WF_vars(Engine) /\ WF_vars(Batch)

-----------------------------------------------------------------------------
(* Properties.                                                             *)

\* Where the handler of a request is between taking the reader lock and leaving it.
Inside == {"resolve", "load", "loading", "drain", "unloading", "count", "tokenize", "wait"}
Outside == {"new", "gate", "lock", "cancelled", "updating", "poll", "done"}

\* The manager changes the lock through its methods only, so what is proved of every
\* behaviour of the lock holds of model_update_lock.
UsesLock == RWSpec

\* While an update holds the lock, no handler is between admission and its answer.
NoRequestWhileLocked ==
    In({"writing"}) # {} => \A r \in Reqs : pc[r] \notin Inside

\* Requests in the engine that will produce more tokens for a waiting client.
Active == {r \in Load : engine[r] \in {"queued", "running"} /\ pc[r] = "wait"}

\* The weights change only while the engine processes nothing a client waits for:
\* there is no such request, or the engine is paused.
UpdateQuiet == [][applied' # applied => Active = {} \/ engine_paused]_vars

\* An update that flushes the cache finds the scheduler without requests: the
\* assertion of flush_cache_after_weight_update.
FlushSucceeds == [][applied' # applied => \A r \in Reqs : engine[r] = "none"]_vars

\* A weight update that has returned was done, and not another one instead.
OwnAnswer == \A u \in Updates : pc[u] = "done" => u \in applied

\* A request in the engine finds the adapter it was admitted with loaded.
AdapterLoaded ==
    \A r \in Load : engine[r] # "none" /\ lora_id[r] # None =>
        \E ref \in loaded : ref.id = lora_id[r]

\* While no load is in progress at most max_loaded_loras adapters are loaded, during
\* a load one more.
LoadedBounded ==
    /\ Cardinality(loaded) <= conf.max_loaded_loras + 1
    /\ lora_update_lock = None => Cardinality(loaded) <= conf.max_loaded_loras

\* handle_loop never meets an answer it has no place for: a KeyError in
\* _handle_abort_req or a second set_result of a future would end the process.
HandleLoopSafe ==
    to_tokenizer # <<>> =>
        LET m == Head(to_tokenizer)
        IN /\ m.type = "abort" => m.who \in rid_to_state
           /\ answer[Addressee(m)] = "none"

\* The scheduler's answer to an aborted request cleans up: when nothing is under way
\* for a request, it has no state and its adapter is not counted for it.
NothingKept ==
    Idle => rid_to_state = {} /\ \A i \in DOMAIN registry.counters : registry.counters[i] = 0

\* Every handler and every operation returns (once returned, it stays so).
AllReturn == <>(\A c \in Coroutines : pc[c] = "done")
=============================================================================
