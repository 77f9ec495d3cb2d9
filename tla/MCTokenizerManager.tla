------------------------- MODULE MCTokenizerManager -------------------------
(* TLC instances of TokenizerManager: one to three requests and up to three    *)
(* control operations per behaviour.                                           *)
EXTENDS TokenizerManager, TLC

CONSTANTS r1, r2, r3, o1, o2, o3, loraA, loraB, loraC, loraP

MCReqs == {r1, r2, r3}
MCCoroutines == MCReqs \cup {o1, o2, o3}

\* A server without adapters and without load.
Base == [lora |-> <<>>, kind |-> <<>>, name |-> <<>>, after |-> <<>>, batch |-> FALSE,
         lora_paths |-> <<>>, evicted |-> {}, pinned |-> {}, max_loaded_loras |-> 1, faults |-> {}]
TwoBaseRequests == [Base EXCEPT !.lora = r1 :> None @@ r2 :> None]

\* Two adapters for one place: requests make the server evict and reload while o1
\* unloads.
Lora == [Base EXCEPT !.lora = r1 :> loraA @@ r2 :> loraB @@ r3 :> loraA,
             !.kind = o1 :> "unload", !.name = o1 :> loraA, !.after = o1 :> {},
             !.lora_paths = <<loraA>>, !.evicted = {loraB},
             !.faults = {"queue_full", "waiting_timeout"}]

\* A pinned adapter, a load that may fail and a request for a name never loaded.
Pinned == [Base EXCEPT !.lora = r1 :> loraA @@ r2 :> loraB,
               !.kind = o1 :> "load" @@ o2 :> "load", !.name = o1 :> loraB @@ o2 :> loraC,
               !.after = o1 :> {} @@ o2 :> {},
               !.lora_paths = <<loraP, loraA>>, !.pinned = {loraP}, !.max_loaded_loras = 2,
               !.faults = {"load_error"}]

\* A request that names its adapter in a list, while another adapter is loaded.
Listed == [Base EXCEPT !.lora = r1 :> loraA, !.batch = TRUE,
               !.kind = o1 :> "load", !.name = o1 :> loraB, !.after = o1 :> {},
               !.lora_paths = <<loraA>>, !.max_loaded_loras = 2, !.faults = {"running_timeout"}]

\* Updates that take the lock, against requests that fail in several ways.
Weights == [TwoBaseRequests EXCEPT
                !.kind = o1 :> "update_disk" @@ o2 :> "update_disk",
                !.after = o1 :> {} @@ o2 :> {},
                !.faults = {"disconnect", "validation", "running_timeout"}]

\* A client that pauses and updates, and another one that continues at any time
\* after the pause.
Paused(mode, update) ==
    [TwoBaseRequests EXCEPT
        !.kind = o1 :> mode @@ o2 :> update @@ o3 :> "continue",
        !.after = o1 :> {} @@ o2 :> {o1} @@ o3 :> {o1},
        !.faults = {"disconnect"}]

TokenizerConfigs ==
    {Lora, Pinned, Listed, Weights, Paused("abort", "update_tensor"),
     Paused("retract", "update_disk"), [Paused("in_place", "update_tensor") EXCEPT !.faults = {}]}

\* The requests of a server that is paused in mode retract go back to the queue.
RetractConfigs == {[Paused("retract", "update_disk") EXCEPT !.faults = {}]}

\* An update holds the lock while another client pauses and then updates as well.
RaceConfigs ==
    {[Paused("abort", "update_tensor") EXCEPT !.kind[o3] = "update_disk", !.after[o3] = {}]}

\* One request with an adapter whose client may go away.
AbortConfigs == {[Base EXCEPT !.lora = r1 :> loraA, !.lora_paths = <<loraA>>, !.faults = {"disconnect"}]}
=============================================================================
