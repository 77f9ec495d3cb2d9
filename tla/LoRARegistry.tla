---------------------------- MODULE LoRARegistry ----------------------------
(***************************************************************************)
(* The LoRA registry of lora/lora_registry.py as operators on a record:    *)
(* refs, the registered adapters in the order of their last use, and       *)
(* counters, the requests counted per adapter ID.  An adapter that was     *)
(* unregistered keeps its counter until wait_for_unload is done with it.   *)
(*                                                                         *)
(* No method suspends while it holds _registry_lock, so each operator is   *)
(* one step; acquire of a list is two (Lookup, then Count).                *)
(***************************************************************************)
EXTENDS SeqHelpers

Registered(reg) == {reg.refs[i].name : i \in DOMAIN reg.refs}
RefOf(reg, name) == CHOOSE ref \in Range(reg.refs) : ref.name = name
Named(reg, names) == {ref \in Range(reg.refs) : ref.name \in names}

\* _register_adapter, for a name that is not registered.
Register(reg, ref) ==
    [refs |-> Append(reg.refs, ref),
     counters |-> [id \in DOMAIN reg.counters \cup {ref.id} |->
                      IF id = ref.id THEN 0 ELSE reg.counters[id]]]

\* unregister: the counter stays.
Unregister(reg, name) ==
    [reg EXCEPT !.refs = Without(@, Named(reg, {name}))]

\* The lookup of acquire and get_unregistered_loras: the adapter becomes the last one.
Lookup(reg, name) ==
    [reg EXCEPT !.refs = Append(Without(@, Named(reg, {name})), RefOf(reg, name))]

\* increment and decrement of a counter; a counter that is gone is not changed.
AddTo(reg, id, n) ==
    [reg EXCEPT !.counters = [i \in DOMAIN @ |-> IF i = id THEN @[i] + n ELSE @[i]]]
Count(reg, id) == AddTo(reg, id, 1)
Release(reg, id) == AddTo(reg, id, -1)

\* wait_for_unload, once the count is zero.
Forget(reg, id) ==
    [reg EXCEPT !.counters = [i \in DOMAIN @ \ {id} |-> @[i]]]

\* lru_lora_name(exclude_pinned=True): the adapters it may return, best first.
Evictable(reg, pinned) == Without(reg.refs, Named(reg, pinned))
=============================================================================
