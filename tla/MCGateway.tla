----------------------------- MODULE MCGateway -----------------------------
(* Instances of Gateway for TLC: one gateway and load per record. *)
EXTENDS Gateway

CONSTANTS q1, q2, q3

MCThreads == {q1, q2, q3}

\* Three requests for one token, a queue of one.
Limited ==
    [reqs |-> MCThreads, capacity |-> 1, queue_size |-> 1, refills |-> 1, max_retries |-> 1,
     timeouts |-> TRUE, disconnects |-> TRUE, outcomes |-> {"ok"}]

\* Two of them, where nobody leaves and no timeout expires.
Patient == [Limited EXCEPT !.reqs = {q1, q2}, !.timeouts = FALSE, !.disconnects = FALSE]

\* Two requests that retry a worker.
Retrying ==
    [Limited EXCEPT !.reqs = {q1, q2}, !.capacity = 2, !.queue_size = 0, !.refills = 0,
                    !.max_retries = 2, !.outcomes = {"ok", "retryable", "bad_request"}]

GatewayConfigs == {Limited, Patient, Retrying}
=============================================================================
