------------------------- MODULE FanOutCommunicator -------------------------
(***************************************************************************)
(* The request/response primitive with which the tokenizer manager talks   *)
(* to the schedulers (managers/communicator.py).  One call sends its       *)
(* object to every recipient and collects one response from each.          *)
(*                                                                         *)
(* A call is an asyncio coroutine: the code between two awaits is one      *)
(* atomic step, and a coroutine that has been woken runs some time after   *)
(* the step that woke it, so another coroutine may run in between.  Every  *)
(* element of Calls is one invocation of __call__; the Event and the list  *)
(* of values a call creates are named by that call.                        *)
(***************************************************************************)
EXTENDS Naturals, Sequences, FiniteSets

CONSTANTS
    Calls,          \* invocations of __call__
    Recipients,     \* the fan_out schedulers behind the socket
    NoCall          \* Python's None

ASSUME CallsAssumption == NoCall \notin Calls
ASSUME RecipientsAssumption == IsFiniteSet(Recipients) /\ Recipients # {}

VARIABLES
    mode,           \* self._mode, given to the constructor
    pc,             \* where each coroutine is
    result_event,   \* the call that created self._result_event, or NoCall
    values,         \* values[e]: the list created together with event e
    fired,          \* fired[e]: event e is set
    ready_queue,    \* self._ready_queue, as the calls waiting in it
    shared,         \* shared[c]: the event a watching call captured
    result,         \* what each call returned
    inbox           \* inbox[r]: requests sent to r that r has not answered

vars == <<mode, pc, result_event, values, fired, ready_queue, shared, result, inbox>>

Responses == Calls \X Recipients
Modes == {"queueing", "watching"}

(***************************************************************************)
(* Every property below is stated over these types: a coroutine is new,    *)
(* waiting in the FIFO, woken from it, waiting for responses, returned, or *)
(* stopped by an AssertionError.                                           *)
(***************************************************************************)
Types ==
    /\ mode \in Modes
    /\ pc \in [Calls -> {"new", "queued", "ready", "waiting", "done", "failed"}]
    /\ result_event \in Calls \cup {NoCall}
    /\ values \in [Calls -> SUBSET Responses]
    /\ fired \in [Calls -> BOOLEAN]
    /\ ready_queue \in Seq(Calls)
    /\ shared \in [Calls -> Calls \cup {NoCall}]
    /\ result \in [Calls -> SUBSET Responses]
    /\ inbox \in [Recipients -> Seq(Calls)]

\* The types, and no list grows past fan_out: handle_recv compares its length with ==,
\* so a response too many would be returned to a caller, or never complete the list.
TypeOK == Types /\ \A e \in Calls : Cardinality(values[e]) <= Cardinality(Recipients)

Init ==
    /\ mode \in Modes
    /\ pc = [c \in Calls |-> "new"]
    /\ result_event = NoCall
    /\ values = [c \in Calls |-> {}]
    /\ fired = [c \in Calls |-> FALSE]
    /\ ready_queue = <<>>
    /\ shared = [c \in Calls |-> NoCall]
    /\ result = [c \in Calls |-> {}]
    /\ inbox = [r \in Recipients |-> <<>>]

-----------------------------------------------------------------------------
(* Queueing mode.                                                          *)

\* Send the object and install a fresh event and list of values.
SendRequest(c) ==
    /\ inbox' = [r \in Recipients |-> Append(inbox[r], c)]
    /\ result_event' = c
    /\ values' = [values EXCEPT ![c] = {}]
    /\ fired' = [fired EXCEPT ![c] = FALSE]

\* Mutant: a request in flight is not looked for.
IdleIfNobodyQueues == ready_queue = <<>>

\* An idle communicator: nothing in flight and nobody in the FIFO.
Idle == result_event = NoCall /\ ready_queue = <<>>

\* A call that finds the communicator idle sends at once; otherwise it waits.
QueueingCall(c) ==
    /\ mode = "queueing"
    /\ pc[c] = "new"
    /\ \/ /\ Idle
          /\ SendRequest(c)
          /\ pc' = [pc EXCEPT ![c] = "waiting"]
          /\ UNCHANGED ready_queue
       \/ /\ ~Idle
          /\ ready_queue' = Append(ready_queue, c)
          /\ pc' = [pc EXCEPT ![c] = "queued"]
          /\ UNCHANGED <<inbox, result_event, values, fired>>
    /\ UNCHANGED <<mode, shared, result>>

\* The coroutine resumes after ready_event.wait(), checks the two asserts and
\* sends.  The values list is None exactly when the event is.
QueueingReady(c) ==
    /\ pc[c] = "ready"
    /\ \/ /\ result_event = NoCall
          /\ SendRequest(c)
          /\ pc' = [pc EXCEPT ![c] = "waiting"]
       \/ /\ result_event # NoCall
          /\ pc' = [pc EXCEPT ![c] = "failed"]
          /\ UNCHANGED <<inbox, result_event, values, fired>>
    /\ UNCHANGED <<mode, ready_queue, shared, result>>

\* Mutant: nobody is woken from the FIFO.
HandOverMissing(c) ==
    /\ pc' = [pc EXCEPT ![c] = "done"]
    /\ UNCHANGED ready_queue

\* After the last response: take the values, clear the shared fields and hand
\* over to the first call of the FIFO.
HandOver(c) ==
    IF ready_queue = <<>>
    THEN /\ pc' = [pc EXCEPT ![c] = "done"]
         /\ UNCHANGED ready_queue
    ELSE /\ pc' = [pc EXCEPT ![c] = "done", ![Head(ready_queue)] = "ready"]
         /\ ready_queue' = Tail(ready_queue)

QueueingFinish(c) ==
    /\ mode = "queueing"
    /\ pc[c] = "waiting"
    /\ fired[c]
    /\ result' = [result EXCEPT ![c] = values[result_event]]
    /\ result_event' = NoCall
    /\ HandOver(c)
    /\ UNCHANGED <<mode, values, fired, shared, inbox>>

-----------------------------------------------------------------------------
(* Watching mode.                                                          *)

\* The first call sends; a concurrent one shares the request in flight.
WatchingCall(c) ==
    /\ mode = "watching"
    /\ pc[c] = "new"
    /\ \/ /\ result_event = NoCall
          /\ SendRequest(c)
       \/ /\ result_event # NoCall
          /\ UNCHANGED <<inbox, result_event, values, fired>>
    /\ shared' = [shared EXCEPT ![c] = result_event']
    /\ pc' = [pc EXCEPT ![c] = "waiting"]
    /\ UNCHANGED <<mode, ready_queue, result>>

\* Mutant: the fields are cleared without comparing the captured event.
ClearAlways(c) == result_event' = NoCall

\* The first coroutine that resumes clears the shared fields; the others see
\* that the fields are no longer those they captured.
ClearIfCurrent(c) ==
    result_event' = IF result_event = shared[c] THEN NoCall ELSE result_event

WatchingFinish(c) ==
    /\ mode = "watching"
    /\ pc[c] = "waiting"
    /\ fired[shared[c]]
    /\ result' = [result EXCEPT ![c] = values[shared[c]]]
    /\ ClearIfCurrent(c)
    /\ pc' = [pc EXCEPT ![c] = "done"]
    /\ UNCHANGED <<mode, values, fired, ready_queue, shared, inbox>>

-----------------------------------------------------------------------------
(* Recipient r answers its oldest request and handle_recv stores the       *)
(* answer in the current list.  With no list the code would raise.         *)

\* Mutant: one response is taken for all.
CompleteAtFirst(vs) == Cardinality(vs) = 1

\* The event fires when the list holds one response per recipient.
Complete(vs) == Cardinality(vs) = Cardinality(Recipients)

\* A response as it is stored.  The code appends the object it received; which request
\* that answers, and who sent it, is known to the model only.
Response(r) == <<Head(inbox[r]), r>>

HandleRecv(r) ==
    /\ inbox[r] # <<>>
    /\ result_event # NoCall
    /\ LET vs == values[result_event] \cup {Response(r)}
       IN  /\ values' = [values EXCEPT ![result_event] = vs]
           /\ fired' = IF Complete(vs)
                       THEN [fired EXCEPT ![result_event] = TRUE]
                       ELSE fired
    /\ inbox' = [inbox EXCEPT ![r] = Tail(@)]
    /\ UNCHANGED <<mode, pc, result_event, ready_queue, shared, result>>

-----------------------------------------------------------------------------
CallStep(c) ==
    \/ QueueingCall(c)
    \/ QueueingReady(c)
    \/ QueueingFinish(c)
    \/ WatchingCall(c)
    \/ WatchingFinish(c)

\* Every coroutine has returned or raised: nothing is left to run.
AllReturned ==
    /\ \A c \in Calls : pc[c] \in {"done", "failed"}
    /\ UNCHANGED vars

Next ==
    \/ \E c \in Calls : CallStep(c)
    \/ \E r \in Recipients : HandleRecv(r)
    \/ AllReturned

\* The event loop runs every woken coroutine, and a live scheduler answers
\* every request it was sent.
Fairness ==
    /\ \A c \in Calls : WF_vars(CallStep(c))
    /\ \A r \in Recipients : WF_vars(HandleRecv(r))

Spec == Init /\ [][Next]_vars

FairSpec == Spec /\ Fairness

-----------------------------------------------------------------------------
(* Properties.                                                             *)

\* "Only one request is in-flight at any time in either mode"
\* (communicator.py): whatever a recipient still has to answer is the request
\* of the current event, so no response finds the fields cleared and none is
\* appended to the list of another call.
OneInFlight ==
    \A r \in Recipients :
        \/ inbox[r] = <<>>
        \/ result_event # NoCall /\ inbox[r] = <<result_event>>

\* A call that returns got one response from every recipient, all to one
\* request; in queueing mode to its own.
CompleteResults ==
    \A c \in Calls :
        pc[c] = "done" =>
            \E e \in Calls :
                /\ result[c] = {e} \X Recipients
                /\ mode = "queueing" => e = c

\* The inductive strengthening of the two invariants above.  The list of the
\* current event holds exactly the responses that are no longer in an inbox, a
\* fired event has all of them, no list has others, and only the current request
\* is waited for.
Collected ==
    result_event # NoCall =>
        values[result_event] =
            {result_event} \X {r \in Recipients : inbox[r] = <<>>}

FiredIsComplete ==
    \A e \in Calls : fired[e] => values[e] = {e} \X Recipients

OwnResponses == \A e \in Calls : values[e] \subseteq {e} \X Recipients

WaitingForCurrent ==
    \A c \in Calls :
        pc[c] = "waiting" =>
            IF mode = "queueing" THEN result_event = c ELSE shared[c] \in Calls

QueueOnlyWhenQueueing ==
    \A c \in Calls : pc[c] = "ready" => mode = "queueing"

IInv ==
    /\ Types
    /\ OneInFlight
    /\ CompleteResults
    /\ Collected
    /\ FiredIsComplete
    /\ OwnResponses
    /\ WaitingForCurrent
    /\ QueueOnlyWhenQueueing

\* No call hangs: the FIFO is handed on until everybody returned or raised.
CallsTerminate == \A c \in Calls : <>(pc[c] \in {"done", "failed"})

\* The assertions of queueing_call hold: the call that is woken from the FIFO
\* finds the communicator free.
WokenCallFindsItFree == \A c \in Calls : pc[c] # "failed"

=============================================================================
