---------------------- MODULE FanOutCommunicatorProofs ----------------------
(* Safety of FanOutCommunicator for any number of calls and recipients.     *)
EXTENDS FanOutCommunicator, FiniteSetTheorems, TLAPS

USE CallsAssumption, RecipientsAssumption DEF Modes

\* As many responses to one request as there are recipients are all of them:
\* the length test of handle_recv detects completeness.
LEMMA CompleteIsAll ==
    ASSUME NEW e \in Calls, NEW R \in SUBSET Recipients, Complete({e} \X R)
    PROVE  R = Recipients
<1>1. IsFiniteSet(R) /\ IsFiniteSet({e}) /\ Cardinality({e}) = 1
  BY FS_Subset, FS_Singleton
<1>2. Cardinality({e} \X R) = 1 * Cardinality(R)
  BY <1>1, FS_Product
<1>3. Cardinality(R) \in Nat /\ Cardinality(Recipients) \in Nat
  BY <1>1, FS_CardinalityType
<1>4. Cardinality(R) = Cardinality(Recipients)
  BY <1>2, <1>3 DEF Complete
<1> QED
  BY <1>4, FS_Subset

\* Two sets of responders to one request are told apart by the responses.
LEMMA SameResponders ==
    ASSUME NEW e, NEW R, NEW S, {e} \X R = {e} \X S
    PROVE  R = S
<1>1. \A r : <<e, r>> \in {e} \X R <=> r \in R
  OBVIOUS
<1>2. \A r : <<e, r>> \in {e} \X S <=> r \in S
  OBVIOUS
<1> QED
  BY <1>1, <1>2

\* A new communicator has nothing in flight.
LEMMA InitIInv == Init => IInv
BY DEF Init, IInv, Types, OneInFlight, CompleteResults, Collected,
       FiredIsComplete, OwnResponses, WaitingForCurrent, QueueOnlyWhenQueueing

\* Sending on a free communicator puts exactly one request in flight.
LEMMA SendRequestStep ==
    ASSUME IInv, result_event = NoCall, NEW c \in Calls, SendRequest(c)
    PROVE  /\ inbox' = [r \in Recipients |-> <<c>>]
           /\ result_event' \in Calls
           /\ values' \in [Calls -> SUBSET Responses]
           /\ fired' \in [Calls -> BOOLEAN]
           /\ inbox' \in [Recipients -> Seq(Calls)]
           /\ OneInFlight'
           /\ Collected'
           /\ FiredIsComplete'
           /\ OwnResponses'
<1>1. inbox' = [r \in Recipients |-> <<c>>]
  <2>1. \A r \in Recipients : inbox[r] = <<>>
    BY DEF IInv, OneInFlight
  <2>2. Append(<<>>, c) = <<c>>
    OBVIOUS
  <2> QED
    BY <2>1, <2>2 DEF SendRequest
<1>2. OneInFlight'
  BY <1>1 DEF OneInFlight, SendRequest
<1>3. Collected'
  <2>1. {r \in Recipients : inbox'[r] = <<>>} = {}
    <3>1. <<c>> # <<>>
      OBVIOUS
    <3> QED
      BY <1>1, <3>1
  <2>2. values'[c] = {} /\ result_event' = c
    BY DEF IInv, Types, SendRequest
  <2>3. {c} \X {} = {}
    OBVIOUS
  <2> QED
    BY <2>1, <2>2, <2>3 DEF Collected
<1>4. FiredIsComplete' /\ OwnResponses'
  BY DEF IInv, Types, SendRequest, FiredIsComplete, OwnResponses
<1>5. inbox' \in [Recipients -> Seq(Calls)]
  BY DEF IInv, Types, SendRequest
<1>6. /\ values' \in [Calls -> SUBSET Responses]
      /\ fired' \in [Calls -> BOOLEAN]
      /\ result_event' \in Calls
  BY DEF IInv, Types, SendRequest
<1> QED
  BY <1>1, <1>2, <1>3, <1>4, <1>5, <1>6

\* queueing_call up to its first await sends only when nothing is in flight.
LEMMA QueueingCallStep ==
    ASSUME IInv, NEW c \in Calls, QueueingCall(c)
    PROVE  IInv'
<1> USE DEF QueueingCall
<1>1. CASE Idle /\ SendRequest(c) /\ pc' = [pc EXCEPT ![c] = "waiting"]
           /\ UNCHANGED ready_queue
  <2>1. result_event = NoCall
    BY <1>1 DEF Idle
  <2>2. OneInFlight' /\ Collected' /\ FiredIsComplete' /\ OwnResponses'
    BY <1>1, <2>1, SendRequestStep
  <2>3. Types'
    BY <1>1, <2>1, SendRequestStep DEF IInv, Types
  <2>4. CompleteResults'
    BY <1>1 DEF IInv, Types, CompleteResults
  <2>5. WaitingForCurrent' /\ QueueOnlyWhenQueueing'
    BY <1>1, <2>1 DEF IInv, Types, WaitingForCurrent, QueueOnlyWhenQueueing,
                   SendRequest
  <2> QED
    BY <2>2, <2>3, <2>4, <2>5 DEF IInv
<1>2. CASE /\ ready_queue' = Append(ready_queue, c)
           /\ pc' = [pc EXCEPT ![c] = "queued"]
           /\ UNCHANGED <<inbox, result_event, values, fired>>
  BY <1>2 DEF IInv, Types, OneInFlight, CompleteResults, Collected,
              FiredIsComplete, OwnResponses, WaitingForCurrent, QueueOnlyWhenQueueing
<1> QED
  BY <1>1, <1>2

\* A woken call sends, or fails its assertion and changes nothing else.
LEMMA QueueingReadyStep ==
    ASSUME IInv, NEW c \in Calls, QueueingReady(c)
    PROVE  IInv'
<1> USE DEF QueueingReady
<1>1. CASE result_event = NoCall /\ SendRequest(c)
           /\ pc' = [pc EXCEPT ![c] = "waiting"]
  <2>2. OneInFlight' /\ Collected' /\ FiredIsComplete' /\ OwnResponses'
    BY <1>1, SendRequestStep
  <2>3. Types'
    BY <1>1, SendRequestStep DEF IInv, Types
  <2>4. CompleteResults'
    BY <1>1 DEF IInv, Types, CompleteResults
  <2>5. WaitingForCurrent' /\ QueueOnlyWhenQueueing'
    BY <1>1 DEF IInv, Types, WaitingForCurrent, QueueOnlyWhenQueueing,
                   SendRequest
  <2> QED
    BY <2>2, <2>3, <2>4, <2>5 DEF IInv
<1>2. CASE /\ pc' = [pc EXCEPT ![c] = "failed"]
           /\ UNCHANGED <<inbox, result_event, values, fired>>
  BY <1>2 DEF IInv, Types, OneInFlight, CompleteResults, Collected,
              FiredIsComplete, OwnResponses, WaitingForCurrent, QueueOnlyWhenQueueing
<1> QED
  BY <1>1, <1>2

\* The event that wakes a queueing call is its own and holds all responses, so
\* every inbox is empty when the fields are cleared.
LEMMA QueueingFinishStep ==
    ASSUME IInv, NEW c \in Calls, QueueingFinish(c)
    PROVE  IInv'
<1> USE DEF QueueingFinish
<1>1. result_event = c /\ values[c] = {c} \X Recipients
  BY DEF IInv, WaitingForCurrent, FiredIsComplete
<1>2. \A r \in Recipients : inbox[r] = <<>>
  <2>1. {c} \X {r \in Recipients : inbox[r] = <<>>} = {c} \X Recipients
    BY <1>1 DEF IInv, Collected
  <2>2. {r \in Recipients : inbox[r] = <<>>} = Recipients
    BY <2>1, SameResponders
  <2> QED
    BY <2>2
<1>3. /\ pc' \in [Calls -> {"new", "queued", "ready", "waiting", "done", "failed"}]
      /\ ready_queue' \in Seq(Calls)
      /\ \A d \in Calls : pc'[d] = pc[d] \/ pc'[d] = "ready" \/ (d = c /\ pc'[d] = "done")
      /\ pc'[c] # "waiting"
  <2>1. CASE ready_queue = <<>>
    BY <2>1 DEF IInv, Types, HandOver
  <2>2. CASE ready_queue # <<>>
    <3>1. Head(ready_queue) \in Calls /\ Tail(ready_queue) \in Seq(Calls)
      BY <2>2 DEF IInv, Types
    <3>2. pc' = [pc EXCEPT ![c] = "done", ![Head(ready_queue)] = "ready"]
      BY <2>2 DEF HandOver
    <3>3. \A d \in Calls :
              pc'[d] = IF d = Head(ready_queue) THEN "ready"
                       ELSE IF d = c THEN "done" ELSE pc[d]
      BY <3>1, <3>2 DEF IInv, Types
    <3>4. pc' \in [Calls -> {"new", "queued", "ready", "waiting", "done", "failed"}]
      BY <3>1, <3>2 DEF IInv, Types
    <3>5. ready_queue' \in Seq(Calls)
      BY <2>2, <3>1 DEF HandOver
    <3>6. pc'[c] # "waiting"
      BY <3>3
    <3>7. \A d \in Calls : pc'[d] = pc[d] \/ pc'[d] = "ready" \/ (d = c /\ pc'[d] = "done")
      BY <3>3
    <3> QED
      BY <3>4, <3>5, <3>6, <3>7
  <2> QED
    BY <2>1, <2>2
<1>4. Types'
  BY <1>1, <1>3 DEF IInv, Types
<1>5. OneInFlight' /\ Collected' /\ FiredIsComplete' /\ OwnResponses'
  BY <1>2 DEF IInv, OneInFlight, Collected, FiredIsComplete, OwnResponses
<1>6. CompleteResults'
  BY <1>1, <1>3 DEF IInv, Types, CompleteResults
<1>7. WaitingForCurrent' /\ QueueOnlyWhenQueueing'
  BY <1>1, <1>3 DEF IInv, WaitingForCurrent, QueueOnlyWhenQueueing
<1> QED
  BY <1>4, <1>5, <1>6, <1>7 DEF IInv

\* watching_call sends, or joins the request in flight.
LEMMA WatchingCallStep ==
    ASSUME IInv, NEW c \in Calls, WatchingCall(c)
    PROVE  IInv'
<1> USE DEF WatchingCall
<1>1. CASE result_event = NoCall /\ SendRequest(c)
  <2>1. OneInFlight' /\ Collected' /\ FiredIsComplete' /\ OwnResponses' /\ result_event' \in Calls
    BY <1>1, SendRequestStep
  <2>2. Types'
    BY <1>1, SendRequestStep DEF IInv, Types
  <2>3. CompleteResults' /\ WaitingForCurrent' /\ QueueOnlyWhenQueueing'
    BY <2>1 DEF IInv, Types, CompleteResults, WaitingForCurrent,
                QueueOnlyWhenQueueing
  <2> QED
    BY <2>1, <2>2, <2>3 DEF IInv
<1>2. CASE result_event # NoCall /\ UNCHANGED <<inbox, result_event, values, fired>>
  BY <1>2 DEF IInv, Types, OneInFlight, CompleteResults, Collected,
              FiredIsComplete, OwnResponses, WaitingForCurrent, QueueOnlyWhenQueueing
<1> QED
  BY <1>1, <1>2

\* A watching call clears the event only when it is still its own.
LEMMA WatchingFinishStep ==
    ASSUME IInv, NEW c \in Calls, WatchingFinish(c)
    PROVE  IInv'
<1> USE DEF WatchingFinish
<1>1. shared[c] \in Calls /\ values[shared[c]] = {shared[c]} \X Recipients
  BY DEF IInv, WaitingForCurrent, FiredIsComplete
<1>2. ASSUME result_event = shared[c]
      PROVE  \A r \in Recipients : inbox[r] = <<>>
  <2>1. {shared[c]} \X {r \in Recipients : inbox[r] = <<>>}
            = {shared[c]} \X Recipients
    BY <1>1, <1>2 DEF IInv, Collected
  <2>2. {r \in Recipients : inbox[r] = <<>>} = Recipients
    BY <2>1, SameResponders
  <2> QED
    BY <2>2
<1>3. Types'
  BY <1>1 DEF IInv, Types, ClearIfCurrent
<1>4. OneInFlight' /\ Collected' /\ FiredIsComplete' /\ OwnResponses'
  BY <1>2 DEF IInv, OneInFlight, Collected, FiredIsComplete, OwnResponses,
              ClearIfCurrent
<1>5. CompleteResults'
  BY <1>1 DEF IInv, Types, CompleteResults
<1>6. WaitingForCurrent' /\ QueueOnlyWhenQueueing'
  BY DEF IInv, Types, WaitingForCurrent, QueueOnlyWhenQueueing
<1> QED
  BY <1>3, <1>4, <1>5, <1>6 DEF IInv

\* handle_recv moves one response from an inbox to the list of the current event.
LEMMA HandleRecvStep ==
    ASSUME IInv, NEW r \in Recipients, HandleRecv(r)
    PROVE  IInv'
<1> DEFINE e == result_event
           R == {q \in Recipients : inbox[q] = <<>>}
           vs == values[e] \cup {Response(r)}
<1>1. e \in Calls /\ inbox[r] = <<e>>
  BY DEF HandleRecv, IInv, Types, OneInFlight
<1>2. Response(r) = <<e, r>> /\ Tail(inbox[r]) = <<>>
  BY <1>1 DEF Response
<1>3. vs = {e} \X (R \cup {r})
  BY <1>1, <1>2 DEF HandleRecv, IInv, Collected
<1>4. /\ inbox' = [inbox EXCEPT ![r] = <<>>]
      /\ values' = [values EXCEPT ![e] = vs]
      /\ fired' = IF Complete(vs) THEN [fired EXCEPT ![e] = TRUE] ELSE fired
      /\ UNCHANGED <<mode, pc, result_event, ready_queue, shared, result>>
  BY <1>2 DEF HandleRecv
<1>5. Complete(vs) => vs = {e} \X Recipients
  <2>1. R \cup {r} \in SUBSET Recipients
    OBVIOUS
  <2> HIDE DEF e, R, vs
  <2> QED
    BY <1>1, <1>3, <2>1, CompleteIsAll
<1>6. Types'
  <2>1. vs \in SUBSET Responses
    BY <1>1, <1>3 DEF Responses
  <2>2. <<>> \in Seq(Calls)
    OBVIOUS
  <2> QED
    BY <1>1, <1>4, <2>1, <2>2 DEF IInv, Types
<1>7. OneInFlight'
  BY <1>4 DEF IInv, Types, OneInFlight
<1>8. Collected'
  <2>1. {q \in Recipients : inbox'[q] = <<>>} = R \cup {r}
    BY <1>4 DEF IInv, Types
  <2> QED
    BY <1>1, <1>3, <1>4, <2>1 DEF IInv, Types, Collected
<1>9. FiredIsComplete'
  <2>1. fired[e] => vs = {e} \X Recipients
    BY <1>1, <1>3 DEF IInv, FiredIsComplete
  <2> QED
    BY <1>1, <1>4, <1>5, <2>1 DEF IInv, Types, FiredIsComplete
<1>10. CompleteResults' /\ WaitingForCurrent' /\ QueueOnlyWhenQueueing'
  BY <1>4 DEF IInv, CompleteResults, WaitingForCurrent, QueueOnlyWhenQueueing
<1>11. OwnResponses'
  <2>1. vs \subseteq {e} \X Recipients
    BY <1>3
  <2> QED
    BY <1>1, <1>4, <2>1 DEF IInv, Types, OwnResponses
<1> QED
  BY <1>6, <1>7, <1>8, <1>9, <1>10, <1>11 DEF IInv

\* Every step keeps the invariant.
LEMMA NextIInv == IInv /\ [Next]_vars => IInv'
<1> SUFFICES ASSUME IInv, [Next]_vars PROVE IInv'
  OBVIOUS
<1>1. ASSUME NEW c \in Calls, CallStep(c) PROVE IInv'
  BY <1>1, QueueingCallStep, QueueingReadyStep, QueueingFinishStep,
     WatchingCallStep, WatchingFinishStep DEF CallStep
<1>2. ASSUME NEW r \in Recipients, HandleRecv(r) PROVE IInv'
  BY <1>2, HandleRecvStep
<1>3. CASE UNCHANGED vars
  BY <1>3 DEF vars, IInv, Types, OneInFlight, CompleteResults, Collected,
              FiredIsComplete, OwnResponses, WaitingForCurrent, QueueOnlyWhenQueueing
<1> QED
  BY <1>1, <1>2, <1>3 DEF Next, AllReturned

\* Responses to one request are no more than the recipients.
LEMMA AtMostFanOut ==
    ASSUME NEW e, NEW vs, vs \subseteq {e} \X Recipients
    PROVE  Cardinality(vs) <= Cardinality(Recipients)
<1>1. IsFiniteSet({e}) /\ Cardinality({e}) = 1 /\ Cardinality(Recipients) \in Nat
  BY FS_Singleton, FS_CardinalityType
<1>2. IsFiniteSet({e} \X Recipients) /\ Cardinality({e} \X Recipients) = 1 * Cardinality(Recipients)
  BY <1>1, FS_Product
<1>3. Cardinality(vs) <= Cardinality({e} \X Recipients)
  BY <1>2, FS_Subset
<1> QED
  BY <1>1, <1>2, <1>3

\* The communicator keeps its types, and for any number of concurrent calls no list of
\* responses grows past fan_out.
THEOREM TypeCorrect == Spec => []TypeOK
<1>1. IInv => TypeOK
  BY AtMostFanOut DEF IInv, OwnResponses, TypeOK
<1> QED
  BY <1>1, InitIInv, NextIInv, PTL DEF Spec

\* Only one request is in flight at any time, in either mode, for any number of
\* concurrent calls and of recipients (communicator.py, class docstring).
THEOREM OneInFlightHolds == Spec => []OneInFlight
<1>1. IInv => OneInFlight
  BY DEF IInv
<1> QED
  BY <1>1, InitIInv, NextIInv, PTL DEF Spec

\* A returning call has one response of every recipient, to one request, which
\* is its own in queueing mode.
THEOREM CompleteResultsHold == Spec => []CompleteResults
<1>1. IInv => CompleteResults
  BY DEF IInv
<1> QED
  BY <1>1, InitIInv, NextIInv, PTL DEF Spec

=============================================================================
