------------------------- MODULE RequestFlowProofs -------------------------
(***************************************************************************)
(* Each step of RequestFlow keeps its invariant, so that it holds in every *)
(* behaviour: first the places of the requests, then the order of results. *)
(***************************************************************************)
EXTENDS RequestFlowInvariant, TLAPS

-----------------------------------------------------------------------------
(* Sequences of requests.                                                  *)

\* Members of a sequence, of one element, of the empty sequence.
LEMMA RangeFacts ==
    ASSUME NEW T, NEW s \in Seq(T)
    PROVE  /\ Range(s) \subseteq T
           /\ Range(s) = {} <=> s = <<>>
           /\ \A i \in 1 .. Len(s) : s[i] \in Range(s) /\ s[i] \in T
<1>1. DOMAIN s = 1 .. Len(s) /\ Len(s) \in Nat /\ \A i \in 1 .. Len(s) : s[i] \in T
  OBVIOUS
<1>2. Range(s) = {} => s = <<>>
  <2>1. Len(s) # 0 => s[1] \in Range(s)
    BY <1>1 DEF Range
  <2> QED
    BY <1>1, <2>1
<1>3. s = <<>> => Range(s) = {}
  BY <1>1 DEF Range
<1> QED
  BY <1>1, <1>2, <1>3, ZenonT(30) DEF Range

LEMMA RangeOne ==
    ASSUME NEW x
    PROVE  Range(<<x>>) = {x} /\ Range(<<>>) = {} /\ IsInjective(<<x>>) /\ IsInjective(<<>>)
BY DEF Range, IsInjective

\* Members and injectivity of concatenations.
LEMMA RangeCat ==
    ASSUME NEW T, NEW s \in Seq(T), NEW t \in Seq(T)
    PROVE  /\ s \o t \in Seq(T)
           /\ Range(s \o t) = Range(s) \cup Range(t)
           /\ IsInjective(s) /\ IsInjective(t) /\ Range(s) \cap Range(t) = {} => IsInjective(s \o t)
<1> DEFINE u == s \o t
<1>1. /\ Len(s) \in Nat /\ Len(t) \in Nat /\ DOMAIN s = 1 .. Len(s) /\ DOMAIN t = 1 .. Len(t)
      /\ u \in Seq(T) /\ Len(u) = Len(s) + Len(t) /\ DOMAIN u = 1 .. Len(s) + Len(t)
  OBVIOUS
<1>2. \A i \in 1 .. Len(s) + Len(t) :
        /\ i <= Len(s) => i \in 1 .. Len(s) /\ u[i] = s[i]
        /\ i > Len(s) => i - Len(s) \in 1 .. Len(t) /\ u[i] = t[i - Len(s)]
  BY <1>1
<1>3. \A i \in 1 .. Len(s) + Len(t) : i <= Len(s) \/ i > Len(s)
  BY <1>1
<1>4. \A i \in 1 .. Len(s) : i \in 1 .. Len(s) + Len(t) /\ u[i] = s[i]
  BY <1>1
<1>5. \A i \in 1 .. Len(t) : Len(s) + i \in 1 .. Len(s) + Len(t) /\ u[Len(s) + i] = t[i]
  BY <1>1
<1> HIDE DEF u
<1>6. Range(u) = Range(s) \cup Range(t)
  <2>1. ASSUME NEW x \in Range(u) PROVE x \in Range(s) \cup Range(t)
    <3>1. PICK i \in 1 .. Len(s) + Len(t) : u[i] = x
      BY <1>1, ZenonT(30) DEF Range
    <3> QED
      BY <1>1, <1>2, <1>3, <3>1, ZenonT(30) DEF Range
  <2>2. ASSUME NEW x \in Range(s) PROVE x \in Range(u)
    BY <1>1, <1>4, ZenonT(30) DEF Range
  <2>3. ASSUME NEW x \in Range(t) PROVE x \in Range(u)
    <3>1. PICK i \in 1 .. Len(t) : t[i] = x
      BY <1>1, ZenonT(30) DEF Range
    <3> QED
      BY <1>1, <1>5, <3>1, ZenonT(30) DEF Range
  <2> QED
    BY <2>1, <2>2, <2>3, ZenonT(30)
<1>7. ASSUME IsInjective(s), IsInjective(t), Range(s) \cap Range(t) = {} PROVE IsInjective(u)
  <2> SUFFICES ASSUME NEW a \in 1 .. Len(s) + Len(t), NEW b \in 1 .. Len(s) + Len(t), u[a] = u[b]
               PROVE  a = b
    BY <1>1, ZenonT(30) DEF IsInjective
  <2>1. CASE a <= Len(s) /\ b <= Len(s)
    BY <1>1, <1>2, <1>7, <2>1, ZenonT(30) DEF IsInjective
  <2>2. CASE a > Len(s) /\ b > Len(s)
    <3>1. a - Len(s) = b - Len(s)
      BY <1>1, <1>2, <1>7, <2>2, ZenonT(30) DEF IsInjective
    <3> QED
      BY <1>1, <3>1
  <2>3. CASE a <= Len(s) /\ b > Len(s)
    <3>1. u[a] \in Range(s) /\ u[b] \in Range(t)
      BY <1>1, <1>2, <2>3, ZenonT(30) DEF Range
    <3> QED
      BY <1>7, <3>1, ZenonT(30)
  <2>4. CASE a > Len(s) /\ b <= Len(s)
    <3>1. u[b] \in Range(s) /\ u[a] \in Range(t)
      BY <1>1, <1>2, <2>4, ZenonT(30) DEF Range
    <3> QED
      BY <1>7, <3>1, ZenonT(30)
  <2> QED
    BY <1>3, <2>1, <2>2, <2>3, <2>4, ZenonT(30)
<1> QED
  BY <1>1, <1>6, <1>7, ZenonT(30) DEF u

LEMMA RangeAppend ==
    ASSUME NEW T, NEW s \in Seq(T), NEW x \in T
    PROVE  /\ Append(s, x) \in Seq(T)
           /\ Range(Append(s, x)) = Range(s) \cup {x}
           /\ IsInjective(s) /\ x \notin Range(s) => IsInjective(Append(s, x))
<1> DEFINE t == <<x>>
<1>1. Append(s, x) = s \o t /\ t \in Seq(T)
  OBVIOUS
<1>2. Range(t) = {x} /\ IsInjective(t)
  BY RangeOne, ZenonT(30)
<1> HIDE DEF t
<1>3. /\ s \o t \in Seq(T)
      /\ Range(s \o t) = Range(s) \cup Range(t)
      /\ IsInjective(s) /\ IsInjective(t) /\ Range(s) \cap Range(t) = {} => IsInjective(s \o t)
  BY <1>1, RangeCat, ZenonT(30)
<1> QED
  BY <1>1, <1>2, <1>3, ZenonT(30)

\* A sequence is a prefix of itself and of itself with an element appended.
LEMMA PrefixOfAppend ==
    ASSUME NEW T, NEW s \in Seq(T), NEW x \in T
    PROVE  IsPrefix(s, s) /\ IsPrefix(s, Append(s, x))
BY DEF IsPrefix

\* Appending an element, to any sequence and to one of length one.
LEMMA AppendFacts ==
    ASSUME NEW S, NEW s \in Seq(S), NEW e \in S
    PROVE  /\ Append(s, e) \in Seq(S) /\ Len(Append(s, e)) = Len(s) + 1
           /\ \A i \in 1 .. Len(s) : Append(s, e)[i] = s[i]
           /\ Append(s, e)[Len(s) + 1] = e
OBVIOUS

LEMMA PairFacts ==
    ASSUME NEW S, NEW s \in Seq(S), Len(s) = 2
    PROVE  s = <<s[1], s[2]>>
OBVIOUS

LEMMA AppendTwo ==
    ASSUME NEW a, NEW e
    PROVE  Append(<<a>>, e) = <<a, e>>
<1> DEFINE T == {a, e}
           s == <<a>>
           u == Append(s, e)
<1>1. s \in Seq(T) /\ e \in T
  OBVIOUS
<1>2. Len(s) = 1 /\ s[1] = a
  BY ZenonT(30)
<1> HIDE DEF s, T
<1>3. u \in Seq(T) /\ Len(u) = Len(s) + 1 /\ (\A i \in 1 .. Len(s) : u[i] = s[i]) /\ u[Len(s) + 1] = e
  BY <1>1, AppendFacts
<1> HIDE DEF u
<1>4. Len(u) = 2 /\ u[1] = a /\ u[2] = e
  BY <1>2, <1>3
<1>5. u = <<u[1], u[2]>>
  BY <1>3, <1>4, PairFacts, ZenonT(30)
<1>6. u = <<a, e>>
  BY <1>5, <1>4, ZenonT(30)
<1> QED
  BY <1>6, ZenonT(30) DEF u, s

-----------------------------------------------------------------------------
(* What is empty, and what has no result.                                  *)

\* Results that are not processed are of the last batch or of this one.
LEMMA InFlightPlaces ==
    ASSUME Results
    PROVE  InFlight \subseteq Merging \cup Batched
<1>1. ASSUME NEW i \in DOMAIN queue PROVE queue[i].reqs \in {last.reqs, batch.reqs}
  BY DEF Results, FromLast, FromBatch, Holds
<1> QED
  BY <1>1, ZenonT(30) DEF InFlight, Merging, Batched

\* The empty batch, and the adder that is not in use.
LEMMA EmptyFacts ==
    /\ NoBatch.kind = "none" /\ NoBatch.reqs = <<>> /\ DOMAIN NoBatch = BatchFields
    /\ NoAdder.can_run = <<>> /\ NoAdder.preempt_list = {} /\ NoAdder.victims = {}
    /\ NoAdder.new_chunked = NoReq /\ DOMAIN NoAdder = AdderFields
    /\ Range(<<>>) = {} /\ IsInjective(<<>>)
<1>1. /\ NoBatch.kind = "none" /\ NoBatch.reqs = <<>> /\ DOMAIN NoBatch = BatchFields
  BY ZenonT(30) DEF NoBatch, BatchFields
<1>2. /\ NoAdder.can_run = <<>> /\ NoAdder.preempt_list = {} /\ NoAdder.victims = {}
      /\ NoAdder.new_chunked = NoReq /\ DOMAIN NoAdder = AdderFields
  BY ZenonT(30) DEF NoAdder, AdderFields
<1> QED
  BY <1>1, <1>2, RangeOne, ZenonT(30)

\* Outside of admission the adder is not in use.
LEMMA NoAdderFacts ==
    ASSUME Places, ~Admitting
    PROVE  /\ adder = NoAdder /\ Admitted = {} /\ Preempted = {} /\ adder.victims = {}
           /\ adder.new_chunked = NoReq
<1>1. adder = NoAdder
  BY ZenonT(30) DEF Places
<1> QED
  BY <1>1, EmptyFacts, ZenonT(30) DEF Admitted, Preempted

-----------------------------------------------------------------------------
(* Admission.                                                              *)

\* A step that moves no request.
LEMMA QuietPlaces ==
    ASSUME PlaceInv, KeepsReqs({}),
           UNCHANGED <<conf, incoming, waiting, running, chunked, batch, last, queue, next>>,
           UNCHANGED <<adder.can_run, adder.preempt_list>>, DOMAIN adder' = AdderFields,
           Places', ChunkedPlace', VictimsRun', Decoding',
           Loc' = "process" <=> Loc = "process", Loc' = "begin" <=> Loc = "begin",
           Loc' = "preempt" => Loc = "preempt" \/ Preemption
    PROVE  PlaceInv'
<1> /\ Running' = Running /\ Admitted' = Admitted /\ Preempted' = Preempted /\ Batched' = Batched
    /\ Merging' = Merging /\ InFlight' = InFlight
  BY ZenonT(30) DEF Running, Admitted, Preempted, Batched, Merging, InFlight
<1>1. ReqTypes' /\ PlaceTypes'
  BY ZenonT(30) DEF PlaceInv, ReqTypes, PlaceTypes, KeepsReqs, SameReq, Tokens
<1>2. Apart' /\ Results'
  BY ZenonT(30) DEF PlaceInv, Apart, Results, FromLast, FromBatch, Overlap, Tokens
<1>3. Unsent' /\ Queued'
  <2>1. \A r \in Reqs : /\ Finished(r)' = Finished(r) /\ req'[r].is_retracted = req[r].is_retracted
                        /\ req[r].row = <<>> => req'[r].row = <<>>
    BY ZenonT(30) DEF KeepsReqs, SameReq, Finished
  <2>2. incoming \subseteq Reqs /\ waiting \subseteq Reqs /\ Preempted \subseteq Reqs
    BY ZenonT(30) DEF PlaceInv, PlaceTypes, Preempted
  <2>3. Unsent'
    BY <2>1, <2>2, ZenonT(30) DEF PlaceInv, Unsent
  <2>4. Queued'
    BY <2>1, <2>2, ZenonT(30) DEF PlaceInv, Queued
  <2> QED
    BY <2>3, <2>4, ZenonT(30)
<1>4. Awaited'
  <2>1. ASSUME NEW i \in next .. Len(batch.reqs) PROVE batch.reqs[i] \in Reqs
    <3>1. batch.reqs \in Seq(Reqs) /\ next \in Nat \ {0}
      BY ZenonT(30) DEF PlaceInv, PlaceTypes
    <3> QED
      BY <3>1
  <2> QED
    BY <2>1, ZenonT(30) DEF PlaceInv, Awaited, KeepsReqs, SameReq, Finished, Overlap
<1>5. Kept'
  <2>1. Load \subseteq Reqs
    BY ConfigsAssumption, ZenonT(30) DEF PlaceInv, PlaceTypes, Load
  <2> QED
    BY <2>1, ZenonT(30) DEF PlaceInv, Kept, Preemption, Load, KeepsReqs, SameReq, Finished
<1> QED
  BY <1>1, <1>2, <1>3, <1>4, <1>5, ZenonT(30) DEF PlaceInv

LEMMA ProceedPlaces ==
    ASSUME PlaceInv, Proceed
    PROVE  PlaceInv' /\ OutputsKept
<1>1. /\ KeepsReqs({}) /\ KeepsAdder /\ adder'.victims = adder.victims
      /\ UNCHANGED <<conf, incoming, waiting, running, chunked, batch, last, queue, next>>
      /\ \/ Loc' = Loc /\ Loc # "process"
         \/ Loc = "policy" /\ Loc' = "decode" /\ chunked = NoReq
         \/ Loc = "check" /\ Loc' = "checked"
         \/ Loc = "checked" /\ Loc' = "decode_alloc"
  BY ZenonT(30) DEF Proceed
<1>2. /\ DOMAIN adder' = AdderFields /\ (~Admitting => adder' = adder)
      /\ UNCHANGED <<adder.can_run, adder.preempt_list, adder.new_chunked>>
  BY <1>1, ZenonT(30) DEF KeepsAdder
<1>3. \A r \in Reqs : Finished(r)' = Finished(r)
  BY <1>1, ZenonT(30) DEF KeepsReqs, SameReq, Finished
<1>4. Running \subseteq Reqs
  BY RangeFacts, ZenonT(30) DEF PlaceInv, PlaceTypes, Running
<1>5. Places' /\ ChunkedPlace'
  BY <1>1, <1>2, ZenonT(30) DEF PlaceInv, Places, ChunkedPlace, Admitting, Batched, Merging, Admitted
<1>6. VictimsRun' /\ Decoding'
  BY <1>1, <1>3, <1>4, ZenonT(30) DEF PlaceInv, VictimsRun, Decoding, Running
<1>7. PlaceInv'
  BY <1>1, <1>2, <1>5, <1>6, QuietPlaces, ZenonT(30)
<1> QED
  BY <1>1, <1>7, ZenonT(30) DEF OutputsKept, KeepsReqs, SameReq

LEMMA ChooseVictimsPlaces ==
    ASSUME PlaceInv, ChooseVictims
    PROVE  PlaceInv' /\ OutputsKept
<1>1. /\ Loc = "prefill" /\ Loc' = "preempt" /\ Preemption /\ KeepsAdder
      /\ adder'.victims # {} /\ adder'.victims \subseteq Running /\ \A v \in adder'.victims : ~Finished(v)
      /\ UNCHANGED <<conf, req, incoming, waiting, running, chunked, batch, last, queue, next>>
  BY ZenonT(30) DEF ChooseVictims
<1>2. /\ DOMAIN adder' = AdderFields
      /\ UNCHANGED <<adder.can_run, adder.preempt_list, adder.new_chunked>>
  BY <1>1, ZenonT(30) DEF KeepsAdder
<1>3. KeepsReqs({})
  BY <1>1, ZenonT(30) DEF PlaceInv, ReqTypes, KeepsReqs, SameReq
<1>4. Places' /\ ChunkedPlace' /\ VictimsRun' /\ Decoding'
  BY <1>1, <1>2, ZenonT(30) DEF PlaceInv, Places, ChunkedPlace, VictimsRun, Decoding, Admitting, Running,
                    Finished, Batched, Admitted
<1>5. PlaceInv'
  BY <1>1, <1>2, <1>3, <1>4, QuietPlaces, ZenonT(30)
<1> QED
  BY <1>1, <1>5, ZenonT(30) DEF OutputsKept

LEMMA GiveUpPlaces ==
    ASSUME PlaceInv, GiveUp
    PROVE  PlaceInv' /\ OutputsKept
<1> /\ Loc = "prefill" /\ Loc' = "decode" /\ adder.can_run = <<>> /\ adder' = NoAdder
    /\ UNCHANGED <<conf, incoming, req, waiting, running, chunked, batch, last, queue, next>>
  BY ZenonT(30) DEF GiveUp
<1> Running' = Running /\ Batched' = Batched /\ Merging' = Merging /\ InFlight' = InFlight
  BY ZenonT(30) DEF Running, Batched, Merging, InFlight
<1> Admitted = {} /\ Admitted' = {} /\ Preempted' = {} /\ adder'.victims = {}
  BY EmptyFacts, ZenonT(30) DEF Admitted, Preempted
<1>1. ReqTypes' /\ PlaceTypes' /\ Places'
  BY EmptyFacts, ZenonT(30) DEF PlaceInv, ReqTypes, Tokens, PlaceTypes, Places, Admitting
<1>2. Apart' /\ ChunkedPlace'
  BY EmptyFacts, ZenonT(30) DEF PlaceInv, Apart, ChunkedPlace, Admitting, Places
<1>3. VictimsRun' /\ Decoding' /\ Results' /\ Awaited'
  BY ZenonT(30) DEF PlaceInv, VictimsRun, Decoding, Results, FromLast, FromBatch, Overlap, Tokens, Awaited
<1>4. Unsent' /\ Queued' /\ Kept'
  BY ZenonT(30) DEF PlaceInv, Unsent, Queued, Finished, Kept, Preemption, Load
<1> QED
  BY <1>1, <1>2, <1>3, <1>4, ZenonT(30) DEF PlaceInv, OutputsKept

LEMMA MergePlaces ==
    ASSUME PlaceInv, Merge
    PROVE  PlaceInv' /\ OutputsKept
<1> /\ Loc = "begin" /\ Loc' = "policy"
    /\ UNCHANGED <<conf, incoming, waiting, chunked, last, queue, next, batch, adder>>
  BY ZenonT(30) DEF Merge
<1> /\ Admitted' = Admitted /\ Preempted' = Preempted /\ Batched' = Batched /\ Merging' = Merging
    /\ InFlight' = InFlight
  BY ZenonT(30) DEF Admitted, Preempted, Batched, Merging, InFlight
<1>1. KeepsReqs({})
  BY ZenonT(30) DEF Merge
<1>2. /\ running' \in Seq(Reqs) /\ IsInjective(running')
      /\ Running' = Running \cup (IF last.kind = "extend"
                                  THEN {r \in Merging : ~Finished(r)} \ {chunked} ELSE {})
      /\ last.kind = "extend" => Merging \cap waiting = {}
  <2>1. CASE last.kind = "extend"
    <3>1. Lists(running', Running \cup (Live(Merging) \ {chunked, last.chunked}))
      BY <2>1, ZenonT(30) DEF Merge
    <3>2. Merging \cap Running = {} /\ last.chunked = chunked /\ Merging \cap waiting = {}
      BY <2>1, ZenonT(30) DEF PlaceInv, Apart
    <3> QED
      BY <2>1, <3>1, <3>2, ZenonT(30) DEF Lists, Live, Running
  <2>2. CASE last.kind # "extend"
    BY <2>2, ZenonT(30) DEF Merge, PlaceInv, PlaceTypes, Apart, Running
  <2> QED
    BY <2>1, <2>2, ZenonT(30)
<1>3. ReqTypes' /\ PlaceTypes' /\ Places'
  BY <1>1, <1>2, ZenonT(30) DEF PlaceInv, ReqTypes, KeepsReqs, SameReq, Tokens, PlaceTypes, Places, Admitting
<1>4. batch = NoBatch /\ Admitted = {} /\ Preempted = {} /\ adder.victims = {}
  BY NoAdderFacts, ZenonT(30) DEF PlaceInv, Places, Admitting
<1>5. Apart' /\ ChunkedPlace' /\ VictimsRun' /\ Decoding'
  BY <1>2, <1>4, EmptyFacts, ZenonT(30) DEF PlaceInv, Apart, ChunkedPlace, VictimsRun, Decoding, Admitting
<1>6. Results' /\ Awaited'
  BY ZenonT(30) DEF PlaceInv, Results, FromLast, FromBatch, Overlap, Tokens, Awaited
<1>7. Unsent' /\ Queued'
  <2>1. \A r \in Reqs : /\ Finished(r)' = Finished(r) /\ req'[r].is_retracted = req[r].is_retracted
                        /\ req[r].row = <<>> => req'[r].row = <<>>
    BY <1>1, ZenonT(30) DEF KeepsReqs, SameReq, Finished
  <2>2. incoming \subseteq Reqs /\ waiting \subseteq Reqs
    BY ZenonT(30) DEF PlaceInv, PlaceTypes
  <2>3. Unsent'
    BY <1>2, <2>1, <2>2, ZenonT(30) DEF PlaceInv, Unsent
  <2>4. Queued'
    BY <1>4, <2>1, <2>2, ZenonT(30) DEF PlaceInv, Queued
  <2> QED
    BY <2>3, <2>4, ZenonT(30)
<1>8. Kept'
  <2>1. Load \subseteq Reqs
    BY ConfigsAssumption, ZenonT(30) DEF PlaceInv, PlaceTypes, Load
  <2> QED
    BY <1>1, <1>2, <2>1, ZenonT(30) DEF PlaceInv, Kept, Preemption, Load, KeepsReqs, SameReq, Finished
<1>9. OutputsKept
  BY <1>1, ZenonT(30) DEF OutputsKept, KeepsReqs, SameReq
<1> QED
  BY <1>3, <1>5, <1>6, <1>7, <1>8, <1>9, ZenonT(30) DEF PlaceInv

LEMMA ReceivePlaces ==
    ASSUME PlaceInv, NEW r \in Reqs, Receive(r)
    PROVE  PlaceInv' /\ OutputsKept
<1> /\ Loc = "begin" /\ Loc' = "begin" /\ r \in incoming
    /\ incoming' = incoming \ {r} /\ waiting' = waiting \cup {r}
    /\ UNCHANGED <<conf, req, running, chunked, batch, last, queue, next, adder>>
  BY ZenonT(30) DEF Receive
<1> /\ Running' = Running /\ Admitted' = Admitted /\ Preempted' = Preempted /\ Batched' = Batched
    /\ Merging' = Merging /\ InFlight' = InFlight
  BY ZenonT(30) DEF Running, Admitted, Preempted, Batched, Merging, InFlight
<1>1. ReqTypes' /\ PlaceTypes' /\ Places'
  BY ZenonT(30) DEF PlaceInv, ReqTypes, Tokens, PlaceTypes, Places, Admitting
<1>2. Apart' /\ ChunkedPlace'
  BY ZenonT(30) DEF PlaceInv, Apart, ChunkedPlace, Admitting, Unsent, PlaceTypes
<1>3. VictimsRun' /\ Decoding' /\ Results' /\ Awaited'
  BY ZenonT(30) DEF PlaceInv, VictimsRun, Decoding, Finished, Results, FromLast, FromBatch, Overlap, Tokens, Awaited
<1>4. Unsent'
  BY ZenonT(30) DEF PlaceInv, Unsent, Finished
<1>5. Queued'
  BY InFlightPlaces, ZenonT(30) DEF PlaceInv, Unsent, Queued, Finished
<1>6. Kept'
  BY ZenonT(30) DEF PlaceInv, Kept, Preemption, Load, Finished
<1> QED
  BY <1>1, <1>2, <1>3, <1>4, <1>5, <1>6, ZenonT(30) DEF PlaceInv, OutputsKept

LEMMA AbortPlaces ==
    ASSUME PlaceInv, NEW r \in Reqs, Abort(r)
    PROVE  PlaceInv' /\ OutputsKept
<1> /\ Loc = "begin" /\ Loc' = "begin" /\ r \in waiting /\ waiting' = waiting \ {r}
    /\ UNCHANGED <<conf, incoming, running, chunked, batch, last, queue, next, adder>>
  BY ZenonT(30) DEF Abort
<1> /\ Running' = Running /\ Admitted' = Admitted /\ Preempted' = Preempted /\ Batched' = Batched
    /\ Merging' = Merging /\ InFlight' = InFlight
  BY ZenonT(30) DEF Running, Admitted, Preempted, Batched, Merging, InFlight
<1>1. /\ DOMAIN req' = Reqs /\ DOMAIN req'[r] = ReqFields /\ req'[r].finished = TRUE
      /\ req'[r].output = req[r].output /\ req'[r].is_retracted = req[r].is_retracted
      /\ \A x \in Reqs \ {r} : req'[x] = req[x]
  BY ZenonT(30) DEF Abort, ChangesOnly
<1>2. ReqTypes'
  BY <1>1, ZenonT(30) DEF PlaceInv, ReqTypes, Tokens
<1>3. PlaceTypes' /\ Places'
  BY ZenonT(30) DEF PlaceInv, PlaceTypes, Places, Admitting
<1>4. Apart' /\ ChunkedPlace'
  BY ZenonT(30) DEF PlaceInv, Apart, ChunkedPlace, Admitting
<1>5. VictimsRun' /\ Decoding' /\ Results' /\ Awaited'
  BY NoAdderFacts, ZenonT(30) DEF PlaceInv, VictimsRun, Admitting, Decoding, Results, FromLast, FromBatch, Overlap,
                      Tokens, Awaited
<1>6. Unsent' /\ Queued'
  <2>1. Preempted = {}
    BY NoAdderFacts, ZenonT(30) DEF PlaceInv, Admitting
  <2> QED
    BY <1>1, <2>1, ZenonT(30) DEF PlaceInv, PlaceTypes, Unsent, Queued, Finished
<1>7. Kept'
  <2>1. Load \subseteq Reqs
    BY ConfigsAssumption, ZenonT(30) DEF PlaceInv, PlaceTypes, Load
  <2> QED
    BY <1>1, <2>1, ZenonT(30) DEF PlaceInv, Kept, Preemption, Load, Finished
<1>8. OutputsKept
  BY <1>1, ZenonT(30) DEF OutputsKept
<1> QED
  BY <1>2, <1>3, <1>4, <1>5, <1>6, <1>7, <1>8, ZenonT(30) DEF PlaceInv

LEMMA StartPlaces ==
    ASSUME PlaceInv, Start
    PROVE  PlaceInv' /\ OutputsKept
<1> /\ Loc = "policy" /\ Loc' = "prefill"
    /\ UNCHANGED <<conf, incoming, waiting, running, batch, last, queue, next>>
  BY ZenonT(30) DEF Start
<1> /\ Running' = Running /\ Batched' = Batched /\ Merging' = Merging /\ InFlight' = InFlight
  BY ZenonT(30) DEF Running, Batched, Merging, InFlight
<1>1. /\ DOMAIN adder' = AdderFields /\ adder'.new_chunked = NoReq /\ adder'.preempt_list = {}
      /\ adder'.victims = {} /\ chunked' \in {chunked, NoReq}
      /\ adder'.can_run = IF chunked = NoReq THEN <<>> ELSE <<chunked>>
  BY ZenonT(30) DEF Start
<1>2. KeepsReqs({})
  BY ZenonT(30) DEF Start
<1>3. /\ adder'.can_run \in Seq(Reqs) /\ IsInjective(adder'.can_run)
      /\ Admitted' = {chunked} \ {NoReq} /\ Preempted' = {}
  <2>1. CASE chunked = NoReq
    BY <1>1, <2>1 DEF Admitted, Preempted, Range, IsInjective
  <2>2. CASE chunked # NoReq
    <3>1. chunked \in Reqs
      BY <2>2, ZenonT(30) DEF PlaceInv, PlaceTypes
    <3> QED
      BY <1>1, <2>2, <3>1, RangeOne DEF Admitted, Preempted
  <2> QED
    BY <2>1, <2>2, ZenonT(30)
<1>4. ReqTypes' /\ PlaceTypes' /\ Places'
  BY <1>1, <1>2, <1>3, ZenonT(30) DEF PlaceInv, ReqTypes, KeepsReqs, SameReq, Tokens, PlaceTypes, Places,
                          Admitting, Preempted
<1>5. Apart' /\ ChunkedPlace' /\ VictimsRun' /\ Decoding'
  <2>1. batch.kind = "none"
    BY EmptyFacts, ZenonT(30) DEF PlaceInv, Places
  <2>2. NoReq \notin waiting /\ NoReq \notin Running
    BY ReqsAssumption, RangeFacts, ZenonT(30) DEF PlaceInv, PlaceTypes, Running
  <2> QED
    BY <1>1, <1>3, <2>1, <2>2 DEF PlaceInv, Apart, ChunkedPlace, VictimsRun, Decoding, Admitting, Places
<1>6. Results' /\ Awaited'
  BY ZenonT(30) DEF PlaceInv, Results, FromLast, FromBatch, Overlap, Tokens, Awaited
<1>7. Unsent' /\ Queued'
  <2>1. \A r \in Reqs : /\ Finished(r)' = Finished(r) /\ req'[r].is_retracted = req[r].is_retracted
                        /\ req[r].row = <<>> => req'[r].row = <<>>
    BY <1>2, ZenonT(30) DEF KeepsReqs, SameReq, Finished
  <2>2. incoming \subseteq Reqs /\ waiting \subseteq Reqs /\ NoReq \notin incoming
    BY ReqsAssumption, ZenonT(30) DEF PlaceInv, PlaceTypes
  <2>3. Unsent'
    BY <1>1, <1>3, <2>1, <2>2, ZenonT(30) DEF PlaceInv, Unsent
  <2>4. Queued'
    <3>1. Admitted = {}
      BY NoAdderFacts, ZenonT(30) DEF PlaceInv, Admitting
    <3> QED
      BY <1>3, <2>1, <2>2, <3>1, ZenonT(30) DEF PlaceInv, Queued
  <2> QED
    BY <2>3, <2>4, ZenonT(30)
<1>8. Kept'
  <2>1. Load \subseteq Reqs
    BY ConfigsAssumption, ZenonT(30) DEF PlaceInv, PlaceTypes, Load
  <2>2. Admitted = {}
    BY NoAdderFacts, ZenonT(30) DEF PlaceInv, Admitting
  <2> QED
    BY <1>1, <1>2, <1>3, <2>1, <2>2, ReqsAssumption, ZenonT(30)
    DEF PlaceInv, Kept, Preemption, Load, KeepsReqs, SameReq, Finished
<1>9. OutputsKept
  BY <1>2, ZenonT(30) DEF OutputsKept, KeepsReqs, SameReq
<1> QED
  BY <1>4, <1>5, <1>6, <1>7, <1>8, <1>9, ZenonT(30) DEF PlaceInv

LEMMA AdmitPlaces ==
    ASSUME PlaceInv, NEW r \in Reqs, Admit(r)
    PROVE  PlaceInv' /\ OutputsKept
<1> /\ Loc = "prefill" /\ Loc' = "prefill" /\ r \in waiting /\ r \notin Admitted
    /\ UNCHANGED <<conf, incoming, waiting, running, chunked, batch, last, queue, next>>
  BY ZenonT(30) DEF Admit
<1> /\ Running' = Running /\ Batched' = Batched /\ Merging' = Merging /\ InFlight' = InFlight
  BY ZenonT(30) DEF Running, Batched, Merging, InFlight
<1> DOMAIN adder = AdderFields /\ adder.can_run \in Seq(Reqs)
  BY ZenonT(30) DEF PlaceInv, PlaceTypes
<1>1. /\ DOMAIN adder' = AdderFields /\ adder'.new_chunked \in {adder.new_chunked, r}
      /\ adder'.preempt_list = adder.preempt_list /\ adder'.victims = adder.victims
      /\ adder'.can_run = Append(adder.can_run, r)
  BY ZenonT(30) DEF Admit
<1>2. KeepsReqs({r})
  BY ZenonT(30) DEF Admit
<1>3. /\ adder'.can_run \in Seq(Reqs) /\ Admitted' = Admitted \cup {r} /\ Preempted' = Preempted
      /\ IsInjective(adder.can_run) => IsInjective(adder'.can_run)
  BY <1>1, RangeAppend DEF Admitted, Preempted
<1>4. ReqTypes' /\ PlaceTypes' /\ Places'
  BY <1>1, <1>2, <1>3, ZenonT(30) DEF PlaceInv, ReqTypes, KeepsReqs, SameReq, Tokens, PlaceTypes, Places, Admitting
<1>5. Apart' /\ ChunkedPlace'
  BY <1>1, <1>3, ZenonT(30) DEF PlaceInv, Apart, ChunkedPlace, Admitting
<1>6. VictimsRun' /\ Decoding'
  <2>1. Running \subseteq Reqs
    BY RangeFacts, ZenonT(30) DEF PlaceInv, PlaceTypes, Running
  <2> QED
    BY <1>1, <1>2, <2>1, ZenonT(30) DEF PlaceInv, VictimsRun, Decoding, KeepsReqs, SameReq, Finished
<1>7. Results' /\ Awaited'
  BY ZenonT(30) DEF PlaceInv, Results, FromLast, FromBatch, Overlap, Tokens, Awaited
<1>8. Unsent' /\ Queued'
  <2>1. \A x \in Reqs : /\ Finished(x)' = Finished(x) /\ req'[x].is_retracted = req[x].is_retracted
                        /\ x # r /\ req[x].row = <<>> => req'[x].row = <<>>
    BY <1>2, ZenonT(30) DEF KeepsReqs, SameReq, Finished
  <2>2. incoming \subseteq Reqs /\ waiting \subseteq Reqs /\ Preempted \subseteq Reqs
    BY ZenonT(30) DEF PlaceInv, PlaceTypes, Preempted
  <2>3. Unsent'
    BY <1>3, <2>1, <2>2, ZenonT(30) DEF PlaceInv, Unsent
  <2>4. Queued'
    BY <1>3, <2>1, <2>2, ZenonT(30) DEF PlaceInv, Queued, Apart
  <2> QED
    BY <2>3, <2>4, ZenonT(30)
<1>9. Kept'
  <2>1. Load \subseteq Reqs
    BY ConfigsAssumption, ZenonT(30) DEF PlaceInv, PlaceTypes, Load
  <2> QED
    BY <1>2, <1>3, <2>1, ZenonT(30) DEF PlaceInv, Kept, Preemption, Load, KeepsReqs, SameReq, Finished
<1>10. OutputsKept
  BY <1>2, ZenonT(30) DEF OutputsKept, KeepsReqs, SameReq
<1> QED
  BY <1>4, <1>5, <1>6, <1>7, <1>8, <1>9, <1>10, ZenonT(30) DEF PlaceInv

LEMMA PreemptVictimPlaces ==
    ASSUME PlaceInv, PreemptVictim
    PROVE  PlaceInv' /\ OutputsKept
<1>1. PICK v \in adder.victims :
        /\ Loc' = IF adder.victims = {v} THEN "prefill" ELSE "preempt"
        /\ Lists(running', Running \ {v})
        /\ DOMAIN adder' = AdderFields
        /\ adder'.can_run = adder.can_run /\ adder'.new_chunked = adder.new_chunked
        /\ adder'.preempt_list = adder.preempt_list \cup {v}
        /\ adder'.victims = adder.victims \ {v}
        /\ Resets(v) /\ req'[v].output = req[v].output
        /\ req'[v].is_retracted = TRUE /\ req'[v].finished = FALSE
  BY ZenonT(30) DEF PreemptVictim
<1>2. /\ Loc = "preempt" /\ v \in Running /\ v \in Reqs /\ ~Finished(v)
      /\ UNCHANGED <<conf, incoming, waiting, chunked, batch, last, queue, next>>
  BY RangeFacts, ZenonT(30) DEF PreemptVictim, PlaceInv, PlaceTypes, VictimsRun, Running
<1> USE <1>1, <1>2
<1> /\ Batched' = Batched /\ Merging' = Merging /\ InFlight' = InFlight
  BY ZenonT(30) DEF Batched, Merging, InFlight
<1>3. /\ running' \in Seq(Reqs) /\ Running' = Running \ {v}
      /\ IsInjective(running) => IsInjective(running')
  BY ZenonT(30) DEF Running, Lists
<1>4. /\ DOMAIN adder' = AdderFields /\ adder'.victims = adder.victims \ {v}
      /\ Preempted' = Preempted \cup {v} /\ Admitted' = Admitted
      /\ adder'.can_run = adder.can_run /\ adder'.new_chunked = adder.new_chunked
  BY ZenonT(30) DEF Preempted, Admitted
<1>5. /\ DOMAIN req' = Reqs /\ \A x \in Reqs \ {v} : req'[x] = req[x]
      /\ DOMAIN req'[v] = ReqFields /\ req'[v].output = req[v].output /\ req'[v].is_retracted = TRUE
      /\ req'[v].finished = FALSE /\ req'[v].row = <<>>
  BY ZenonT(30) DEF Resets, ChangesOnly
<1>6. ReqTypes'
  BY <1>5, ZenonT(30) DEF PlaceInv, ReqTypes, Tokens
<1>7. PlaceTypes' /\ Places'
  BY <1>3, <1>4, ZenonT(30) DEF PlaceInv, PlaceTypes, Places, Admitting, Preempted
<1>8. Apart' /\ ChunkedPlace'
  BY <1>3, <1>4, ZenonT(30) DEF PlaceInv, Apart, ChunkedPlace, Admitting
<1>9. VictimsRun' /\ Decoding'
  <2>1. Running \subseteq Reqs
    BY RangeFacts, ZenonT(30) DEF PlaceInv, PlaceTypes, Running
  <2> QED
    BY <1>3, <1>4, <1>5, <2>1, ZenonT(30) DEF PlaceInv, VictimsRun, Decoding, Finished
<1>10. Results' /\ Awaited'
  BY ZenonT(30) DEF PlaceInv, Results, FromLast, FromBatch, Overlap, Tokens, Awaited
<1>11. Unsent' /\ Queued'
  <2>1. incoming \subseteq Reqs /\ waiting \subseteq Reqs /\ Preempted \subseteq Reqs
    BY ZenonT(30) DEF PlaceInv, PlaceTypes, Preempted
  <2>2. v \notin incoming /\ v \notin waiting
    BY ZenonT(30) DEF PlaceInv, Unsent, Apart
  <2> QED
    BY <1>3, <1>4, <1>5, <2>1, <2>2 DEF PlaceInv, Unsent, Queued, Finished
<1>12. Kept'
  BY ZenonT(30) DEF PlaceInv, Kept, Preemption
<1>13. OutputsKept
  BY <1>5, ZenonT(30) DEF OutputsKept, Finished
<1> QED
  BY <1>6, <1>7, <1>8, <1>9, <1>10, <1>11, <1>12, <1>13, ZenonT(30) DEF PlaceInv

LEMMA BuildPlaces ==
    ASSUME PlaceInv, Build
    PROVE  PlaceInv' /\ OutputsKept
<1> DEFINE c == IF adder.new_chunked # NoReq THEN adder.new_chunked ELSE chunked
<1>1. /\ Loc = "prefill" /\ Loc' = "extend"
      /\ waiting' = (waiting \ Admitted) \cup Preempted /\ chunked' = c
      /\ batch' = [NoBatch EXCEPT !.kind = "extend", !.reqs = adder.can_run, !.chunked = c]
      /\ adder' = NoAdder
      /\ UNCHANGED <<conf, incoming, running, last, queue, next>>
  BY ZenonT(30) DEF Build
<1>2. c = NoReq \/ (c \in Admitted /\ c \in Reqs)
  <2>1. chunked = NoReq \/ chunked \in Admitted
    BY <1>1, ZenonT(30) DEF PlaceInv, ChunkedPlace, Admitting
  <2>2. adder.new_chunked = NoReq \/ adder.new_chunked \in Admitted
    BY <1>1, ZenonT(30) DEF PlaceInv, ChunkedPlace, Admitting
  <2>3. Admitted \subseteq Reqs
    BY RangeFacts, ZenonT(30) DEF PlaceInv, PlaceTypes, Admitted
  <2> QED
    BY <2>1, <2>2, <2>3, ZenonT(30)
<1> HIDE DEF c
<1> USE <1>1, <1>2
<1> /\ Running' = Running /\ Merging' = Merging /\ InFlight' = InFlight
    /\ DOMAIN batch' = BatchFields /\ batch'.kind = "extend" /\ batch'.reqs = adder.can_run
    /\ batch'.chunked = c
    /\ Batched' = Admitted
  BY ZenonT(30) DEF Running, Batched, Admitted, Merging, InFlight, NoBatch, BatchFields
<1> /\ Admitted' = {} /\ Preempted' = {} /\ adder'.victims = {} /\ adder'.can_run = <<>>
    /\ DOMAIN adder' = AdderFields
  BY EmptyFacts, ZenonT(30) DEF Admitted, Preempted
<1>3. KeepsReqs({})
  BY ZenonT(30) DEF Build
<1>4. ReqTypes' /\ PlaceTypes' /\ Places'
  BY <1>3 DEF PlaceInv, ReqTypes, KeepsReqs, SameReq, Tokens, PlaceTypes, Places, Admitting, Preempted,
              NoAdder
<1>5. Apart' /\ ChunkedPlace'
  <2>1. IsInjective(adder'.can_run)
    BY RangeOne, ZenonT(30)
  <2>2. Admitted \subseteq Reqs /\ waiting \subseteq Reqs /\ Preempted \subseteq Reqs
        /\ Running \subseteq Reqs
    BY RangeFacts, ZenonT(30) DEF PlaceInv, PlaceTypes, Admitted, Preempted, Running
  <2> QED
    BY <2>1, <2>2, ReqsAssumption, ZenonT(30) DEF PlaceInv, Apart, ChunkedPlace, Admitting
<1>6. VictimsRun' /\ Decoding' /\ Results' /\ Awaited'
  BY ZenonT(30) DEF PlaceInv, VictimsRun, Decoding, Results, FromLast, FromBatch, Overlap, Tokens, Awaited
<1>7. Unsent' /\ Queued'
  <2>1. \A r \in Reqs : /\ Finished(r)' = Finished(r) /\ req'[r].is_retracted = req[r].is_retracted
                        /\ req[r].row = <<>> => req'[r].row = <<>>
    BY <1>3, ZenonT(30) DEF KeepsReqs, SameReq, Finished
  <2>2. /\ incoming \subseteq Reqs /\ waiting \subseteq Reqs /\ NoReq \notin incoming
        /\ Preempted \subseteq Reqs
    BY ReqsAssumption, ZenonT(30) DEF PlaceInv, PlaceTypes, Preempted
  <2>3. Unsent'
    BY <2>1, <2>2, ZenonT(30) DEF PlaceInv, Unsent
  <2>4. Queued'
    BY <2>1, <2>2, ZenonT(30) DEF PlaceInv, Queued
  <2> QED
    BY <2>3, <2>4, ZenonT(30)
<1>8. Kept'
  <2>1. Load \subseteq Reqs
    BY ConfigsAssumption, ZenonT(30) DEF PlaceInv, PlaceTypes, Load
  <2>2. chunked = NoReq \/ chunked \in Admitted
    BY ZenonT(30) DEF PlaceInv, ChunkedPlace, Admitting
  <2>3. batch.kind # "extend"
    BY EmptyFacts, ZenonT(30) DEF PlaceInv, Places
  <2> QED
    BY <1>3, <2>1, <2>2, <2>3, ReqsAssumption, ZenonT(30)
    DEF PlaceInv, Kept, Preemption, Load, KeepsReqs, SameReq, Finished
<1>9. OutputsKept
  BY <1>3, ZenonT(30) DEF OutputsKept, KeepsReqs, SameReq
<1> QED
  BY <1>4, <1>5, <1>6, <1>7, <1>8, <1>9, ZenonT(30) DEF PlaceInv

-----------------------------------------------------------------------------
(* Launches.                                                               *)

\* A launch adds a result for the batch.
LEMMA LaunchFacts ==
    ASSUME NEW b, DOMAIN b = BatchFields, Launches(b)
    PROVE  /\ batch' = b /\ Loc' = "process"
           /\ \E e : /\ queue' = Append(queue, e) /\ Holds(e, b)
                     /\ \A r \in Range(b.reqs) : e.out[r] \in Tokens /\ e.upto[r] = req'[r].committed
<1>1. PICK out \in [Range(b.reqs) -> Tokens] :
        queue' = Append(queue, [b EXCEPT !.out = out,
                                         !.upto = [r \in DOMAIN out |-> req'[r].committed]])
  BY ZenonT(30) DEF Launches
<1> DEFINE e == [b EXCEPT !.out = out, !.upto = [r \in DOMAIN out |-> req'[r].committed]]
<1>2. /\ Holds(e, b) /\ e.out = out /\ e.upto = [r \in DOMAIN out |-> req'[r].committed]
  BY ZenonT(30) DEF Holds, BatchFields
<1>3. queue' = Append(queue, e) /\ batch' = b /\ Loc' = "process"
  BY <1>1, ZenonT(30) DEF Launches
<1> HIDE DEF e
<1>4. \A r \in Range(b.reqs) : e.out[r] \in Tokens /\ e.upto[r] = req'[r].committed
  BY <1>2, ZenonT(30)
<1> QED
  BY <1>2, <1>3, <1>4, ZenonT(30)

\* The results after a launch.
LEMMA LaunchResults ==
    ASSUME Results, ~FromBatch, NEW b, DOMAIN b = BatchFields, Launches(b), b.kind # "none",
           UNCHANGED <<conf, last>>
    PROVE  Results' /\ FromBatch' /\ InFlight' = InFlight \cup Range(b.reqs)
<1>1. /\ batch' = b /\ Loc' = "process"
      /\ \E e : /\ queue' = Append(queue, e) /\ Holds(e, b)
                /\ \A r \in Range(b.reqs) : e.out[r] \in Tokens
  BY LaunchFacts, ZenonT(30)
<1>2. PICK e : /\ queue' = Append(queue, e) /\ Holds(e, b)
               /\ \A r \in Range(b.reqs) : e.out[r] \in Tokens
  BY <1>1, ZenonT(30)
<1>3. FromBatch' /\ FromLast' = FromLast
  BY <1>1, ZenonT(30) DEF FromBatch, FromLast, Overlap
<1>4. e.reqs = b.reqs /\ Tokens' = Tokens
  BY <1>2, ZenonT(30) DEF Holds, Tokens
<1>5. CASE FromLast
  <2>1. queue = <<queue[1]>> /\ Holds(queue[1], last)
        /\ \A r \in Range(queue[1].reqs) : queue[1].out[r] \in Tokens
    BY <1>5 DEF Results
  <2>2. queue' = <<queue[1], e>>
    <3> DEFINE a == queue[1]
    <3>1. queue' = Append(<<a>>, e)
      BY <1>2, <2>1, ZenonT(30)
    <3> HIDE DEF a
    <3>2. Append(<<a>>, e) = <<a, e>>
      BY AppendTwo, ZenonT(30)
    <3> QED
      BY <3>1, <3>2, ZenonT(30) DEF a
  <2>3. /\ DOMAIN queue = {1} /\ DOMAIN queue' = {1, 2} /\ queue'[1] = queue[1] /\ queue'[2] = e
        /\ queue' = <<queue'[1], queue'[2]>>
    BY <2>1, <2>2
  <2>4. Results'
    BY <1>1, <1>2, <1>3, <1>4, <1>5, <2>1, <2>3 DEF Results, Holds
  <2> QED
    BY <1>3, <1>4, <2>3, <2>4, ZenonT(30) DEF InFlight
<1>6. CASE ~FromLast
  <2>1. queue = <<>>
    BY <1>6, ZenonT(30) DEF Results
  <2>2. queue' = <<e>>
    BY <1>2, <2>1
  <2>3. DOMAIN queue = {} /\ DOMAIN queue' = {1} /\ queue'[1] = e /\ queue' = <<queue'[1]>>
    BY <2>1, <2>2
  <2>4. Results'
    BY <1>1, <1>2, <1>3, <1>4, <1>6, <2>3, ZenonT(30) DEF Results, Holds
  <2> QED
    BY <1>3, <1>4, <2>3, <2>4, ZenonT(30) DEF InFlight
<1> QED
  BY <1>5, <1>6, ZenonT(30)

\* The launch of a batch b, the prefill batch that was built, the running batch,
\* or both, when the rows of the requests of s were grown.
LEMMA LaunchPlaces ==
    ASSUME PlaceInv, NEW b, DOMAIN b = BatchFields, Launches(b), Loc \in {"extend", "decode_alloc"},
           NEW s \in {running, batch.reqs}, NEW len, Grows(s, len),
           UNCHANGED <<conf, incoming, waiting, chunked, last, next, adder>>,
           running' \in Seq(Reqs), IsInjective(running'), b.reqs \in Seq(Reqs), IsInjective(b.reqs),
           Running' \subseteq Running, Range(b.reqs) \subseteq Running \cup Batched,
           \A r \in Running \cup Batched : Finished(r) \/ r \in Running' \/ r \in Range(b.reqs),
           \/ /\ b.kind = "extend" /\ batch.kind = "extend" /\ b.chunked = chunked
              /\ Batched \subseteq Range(b.reqs) /\ Range(b.reqs) \cap Running' = {}
           \/ /\ b.kind = "decode" /\ batch = NoBatch /\ Loc = "decode_alloc"
              /\ b.reqs = running /\ running' = running
    PROVE  PlaceInv' /\ OutputsKept
<1> /\ Merging' = Merging /\ Batched' = Range(b.reqs) /\ batch' = b
    /\ Loc' = "process"
  BY LaunchFacts, ZenonT(30) DEF Merging, Batched
<1>1. /\ Admitted' = {} /\ Preempted' = {} /\ adder'.victims = {} /\ adder = NoAdder
      /\ Admitted = {} /\ IsInjective(adder.can_run)
  BY NoAdderFacts, ZenonT(30) DEF PlaceInv, Admitting, Admitted, Preempted, Apart
<1>2. Results' /\ InFlight' = InFlight \cup Range(b.reqs)
  BY LaunchResults, ZenonT(30) DEF PlaceInv, FromBatch
<1>3. /\ s \in Seq(Reqs) /\ Range(s) \subseteq Reqs /\ Range(s) \subseteq Running \cup Batched
      /\ incoming \subseteq Reqs /\ waiting \subseteq Reqs /\ Running \subseteq Reqs /\ Load \subseteq Reqs
  BY RangeFacts, ConfigsAssumption DEF PlaceInv, PlaceTypes, Running, Batched, Load
<1>4. /\ DOMAIN req' = Reqs
      /\ \A r \in Reqs \ Range(s) : req'[r] = req[r]
      /\ \A r \in Range(s) : /\ DOMAIN req'[r] = ReqFields /\ req'[r].output = req[r].output
                             /\ req'[r].finished = req[r].finished /\ req'[r].is_retracted = FALSE
  BY ZenonT(30) DEF Grows
<1>5. /\ (Running \cup Batched) \cap waiting = {} /\ (Running \cup Batched) \cap incoming = {}
      /\ batch.kind = "extend" => chunked = NoReq \/ chunked \in Batched
      /\ b.kind = "decode" => chunked = NoReq /\ Batched = {}
      /\ \A r \in Reqs : Finished(r)' = Finished(r)
  BY <1>3, <1>4, EmptyFacts, ZenonT(30) DEF PlaceInv, Apart, Unsent, ChunkedPlace, Batched, Finished
<1>6. ReqTypes'
  BY <1>3, <1>4, ZenonT(30) DEF PlaceInv, ReqTypes, Tokens
<1>7. PlaceTypes' /\ Places'
  BY <1>1, ZenonT(30) DEF PlaceInv, PlaceTypes, Places, Admitting
<1>8. Apart' /\ ChunkedPlace'
  BY <1>1, <1>5, ZenonT(30) DEF PlaceInv, Apart, ChunkedPlace, Admitting
<1>9. VictimsRun' /\ Decoding'
  BY <1>1, ZenonT(30) DEF VictimsRun, Decoding
<1>10. Unsent'
  BY <1>1, <1>3, <1>4, <1>5, ZenonT(30) DEF PlaceInv, Unsent
<1>11. Queued'
  BY <1>1, <1>2, <1>3, <1>4, <1>5, ZenonT(30) DEF PlaceInv, Queued
<1>12. Awaited'
  <2>1. b.kind = "decode" => \A r \in Running : ~Finished(r)
    BY ZenonT(30) DEF PlaceInv, Decoding
  <2>2. \A i \in next .. Len(b.reqs) : b.reqs[i] \in Range(b.reqs)
    BY RangeFacts DEF PlaceInv, PlaceTypes
  <2> QED
    BY <1>3, <1>5, <2>1, <2>2, ZenonT(30) DEF Awaited, Running
<1>13. Kept'
  <2> SUFFICES ASSUME ~Preemption, NEW r \in Load \ incoming, ~Finished(r)
               PROVE  r \in waiting \/ r \in Running' \/ (b.kind = "extend" /\ r \in Range(b.reqs))
    BY <1>1, <1>3, <1>5, ZenonT(30) DEF Kept, Preemption, Load
  <2>1. r \in waiting \/ r \in Running \/ r = chunked \/ (batch.kind = "extend" /\ r \in Batched)
    BY <1>1, ZenonT(30) DEF PlaceInv, Kept
  <2>2. r # NoReq
    BY <1>3, ReqsAssumption, ZenonT(30)
  <2>3. r \in waiting \/ r \in Running \cup Batched
    BY <1>5, <2>1, <2>2, ZenonT(30)
  <2>4. r \in waiting \/ r \in Running' \/ r \in Range(b.reqs)
    BY <2>3, ZenonT(30)
  <2>5. b.kind = "decode" => Range(b.reqs) = Running'
    BY ZenonT(30) DEF Running
  <2> QED
    BY <2>4, <2>5, ZenonT(30)
<1>14. OutputsKept
  BY <1>4, ZenonT(30) DEF OutputsKept
<1> QED
  BY <1>2, <1>6, <1>7, <1>8, <1>9, <1>10, <1>11, <1>12, <1>13, <1>14, ZenonT(30) DEF PlaceInv

LEMMA ExtendBatchPlaces ==
    ASSUME PlaceInv, ExtendBatch
    PROVE  PlaceInv' /\ OutputsKept
<1> DEFINE len == [r \in Reqs |-> req[r].fill]
<1>1. /\ Loc = "extend" /\ Grows(batch.reqs, len)
      /\ UNCHANGED <<conf, incoming, waiting, chunked, last, next, adder>>
      /\ IF MixedChunk THEN Lists(running', Live(Running)) ELSE running' = running
  BY ZenonT(30) DEF ExtendBatch
<1>2. /\ batch.kind = "extend" /\ DOMAIN batch = BatchFields /\ batch.reqs \in Seq(Reqs)
      /\ IsInjective(batch.reqs) /\ batch.chunked = chunked /\ Batched \cap Running = {}
      /\ Batched \cap waiting = {} /\ running \in Seq(Reqs) /\ IsInjective(running)
  BY <1>1, ZenonT(30) DEF PlaceInv, PlaceTypes, Places, Apart
<1>3. /\ running' \in Seq(Reqs) /\ IsInjective(running') /\ Running' \subseteq Running
      /\ \A r \in Running : Finished(r) \/ r \in Running'
      /\ MixedChunk => \A r \in Running' : ~Finished(r)
  BY <1>1, <1>2, ZenonT(30) DEF Lists, Live, Running
<1> HIDE DEF len
<1>4. CASE MixedChunk /\ running' # <<>> /\ Loc' = "decode_alloc" /\ UNCHANGED <<batch, queue>>
  <2> USE <1>1, <1>4
  <2> /\ Admitted' = Admitted /\ Preempted' = Preempted /\ Batched' = Batched
      /\ Merging' = Merging /\ InFlight' = InFlight
    BY ZenonT(30) DEF Admitted, Preempted, Batched, Merging, InFlight
  <2>1. /\ DOMAIN req' = Reqs
        /\ \A r \in Reqs \ Batched : req'[r] = req[r]
        /\ \A r \in Batched : /\ DOMAIN req'[r] = ReqFields /\ req'[r].output = req[r].output
                              /\ req'[r].finished = req[r].finished /\ req'[r].is_retracted = FALSE
    BY ZenonT(30) DEF Grows, Batched
  <2>2. /\ Batched \subseteq Reqs /\ incoming \subseteq Reqs /\ waiting \subseteq Reqs
        /\ Running \subseteq Reqs /\ Load \subseteq Reqs /\ Preempted = {} /\ adder.victims = {}
        /\ \A r \in Reqs : Finished(r)' = Finished(r)
    BY <2>1, RangeFacts, ConfigsAssumption, NoAdderFacts, ZenonT(30)
    DEF PlaceInv, PlaceTypes, Running, Batched, Load, Admitting, Finished
  <2>3. ReqTypes'
    BY <2>1, <2>2, ZenonT(30) DEF PlaceInv, ReqTypes, Tokens
  <2>4. PlaceTypes' /\ Places'
    BY <1>2, <1>3, ZenonT(30) DEF PlaceInv, PlaceTypes, Places, Admitting
  <2>5. Apart' /\ ChunkedPlace'
    BY <1>2, <1>3, ZenonT(30) DEF PlaceInv, Apart, ChunkedPlace, Admitting
  <2>6. VictimsRun' /\ Decoding'
    BY <1>3, <2>2, ZenonT(30) DEF PlaceInv, VictimsRun, Decoding
  <2>7. Results' /\ Awaited'
    BY ZenonT(30) DEF PlaceInv, Results, FromLast, FromBatch, Overlap, Tokens, Awaited
  <2>8. Unsent'
    BY <1>3, <2>1, <2>2, ZenonT(30) DEF PlaceInv, Unsent
  <2>9. Queued'
    BY <1>2, <2>1, <2>2, ZenonT(30) DEF PlaceInv, Queued
  <2>10. Kept'
    BY <1>3, <2>2, ZenonT(30) DEF PlaceInv, Kept, Preemption, Load
  <2>11. OutputsKept
    BY <2>1, ZenonT(30) DEF OutputsKept
  <2> QED
    BY <2>3, <2>4, <2>5, <2>6, <2>7, <2>8, <2>9, <2>10, <2>11, ZenonT(30) DEF PlaceInv
<1>5. CASE Launches(batch)
  BY <1>1, <1>2, <1>3, <1>5, LaunchPlaces, ZenonT(30) DEF Batched
<1> QED
  BY <1>4, <1>5, ZenonT(30) DEF ExtendBatch

LEMMA FilterPlaces ==
    ASSUME PlaceInv, Filter
    PROVE  PlaceInv' /\ OutputsKept
<1> /\ Loc = "decode" /\ Lists(running', Live(Running))
    /\ Loc' = IF running' = <<>> THEN "process" ELSE "check"
    /\ UNCHANGED <<conf, incoming, req, waiting, chunked, batch, last, queue, next, adder>>
  BY ZenonT(30) DEF Filter
<1> /\ Admitted' = Admitted /\ Preempted' = Preempted /\ Batched' = Batched
    /\ Merging' = Merging /\ InFlight' = InFlight
  BY ZenonT(30) DEF Admitted, Preempted, Batched, Merging, InFlight
<1>2. /\ running' \in Seq(Reqs) /\ IsInjective(running')
      /\ Running' = {r \in Running : ~Finished(r)}
  BY ZenonT(30) DEF Lists, Live, Running
<1>3. batch = NoBatch /\ batch.kind = "none" /\ adder.victims = {}
  BY NoAdderFacts, EmptyFacts, ZenonT(30) DEF PlaceInv, Places, Admitting
<1>4. ReqTypes' /\ PlaceTypes' /\ Places'
  BY <1>2, ZenonT(30) DEF PlaceInv, ReqTypes, Tokens, PlaceTypes, Places, Admitting
<1>5. Apart' /\ ChunkedPlace' /\ VictimsRun' /\ Decoding'
  BY <1>2, <1>3, ZenonT(30) DEF PlaceInv, Apart, ChunkedPlace, VictimsRun, Decoding, Admitting, Finished
<1>6. Results' /\ Awaited'
  BY <1>3, ZenonT(30) DEF PlaceInv, Results, FromLast, FromBatch, Overlap, Tokens, Awaited
<1>7. Unsent' /\ Queued' /\ Kept'
  BY <1>2, ZenonT(30) DEF PlaceInv, Unsent, Queued, Finished, Kept, Preemption, Load
<1> QED
  BY <1>4, <1>5, <1>6, <1>7, ZenonT(30) DEF PlaceInv, OutputsKept

LEMMA RetractRunningPlaces ==
    ASSUME PlaceInv, RetractRunning
    PROVE  PlaceInv' /\ OutputsKept
<1>1. PICK v \in Range(running) :
        /\ Lists(running', Running \ {v}) /\ waiting' = waiting \cup {v}
        /\ Resets(v) /\ req'[v].output = req[v].output
        /\ req'[v].is_retracted = TRUE /\ req'[v].finished = FALSE
  BY ZenonT(30) DEF RetractRunning, Running
<1> /\ Loc = "checked" /\ Loc' = "check" /\ Len(running) > 1
    /\ UNCHANGED <<conf, incoming, chunked, batch, last, queue, next, adder>>
  BY ZenonT(30) DEF RetractRunning
<1> /\ Admitted' = Admitted /\ Preempted' = Preempted /\ Batched' = Batched
    /\ Merging' = Merging /\ InFlight' = InFlight
  BY ZenonT(30) DEF Admitted, Preempted, Batched, Merging, InFlight
<1>2. running \in Seq(Reqs) /\ IsInjective(running) /\ v \in Running /\ Running \subseteq Reqs
  BY RangeFacts, ZenonT(30) DEF PlaceInv, PlaceTypes, Apart, Running
<1>3. running' \in Seq(Reqs) /\ IsInjective(running') /\ Running' = Running \ {v} /\ running' # <<>>
  <2>1. running' \in Seq(Reqs) /\ IsInjective(running') /\ Running' = Running \ {v}
    BY <1>1, ZenonT(30) DEF Lists, Running
  <2>2. running[1] \in Running /\ running[2] \in Running /\ running[1] # running[2]
    BY <1>2 DEF Running, Range, IsInjective
  <2>3. \E u \in Running' : TRUE
    BY <2>1, <2>2
  <2>4. running' = <<>> => Running' = {}
    BY DEF Running, Range
  <2> QED
    BY <2>1, <2>3, <2>4, ZenonT(30)
<1>4. /\ batch = NoBatch /\ batch.kind = "none" /\ adder.victims = {} /\ Admitted = {} /\ Preempted = {}
      /\ v \notin incoming /\ v \notin waiting /\ v # chunked /\ ~Finished(v)
  BY <1>2, NoAdderFacts, EmptyFacts, ZenonT(30) DEF PlaceInv, Places, Admitting, Apart, Unsent, Decoding
<1>5. /\ DOMAIN req' = Reqs /\ \A x \in Reqs \ {v} : req'[x] = req[x]
      /\ DOMAIN req'[v] = ReqFields /\ req'[v].output = req[v].output /\ req'[v].is_retracted = TRUE
      /\ req'[v].finished = FALSE /\ req'[v].row = <<>>
  BY <1>1, ZenonT(30) DEF Resets, ChangesOnly
<1>6. ReqTypes'
  BY <1>2, <1>5, ZenonT(30) DEF PlaceInv, ReqTypes, Tokens
<1>7. PlaceTypes' /\ Places'
  BY <1>1, <1>2, <1>3, ZenonT(30) DEF PlaceInv, PlaceTypes, Places, Admitting
<1>8. Apart' /\ ChunkedPlace'
  BY <1>1, <1>3, <1>4, ZenonT(30) DEF PlaceInv, Apart, ChunkedPlace, Admitting
<1>9. VictimsRun' /\ Decoding'
  BY <1>2, <1>3, <1>4, <1>5, ZenonT(30) DEF PlaceInv, VictimsRun, Decoding, Finished
<1>10. Results' /\ Awaited'
  BY ZenonT(30) DEF PlaceInv, Results, FromLast, FromBatch, Overlap, Tokens, Awaited
<1>11. Unsent' /\ Queued'
  BY <1>1, <1>3, <1>4, <1>5, ZenonT(30) DEF PlaceInv, PlaceTypes, Unsent, Queued, Finished
<1>12. Kept'
  <2>1. Load \subseteq Reqs
    BY ConfigsAssumption, ZenonT(30) DEF PlaceInv, PlaceTypes, Load
  <2> QED
    BY <1>1, <1>3, <1>5, <2>1, ZenonT(30) DEF PlaceInv, Kept, Preemption, Load, Finished
<1>13. OutputsKept
  BY <1>4, <1>5, ZenonT(30) DEF OutputsKept, Finished
<1> QED
  BY <1>6, <1>7, <1>8, <1>9, <1>10, <1>11, <1>12, <1>13, ZenonT(30) DEF PlaceInv

LEMMA DecodeBatchPlaces ==
    ASSUME PlaceInv, DecodeBatch
    PROVE  PlaceInv' /\ OutputsKept
<1> DEFINE len == [r \in Reqs |-> req[r].committed + 1]
           b == IF batch.kind = "extend"
                THEN [batch EXCEPT !.reqs = @ \o running, !.decoding = Range(running)]
                ELSE [NoBatch EXCEPT !.kind = "decode", !.reqs = running]
<1>1. /\ Loc = "decode_alloc" /\ Grows(running, len)
      /\ running' = IF batch.kind = "extend" THEN <<>> ELSE running
      /\ Launches(b)
      /\ UNCHANGED <<conf, incoming, waiting, chunked, last, next, adder>>
  BY ZenonT(30) DEF DecodeBatch
<1>2. /\ DOMAIN batch = BatchFields /\ running \in Seq(Reqs) /\ IsInjective(running)
      /\ batch = NoBatch \/ batch.kind = "extend"
  BY <1>1, ZenonT(30) DEF PlaceInv, PlaceTypes, Places, Apart
<1> HIDE DEF len
<1>3. CASE batch.kind = "extend"
  <2>1. /\ batch.chunked = chunked /\ batch.reqs \in Seq(Reqs) /\ IsInjective(batch.reqs)
        /\ Batched \cap Running = {}
    BY <1>3, ZenonT(30) DEF PlaceInv, Apart, PlaceTypes
  <2>2. /\ DOMAIN b = BatchFields /\ b.kind = "extend" /\ b.chunked = chunked
        /\ b.reqs = batch.reqs \o running
    BY <1>2, <1>3, <2>1, ZenonT(30) DEF BatchFields
  <2> HIDE DEF b
  <2>3. /\ b.reqs \in Seq(Reqs) /\ IsInjective(b.reqs) /\ Range(b.reqs) = Batched \cup Running
    BY <1>2, <2>1, <2>2, RangeCat DEF Batched, Running
  <2>4. running' \in Seq(Reqs) /\ IsInjective(running') /\ Running' = {}
    BY <1>1, <1>3 DEF Running, Range, IsInjective
  <2> QED
    BY <1>1, <1>3, <2>2, <2>3, <2>4, LaunchPlaces, ZenonT(30)
<1>4. CASE batch = NoBatch
  <2>1. batch.kind # "extend" /\ Batched = {}
    BY <1>4, EmptyFacts, ZenonT(30) DEF Batched
  <2>2. DOMAIN b = BatchFields /\ b.kind = "decode" /\ b.reqs = running
    BY <2>1, ZenonT(30) DEF BatchFields, NoBatch
  <2>3. Running' = Running /\ running' = running /\ Range(b.reqs) = Running
    BY <1>1, <2>1, <2>2, ZenonT(30) DEF Running
  <2> HIDE DEF b
  <2> QED
    BY <1>1, <1>2, <1>4, <2>1, <2>2, <2>3, LaunchPlaces, ZenonT(30)
<1> QED
  BY <1>2, <1>3, <1>4, ZenonT(30)

LEMMA GiveUpLastPlaces ==
    ASSUME PlaceInv, GiveUpLast
    PROVE  PlaceInv' /\ OutputsKept
<1> DEFINE v == running[1]
<1>1. /\ running' = <<>> /\ Len(running) = 1
      /\ Resets(v) /\ req'[v].output = req[v].output
      /\ req'[v].is_retracted = TRUE /\ req'[v].finished = TRUE
  BY ZenonT(30) DEF GiveUpLast
<1> /\ Loc = "checked" /\ Loc' = "process"
    /\ UNCHANGED <<conf, incoming, waiting, chunked, batch, last, queue, next, adder>>
  BY ZenonT(30) DEF GiveUpLast
<1> /\ Admitted' = Admitted /\ Preempted' = Preempted /\ Batched' = Batched
    /\ Merging' = Merging /\ InFlight' = InFlight
  BY ZenonT(30) DEF Admitted, Preempted, Batched, Merging, InFlight
<1>2. Running = {v} /\ v \in Reqs
  <2>1. running \in Seq(Reqs) /\ Len(running) = 1
    BY <1>1, ZenonT(30) DEF PlaceInv, PlaceTypes
  <2> QED
    BY <2>1 DEF Running, Range
<1> HIDE DEF v
<1>3. running' \in Seq(Reqs) /\ IsInjective(running') /\ Running' = {}
  BY <1>1 DEF Running, Range, IsInjective
<1>4. /\ batch = NoBatch /\ batch.kind = "none" /\ adder.victims = {} /\ Admitted = {} /\ Preempted = {}
      /\ v \notin incoming /\ v \notin waiting
  BY <1>2, NoAdderFacts, EmptyFacts, ZenonT(30) DEF PlaceInv, Places, Admitting, Apart, Unsent
<1>5. /\ DOMAIN req' = Reqs /\ \A x \in Reqs \ {v} : req'[x] = req[x]
      /\ DOMAIN req'[v] = ReqFields /\ req'[v].output = req[v].output /\ req'[v].is_retracted = TRUE
      /\ req'[v].finished = TRUE
  BY <1>1, ZenonT(30) DEF Resets, ChangesOnly
<1>6. ReqTypes'
  BY <1>2, <1>5, ZenonT(30) DEF PlaceInv, ReqTypes, Tokens
<1>7. PlaceTypes' /\ Places'
  BY <1>3, ZenonT(30) DEF PlaceInv, PlaceTypes, Places, Admitting
<1>8. Apart' /\ ChunkedPlace' /\ VictimsRun' /\ Decoding'
  BY <1>3, <1>4, ZenonT(30) DEF PlaceInv, Apart, ChunkedPlace, Admitting, VictimsRun, Decoding
<1>9. Results' /\ Awaited'
  BY <1>4, ZenonT(30) DEF PlaceInv, Results, FromLast, FromBatch, Overlap, Tokens, Awaited
<1>10. \A x \in Reqs : Finished(x)' <=> x = v \/ Finished(x)
  BY <1>5, ZenonT(30) DEF Finished
<1>11. Unsent'
  BY <1>3, <1>4, <1>5, <1>10, ZenonT(30) DEF PlaceInv, PlaceTypes, Unsent
<1>12. Queued'
  BY <1>3, <1>4, <1>5, <1>10, ZenonT(30) DEF PlaceInv, PlaceTypes, Queued
<1>13. Kept'
  <2>1. Load \subseteq Reqs
    BY ConfigsAssumption, ZenonT(30) DEF PlaceInv, PlaceTypes, Load
  <2> QED
    BY <1>2, <1>3, <1>4, <1>10, <2>1, ZenonT(30) DEF PlaceInv, Kept, Preemption, Load
<1>14. OutputsKept
  BY <1>5, ZenonT(30) DEF OutputsKept
<1> QED
  BY <1>6, <1>7, <1>8, <1>9, <1>11, <1>12, <1>13, <1>14, ZenonT(30) DEF PlaceInv

-----------------------------------------------------------------------------
(* Results.                                                                *)

\* The request whose result is processed next.
LEMMA ResultFacts ==
    ASSUME PlaceInv, Loc = "process", HasResult, next <= Len(Result.reqs)
    PROVE  LET r == Result.reqs[next]
           IN /\ r \in Reqs /\ r \notin incoming /\ Result.out[r] \in Tokens
              /\ ~Late(r) => ~Finished(r) /\ r \notin waiting
              /\ ~Overlap => Result.reqs = batch.reqs
<1> DEFINE r == Result.reqs[next]
<1>1. /\ Overlap => Holds(queue[1], last)
      /\ ~Overlap => Holds(queue[1], batch)
      /\ 1 \in DOMAIN queue
  BY DEF PlaceInv, Results, HasResult, FromLast, FromBatch
<1>2. /\ Overlap => Result.reqs = last.reqs
      /\ ~Overlap => Result.reqs = batch.reqs /\ Result.kind = batch.kind
  BY <1>1, ZenonT(30) DEF Holds, Result
<1>3. Result.reqs \in Seq(Reqs) /\ next \in Nat \ {0}
  BY <1>2, ZenonT(30) DEF PlaceInv, PlaceTypes
<1>4. r \in Reqs /\ r \in Range(Result.reqs)
  BY <1>3, RangeFacts
<1>5. r \in InFlight /\ r \in Merging \cup Batched /\ Result.out[r] \in Tokens
  BY <1>1, <1>2, <1>4, ZenonT(30) DEF InFlight, Merging, Batched, Result, PlaceInv, Results
<1>6. ASSUME ~Late(r) PROVE ~Finished(r) /\ r \notin waiting
  <2>1. CASE Overlap \/ Result.kind = "extend"
    BY <1>5, <1>6, <2>1, ZenonT(30) DEF Late, PlaceInv, Queued
  <2>2. CASE ~(Overlap \/ Result.kind = "extend")
    <3>1. batch.kind = "decode" /\ ~Overlap
      BY <1>2, <2>2, ZenonT(30) DEF PlaceInv, PlaceTypes, HasResult
    <3>2. batch.reqs = running /\ r \in Running /\ next \in next .. Len(batch.reqs)
      BY <1>2, <1>3, <1>4, <3>1 DEF PlaceInv, Apart, Running
    <3> QED
      BY <1>2, <3>1, <3>2, ZenonT(30) DEF PlaceInv, Awaited, Apart
  <2> QED
    BY <2>1, <2>2, ZenonT(30)
<1> QED
  BY <1>2, <1>4, <1>5, <1>6, ZenonT(30) DEF PlaceInv, Unsent

\* A step changes the record of r only, keeps it well typed and does not restart it.
Writes(r) ==
    /\ DOMAIN req' = Reqs /\ \A x \in Reqs \ {r} : req'[x] = req[x]
    /\ DOMAIN req'[r] = ReqFields /\ req'[r].output \in Seq(Tokens)
    /\ req'[r].finished \in BOOLEAN /\ req'[r].is_retracted \in BOOLEAN
    /\ req[r].finished => req'[r].finished
StaysPut ==
    UNCHANGED <<conf, incoming, waiting, running, chunked, batch, last, queue, adder, Loc>>

\* Processing the result of one request moves no request.
LEMMA ProcessPlaces ==
    ASSUME PlaceInv, Loc = "process", HasResult, NEW r, next <= Len(Result.reqs), r = Result.reqs[next],
           next' = next + 1, StaysPut, Writes(r), req' = req \/ ~Late(r)
    PROVE  PlaceInv'
<1>1. /\ r \in Reqs /\ r \notin incoming
      /\ ~Overlap => Result.reqs = batch.reqs
      /\ req' = req \/ r \notin waiting
  BY ResultFacts, ZenonT(30)
<1>2. /\ Loc' = "process"
      /\ UNCHANGED <<conf, incoming, waiting, running, chunked, batch, last, queue, adder>>
  BY ZenonT(30) DEF StaysPut
<1>3. /\ Running' = Running /\ Admitted' = Admitted /\ Preempted' = Preempted /\ Batched' = Batched
      /\ Merging' = Merging /\ InFlight' = InFlight
  BY <1>2, ZenonT(30) DEF Running, Admitted, Preempted, Batched, Merging, InFlight
<1>4. ReqTypes'
  BY <1>1, <1>2, ZenonT(30) DEF PlaceInv, ReqTypes, Tokens, Writes
<1>5. PlaceTypes' /\ Places'
  BY <1>2 DEF PlaceInv, PlaceTypes, Places, Admitting
<1>6. Apart' /\ ChunkedPlace' /\ VictimsRun' /\ Decoding'
  BY <1>2, <1>3, NoAdderFacts, ZenonT(30) DEF PlaceInv, Apart, ChunkedPlace, Admitting, VictimsRun, Decoding
<1>7. Results'
  BY <1>2, ZenonT(30) DEF PlaceInv, Results, FromLast, FromBatch, Overlap, Tokens
<1>8. Unsent' /\ Queued'
  <2>1. Preempted = {} /\ incoming \subseteq Reqs /\ waiting \subseteq Reqs
    BY NoAdderFacts, ZenonT(30) DEF PlaceInv, Admitting, PlaceTypes
  <2>2. \A x \in incoming \cup waiting : req'[x] = req[x]
    BY <1>1, <2>1, ZenonT(30) DEF Writes
  <2> QED
    BY <1>2, <1>3, <2>1, <2>2, ZenonT(30) DEF PlaceInv, Unsent, Queued, Finished
<1>9. Awaited'
  <2> SUFFICES ASSUME ~Overlap, batch.kind = "decode", NEW i \in next + 1 .. Len(batch.reqs)
               PROVE  ~req'[batch.reqs[i]].finished
    BY <1>2, ZenonT(30) DEF Awaited, Overlap, Finished
  <2>1. batch.reqs \in Seq(Reqs) /\ IsInjective(batch.reqs) /\ next \in Nat \ {0}
    BY ZenonT(30) DEF PlaceInv, PlaceTypes, Apart
  <2>2. /\ i \in next .. Len(batch.reqs) /\ i # next /\ i \in DOMAIN batch.reqs
        /\ next \in DOMAIN batch.reqs /\ batch.reqs[i] \in Reqs
    BY <1>1, <2>1
  <2>3. batch.reqs[i] # r
    BY <1>1, <2>1, <2>2, ZenonT(30) DEF IsInjective
  <2> QED
    BY <2>2, <2>3, ZenonT(30) DEF PlaceInv, Awaited, Finished, Writes
<1>10. Kept'
  <2>1. Load \subseteq Reqs
    BY ConfigsAssumption, ZenonT(30) DEF PlaceInv, PlaceTypes, Load
  <2> QED
    BY <1>1, <1>2, <1>3, <2>1, ZenonT(30) DEF PlaceInv, Kept, Preemption, Load, Finished, Writes
<1> QED
  BY <1>4, <1>5, <1>6, <1>7, <1>8, <1>9, <1>10, ZenonT(30) DEF PlaceInv

\* What processing a result does to its request.
LEMMA ProcessFields ==
    ASSUME PlaceInv, NEW r \in Reqs, Result.out[r] \in Tokens, ChunkDone(r) \/ Output(r)
    PROVE  /\ Writes(r)
           /\ req'[r].output = req[r].output \/ req'[r].output = Append(req[r].output, Result.out[r])
<1>1. /\ req[r].output \in Seq(Tokens) /\ req[r].finished \in BOOLEAN /\ req[r].is_retracted \in BOOLEAN
  BY ZenonT(30) DEF PlaceInv, ReqTypes
<1>2. Append(req[r].output, Result.out[r]) \in Seq(Tokens)
  BY <1>1, AppendFacts, ZenonT(30)
<1>3. CASE ChunkDone(r)
  BY <1>1, <1>3, ZenonT(30) DEF ChunkDone, ChangesOnly, Writes
<1>4. CASE Output(r)
  BY <1>1, <1>2, <1>4, ZenonT(30) DEF Output, Resets, ChangesOnly, Writes
<1> QED
  BY <1>3, <1>4, ZenonT(30)

LEMMA ProcessNextPlaces ==
    ASSUME PlaceInv, ProcessNext
    PROVE  PlaceInv' /\ OutputGrows
<1> DEFINE r == Result.reqs[next]
<1>1. /\ Loc = "process" /\ HasResult /\ next <= Len(Result.reqs) /\ next' = next + 1 /\ StaysPut
      /\ \/ Late(r) /\ req' = req
         \/ /\ ~Late(r)
            /\ ChunkDone(r) \/ Output(r)
  BY ZenonT(30) DEF ProcessNext, StaysPut
<1>2. r \in Reqs /\ Result.out[r] \in Tokens /\ (~Late(r) => ~req[r].finished)
  BY <1>1, ResultFacts, ZenonT(30) DEF Finished
<1>3. r = Result.reqs[next]
  BY ZenonT(30)
<1> HIDE DEF r
<1>4. DOMAIN req = Reqs /\ \A x \in Reqs : DOMAIN req[x] = ReqFields /\ req[x].output \in Seq(Tokens)
                                          /\ req[x].finished \in BOOLEAN /\ req[x].is_retracted \in BOOLEAN
  BY ZenonT(30) DEF PlaceInv, ReqTypes
<1>5. \A x \in Reqs : IsPrefix(req[x].output, req[x].output)
  BY <1>2, <1>4, PrefixOfAppend, ZenonT(30)
<1>6. CASE Late(r)
  <2>1. req' = req
    BY <1>1, <1>6, ZenonT(30)
  <2>2. Writes(r)
    BY <1>2, <1>4, <2>1, ZenonT(30) DEF Writes
  <2>3. PlaceInv'
    BY <1>1, <1>3, <2>1, <2>2, ProcessPlaces, ZenonT(30)
  <2> QED
    BY <1>5, <2>1, <2>3, ZenonT(30) DEF OutputGrows, Finished
<1>7. CASE ~Late(r)
  <2>1. /\ Writes(r)
        /\ req'[r].output = req[r].output \/ req'[r].output = Append(req[r].output, Result.out[r])
    BY <1>1, <1>2, <1>7, ProcessFields, ZenonT(30)
  <2>2. PlaceInv'
    BY <1>1, <1>3, <1>7, <2>1, ProcessPlaces, ZenonT(30)
  <2>3. IsPrefix(req[r].output, Append(req[r].output, Result.out[r]))
    <3>1. req[r].output \in Seq(Tokens)
      BY <1>2, <1>4, ZenonT(30)
    <3> QED
      BY <1>2, <3>1, PrefixOfAppend, ZenonT(30)
  <2>4. IsPrefix(req[r].output, req'[r].output)
    BY <1>2, <1>5, <2>1, <2>3, ZenonT(30)
  <2> QED
    BY <1>2, <1>5, <1>7, <2>1, <2>2, <2>4, ZenonT(30) DEF OutputGrows, Finished, Writes
<1> QED
  BY <1>6, <1>7, ZenonT(30)

LEMMA EndOfIterationPlaces ==
    ASSUME PlaceInv, EndOfIteration
    PROVE  PlaceInv' /\ OutputsKept
<1> /\ Loc = "process" /\ Loc' = "begin"
    /\ queue' = IF HasResult THEN Tail(queue) ELSE queue
    /\ last' = batch /\ batch' = NoBatch /\ next' = 1
    /\ UNCHANGED <<conf, incoming, req, waiting, running, chunked, adder>>
  BY ZenonT(30) DEF EndOfIteration
<1> /\ Running' = Running /\ Admitted' = Admitted /\ Preempted' = Preempted /\ Batched' = {}
    /\ Merging' = Batched /\ batch'.kind = "none" /\ batch'.reqs = <<>>
  BY EmptyFacts, ZenonT(30) DEF Running, Admitted, Preempted, Batched, Merging
<1>1. Results' /\ InFlight' \subseteq InFlight
  <2>1. CASE FromLast /\ FromBatch
    <3> DEFINE a == queue[1]
               b == queue[2]
    <3>1. queue = <<a, b>> /\ Holds(b, batch)
      BY <2>1, ZenonT(30) DEF PlaceInv, Results
    <3>2. queue' = Tail(queue)
      BY <2>1, ZenonT(30) DEF HasResult, FromLast
    <3> HIDE DEF a, b
    <3>3. /\ queue' = <<b>> /\ DOMAIN queue' = {1} /\ DOMAIN queue = {1, 2} /\ queue'[1] = b
          /\ queue[2] = b
      BY <3>1, <3>2
    <3>4. FromLast' /\ ~FromBatch' /\ Tokens' = Tokens
      BY <2>1, ZenonT(30) DEF FromLast, FromBatch, Overlap, Tokens
    <3>5. Results'
      BY <3>1, <3>3, <3>4, ZenonT(30) DEF PlaceInv, Results
    <3> QED
      BY <3>3, <3>5, ZenonT(30) DEF InFlight
  <2>2. CASE FromLast /\ ~FromBatch
    <3> DEFINE a == queue[1]
    <3>1. queue = <<a>>
      BY <2>2, ZenonT(30) DEF PlaceInv, Results
    <3>2. queue' = Tail(queue)
      BY <2>2, ZenonT(30) DEF HasResult, FromLast
    <3> HIDE DEF a
    <3>3. queue' = <<>> /\ DOMAIN queue' = {}
      BY <3>1, <3>2
    <3>4. ~FromLast' /\ ~FromBatch'
      BY <2>2, ZenonT(30) DEF FromLast, FromBatch, Overlap
    <3> QED
      BY <3>3, <3>4, ZenonT(30) DEF Results, InFlight
  <2>3. CASE ~FromLast /\ FromBatch
    <3> DEFINE a == queue[1]
    <3>1. queue = <<a>> /\ Holds(a, batch)
      BY <2>3, ZenonT(30) DEF PlaceInv, Results
    <3> HIDE DEF a
    <3>2. CASE Overlap
      <4>1. queue' = queue /\ FromLast' /\ ~FromBatch'
        BY <2>3, <3>2, ZenonT(30) DEF HasResult, FromLast, FromBatch, Overlap
      <4> QED
        BY <2>3, <4>1, ZenonT(30) DEF PlaceInv, Results, InFlight, Tokens
    <3>3. CASE ~Overlap
      <4>1. queue' = Tail(queue) /\ ~FromLast' /\ ~FromBatch'
        BY <2>3, <3>3, ZenonT(30) DEF HasResult, FromLast, FromBatch, Overlap
      <4>2. queue' = <<>> /\ DOMAIN queue' = {}
        BY <3>1, <4>1
      <4> QED
        BY <4>1, <4>2, ZenonT(30) DEF Results, InFlight
    <3> QED
      BY <3>2, <3>3, ZenonT(30)
  <2>4. CASE ~FromLast /\ ~FromBatch
    <3>1. ~HasResult /\ ~FromLast' /\ ~FromBatch'
      BY <2>4, ZenonT(30) DEF HasResult, FromLast, FromBatch, Overlap
    <3> QED
      BY <2>4, <3>1, ZenonT(30) DEF PlaceInv, Results, InFlight, Tokens
  <2> QED
    BY <2>1, <2>2, <2>3, <2>4, ZenonT(30)
<1>2. ReqTypes' /\ PlaceTypes' /\ Places'
  BY EmptyFacts DEF PlaceInv, ReqTypes, Tokens, PlaceTypes, Places, Admitting
<1>3. Apart' /\ ChunkedPlace'
  BY RangeOne, ZenonT(30) DEF PlaceInv, PlaceTypes, Apart, ChunkedPlace, Admitting
<1>4. VictimsRun' /\ Decoding' /\ Awaited'
  BY ZenonT(30) DEF PlaceInv, VictimsRun, Decoding, Awaited, Finished
<1>5. Unsent' /\ Queued' /\ Kept'
  BY <1>1, ZenonT(30) DEF PlaceInv, Unsent, Queued, Finished, Kept, Preemption, Load
<1> QED
  BY <1>1, <1>2, <1>3, <1>4, <1>5, ZenonT(30) DEF PlaceInv, OutputsKept

LEMMA FlowInitPlaces ==
    ASSUME FlowInit
    PROVE  PlaceInv
<1>1. /\ conf \in Configs /\ incoming = Load /\ waiting = {} /\ running = <<>> /\ chunked = NoReq
      /\ batch = NoBatch /\ last = NoBatch /\ queue = <<>> /\ next = 1 /\ adder = NoAdder /\ Loc = "begin"
      /\ batch.reqs = <<>> /\ batch.kind = "none" /\ adder.can_run = <<>>
      /\ adder.preempt_list = {} /\ adder.victims = {}
  BY EmptyFacts, ZenonT(30) DEF FlowInit
<1>2. /\ Running = {} /\ Admitted = {} /\ Preempted = {} /\ Batched = {} /\ Merging = {} /\ InFlight = {}
      /\ IsInjective(running) /\ Load \subseteq Reqs
  <2>1. Running = {} /\ Admitted = {} /\ Preempted = {} /\ Batched = {} /\ Merging = {}
        /\ IsInjective(running)
    BY <1>1, EmptyFacts, ZenonT(30) DEF Running, Admitted, Preempted, Batched, Merging
  <2>2. InFlight = {}
    BY <1>1 DEF InFlight
  <2>3. Load \subseteq Reqs
    BY <1>1, ConfigsAssumption, ZenonT(30) DEF Load
  <2> QED
    BY <2>1, <2>2, <2>3, ZenonT(30)
<1>3. DOMAIN req = Reqs
  BY ZenonT(30) DEF FlowInit
<1>4. \A r \in Reqs : /\ DOMAIN req[r] = ReqFields /\ req[r].output = <<>> /\ req[r].finished = FALSE
                      /\ req[r].is_retracted = FALSE /\ req[r].row = <<>>
  BY ZenonT(30) DEF FlowInit
<1>5. ReqTypes
  <2>1. <<>> \in Seq(Tokens)
    OBVIOUS
  <2> QED
    BY <1>3, <1>4, <2>1, ZenonT(30) DEF ReqTypes
<1>6. PlaceTypes /\ Places
  BY <1>1, <1>2, EmptyFacts DEF PlaceTypes, Places, Admitting
<1>7. Apart /\ ChunkedPlace /\ VictimsRun /\ Decoding
  BY <1>1, <1>2, ReqsAssumption, ZenonT(30) DEF Apart, ChunkedPlace, Admitting, VictimsRun, Decoding
<1>8. Results /\ Awaited
  BY <1>1 DEF Results, FromLast, FromBatch, Awaited
<1>9. Unsent /\ Queued /\ Kept
  BY <1>1, <1>2, <1>4, ReqsAssumption, ZenonT(30) DEF Unsent, Queued, Kept, Finished
<1> QED
  BY <1>5, <1>6, <1>7, <1>8, <1>9, ZenonT(30) DEF PlaceInv

-----------------------------------------------------------------------------
(* The theorem.                                                            *)

\* Every step keeps the invariant, and outputs only grow.
LEMMA FlowStep ==
    ASSUME PlaceInv, [FlowNext]_flow
    PROVE  PlaceInv' /\ OutputGrows
<1>1. ASSUME OutputsKept PROVE OutputGrows
  <2>1. ASSUME NEW r \in Reqs PROVE IsPrefix(req[r].output, req[r].output)
    BY DEF PlaceInv, ReqTypes, IsPrefix
  <2> QED
    BY <1>1, <2>1, ZenonT(30) DEF OutputsKept, OutputGrows, Finished
<1>2. ASSUME NEW r \in Reqs, Receive(r) \/ Abort(r) \/ Admit(r) PROVE PlaceInv' /\ OutputsKept
  BY <1>2, ReceivePlaces, AbortPlaces, AdmitPlaces, ZenonT(30)
<1>3. CASE Merge \/ Proceed \/ Start \/ ChooseVictims \/ PreemptVictim \/ GiveUp \/ Build
  <2>1. PlaceInv' /\ OutputsKept
    BY <1>3, MergePlaces, ProceedPlaces, StartPlaces, ChooseVictimsPlaces, PreemptVictimPlaces,
       GiveUpPlaces, BuildPlaces, ZenonT(30)
  <2> QED
    BY <1>1, <2>1, ZenonT(30)
<1>4. CASE ExtendBatch \/ Filter \/ RetractRunning \/ GiveUpLast \/ DecodeBatch \/ EndOfIteration
  <2>1. PlaceInv' /\ OutputsKept
    BY <1>4, ExtendBatchPlaces, FilterPlaces, RetractRunningPlaces, GiveUpLastPlaces, DecodeBatchPlaces,
       EndOfIterationPlaces, ZenonT(30)
  <2> QED
    BY <1>1, <2>1, ZenonT(30)
<1>5. CASE ProcessNext
  BY <1>5, ProcessNextPlaces, ZenonT(30)
<1>6. CASE UNCHANGED flow
  <2>1. /\ UNCHANGED <<conf, req, incoming, waiting, running, chunked, batch, last, queue, next>>
        /\ adder' = adder /\ Loc' = Loc
    BY <1>6, ZenonT(30) DEF flow
  <2>2. KeepsReqs({}) /\ DOMAIN adder' = AdderFields /\ OutputsKept
    BY <2>1, ZenonT(30) DEF PlaceInv, ReqTypes, PlaceTypes, KeepsReqs, SameReq, OutputsKept
  <2>3. Places' /\ ChunkedPlace' /\ VictimsRun' /\ Decoding'
    BY <2>1, ZenonT(30) DEF PlaceInv, Places, ChunkedPlace, VictimsRun, Decoding, Admitting, Running, Finished,
                Batched, Merging, Admitted
  <2>4. PlaceInv'
    BY <2>1, <2>2, <2>3, QuietPlaces, ZenonT(30)
  <2> QED
    BY <1>1, <2>2, <2>4, ZenonT(30)
<1> QED
  BY <1>1, <1>2, <1>3, <1>4, <1>5, <1>6, ZenonT(30) DEF FlowNext

\* Where requests and results may be, in every server that moves them this way.
THEOREM FlowInvariant == FlowSpec => []PlaceInv
<1>1. PlaceInv /\ [FlowNext]_flow => PlaceInv'
  BY FlowStep, ZenonT(30)
<1> QED
  BY <1>1, FlowInitPlaces, PTL DEF FlowSpec

\* The results to come do not change when no batch does.
LEMMA SamePending ==
    ASSUME UNCHANGED <<conf, batch, last, next>>, Loc' = "process" <=> Loc = "process"
    PROVE  /\ Merging' = Merging /\ Batched' = Batched /\ OfLast' = OfLast /\ OfBatch' = OfBatch
           /\ \A r \in Reqs : /\ LastChunk(r)' = LastChunk(r) /\ BatchChunk(r)' = BatchChunk(r)
                              /\ LastSample(r)' = LastSample(r) /\ BatchSample(r)' = BatchSample(r)
<1>1. Merging' = Merging /\ Batched' = Batched /\ Rest(last.reqs)' = Rest(last.reqs)
      /\ Rest(batch.reqs)' = Rest(batch.reqs)
  BY ZenonT(30) DEF Merging, Batched, Rest
<1>2. FromLast' = FromLast /\ FromBatch' = FromBatch /\ Overlap' = Overlap
  BY ZenonT(30) DEF FromLast, FromBatch, Overlap
<1>3. OfLast' = OfLast /\ OfBatch' = OfBatch
  BY <1>1, <1>2, ZenonT(30) DEF OfLast, OfBatch
<1>4. (Loc = "process")' = (Loc = "process")
  BY ZenonT(30)
<1> QED
  BY <1>1, <1>3, <1>4, ZenonT(30) DEF LastChunk, BatchChunk, LastSample, BatchSample

\* Nor do the order of the results and the count of the chunks, when requests
\* only get other memory.
LEMMA QuietOrder ==
    ASSUME OrderInv, ~Preemption, NEW S, KeepsReqs(S), KeepsChunks({}),
           UNCHANGED <<conf, batch, last, queue, next>>,
           Loc' = "process" <=> Loc = "process"
    PROVE  /\ ~Preemption' /\ ChunksCounted' /\ SampledAfter'
           /\ \A r \in Reqs : /\ Fresh(r)' = Fresh(r) /\ Finished(r)' = Finished(r)
                              /\ NumTokens(r)' = NumTokens(r) /\ req'[r].committed = req[r].committed
                              /\ req'[r].is_retracted = req[r].is_retracted
<1>1. /\ \A r \in Reqs : /\ LastChunk(r)' = LastChunk(r) /\ BatchChunk(r)' = BatchChunk(r)
                         /\ LastSample(r)' = LastSample(r) /\ BatchSample(r)' = BatchSample(r)
  BY SamePending, ZenonT(30)
<1>2. \A r \in Reqs : /\ Fresh(r)' = Fresh(r) /\ Finished(r)' = Finished(r)
                      /\ NumTokens(r)' = NumTokens(r) /\ req'[r].committed = req[r].committed
                      /\ req'[r].is_retracted = req[r].is_retracted
                      /\ req'[r].is_chunked = req[r].is_chunked
  BY ZenonT(30) DEF KeepsReqs, KeepsChunks, SameReq, Fresh, Finished, NumTokens
<1>3. ChunksCounted'
  BY <1>1, <1>2, ZenonT(30) DEF OrderInv, ChunksCounted
<1>4. SampledAfter'
  BY <1>1, <1>2, ZenonT(30) DEF OrderInv, SampledAfter
<1> QED
  BY <1>2, <1>3, <1>4, ZenonT(30) DEF Preemption

\* The empty batch.
LEMMA NoBatchFacts ==
    ASSUME batch = NoBatch
    PROVE  Batched = {} /\ batch.kind = "none" /\ batch.chunked = NoReq /\ batch.decoding = {}
<1>1. batch.reqs = <<>> /\ batch.kind = "none" /\ batch.chunked = NoReq /\ batch.decoding = {}
  BY ZenonT(30) DEF NoBatch
<1> QED
  BY <1>1, RangeOne, ZenonT(30) DEF Batched

-----------------------------------------------------------------------------
(* The order of results, in the steps of admission.                        *)

LEMMA ReceiveOrder ==
    ASSUME PlaceInv, OrderInv, ~Preemption, NEW r \in Reqs, Receive(r)
    PROVE  OrderInv'
<1> /\ Loc = "begin" /\ Loc' = "begin" /\ r \in incoming /\ waiting' = waiting \cup {r}
    /\ UNCHANGED <<conf, req, running, chunked, batch, last, queue, next, adder>>
  BY ZenonT(30) DEF Receive
<1> /\ Running' = Running /\ Admitted' = Admitted
  BY ZenonT(30) DEF Running, Admitted
<1>1. KeepsReqs({}) /\ KeepsChunks({})
  BY ZenonT(30) DEF PlaceInv, ReqTypes, KeepsReqs, KeepsChunks, SameReq
<1>2. /\ ~Preemption' /\ ChunksCounted' /\ SampledAfter'
      /\ \A x \in Reqs : /\ Fresh(x)' = Fresh(x) /\ Finished(x)' = Finished(x)
                         /\ NumTokens(x)' = NumTokens(x)
  BY <1>1, QuietOrder, ZenonT(30)
<1>3. /\ Merging' = Merging /\ Batched' = Batched
      /\ \A x \in Reqs : /\ LastChunk(x)' = LastChunk(x) /\ BatchChunk(x)' = BatchChunk(x)
                         /\ LastSample(x)' = LastSample(x) /\ BatchSample(x)' = BatchSample(x)
  BY SamePending, ZenonT(30)
<1>4. ChunkFollowed' /\ Filled'
  BY <1>3, ZenonT(30) DEF OrderInv, ChunkFollowed, Filled, NumTokens
<1>5. ChunksLive'
  BY <1>2, <1>3, ZenonT(30) DEF OrderInv, ChunksLive, Finished
<1>6. PrefillApart'
  BY <1>3, ZenonT(30) DEF OrderInv, PrefillApart, PlaceInv, Unsent
<1>7. CommittedTokens'
  BY <1>2, <1>3, ZenonT(30) DEF OrderInv, CommittedTokens, Decodes
<1> QED
  BY <1>2, <1>4, <1>5, <1>6, <1>7, ZenonT(30) DEF OrderInv

LEMMA AbortOrder ==
    ASSUME PlaceInv, OrderInv, ~Preemption, NEW r \in Reqs, Abort(r)
    PROVE  OrderInv'
<1> /\ Loc = "begin" /\ Loc' = "begin" /\ r \in waiting /\ waiting' = waiting \ {r}
    /\ UNCHANGED <<conf, running, chunked, batch, last, queue, next, adder>>
  BY ZenonT(30) DEF Abort
<1> /\ Running' = Running /\ Admitted' = Admitted /\ Preemption' = Preemption
  BY ZenonT(30) DEF Running, Admitted, Preemption
<1>1. /\ Merging' = Merging /\ Batched' = Batched
      /\ \A x \in Reqs : /\ LastChunk(x)' = LastChunk(x) /\ BatchChunk(x)' = BatchChunk(x)
                         /\ LastSample(x)' = LastSample(x) /\ BatchSample(x)' = BatchSample(x)
  BY SamePending, ZenonT(30)
<1>2. /\ \A x \in Reqs : /\ NumTokens(x)' = NumTokens(x) /\ req'[x].committed = req[x].committed
                         /\ req'[x].is_retracted = req[x].is_retracted
                         /\ req'[x].is_chunked = req[x].is_chunked
      /\ \A x \in Reqs \ {r} : Finished(x)' = Finished(x) /\ Fresh(x)' = Fresh(x)
      /\ Finished(r)'
  BY ZenonT(30) DEF Abort, ChangesOnly, NumTokens, Finished, Fresh
<1>3. Admitted = {} /\ adder.new_chunked = NoReq /\ Batched = {} /\ batch.kind = "none" /\ batch.chunked = NoReq
  BY NoAdderFacts, NoBatchFacts, ZenonT(30) DEF PlaceInv, Admitting, Places, Batched
<1>4. r # chunked /\ r # last.chunked /\ r \notin Running
  BY ReqsAssumption, ZenonT(30) DEF PlaceInv, Apart, OrderInv, ChunkFollowed
<1>5. ChunksCounted' /\ ChunkFollowed'
  BY <1>1, <1>2, ZenonT(30) DEF OrderInv, ChunksCounted, ChunkFollowed
<1>6. ChunksLive'
  <2>1. chunked # NoReq => chunked \in Reqs
    BY ZenonT(30) DEF PlaceInv, PlaceTypes
  <2>2. ~LastChunk(r) /\ ~BatchChunk(r)
    BY <1>3, <1>4, ReqsAssumption, ZenonT(30) DEF LastChunk, BatchChunk
  <2> QED
    BY <1>1, <1>2, <1>3, <1>4, <2>1, <2>2, ZenonT(30) DEF OrderInv, ChunksLive
<1>7. PrefillApart' /\ Filled'
  BY <1>1, <1>3, ZenonT(30) DEF OrderInv, PrefillApart, Filled
<1>8. CommittedTokens'
  BY <1>1, <1>2, <1>4, ZenonT(30) DEF OrderInv, CommittedTokens, Decodes
<1>9. SampledAfter'
  BY <1>1, <1>2, ZenonT(30) DEF OrderInv, SampledAfter, Fresh
<1> QED
  BY <1>5, <1>6, <1>7, <1>8, <1>9, ZenonT(30) DEF OrderInv

LEMMA MergeOrder ==
    ASSUME PlaceInv, OrderInv, ~Preemption, Merge
    PROVE  OrderInv'
<1> /\ Loc = "begin" /\ Loc' = "policy" /\ KeepsReqs({}) /\ KeepsChunks({})
    /\ UNCHANGED <<conf, waiting, chunked, batch, last, queue, next, adder>>
  BY ZenonT(30) DEF Merge
<1> Admitted' = Admitted
  BY ZenonT(30) DEF Admitted
<1>1. /\ ~Preemption' /\ ChunksCounted' /\ SampledAfter'
      /\ \A x \in Reqs : /\ Fresh(x)' = Fresh(x) /\ Finished(x)' = Finished(x)
                         /\ NumTokens(x)' = NumTokens(x) /\ req'[x].committed = req[x].committed
                         /\ req'[x].is_retracted = req[x].is_retracted
  BY QuietOrder, ZenonT(30)
<1>2. /\ Merging' = Merging /\ Batched' = Batched
      /\ \A x \in Reqs : /\ LastChunk(x)' = LastChunk(x) /\ BatchChunk(x)' = BatchChunk(x)
                         /\ LastSample(x)' = LastSample(x) /\ BatchSample(x)' = BatchSample(x)
  BY SamePending, ZenonT(30)
<1>3. Admitted = {} /\ adder.new_chunked = NoReq /\ Batched = {} /\ batch.kind = "none" /\ batch.chunked = NoReq
  BY NoAdderFacts, NoBatchFacts, ZenonT(30) DEF PlaceInv, Admitting, Places, Batched
<1>4. ChunkFollowed' /\ PrefillApart' /\ Filled'
  BY <1>2, <1>3, ZenonT(30) DEF OrderInv, ChunkFollowed, PrefillApart, Filled
<1>5. ChunksLive'
  <2>1. chunked # NoReq => chunked \in Reqs
    BY ZenonT(30) DEF PlaceInv, PlaceTypes
  <2> QED
    BY <1>1, <1>2, <1>3, <2>1, ZenonT(30) DEF OrderInv, ChunksLive
<1>6. CommittedTokens'
  <2>1. Running' \subseteq Running \/ (last.kind = "extend" /\ Running' \subseteq Running \cup (Merging \ {chunked}))
    <3>1. CASE last.kind = "extend"
      <4>1. Running' = Running \cup (Live(Merging) \ {chunked, last.chunked})
        BY <3>1, ZenonT(30) DEF Merge, Lists, Running
      <4> QED
        BY <3>1, <4>1, ZenonT(30) DEF Live
    <3>2. CASE last.kind # "extend"
      BY <3>2, ZenonT(30) DEF Merge, Running
    <3> QED
      BY <3>1, <3>2, ZenonT(30)
  <2>2. ASSUME NEW x \in Reqs, Decodes(x)' PROVE Decodes(x)
    BY <1>3, <2>1, <2>2, ZenonT(30) DEF Decodes
  <2> QED
    BY <1>1, <1>2, <2>2, ZenonT(30) DEF OrderInv, CommittedTokens
<1> QED
  BY <1>1, <1>4, <1>5, <1>6, ZenonT(30) DEF OrderInv

LEMMA ProceedOrder ==
    ASSUME PlaceInv, OrderInv, ~Preemption, Proceed
    PROVE  OrderInv'
<1> /\ KeepsReqs({}) /\ KeepsFill(waiting \ Admitted) /\ KeepsChunks({}) /\ KeepsAdder
    /\ UNCHANGED <<conf, waiting, running, chunked, batch, last, queue, next>>
  BY ZenonT(30) DEF Proceed
<1> Running' = Running /\ Admitted' = Admitted /\ adder'.new_chunked = adder.new_chunked
  BY ZenonT(30) DEF Running, Admitted, KeepsAdder
<1>1. \/ Loc' = Loc /\ Loc # "process"
      \/ Loc = "policy" /\ Loc' = "decode" /\ chunked = NoReq
      \/ Loc = "check" /\ Loc' = "checked"
      \/ Loc = "checked" /\ Loc' = "decode_alloc"
  BY ZenonT(30) DEF Proceed
<1>2. /\ ~Preemption' /\ ChunksCounted' /\ SampledAfter'
      /\ \A x \in Reqs : /\ Fresh(x)' = Fresh(x) /\ Finished(x)' = Finished(x)
                         /\ NumTokens(x)' = NumTokens(x) /\ req'[x].committed = req[x].committed
                         /\ req'[x].is_retracted = req[x].is_retracted
  BY <1>1, QuietOrder, ZenonT(30)
<1>3. /\ Merging' = Merging /\ Batched' = Batched
      /\ \A x \in Reqs : /\ LastChunk(x)' = LastChunk(x) /\ BatchChunk(x)' = BatchChunk(x)
                         /\ LastSample(x)' = LastSample(x) /\ BatchSample(x)' = BatchSample(x)
  BY <1>1, SamePending, ZenonT(30)
<1>4. /\ Admitted \subseteq Reqs /\ Batched \subseteq Reqs /\ chunked \in Reqs \cup {NoReq}
      /\ Running \subseteq Reqs
  BY RangeFacts, ZenonT(30) DEF PlaceInv, PlaceTypes, Admitted, Batched, Running
<1>5. Loc \in {"begin", "policy", "prefill", "decode", "check", "checked"} => Batched = {} /\ batch.chunked = NoReq
  BY NoBatchFacts, ZenonT(30) DEF PlaceInv, Places, Batched
<1>6. ChunkFollowed' /\ PrefillApart'
  BY <1>1, <1>3, <1>5, ZenonT(30) DEF OrderInv, ChunkFollowed, PrefillApart
<1>7. ChunksLive'
  BY <1>1, <1>2, <1>3, <1>4, <1>5, ReqsAssumption, ZenonT(30) DEF OrderInv, ChunksLive, BatchChunk
<1>8. Filled'
  <2>1. \A x \in Reqs : x \notin waiting \ Admitted => req'[x].fill = req[x].fill
    BY ZenonT(30) DEF KeepsFill
  <2>2. Loc = "extend" => Batched \cap waiting = {}
    BY ZenonT(30) DEF PlaceInv, Apart, Places
  <2> QED
    BY <1>1, <1>2, <1>3, <1>4, <1>5, <2>1, <2>2, ZenonT(30) DEF OrderInv, Filled
<1>9. CommittedTokens'
  BY <1>1, <1>2, <1>3, ZenonT(30) DEF OrderInv, CommittedTokens, Decodes
<1> QED
  BY <1>2, <1>6, <1>7, <1>8, <1>9, ZenonT(30) DEF OrderInv

LEMMA StartOrder ==
    ASSUME PlaceInv, OrderInv, ~Preemption, Start
    PROVE  OrderInv'
<1> /\ Loc = "policy" /\ Loc' = "prefill" /\ KeepsReqs({}) /\ KeepsFill({chunked}) /\ KeepsChunks({})
    /\ UNCHANGED <<conf, waiting, running, batch, last, queue, next>>
    /\ adder'.new_chunked = NoReq
  BY ZenonT(30) DEF Start
<1> Running' = Running
  BY ZenonT(30) DEF Running
<1>1. /\ chunked' = chunked \/ (chunked' = NoReq /\ req'[chunked].fill = NumTokens(chunked))
      /\ Admitted' = {chunked} \ {NoReq}
  <2>1. CASE chunked = NoReq
    BY <2>1, RangeOne, ZenonT(30) DEF Start, Admitted
  <2>2. CASE chunked # NoReq
    BY <2>2, RangeOne DEF Start, Admitted
  <2> QED
    BY <2>1, <2>2, ZenonT(30)
<1>2. /\ ~Preemption' /\ ChunksCounted' /\ SampledAfter'
      /\ \A x \in Reqs : /\ Fresh(x)' = Fresh(x) /\ Finished(x)' = Finished(x)
                         /\ NumTokens(x)' = NumTokens(x) /\ req'[x].committed = req[x].committed
                         /\ req'[x].is_retracted = req[x].is_retracted
  BY QuietOrder, ZenonT(30)
<1>3. /\ Merging' = Merging /\ Batched' = Batched
      /\ \A x \in Reqs : /\ LastChunk(x)' = LastChunk(x) /\ BatchChunk(x)' = BatchChunk(x)
                         /\ LastSample(x)' = LastSample(x) /\ BatchSample(x)' = BatchSample(x)
  BY SamePending, ZenonT(30)
<1>4. Batched = {} /\ batch.kind = "none" /\ batch.chunked = NoReq /\ batch.decoding = {}
  BY NoBatchFacts, ZenonT(30) DEF PlaceInv, Places
<1>5. chunked \in Reqs \cup {NoReq}
  BY ZenonT(30) DEF PlaceInv, PlaceTypes
<1>6. ChunkFollowed' /\ PrefillApart'
  BY <1>1, <1>3, <1>4, ZenonT(30) DEF OrderInv, ChunkFollowed, PrefillApart
<1>7. ChunksLive'
  BY <1>1, <1>2, <1>3, <1>4, <1>5, ReqsAssumption, ZenonT(30) DEF OrderInv, ChunksLive, BatchChunk
<1>8. Filled'
  BY <1>1, <1>2, <1>5, ZenonT(30) DEF Filled
<1>9. CommittedTokens'
  BY <1>2, <1>3, ZenonT(30) DEF OrderInv, CommittedTokens, Decodes
<1> QED
  BY <1>2, <1>6, <1>7, <1>8, <1>9, ZenonT(30) DEF OrderInv

LEMMA AdmitOrder ==
    ASSUME PlaceInv, OrderInv, ~Preemption, NEW r \in Reqs, Admit(r)
    PROVE  OrderInv'
<1> /\ Loc = "prefill" /\ Loc' = "prefill" /\ r \in waiting
    /\ KeepsReqs({r}) /\ KeepsFill({r}) /\ KeepsChunks({})
    /\ UNCHANGED <<conf, waiting, running, chunked, batch, last, queue, next>>
    /\ chunked = NoReq /\ adder.new_chunked = NoReq
  BY ZenonT(30) DEF Admit
<1> Running' = Running
  BY ZenonT(30) DEF Running
<1>1. /\ Admitted' = Admitted \cup {r} /\ Admitted \subseteq Reqs
      /\ adder'.new_chunked = r \/ (adder'.new_chunked = NoReq /\ req'[r].fill = NumTokens(r))
  <2>1. adder.can_run \in Seq(Reqs) /\ adder'.can_run = Append(adder.can_run, r)
    BY ZenonT(30) DEF PlaceInv, PlaceTypes, Admit
  <2>2. Admitted' = Admitted \cup {r} /\ Admitted \subseteq Reqs
    BY <2>1, RangeAppend, RangeFacts DEF Admitted
  <2> QED
    BY <2>2, ZenonT(30) DEF Admit
<1>2. /\ ~Preemption' /\ ChunksCounted' /\ SampledAfter'
      /\ \A x \in Reqs : /\ Fresh(x)' = Fresh(x) /\ Finished(x)' = Finished(x)
                         /\ NumTokens(x)' = NumTokens(x) /\ req'[x].committed = req[x].committed
                         /\ req'[x].is_retracted = req[x].is_retracted
  BY QuietOrder, ZenonT(30)
<1>3. /\ Merging' = Merging /\ Batched' = Batched
      /\ \A x \in Reqs : /\ LastChunk(x)' = LastChunk(x) /\ BatchChunk(x)' = BatchChunk(x)
                         /\ LastSample(x)' = LastSample(x) /\ BatchSample(x)' = BatchSample(x)
  BY SamePending, ZenonT(30)
<1>4. Batched = {} /\ batch.kind = "none" /\ batch.chunked = NoReq /\ batch.decoding = {}
  BY NoBatchFacts, ZenonT(30) DEF PlaceInv, Places
<1>5. ~Finished(r)
  BY ZenonT(30) DEF PlaceInv, Queued
<1>6. ChunkFollowed' /\ PrefillApart'
  BY <1>1, <1>3, <1>4, ZenonT(30) DEF OrderInv, ChunkFollowed, PrefillApart
<1>7. ChunksLive'
  BY <1>1, <1>2, <1>3, <1>4, <1>5, ReqsAssumption, ZenonT(30) DEF OrderInv, ChunksLive, BatchChunk
<1>8. Filled'
  BY <1>1, <1>2, ReqsAssumption, ZenonT(30) DEF OrderInv, Filled, KeepsFill
<1>9. CommittedTokens'
  BY <1>2, <1>3, ZenonT(30) DEF OrderInv, CommittedTokens, Decodes
<1> QED
  BY <1>2, <1>6, <1>7, <1>8, <1>9, ZenonT(30) DEF OrderInv

LEMMA GiveUpOrder ==
    ASSUME PlaceInv, OrderInv, ~Preemption, GiveUp
    PROVE  OrderInv'
<1> /\ Loc = "prefill" /\ Loc' = "decode" /\ adder.can_run = <<>> /\ adder' = NoAdder
    /\ UNCHANGED <<conf, req, waiting, running, chunked, batch, last, queue, next>>
  BY ZenonT(30) DEF GiveUp
<1> /\ Running' = Running /\ Admitted = {} /\ Admitted' = {} /\ adder'.new_chunked = NoReq
  BY EmptyFacts, ZenonT(30) DEF Running, Admitted
<1>1. KeepsReqs({}) /\ KeepsChunks({})
  BY ZenonT(30) DEF PlaceInv, ReqTypes, KeepsReqs, KeepsChunks, SameReq
<1>2. /\ ~Preemption' /\ ChunksCounted' /\ SampledAfter'
      /\ \A x \in Reqs : /\ Fresh(x)' = Fresh(x) /\ Finished(x)' = Finished(x)
                         /\ NumTokens(x)' = NumTokens(x)
  BY <1>1, QuietOrder, ZenonT(30)
<1>3. /\ Merging' = Merging /\ Batched' = Batched
      /\ \A x \in Reqs : /\ LastChunk(x)' = LastChunk(x) /\ BatchChunk(x)' = BatchChunk(x)
                         /\ LastSample(x)' = LastSample(x) /\ BatchSample(x)' = BatchSample(x)
  BY SamePending, ZenonT(30)
<1>4. ChunkFollowed' /\ PrefillApart' /\ Filled'
  BY <1>3, ZenonT(30) DEF OrderInv, ChunkFollowed, PrefillApart, Filled
<1>5. ChunksLive'
  <2>1. batch.chunked = NoReq
    BY NoBatchFacts, ZenonT(30) DEF PlaceInv, Places
  <2> QED
    BY <1>2, <1>3, <2>1, ReqsAssumption, ZenonT(30) DEF OrderInv, ChunksLive, BatchChunk, Finished
<1>6. CommittedTokens'
  BY <1>2, <1>3, ZenonT(30) DEF OrderInv, CommittedTokens, Decodes
<1> QED
  BY <1>2, <1>4, <1>5, <1>6, ZenonT(30) DEF OrderInv

LEMMA BuildOrder ==
    ASSUME PlaceInv, OrderInv, ~Preemption, Build
    PROVE  OrderInv'
<1> DEFINE c == IF adder.new_chunked # NoReq THEN adder.new_chunked ELSE chunked
<1>1. /\ Loc = "prefill" /\ Loc' = "extend" /\ KeepsReqs({}) /\ KeepsFill({}) /\ KeepsChunks({c})
      /\ chunked' = c /\ (c # NoReq => req'[c].is_chunked = req[c].is_chunked + 1)
      /\ batch' = [NoBatch EXCEPT !.kind = "extend", !.reqs = adder.can_run, !.chunked = c]
      /\ adder' = NoAdder
      /\ UNCHANGED <<conf, running, last, queue, next>>
  BY ZenonT(30) DEF Build
<1>2. Running' = Running /\ Merging' = Merging /\ Admitted' = {} /\ adder'.new_chunked = NoReq /\ ~Preemption'
  BY <1>1, EmptyFacts, ZenonT(30) DEF Running, Merging, Admitted, Preemption
<1>3. /\ batch'.kind = "extend" /\ batch'.chunked = c /\ batch'.decoding = {} /\ Batched' = Admitted
  BY <1>1, ZenonT(30) DEF NoBatch, Batched, Admitted
<1>4. /\ adder.new_chunked # NoReq => chunked = NoReq
      /\ \A x \in Admitted : x = c \/ req[x].fill = NumTokens(x)
      /\ Admitted \subseteq Reqs /\ c \in Admitted \cup {NoReq}
  <2>1. Admitted \subseteq Reqs
    BY RangeFacts, ZenonT(30) DEF PlaceInv, PlaceTypes, Admitted
  <2>2. c \in Admitted \cup {NoReq}
    BY <1>1, ZenonT(30) DEF PlaceInv, ChunkedPlace, Admitting
  <2> QED
    BY <2>1, <2>2, ReqsAssumption, ZenonT(30) DEF OrderInv, Filled
<1> HIDE DEF c
<1>5. batch.chunked = NoReq
  BY <1>1, NoBatchFacts, ZenonT(30) DEF PlaceInv, Places
<1>6. \A x \in Reqs : /\ Fresh(x)' = Fresh(x) /\ Finished(x)' = Finished(x)
                      /\ NumTokens(x)' = NumTokens(x) /\ req'[x].committed = req[x].committed
                      /\ req'[x].is_retracted = req[x].is_retracted /\ req'[x].fill = req[x].fill
                      /\ x # c => req'[x].is_chunked = req[x].is_chunked
  BY <1>1, ZenonT(30) DEF KeepsReqs, KeepsChunks, KeepsFill, SameReq, Fresh, Finished, NumTokens
<1>7. OfLast' = OfLast /\ OfBatch = {} /\ OfBatch' = {}
  BY <1>1, ZenonT(30) DEF OfLast, OfBatch, FromLast, FromBatch, Rest, Overlap
<1>8. \A x \in Reqs : /\ LastChunk(x)' = LastChunk(x) /\ LastSample(x)' = LastSample(x)
                      /\ ~BatchChunk(x) /\ (BatchChunk(x)' <=> x = c)
                      /\ x # c => BatchChunk(x)' = BatchChunk(x)
                      /\ BatchSample(x)' = BatchSample(x)
  BY <1>1, <1>3, <1>5, <1>7, ReqsAssumption, ZenonT(30) DEF LastChunk, LastSample, BatchChunk, BatchSample
<1>9. ChunksCounted'
  <2> SUFFICES ASSUME NEW x \in Reqs
               PROVE  req'[x].is_chunked = One(LastChunk(x)') + One(BatchChunk(x)')
    BY ZenonT(30) DEF ChunksCounted
  <2>1. req[x].is_chunked = One(LastChunk(x)) + One(BatchChunk(x))
    BY ZenonT(30) DEF OrderInv, ChunksCounted
  <2>2. One(LastChunk(x)) \in Int /\ One(BatchChunk(x)) = 0
    BY <1>8 DEF One
  <2>3. CASE x = c
    <3>1. One(BatchChunk(x)') = 1 /\ req'[x].is_chunked = req[x].is_chunked + 1
      BY <1>1, <1>8, <2>3, ReqsAssumption, ZenonT(30) DEF One
    <3> QED
      BY <1>8, <2>1, <2>2, <3>1
  <2>4. CASE x # c
    BY <1>6, <1>8, <2>1, <2>4, ZenonT(30)
  <2> QED
    BY <2>3, <2>4, ZenonT(30)
<1>10. ChunkFollowed' /\ PrefillApart'
  BY <1>1, <1>2, <1>3, ZenonT(30) DEF OrderInv, ChunkFollowed, PrefillApart
<1>11. ChunksLive'
  BY <1>1, <1>2, <1>3, <1>4, <1>6, <1>8, ZenonT(30) DEF OrderInv, ChunksLive
<1>12. Filled'
  BY <1>1, <1>2, <1>3, <1>4, <1>6, ZenonT(30) DEF Filled
<1>13. CommittedTokens'
  <2>1. \A x \in Reqs : Decodes(x)' => Decodes(x)
    BY <1>1, <1>2, ZenonT(30) DEF Decodes
  <2> QED
    BY <1>6, <1>8, <2>1, ZenonT(30) DEF OrderInv, CommittedTokens
<1>14. SampledAfter'
  BY <1>1, <1>6, <1>8, ZenonT(30) DEF OrderInv, SampledAfter
<1> QED
  BY <1>2, <1>9, <1>10, <1>11, <1>12, <1>13, <1>14, ZenonT(30) DEF OrderInv

-----------------------------------------------------------------------------
(* The order of results, in launches.                                      *)

\* Prompts do not change, so lengths are numbers.
LEMMA OriginsStep ==
    ASSUME PlaceInv, Origins, [FlowNext]_flow
    PROVE  Origins'
<1>1. ASSUME NEW r \in Reqs PROVE req'[r].origin = req[r].origin
  <2>1. ASSUME NEW x \in Reqs, Receive(x) \/ Abort(x) \/ Admit(x) PROVE req'[r].origin = req[r].origin
    BY <2>1, ZenonT(30) DEF Receive, Abort, Admit, ChangesOnly, KeepsReqs, SameReq
  <2>2. CASE Merge \/ Proceed \/ Start \/ ChooseVictims \/ GiveUp \/ Filter \/ EndOfIteration
    BY <2>2, ZenonT(30) DEF Merge, Proceed, Start, ChooseVictims, GiveUp, Filter, EndOfIteration,
                            KeepsReqs, SameReq
  <2>3. CASE PreemptVictim \/ RetractRunning \/ GiveUpLast
    BY <2>3, ZenonT(30) DEF PreemptVictim, RetractRunning, GiveUpLast, Resets, ChangesOnly
  <2>4. CASE Build
    BY <2>4, ZenonT(30) DEF Build, KeepsReqs, SameReq
  <2>5. CASE ExtendBatch
    BY <2>5, ZenonT(30) DEF ExtendBatch, Grows
  <2>6. CASE DecodeBatch
    BY <2>6, ZenonT(30) DEF DecodeBatch, Grows
  <2>7. CASE ProcessNext
    BY <2>7, ZenonT(30) DEF ProcessNext, ChunkDone, Output, Resets, ChangesOnly
  <2>8. CASE UNCHANGED flow
    BY <2>8, ZenonT(30) DEF flow
  <2> QED
    BY <2>1, <2>2, <2>3, <2>4, <2>5, <2>6, <2>7, <2>8, ZenonT(30) DEF FlowNext
<1>2. conf' = conf
  BY ZenonT(30)
  DEF FlowNext, Receive, Abort, Admit, Merge, Proceed, Start, ChooseVictims, PreemptVictim, GiveUp,
      Build, ExtendBatch, Filter, RetractRunning, GiveUpLast, DecodeBatch, ProcessNext,
      EndOfIteration, flow
<1> QED
  BY <1>1, <1>2, ZenonT(30) DEF Origins, Prompts

LEMMA PromptLength ==
    ASSUME PlaceInv, Origins, NEW r \in Reqs
    PROVE  Len(req[r].origin) \in Nat
<1>1. CASE req[r].origin = <<>>
  BY <1>1
<1>2. CASE req[r].origin \in Prompts
  <2>1. req[r].origin \in Seq(Range(req[r].origin))
    BY <1>2, ConfigsAssumption, ZenonT(30) DEF PlaceInv, PlaceTypes, Prompts
  <2> QED
    BY <2>1
<1> QED
  BY <1>1, <1>2, ZenonT(30) DEF Origins

LEMMA NumTokensType ==
    ASSUME PlaceInv, Origins
    PROVE  \A r \in Reqs : NumTokens(r) \in Nat
<1> SUFFICES ASSUME NEW r \in Reqs PROVE NumTokens(r) \in Nat
  BY ZenonT(30)
<1> DEFINE o == Len(req[r].origin)
           p == Len(req[r].output)
<1>1. p \in Nat
  BY DEF PlaceInv, ReqTypes
<1>2. NumTokens(r) = o + p /\ o \in Nat
  BY PromptLength, ZenonT(30) DEF NumTokens
<1> HIDE DEF o, p
<1> QED
  BY <1>1, <1>2

\* Without a batch only results of the last one are to come.
LEMMA PendingWithoutBatch ==
    ASSUME batch = NoBatch, UNCHANGED <<conf, batch, last, next>>
    PROVE  /\ Merging' = Merging /\ Batched' = {} /\ batch.chunked = NoReq /\ batch.kind = "none"
           /\ batch.decoding = {}
           /\ \A r \in Reqs : /\ LastChunk(r)' = LastChunk(r) /\ BatchChunk(r)' = BatchChunk(r)
                              /\ LastSample(r)' = LastSample(r) /\ BatchSample(r)' = BatchSample(r)
                              /\ ~BatchChunk(r) /\ ~BatchSample(r)
<1>1. Batched = {} /\ batch.kind = "none" /\ batch.chunked = NoReq /\ batch.decoding = {}
  BY NoBatchFacts, ZenonT(30)
<1>2. Merging' = Merging /\ Batched' = Batched /\ Rest(last.reqs)' = Rest(last.reqs)
  BY ZenonT(30) DEF Merging, Batched, Rest
<1>3. FromLast' = FromLast /\ ~FromBatch /\ ~FromBatch'
  BY <1>1, ZenonT(30) DEF FromLast, FromBatch, Overlap
<1>4. OfLast' = OfLast /\ OfBatch = {} /\ OfBatch' = {}
  BY <1>2, <1>3, ZenonT(30) DEF OfLast, OfBatch
<1> QED
  BY <1>1, <1>2, <1>4, ReqsAssumption, ZenonT(30) DEF LastChunk, BatchChunk, LastSample, BatchSample

\* A launch adds the results of batch b after those of the last one.
LEMMA LaunchPending ==
    ASSUME PlaceInv, Loc \in {"extend", "decode_alloc"}, UNCHANGED <<conf, last, next>>,
           NEW b, DOMAIN b = BatchFields, b.kind \in {"extend", "decode"}, b.reqs \in Seq(Reqs), Launches(b)
    PROVE  /\ batch' = b /\ Loc' = "process" /\ Batched' = Range(b.reqs) /\ Merging' = Merging
           /\ OfBatch = {} /\ OfBatch' = Range(b.reqs) /\ OfLast' = OfLast /\ OfLast \subseteq Merging
           /\ FromLast => queue'[1] = queue[1]
           /\ \A r \in Range(b.reqs) : queue'[Len(queue')].upto[r] = req'[r].committed
<1>1. batch' = b /\ Loc' = "process" /\ Batched' = Range(b.reqs) /\ Merging' = Merging
  BY ZenonT(30) DEF Launches, Batched, Merging
<1>2. next = 1 /\ Loc # "process"
  BY ZenonT(30) DEF PlaceInv, Places
<1>3. Rest(last.reqs) = Merging /\ Rest(last.reqs)' = Rest(last.reqs) /\ Rest(b.reqs)' = Range(b.reqs)
  <2>1. ASSUME NEW s \in Seq(Reqs) PROVE {s[i] : i \in 1 .. Len(s)} = Range(s)
    BY DEF Range
  <2>2. last.reqs \in Seq(Reqs)
    BY ZenonT(30) DEF PlaceInv, PlaceTypes
  <2> QED
    BY <1>2, <2>1, <2>2, ZenonT(30) DEF Rest, Merging
<1>4. FromLast' = FromLast /\ ~FromBatch /\ FromBatch'
  BY <1>1, <1>2, ZenonT(30) DEF FromLast, FromBatch, Overlap
<1>5. OfLast' = OfLast /\ OfBatch = {} /\ OfBatch' = Range(b.reqs) /\ OfLast \subseteq Merging
  BY <1>1, <1>3, <1>4, ZenonT(30) DEF OfLast, OfBatch
<1>6. PICK out \in [Range(b.reqs) -> Tokens] :
        queue' = Append(queue, [b EXCEPT !.out = out, !.upto = [r \in DOMAIN out |-> req'[r].committed]])
  BY ZenonT(30) DEF Launches
<1> DEFINE e == [b EXCEPT !.out = out, !.upto = [r \in DOMAIN out |-> req'[r].committed]]
<1>7. \A r \in Range(b.reqs) : e.upto[r] = req'[r].committed
  BY ZenonT(30) DEF BatchFields
<1>8. queue' = Append(queue, e)
  BY <1>6, ZenonT(30)
<1> HIDE DEF e
<1>9. CASE FromLast
  <2>1. queue = <<queue[1]>>
    BY <1>4, <1>9, ZenonT(30) DEF PlaceInv, Results
  <2>2. queue' = <<queue[1], e>>
    BY <1>8, <2>1, AppendTwo, ZenonT(30)
  <2>3. queue'[1] = queue[1] /\ queue'[Len(queue')] = e
    BY <2>2, ZenonT(30)
  <2> QED
    BY <1>1, <1>5, <1>7, <2>3, ZenonT(30)
<1>10. CASE ~FromLast
  <2>1. queue = <<>>
    BY <1>4, <1>10, ZenonT(30) DEF PlaceInv, Results
  <2>2. queue' = <<e>>
    BY <1>8, <2>1
  <2>3. queue'[Len(queue')] = e
    BY <2>2, ZenonT(30)
  <2> QED
    BY <1>1, <1>5, <1>7, <1>10, <2>3, ZenonT(30)
<1> QED
  BY <1>9, <1>10, ZenonT(30)

LEMMA FilterOrder ==
    ASSUME PlaceInv, OrderInv, ~Preemption, Filter
    PROVE  OrderInv'
<1> /\ Loc = "decode" /\ Loc' \in {"process", "check"} /\ Running' = Live(Running)
    /\ UNCHANGED <<conf, req, waiting, chunked, batch, last, queue, next, adder>>
  BY ZenonT(30) DEF Filter, Lists, Running
<1> batch = NoBatch
  BY ZenonT(30) DEF PlaceInv, Places
<1> Admitted' = Admitted /\ ~Preemption'
  BY ZenonT(30) DEF Admitted, Preemption
<1>1. /\ Merging' = Merging /\ Batched' = {} /\ batch.chunked = NoReq /\ batch.kind = "none"
      /\ batch.decoding = {}
      /\ \A r \in Reqs : /\ LastChunk(r)' = LastChunk(r) /\ BatchChunk(r)' = BatchChunk(r)
                         /\ LastSample(r)' = LastSample(r) /\ BatchSample(r)' = BatchSample(r)
                         /\ ~BatchChunk(r) /\ ~BatchSample(r)
  BY PendingWithoutBatch, ZenonT(30)
<1>2. chunked = NoReq
  BY <1>1, ZenonT(30) DEF PlaceInv, ChunkedPlace
<1>3. \A x \in Reqs : /\ Fresh(x)' = Fresh(x) /\ Finished(x)' = Finished(x)
                      /\ NumTokens(x)' = NumTokens(x)
  BY ZenonT(30) DEF Fresh, Finished, NumTokens
<1>4. ChunksCounted' /\ SampledAfter'
  BY <1>1, <1>3, ZenonT(30) DEF OrderInv, ChunksCounted, SampledAfter
<1>5. ChunkFollowed' /\ PrefillApart'
  BY <1>1, <1>2, ZenonT(30) DEF OrderInv, ChunkFollowed, PrefillApart
<1>6. ChunksLive' /\ Filled'
  BY <1>1, <1>2, <1>3, ZenonT(30) DEF OrderInv, ChunksLive, Filled, Finished, NumTokens
<1>7. CommittedTokens'
  BY <1>1, <1>3, ZenonT(30) DEF OrderInv, CommittedTokens, Decodes, Live
<1> QED
  BY <1>4, <1>5, <1>6, <1>7, ZenonT(30) DEF OrderInv

LEMMA RetractRunningOrder ==
    ASSUME PlaceInv, OrderInv, ~Preemption, RetractRunning
    PROVE  OrderInv'
<1> /\ Loc = "checked" /\ Loc' = "check"
    /\ UNCHANGED <<conf, chunked, batch, last, queue, next, adder>>
  BY ZenonT(30) DEF RetractRunning
<1>1. PICK v \in Running : /\ Lists(running', Running \ {v})
                           /\ Resets(v) /\ req'[v].output = req[v].output
                           /\ req'[v].is_retracted = TRUE /\ req'[v].finished = FALSE
  BY ZenonT(30) DEF RetractRunning
<1>2. v \in Reqs /\ Running' = Running \ {v}
  BY <1>1, RangeFacts, ZenonT(30) DEF PlaceInv, PlaceTypes, Running, Lists
<1> batch = NoBatch
  BY ZenonT(30) DEF PlaceInv, Places
<1> Admitted' = Admitted /\ Admitted = {} /\ ~Preemption'
  BY NoAdderFacts, ZenonT(30) DEF Admitted, Preemption, PlaceInv, Admitting
<1>3. /\ Merging' = Merging /\ Batched' = {} /\ batch.chunked = NoReq /\ batch.kind = "none"
      /\ batch.decoding = {}
      /\ \A r \in Reqs : /\ LastChunk(r)' = LastChunk(r) /\ BatchChunk(r)' = BatchChunk(r)
                         /\ LastSample(r)' = LastSample(r) /\ BatchSample(r)' = BatchSample(r)
                         /\ ~BatchChunk(r) /\ ~BatchSample(r)
  BY PendingWithoutBatch, ZenonT(30)
<1>4. chunked = NoReq /\ last.chunked = NoReq
  BY <1>3, ZenonT(30) DEF PlaceInv, ChunkedPlace, OrderInv, ChunkFollowed
<1>5. \A x \in Reqs : ~LastChunk(x)
  BY <1>4, ReqsAssumption, ZenonT(30) DEF LastChunk
<1>6. /\ \A x \in Reqs \ {v} : req'[x] = req[x]
      /\ req'[v].is_chunked = 0 /\ ~Fresh(v)'
  BY <1>1, ZenonT(30) DEF Resets, ChangesOnly, Fresh
<1>7. ChunksCounted'
  BY <1>3, <1>5, <1>6 DEF OrderInv, ChunksCounted, One
<1>8. ChunkFollowed' /\ PrefillApart'
  BY <1>3, <1>4, ZenonT(30) DEF OrderInv, ChunkFollowed, PrefillApart
<1>9. ChunksLive' /\ Filled'
  BY <1>3, <1>4, <1>5, ZenonT(30) DEF OrderInv, ChunksLive, Filled
<1>10. CommittedTokens'
  BY <1>2, <1>3, <1>6, ZenonT(30) DEF OrderInv, CommittedTokens, Decodes, Finished, NumTokens
<1>11. SampledAfter'
  BY <1>3, <1>6, ZenonT(30) DEF OrderInv, SampledAfter, Fresh, Finished, NumTokens
<1> QED
  BY <1>7, <1>8, <1>9, <1>10, <1>11, ZenonT(30) DEF OrderInv

LEMMA GiveUpLastOrder ==
    ASSUME PlaceInv, OrderInv, ~Preemption, GiveUpLast
    PROVE  OrderInv'
<1>0. /\ Loc = "checked" /\ Loc' = "process" /\ running' = <<>>
      /\ UNCHANGED <<conf, waiting, chunked, batch, last, queue, next, adder>>
  BY ZenonT(30) DEF GiveUpLast
<1>1. PICK v \in Reqs : Resets(v) /\ req'[v].is_retracted = TRUE /\ req'[v].finished = TRUE
  <2>1. running \in Seq(Reqs) /\ Len(running) = 1
    BY ZenonT(30) DEF PlaceInv, PlaceTypes, GiveUpLast
  <2>2. running[1] \in Reqs
    BY <2>1
  <2> QED
    BY <2>2, ZenonT(30) DEF GiveUpLast
<1>2. batch = NoBatch
  BY <1>0, ZenonT(30) DEF PlaceInv, Places
<1>3. Admitted' = Admitted /\ Admitted = {} /\ ~Preemption' /\ Running' = {}
  BY <1>0, NoAdderFacts, RangeOne, ZenonT(30) DEF Admitted, Preemption, PlaceInv, Admitting, Running
<1>4. /\ Merging' = Merging /\ Batched' = {} /\ batch.chunked = NoReq /\ batch.kind = "none"
      /\ batch.decoding = {}
      /\ \A r \in Reqs : /\ LastChunk(r)' = LastChunk(r) /\ BatchChunk(r)' = BatchChunk(r)
                         /\ LastSample(r)' = LastSample(r) /\ BatchSample(r)' = BatchSample(r)
                         /\ ~BatchChunk(r) /\ ~BatchSample(r)
  BY <1>0, <1>2, PendingWithoutBatch, ZenonT(30)
<1>5. chunked = NoReq /\ last.chunked = NoReq
  BY <1>0, <1>4, ZenonT(30) DEF PlaceInv, ChunkedPlace, OrderInv, ChunkFollowed
<1>6. \A x \in Reqs : ~LastChunk(x)
  BY <1>5, ReqsAssumption, ZenonT(30) DEF LastChunk
<1>7. /\ \A x \in Reqs \ {v} : req'[x] = req[x]
      /\ req'[v].is_chunked = 0 /\ ~Fresh(v)'
  BY <1>1, ZenonT(30) DEF Resets, ChangesOnly, Fresh
<1>8. ChunksCounted'
  BY <1>4, <1>6, <1>7 DEF OrderInv, ChunksCounted, One
<1>9. ChunkFollowed' /\ PrefillApart'
  BY <1>0, <1>3, <1>4, <1>5, ZenonT(30) DEF OrderInv, ChunkFollowed, PrefillApart
<1>10. ChunksLive' /\ Filled'
  BY <1>0, <1>3, <1>4, <1>5, <1>6, ZenonT(30) DEF OrderInv, ChunksLive, Filled
<1>11. CommittedTokens'
  BY <1>0, <1>3, <1>4, ZenonT(30) DEF CommittedTokens, Decodes
<1>12. SampledAfter'
  BY <1>0, <1>4, <1>7, ZenonT(30) DEF OrderInv, SampledAfter, Fresh, Finished, NumTokens
<1> QED
  BY <1>3, <1>8, <1>9, <1>10, <1>11, <1>12, ZenonT(30) DEF OrderInv

LEMMA ExtendBatchOrder ==
    ASSUME PlaceInv, PlaceInv', Origins, OrderInv, ~Preemption, ExtendBatch
    PROVE  OrderInv'
<1> /\ Loc = "extend" /\ Grows(batch.reqs, [r \in Reqs |-> req[r].fill])
    /\ UNCHANGED <<conf, waiting, chunked, last, next, adder>>
  BY ZenonT(30) DEF ExtendBatch
<1>1. /\ Batched \subseteq Reqs /\ batch.reqs \in Seq(Reqs) /\ batch.kind = "extend"
      /\ DOMAIN batch = BatchFields /\ batch.chunked = chunked /\ batch.decoding = {}
      /\ Batched \cap Running = {} /\ chunked \in Batched \cup {NoReq}
  BY RangeFacts, ZenonT(30) DEF PlaceInv, PlaceTypes, Places, Apart, ChunkedPlace, Batched, OrderInv, PrefillApart
<1>2. Running' \subseteq Running /\ Admitted' = {} /\ ~Preemption' /\ adder'.new_chunked = NoReq
  <2>1. Running' \subseteq Running
    BY ZenonT(30) DEF ExtendBatch, Lists, Live, Running
  <2> QED
    BY <2>1, NoAdderFacts, ZenonT(30) DEF PlaceInv, Admitting, Admitted, Preemption
<1>3. /\ \A x \in Reqs \ Batched : req'[x] = req[x]
      /\ \A x \in Batched : /\ req'[x].committed = req[x].fill /\ req'[x].is_retracted = FALSE
  BY <1>1, ZenonT(30) DEF Grows, Batched
<1>4. \A x \in Reqs : /\ NumTokens(x)' = NumTokens(x) /\ Finished(x)' = Finished(x)
                      /\ req'[x].is_chunked = req[x].is_chunked
                      /\ Fresh(x) => Fresh(x)'
                      /\ x \in Batched => Fresh(x)' /\ ~Finished(x)
  <2>1. \A x \in Batched : ~Finished(x)
    BY ZenonT(30) DEF OrderInv, ChunksLive
  <2> QED
    BY <1>1, <1>3, <2>1, ZenonT(30) DEF Grows, NumTokens, Finished, Fresh, Batched
<1>5. \A x \in Batched : x = chunked \/ req'[x].committed = NumTokens(x)
  BY <1>3, ZenonT(30) DEF OrderInv, Filled
<1>6. \A x \in Batched : ~LastSample(x)
  <2>1. OfLast \subseteq Merging
    <3>1. next = 1 /\ last.reqs \in Seq(Reqs)
      BY ZenonT(30) DEF PlaceInv, PlaceTypes, Places
    <3> QED
      BY <3>1 DEF OfLast, Rest, Merging, Range
  <2> QED
    BY <1>1, <2>1, ZenonT(30) DEF OrderInv, PrefillApart, LastSample
<1>7. CASE UNCHANGED <<batch, queue>> /\ Loc' = "decode_alloc"
  <2>1. /\ Merging' = Merging /\ Batched' = Batched
        /\ \A x \in Reqs : /\ LastChunk(x)' = LastChunk(x) /\ BatchChunk(x)' = BatchChunk(x)
                           /\ LastSample(x)' = LastSample(x) /\ BatchSample(x)' = BatchSample(x)
    BY <1>7, SamePending, ZenonT(30)
  <2>2. ChunksCounted'
    BY <1>4, <2>1, ZenonT(30) DEF OrderInv, ChunksCounted
  <2>3. ChunkFollowed' /\ PrefillApart'
    BY <1>1, <1>2, <1>7, <2>1, ZenonT(30) DEF OrderInv, ChunkFollowed, PrefillApart
  <2>4. ChunksLive'
    BY <1>1, <1>2, <1>4, <1>7, <2>1, ReqsAssumption, ZenonT(30) DEF OrderInv, ChunksLive, BatchChunk
  <2>5. Filled'
    BY <1>1, <1>2, <1>4, <1>5, <1>7, <2>1, ZenonT(30) DEF Filled
  <2>6. CommittedTokens'
    BY <1>1, <1>2, <1>3, <1>4, <1>7, <2>1, ZenonT(30) DEF OrderInv, CommittedTokens, Decodes
  <2>7. SampledAfter'
    <3>1. \A x \in Reqs : ~BatchSample(x)'
      BY <1>7, ZenonT(30) DEF BatchSample, OfBatch, FromBatch
    <3>2. \A x \in Reqs \ Batched : Fresh(x)' = Fresh(x)
      BY <1>3, ZenonT(30) DEF Fresh, Finished
    <3> QED
      BY <1>4, <1>6, <1>7, <2>1, <3>1, <3>2, ZenonT(30) DEF OrderInv, SampledAfter
  <2> QED
    BY <1>2, <2>2, <2>3, <2>4, <2>5, <2>6, <2>7, ZenonT(30) DEF OrderInv
<1>8. CASE Launches(batch)
  <2>1. /\ batch' = batch /\ Loc' = "process" /\ Batched' = Batched /\ Merging' = Merging
        /\ OfBatch = {} /\ OfBatch' = Batched /\ OfLast' = OfLast /\ OfLast \subseteq Merging
        /\ FromLast => queue'[1] = queue[1]
        /\ \A x \in Batched : queue'[Len(queue')].upto[x] = req'[x].committed
    BY <1>1, <1>8, LaunchPending, ZenonT(30) DEF Batched
  <2>2. \A x \in Reqs : /\ LastChunk(x)' = LastChunk(x) /\ BatchChunk(x)' = BatchChunk(x)
                        /\ LastSample(x)' = LastSample(x) /\ ~BatchSample(x)
                        /\ BatchSample(x)' <=> x \in Batched /\ x # chunked
    BY <1>1, <2>1, ReqsAssumption, ZenonT(30) DEF LastChunk, BatchChunk, LastSample, BatchSample
  <2>3. ChunksCounted'
    BY <1>4, <2>2, ZenonT(30) DEF OrderInv, ChunksCounted
  <2>4. ChunkFollowed' /\ PrefillApart'
    BY <1>1, <1>2, <2>1, ZenonT(30) DEF OrderInv, ChunkFollowed, PrefillApart
  <2>5. ChunksLive'
    BY <1>1, <1>2, <1>4, <2>1, <2>2, ReqsAssumption, ZenonT(30) DEF OrderInv, ChunksLive, BatchChunk
  <2>6. Filled'
    BY <1>2, <2>1, ZenonT(30) DEF Filled
  <2>7. CommittedTokens'
    <3> SUFFICES ASSUME NEW x \in Reqs, Decodes(x)', ~Finished(x)'
                 PROVE  /\ ~req'[x].is_retracted
                        /\ req'[x].committed = NumTokens(x)' - 1 + One(LastSample(x)') + One(BatchSample(x)')
      BY ZenonT(30) DEF CommittedTokens
    <3>1. x \in Running' \/ (x \in Batched /\ x # chunked)
      BY <2>1, ZenonT(30) DEF Decodes
    <3>2. CASE x \in Running'
      <4>1. x \in Running /\ x \notin Batched
        BY <1>1, <1>2, <3>2, ZenonT(30)
      <4>2. req'[x] = req[x] /\ BatchSample(x)' = BatchSample(x)
        <5>1. ~BatchSample(x)' /\ ~BatchSample(x)
          BY <2>2, <4>1, ZenonT(30)
        <5>2. BatchSample(x) \in BOOLEAN /\ BatchSample(x)' \in BOOLEAN
          BY ZenonT(30) DEF BatchSample
        <5> QED
          BY <1>3, <4>1, <5>1, <5>2, ZenonT(30)
      <4>3. /\ ~req[x].is_retracted
            /\ req[x].committed = NumTokens(x) - 1 + One(LastSample(x)) + One(BatchSample(x))
        BY <1>4, <4>1, ZenonT(30) DEF OrderInv, CommittedTokens, Decodes
      <4> QED
        BY <1>4, <2>2, <4>2, <4>3, ZenonT(30)
    <3>3. CASE x \in Batched /\ x # chunked
      <4>1. One(LastSample(x)') = 0 /\ One(BatchSample(x)') = 1
        BY <1>6, <2>2, <3>3, ZenonT(30) DEF One
      <4>2. req'[x].committed = NumTokens(x) /\ req'[x].is_retracted = FALSE
        BY <1>3, <1>5, <3>3, ZenonT(30)
      <4>3. NumTokens(x) \in Nat /\ NumTokens(x)' = NumTokens(x)
        BY <1>4, NumTokensType, ZenonT(30)
      <4> QED
        BY <4>1, <4>2, <4>3
    <3> QED
      BY <3>1, <3>2, <3>3, ZenonT(30)
  <2>8. SampledAfter'
    <3> SUFFICES ASSUME NEW x \in Reqs, Fresh(x)'
                 PROVE  /\ LastSample(x)' => queue'[1].upto[x] = NumTokens(x)'
                        /\ BatchSample(x)' =>
                             queue'[Len(queue')].upto[x] = NumTokens(x)' + One(LastSample(x)')
      BY ZenonT(30) DEF SampledAfter
    <3>1. ASSUME LastSample(x)' PROVE queue'[1].upto[x] = NumTokens(x)'
      <4>1. x \notin Batched /\ FromLast /\ LastSample(x)
        BY <1>6, <2>2, <3>1, ZenonT(30) DEF LastSample, OfLast
      <4>2. Fresh(x)
        BY <1>3, <4>1, ZenonT(30) DEF Fresh, Finished
      <4> QED
        BY <1>4, <2>1, <4>1, <4>2, ZenonT(30) DEF OrderInv, SampledAfter
    <3>2. ASSUME BatchSample(x)' PROVE queue'[Len(queue')].upto[x] = NumTokens(x)' + One(LastSample(x)')
      <4>1. x \in Batched /\ x # chunked /\ One(LastSample(x)') = 0
        BY <1>6, <2>2, <3>2, ZenonT(30) DEF One
      <4>2. NumTokens(x) \in Nat /\ NumTokens(x)' = NumTokens(x)
        BY <1>4, NumTokensType, ZenonT(30)
      <4> QED
        BY <1>5, <2>1, <4>1, <4>2
    <3> QED
      BY <3>1, <3>2, ZenonT(30)
  <2> QED
    BY <1>2, <2>3, <2>4, <2>5, <2>6, <2>7, <2>8, ZenonT(30) DEF OrderInv
<1> QED
  BY <1>7, <1>8, ZenonT(30) DEF ExtendBatch

LEMMA DecodeBatchOrder ==
    ASSUME PlaceInv, PlaceInv', Origins, OrderInv, ~Preemption, DecodeBatch
    PROVE  OrderInv'
<1> DEFINE mixed == batch.kind = "extend"
           b == IF mixed
                THEN [batch EXCEPT !.reqs = @ \o running, !.decoding = Range(running)]
                ELSE [NoBatch EXCEPT !.kind = "decode", !.reqs = running]
<1>1. /\ Loc = "decode_alloc" /\ Grows(running, [r \in Reqs |-> req[r].committed + 1])
      /\ running' = (IF mixed THEN <<>> ELSE running) /\ Launches(b)
      /\ UNCHANGED <<conf, waiting, chunked, last, next, adder>>
  BY ZenonT(30) DEF DecodeBatch
<1>2. /\ Batched \subseteq Reqs /\ batch.reqs \in Seq(Reqs) /\ DOMAIN batch = BatchFields
      /\ Running \subseteq Reqs /\ running \in Seq(Reqs) /\ chunked \notin Running
      /\ mixed => /\ batch.chunked = chunked /\ chunked \in Batched \cup {NoReq}
                  /\ Batched \cap Running = {}
      /\ ~mixed => chunked = NoReq /\ Batched = {} /\ batch.chunked = NoReq /\ batch = NoBatch
      /\ batch.decoding = {}
  <2>1. batch = NoBatch \/ mixed
    BY <1>1, ZenonT(30) DEF PlaceInv, Places
  <2> QED
    BY <1>1, <2>1, RangeFacts, NoBatchFacts, ZenonT(30)
    DEF PlaceInv, PlaceTypes, Apart, ChunkedPlace, Batched, Running, OrderInv, PrefillApart
<1>3. /\ DOMAIN b = BatchFields /\ b.kind = (IF mixed THEN "extend" ELSE "decode")
      /\ b.reqs \in Seq(Reqs) /\ Range(b.reqs) = Batched \cup Running
      /\ b.chunked = chunked /\ b.decoding = IF mixed THEN Running ELSE {}
  <2>1. CASE mixed
    <3>1. /\ b.reqs = batch.reqs \o running /\ b.chunked = batch.chunked /\ b.decoding = Running
          /\ DOMAIN b = BatchFields /\ b.kind = "extend"
      BY <1>2, <2>1, ZenonT(30) DEF BatchFields, Running
    <3>2. batch.reqs \o running \in Seq(Reqs) /\ Range(batch.reqs \o running) = Batched \cup Running
      BY <1>2, RangeCat DEF Batched, Running
    <3> QED
      BY <1>2, <2>1, <3>1, <3>2, ZenonT(30)
  <2>2. CASE ~mixed
    <3>1. /\ b.reqs = running /\ b.chunked = NoReq /\ b.decoding = {}
          /\ DOMAIN b = BatchFields /\ b.kind = "decode"
      BY <2>2, ZenonT(30) DEF BatchFields, NoBatch
    <3> QED
      BY <1>2, <2>2, <3>1, ZenonT(30) DEF Running
  <2> QED
    BY <2>1, <2>2, ZenonT(30)
<1> HIDE DEF b
<1>4. /\ batch' = b /\ Loc' = "process" /\ Batched' = Batched \cup Running /\ Merging' = Merging
      /\ OfBatch = {} /\ OfBatch' = Batched \cup Running /\ OfLast' = OfLast /\ OfLast \subseteq Merging
      /\ FromLast => queue'[1] = queue[1]
      /\ \A x \in Batched \cup Running : queue'[Len(queue')].upto[x] = req'[x].committed
  <2>1. b.kind \in {"extend", "decode"}
    BY <1>3, ZenonT(30)
  <2>2. /\ batch' = b /\ Loc' = "process" /\ Batched' = Range(b.reqs) /\ Merging' = Merging
        /\ OfBatch = {} /\ OfBatch' = Range(b.reqs) /\ OfLast' = OfLast /\ OfLast \subseteq Merging
        /\ FromLast => queue'[1] = queue[1]
        /\ \A r \in Range(b.reqs) : queue'[Len(queue')].upto[r] = req'[r].committed
    BY <1>1, <1>3, <2>1, LaunchPending, ZenonT(30)
  <2> QED
    BY <1>3, <2>2, ZenonT(30)
<1>5. /\ Admitted' = {} /\ ~Preemption' /\ adder'.new_chunked = NoReq
      /\ Running' = IF mixed THEN {} ELSE Running
  <2>1. Admitted' = {} /\ ~Preemption' /\ adder'.new_chunked = NoReq
    BY <1>1, NoAdderFacts, ZenonT(30) DEF PlaceInv, Admitting, Admitted, Preemption
  <2>2. Running' = IF mixed THEN {} ELSE Running
    BY <1>1, RangeOne, ZenonT(30) DEF Running
  <2> QED
    BY <2>1, <2>2, ZenonT(30)
<1>6. \A x \in Running : Fresh(x) /\ req[x].committed = NumTokens(x) - 1 + One(LastSample(x)) + One(BatchSample(x))
  BY <1>1, <1>2, ZenonT(30) DEF OrderInv, CommittedTokens, Decodes, PlaceInv, Decoding, Fresh
<1>7. /\ \A x \in Reqs \ Running : req'[x] = req[x]
      /\ \A x \in Running : req'[x].committed = req[x].committed + 1
      /\ \A x \in Reqs : /\ NumTokens(x)' = NumTokens(x) /\ Finished(x)' = Finished(x)
                         /\ req'[x].is_chunked = req[x].is_chunked
                         /\ Fresh(x)' = Fresh(x)
  <2>1. /\ \A x \in Reqs \ Running : req'[x] = req[x]
        /\ \A x \in Running : /\ req'[x].committed = req[x].committed + 1
                              /\ req'[x].origin = req[x].origin /\ req'[x].output = req[x].output
                              /\ req'[x].finished = req[x].finished
                              /\ req'[x].is_chunked = req[x].is_chunked /\ req'[x].is_retracted = FALSE
    BY <1>1, <1>2, ZenonT(30) DEF Grows, Running
  <2>2. \A x \in Running : req[x].is_retracted = FALSE
    BY <1>2, <1>6, ZenonT(30) DEF Fresh, PlaceInv, ReqTypes
  <2> QED
    BY <1>2, <2>1, <2>2, ZenonT(30) DEF NumTokens, Finished, Fresh
<1>8. \A x \in Reqs : /\ LastChunk(x)' = LastChunk(x) /\ BatchChunk(x)' = BatchChunk(x)
                      /\ LastSample(x)' = LastSample(x) /\ ~BatchSample(x)
                      /\ BatchSample(x)' <=> x \in Batched \cup Running /\ x # chunked
  BY <1>1, <1>2, <1>3, <1>4, ReqsAssumption, ZenonT(30) DEF LastChunk, BatchChunk, LastSample, BatchSample
<1>9. mixed => \A x \in Batched : /\ ~LastSample(x)
                                  /\ x = chunked \/ (Fresh(x) /\ req'[x].committed = NumTokens(x))
  <2>1. mixed => \A x \in Batched : ~LastSample(x)
    BY <1>2, <1>4, ZenonT(30) DEF OrderInv, PrefillApart, LastSample
  <2>2. mixed => \A x \in Batched : x \in Reqs \ Running
    BY <1>2, ZenonT(30)
  <2> QED
    BY <1>1, <1>7, <2>1, <2>2, ZenonT(30) DEF OrderInv, Filled
<1>10. ChunksCounted'
  BY <1>7, <1>8, ZenonT(30) DEF OrderInv, ChunksCounted
<1>11. ChunkFollowed' /\ PrefillApart'
  BY <1>1, <1>2, <1>3, <1>4, <1>5, ZenonT(30) DEF OrderInv, ChunkFollowed, PrefillApart
<1>12. ChunksLive'
  BY <1>1, <1>2, <1>4, <1>5, <1>7, <1>8, ZenonT(30) DEF OrderInv, ChunksLive, PlaceInv, PlaceTypes
<1>13. Filled'
  BY <1>4, <1>5, ZenonT(30) DEF Filled
<1>14. \A x \in Batched \cup Running : x # chunked =>
         /\ Fresh(x) /\ One(BatchSample(x)') = 1
         /\ req'[x].committed = NumTokens(x) + One(LastSample(x))
  <2> SUFFICES ASSUME NEW x \in Batched \cup Running, x # chunked
               PROVE  /\ Fresh(x) /\ One(BatchSample(x)') = 1
                      /\ req'[x].committed = NumTokens(x) + One(LastSample(x))
    BY ZenonT(30)
  <2>1. One(BatchSample(x)') = 1 /\ One(BatchSample(x)) = 0 /\ One(LastSample(x)) \in Int
    BY <1>2, <1>8 DEF One
  <2>2. NumTokens(x) \in Nat
    BY <1>2, NumTokensType, ZenonT(30)
  <2>3. CASE x \in Running
    BY <1>6, <1>7, <2>1, <2>2, <2>3
  <2>4. CASE x \in Batched
    <3>1. mixed
      BY <1>2, <2>4, ZenonT(30)
    <3>2. One(LastSample(x)) = 0
      BY <1>9, <2>4, <3>1, ZenonT(30) DEF One
    <3> QED
      BY <1>9, <2>1, <2>2, <2>4, <3>1, <3>2
  <2> QED
    BY <2>3, <2>4, ZenonT(30)
<1>15. CommittedTokens'
  <2> SUFFICES ASSUME NEW x \in Reqs, Decodes(x)', ~Finished(x)'
               PROVE  /\ ~req'[x].is_retracted
                      /\ req'[x].committed = NumTokens(x)' - 1 + One(LastSample(x)') + One(BatchSample(x)')
    BY ZenonT(30) DEF CommittedTokens
  <2>1. x \in Batched \cup Running /\ x # chunked
    BY <1>1, <1>2, <1>4, <1>5, ZenonT(30) DEF Decodes
  <2>2. /\ Fresh(x)' /\ One(BatchSample(x)') = 1 /\ NumTokens(x)' = NumTokens(x)
        /\ req'[x].committed = NumTokens(x) + One(LastSample(x)') /\ One(LastSample(x)') \in Int
    BY <1>7, <1>8, <1>14, <2>1 DEF One
  <2>3. NumTokens(x) \in Nat
    BY NumTokensType, ZenonT(30)
  <2> QED
    BY <2>2, <2>3 DEF Fresh
<1>16. SampledAfter'
  <2> SUFFICES ASSUME NEW x \in Reqs, Fresh(x)'
               PROVE  /\ LastSample(x)' => queue'[1].upto[x] = NumTokens(x)'
                      /\ BatchSample(x)' =>
                           queue'[Len(queue')].upto[x] = NumTokens(x)' + One(LastSample(x)')
    BY ZenonT(30) DEF SampledAfter
  <2>1. ASSUME LastSample(x)' PROVE queue'[1].upto[x] = NumTokens(x)'
    <3>1. FromLast /\ LastSample(x) /\ Fresh(x)
      BY <1>7, <1>8, <2>1, ZenonT(30) DEF LastSample, OfLast
    <3> QED
      BY <1>4, <1>7, <3>1, ZenonT(30) DEF OrderInv, SampledAfter
  <2>2. ASSUME BatchSample(x)' PROVE queue'[Len(queue')].upto[x] = NumTokens(x)' + One(LastSample(x)')
    BY <1>4, <1>7, <1>8, <1>14, <2>2, ZenonT(30)
  <2> QED
    BY <2>1, <2>2, ZenonT(30)
<1> QED
  BY <1>5, <1>10, <1>11, <1>12, <1>13, <1>15, <1>16, ZenonT(30) DEF OrderInv

-----------------------------------------------------------------------------
(* The order of results, when they are processed.                          *)

\* What is known of the request whose result is next, and of the others.
LEMMA NextResult ==
    ASSUME PlaceInv, Origins, OrderInv, ~Preemption, Loc = "process", HasResult,
           next <= Len(Result.reqs), next' = next + 1, NEW r, r = Result.reqs[next],
           UNCHANGED <<conf, batch, last, Loc>>
    PROVE  /\ r \in Reqs
           /\ \A x \in Reqs \ {r} : /\ LastChunk(x)' = LastChunk(x) /\ BatchChunk(x)' = BatchChunk(x)
                                    /\ LastSample(x)' = LastSample(x) /\ BatchSample(x)' = BatchSample(x)
           /\ Result.chunked # r =>
                /\ ~LastChunk(r) /\ ~BatchChunk(r) /\ ~LastChunk(r)' /\ ~BatchChunk(r)'
                /\ One(LastSample(r)) + One(BatchSample(r)) = One(BatchSample(r)') + 1 /\ ~LastSample(r)'
                /\ Fresh(r) => Result.upto[r] = NumTokens(r)
                /\ Fresh(r) /\ BatchSample(r)' => queue[Len(queue)].upto[r] = NumTokens(r) + 1
           /\ Result.chunked = r =>
                /\ One(LastChunk(r)) + One(BatchChunk(r)) = One(LastChunk(r)') + One(BatchChunk(r)') + 1
                /\ LastSample(r)' = LastSample(r) /\ BatchSample(r)' = BatchSample(r)
                /\ Fresh(r) /\ Result.kind = "extend"
           /\ r = chunked => Result.chunked = r
           /\ ~Late(r) => Fresh(r)
<1>1. next \in Nat \ {0} /\ batch.reqs \in Seq(Reqs) /\ last.reqs \in Seq(Reqs)
      /\ IsInjective(batch.reqs) /\ IsInjective(last.reqs)
  BY ZenonT(30) DEF PlaceInv, PlaceTypes, Apart
<1>2. ASSUME NEW s \in Seq(Reqs), IsInjective(s), next <= Len(s)
      PROVE  s[next] \in Rest(s) /\ Rest(s) \subseteq Range(s) /\ Range(s) \subseteq Reqs
             /\ {s[i] : i \in next + 1 .. Len(s)} = Rest(s) \ {s[next]}
  <2>1. DOMAIN s = 1 .. Len(s) /\ Len(s) \in Nat /\ \A i \in 1 .. Len(s) : s[i] \in Reqs
    OBVIOUS
  <2>2. s[next] \in Rest(s) /\ Rest(s) \subseteq Range(s) /\ Range(s) \subseteq Reqs
    <3>1. next \in next .. Len(s) /\ \A i \in next .. Len(s) : i \in DOMAIN s
      BY <1>1, <1>2, <2>1
    <3>2. s[next] \in Rest(s)
      BY <3>1, ZenonT(30) DEF Rest
    <3>3. Rest(s) \subseteq Range(s)
      BY <3>1, ZenonT(30) DEF Rest, Range
    <3>4. Range(s) \subseteq Reqs
      BY RangeFacts, ZenonT(30)
    <3> QED
      BY <3>2, <3>3, <3>4, ZenonT(30)
  <2>3. \A i, j \in 1 .. Len(s) : s[i] = s[j] => i = j
    BY <1>2, <2>1, ZenonT(30) DEF IsInjective
  <2>4. ASSUME NEW i \in next .. Len(s) PROVE i \in next + 1 .. Len(s) <=> s[i] # s[next]
    BY <1>1, <1>2, <2>1, <2>3
  <2>5. \A i \in next + 1 .. Len(s) : i \in next .. Len(s)
    BY <1>1, <2>1
  <2>6. {s[i] : i \in next + 1 .. Len(s)} = Rest(s) \ {s[next]}
    BY <2>4, <2>5, ZenonT(30) DEF Rest
  <2> QED
    BY <2>2, <2>6, ZenonT(30)
<1>3. /\ FromLast' = FromLast /\ FromBatch' = FromBatch /\ Overlap' = Overlap
      /\ FromBatch = (batch.kind # "none")
      /\ Rest(last.reqs)' = {last.reqs[i] : i \in next + 1 .. Len(last.reqs)}
      /\ Rest(batch.reqs)' = {batch.reqs[i] : i \in next + 1 .. Len(batch.reqs)}
      /\ Batched' = Batched
  BY ZenonT(30) DEF FromLast, FromBatch, Overlap, Rest, Batched
<1>4. CASE Overlap
  <2>1. FromLast /\ Holds(Result, last)
    BY <1>4, ZenonT(30) DEF HasResult, FromLast, PlaceInv, Results, Result
  <2>2. r \in OfLast /\ OfLast' = OfLast \ {r} /\ OfBatch' = OfBatch /\ OfLast \subseteq Merging /\ r \in Reqs
    <3>1. r = last.reqs[next] /\ next <= Len(last.reqs)
      BY <2>1, ZenonT(30) DEF Holds
    <3>2. r \in Rest(last.reqs) /\ Rest(last.reqs)' = Rest(last.reqs) \ {r}
          /\ Rest(last.reqs) \subseteq Merging /\ Merging \subseteq Reqs
      BY <1>1, <1>2, <1>3, <3>1, ZenonT(30) DEF Merging
    <3> QED
      BY <1>3, <1>4, <2>1, <3>2, ZenonT(30) DEF OfLast, OfBatch
  <2>3. Result.chunked = last.chunked /\ Result.kind = last.kind
    BY <2>1, ZenonT(30) DEF Holds
  <2>4. \A x \in Reqs : /\ BatchChunk(x)' = BatchChunk(x) /\ BatchSample(x)' = BatchSample(x)
                        /\ x # r => LastChunk(x)' = LastChunk(x) /\ LastSample(x)' = LastSample(x)
    BY <2>2, ZenonT(30) DEF LastChunk, BatchChunk, LastSample, BatchSample
  <2>5. /\ LastChunk(r) <=> Result.chunked = r
        /\ LastSample(r) <=> Result.chunked # r
        /\ ~LastChunk(r)' /\ ~LastSample(r)'
    BY <2>2, <2>3, ZenonT(30) DEF LastChunk, LastSample
  <2>6. BatchChunk(r) => Result.chunked = r
    <3>1. ASSUME BatchChunk(r) PROVE r = last.chunked
      <4>1. r = batch.chunked /\ r \in OfBatch /\ r # NoReq
        BY <2>2, <3>1, ReqsAssumption, ZenonT(30) DEF BatchChunk
      <4>2. r = chunked /\ batch.kind = "extend" /\ r \in Batched /\ r \notin batch.decoding
        BY <4>1, ZenonT(30) DEF OrderInv, ChunkFollowed, PrefillApart, PlaceInv, ChunkedPlace
      <4> QED
        BY <2>2, <4>2, ZenonT(30) DEF OrderInv, PrefillApart
    <3> QED
      BY <2>3, <3>1, ZenonT(30)
  <2>7. Result.chunked # r =>
          /\ ~LastChunk(r) /\ ~BatchChunk(r) /\ ~LastChunk(r)' /\ ~BatchChunk(r)'
          /\ One(LastSample(r)) + One(BatchSample(r)) = One(BatchSample(r)') + 1 /\ ~LastSample(r)'
    BY <2>2, <2>4, <2>5, <2>6 DEF One
  <2>8. Result.chunked = r =>
          /\ One(LastChunk(r)) + One(BatchChunk(r)) = One(LastChunk(r)') + One(BatchChunk(r)') + 1
          /\ LastSample(r)' = LastSample(r) /\ BatchSample(r)' = BatchSample(r)
    <3>1. LastSample(r) \in BOOLEAN /\ LastSample(r)' \in BOOLEAN
      BY ZenonT(30) DEF LastSample
    <3> QED
      BY <2>2, <2>4, <2>5, <3>1 DEF One
  <2>9. Result.chunked = r => Fresh(r) /\ Result.kind = "extend"
    BY <2>2, <2>3, <2>5, ReqsAssumption, ZenonT(30) DEF OrderInv, ChunksLive, ChunkFollowed
  <2>10. Result.chunked # r /\ Fresh(r) =>
           /\ Result.upto[r] = NumTokens(r)
           /\ BatchSample(r)' => queue[Len(queue)].upto[r] = NumTokens(r) + 1
    BY <2>2, <2>4, <2>5, ZenonT(30) DEF OrderInv, SampledAfter, Result, One
  <2>11. r = chunked => Result.chunked = r
    <3>1. ASSUME r = chunked PROVE BatchChunk(r)
      <4>1. batch.kind = "extend" /\ r \in Batched /\ batch.chunked = r
        BY <2>2, <3>1, ReqsAssumption, ZenonT(30) DEF OrderInv, ChunkFollowed, PlaceInv, ChunkedPlace
      <4> QED
        BY <1>3, <1>4, <4>1, ZenonT(30) DEF BatchChunk, OfBatch
    <3> QED
      BY <2>6, <3>1, ZenonT(30)
  <2>12. ~Late(r) => Fresh(r)
    BY <1>4, ZenonT(30) DEF Late, Fresh
  <2> QED
    BY <2>2, <2>4, <2>7, <2>8, <2>9, <2>10, <2>11, <2>12, ZenonT(30)
<1>5. CASE ~Overlap
  <2>1. ~FromLast /\ FromBatch /\ Holds(Result, batch) /\ queue = <<queue[1]>>
    BY <1>3, <1>5, ZenonT(30) DEF HasResult, FromLast, PlaceInv, Results, Result
  <2>2. r \in OfBatch /\ OfBatch' = OfBatch \ {r} /\ OfLast' = {} /\ OfLast = {}
        /\ OfBatch \subseteq Batched /\ r \in Reqs
    <3>1. r = batch.reqs[next] /\ next <= Len(batch.reqs)
      BY <2>1, ZenonT(30) DEF Holds
    <3>2. r \in Rest(batch.reqs) /\ Rest(batch.reqs)' = Rest(batch.reqs) \ {r}
          /\ Rest(batch.reqs) \subseteq Batched /\ Batched \subseteq Reqs
      BY <1>1, <1>2, <1>3, <3>1, ZenonT(30) DEF Batched
    <3> QED
      BY <1>3, <1>5, <2>1, <3>2, ZenonT(30) DEF OfLast, OfBatch
  <2>3. Result.chunked = batch.chunked /\ Result.kind = batch.kind /\ batch.chunked = chunked
    BY <2>1, ZenonT(30) DEF Holds, OrderInv, ChunkFollowed
  <2>4. \A x \in Reqs : /\ LastChunk(x)' = LastChunk(x) /\ LastSample(x)' = LastSample(x)
                        /\ ~LastChunk(x) /\ ~LastSample(x)
                        /\ x # r => BatchChunk(x)' = BatchChunk(x) /\ BatchSample(x)' = BatchSample(x)
    BY <2>2, ZenonT(30) DEF LastChunk, BatchChunk, LastSample, BatchSample
  <2>5. /\ BatchChunk(r) <=> Result.chunked = r
        /\ BatchSample(r) <=> Result.chunked # r
        /\ ~BatchChunk(r)' /\ ~BatchSample(r)'
    BY <2>2, <2>3, ZenonT(30) DEF BatchChunk, BatchSample
  <2>6. Result.chunked # r =>
          /\ ~LastChunk(r) /\ ~BatchChunk(r) /\ ~LastChunk(r)' /\ ~BatchChunk(r)'
          /\ One(LastSample(r)) + One(BatchSample(r)) = One(BatchSample(r)') + 1 /\ ~LastSample(r)'
    BY <2>2, <2>4, <2>5, ZenonT(30) DEF One
  <2>7. Result.chunked = r =>
          /\ One(LastChunk(r)) + One(BatchChunk(r)) = One(LastChunk(r)') + One(BatchChunk(r)') + 1
          /\ LastSample(r)' = LastSample(r) /\ BatchSample(r)' = BatchSample(r)
    <3>1. BatchSample(r) \in BOOLEAN /\ BatchSample(r)' \in BOOLEAN
      BY ZenonT(30) DEF BatchSample
    <3> QED
      BY <2>2, <2>4, <2>5, <3>1 DEF One
  <2>8. Result.chunked = r => Fresh(r) /\ Result.kind = "extend"
    BY <2>2, <2>3, <2>5, ReqsAssumption, ZenonT(30) DEF OrderInv, ChunksLive, PlaceInv, ChunkedPlace
  <2>9. Result.chunked # r /\ Fresh(r) => Result.upto[r] = NumTokens(r)
    <3>1. queue[Len(queue)] = Result
      <4>1. Len(queue) = 1
        BY <2>1
      <4> QED
        BY <4>1, ZenonT(30) DEF Result
    <3>2. NumTokens(r) \in Nat /\ One(LastSample(r)) = 0
      BY <2>2, <2>4, NumTokensType, ZenonT(30) DEF One
    <3> QED
      BY <2>2, <2>5, <3>1, <3>2 DEF OrderInv, SampledAfter
  <2>10. ~Late(r) => Fresh(r)
    <3>1. CASE batch.kind = "extend"
      BY <2>3, <3>1, ZenonT(30) DEF Late, Fresh
    <3>2. CASE batch.kind = "decode"
      <4>1. batch.reqs = running
        BY <3>2, ZenonT(30) DEF PlaceInv, Apart
      <4>2. r \in Running
        BY <2>2, <4>1, ZenonT(30) DEF Batched, Running
      <4>3. ~Finished(r)
        <5>1. r = batch.reqs[next] /\ next \in next .. Len(batch.reqs)
          BY <1>1, <2>1 DEF Holds
        <5> QED
          BY <1>5, <3>2, <5>1, ZenonT(30) DEF PlaceInv, Awaited
      <4> QED
        BY <2>2, <4>2, <4>3, ZenonT(30) DEF OrderInv, CommittedTokens, Decodes, Fresh
    <3> QED
      BY <2>1, <3>1, <3>2, ZenonT(30) DEF PlaceInv, PlaceTypes, FromBatch
  <2> QED
    BY <2>2, <2>3, <2>4, <2>5, <2>6, <2>7, <2>8, <2>9, <2>10, ZenonT(30)
<1> QED
  BY <1>4, <1>5, ZenonT(30)

LEMMA ProcessNextOrder ==
    ASSUME PlaceInv, PlaceInv', Origins, OrderInv, ~Preemption, ProcessNext
    PROVE  OrderInv' /\ SampledInOrder
<1> /\ Loc = "process" /\ Loc' = "process" /\ HasResult /\ next <= Len(Result.reqs) /\ next' = next + 1
    /\ UNCHANGED <<conf, waiting, running, chunked, batch, last, queue, adder>>
  BY ZenonT(30) DEF ProcessNext
<1> /\ Running' = Running /\ Batched' = Batched /\ Merging' = Merging /\ ~Preemption'
    /\ Admitted' = Admitted
  BY ZenonT(30) DEF Running, Batched, Merging, Preemption, Admitted
<1>1. PICK r : /\ r = Result.reqs[next]
               /\ \/ Late(r) /\ req' = req
                  \/ ~Late(r) /\ OfChunk(r) /\ ChunkDone(r)
                  \/ ~Late(r) /\ ~OfChunk(r) /\ Output(r)
  BY ZenonT(30) DEF ProcessNext
<1>2. /\ r \in Reqs
      /\ \A x \in Reqs \ {r} : /\ LastChunk(x)' = LastChunk(x) /\ BatchChunk(x)' = BatchChunk(x)
                               /\ LastSample(x)' = LastSample(x) /\ BatchSample(x)' = BatchSample(x)
      /\ Result.chunked # r =>
           /\ ~LastChunk(r) /\ ~BatchChunk(r) /\ ~LastChunk(r)' /\ ~BatchChunk(r)'
           /\ One(LastSample(r)) + One(BatchSample(r)) = One(BatchSample(r)') + 1 /\ ~LastSample(r)'
           /\ Fresh(r) => Result.upto[r] = NumTokens(r)
           /\ Fresh(r) /\ BatchSample(r)' => queue[Len(queue)].upto[r] = NumTokens(r) + 1
      /\ Result.chunked = r =>
           /\ One(LastChunk(r)) + One(BatchChunk(r)) = One(LastChunk(r)') + One(BatchChunk(r)') + 1
           /\ LastSample(r)' = LastSample(r) /\ BatchSample(r)' = BatchSample(r)
           /\ Fresh(r) /\ Result.kind = "extend"
      /\ r = chunked => Result.chunked = r
      /\ ~Late(r) => Fresh(r)
  BY <1>1, NextResult, ZenonT(30)
<1>3. /\ \A x \in Reqs \ {r} : req'[x] = req[x]
      /\ req[r].is_chunked = One(LastChunk(r)) + One(BatchChunk(r))
      /\ NumTokens(r) \in Nat
      /\ Decodes(r) /\ ~Finished(r) =>
           /\ ~req[r].is_retracted
           /\ req[r].committed = NumTokens(r) - 1 + One(LastSample(r)) + One(BatchSample(r))
  <2>1. \A x \in Reqs \ {r} : req'[x] = req[x]
    BY <1>1, ZenonT(30) DEF ChunkDone, Output, Resets, ChangesOnly
  <2> QED
    BY <1>2, <2>1, NumTokensType, ZenonT(30) DEF OrderInv, ChunksCounted, CommittedTokens
<1>4. \A P, Q : One(P) \in {0, 1} /\ (P => One(P) = 1) /\ (~P => One(P) = 0)
  BY ZenonT(30) DEF One
<1>5. OfChunk(r) <=> Result.chunked = r
  <2>1. ASSUME Result.chunked = r PROVE OfChunk(r)
    <3>1. /\ One(LastChunk(r)) + One(BatchChunk(r)) = One(LastChunk(r)') + One(BatchChunk(r)') + 1
          /\ Result.kind = "extend"
      BY <1>2, <2>1, ZenonT(30)
    <3>2. One(LastChunk(r)') \in {0, 1} /\ One(BatchChunk(r)') \in {0, 1}
      BY ZenonT(30) DEF One
    <3>3. req[r].is_chunked > 0
      BY <1>3, <3>1, <3>2
    <3> QED
      BY <3>1, <3>3, ZenonT(30) DEF OfChunk
  <2>2. ASSUME Result.chunked # r PROVE ~OfChunk(r)
    <3>1. One(LastChunk(r)) = 0 /\ One(BatchChunk(r)) = 0
      BY <1>2, <2>2, ZenonT(30) DEF One
    <3>2. req[r].is_chunked = 0
      BY <1>3, <3>1
    <3> QED
      BY <3>2 DEF OfChunk
  <2> QED
    BY <2>1, <2>2, ZenonT(30)
<1>6. \A x \in Reqs \ {r} : Decodes(x)' = Decodes(x) /\ Fresh(x)' = Fresh(x) /\ Finished(x)' = Finished(x)
                            /\ NumTokens(x)' = NumTokens(x)
  BY <1>3, ZenonT(30) DEF Decodes, Fresh, Finished, NumTokens
<1>7. Decodes(r)' = Decodes(r)
  BY ZenonT(30) DEF Decodes
<1>8. \* What is left to show, about r.
      ASSUME req'[r].is_chunked = One(LastChunk(r)') + One(BatchChunk(r)'),
             LastChunk(r)' \/ BatchChunk(r)' => Fresh(r)',
             r = chunked => ~Finished(r)',
             Decodes(r) /\ ~Finished(r)' =>
               /\ ~req'[r].is_retracted
               /\ req'[r].committed = NumTokens(r)' - 1 + One(LastSample(r)') + One(BatchSample(r)'),
             Fresh(r)' /\ LastSample(r)' => queue[1].upto[r] = NumTokens(r)',
             Fresh(r)' /\ BatchSample(r)' =>
               queue[Len(queue)].upto[r] = NumTokens(r)' + One(LastSample(r)')
      PROVE  OrderInv'
  <2>1. Admitted = {} /\ adder.new_chunked = NoReq /\ chunked \in Reqs \cup {NoReq}
    BY NoAdderFacts, ZenonT(30) DEF PlaceInv, Admitting, PlaceTypes
  <2>2. ChunksCounted'
    <3>1. ASSUME NEW x \in Reqs \ {r} PROVE req'[x].is_chunked = One(LastChunk(x)') + One(BatchChunk(x)')
      <4>1. req[x].is_chunked = One(LastChunk(x)) + One(BatchChunk(x))
        BY ZenonT(30) DEF OrderInv, ChunksCounted
      <4>2. One(LastChunk(x)') = One(LastChunk(x)) /\ One(BatchChunk(x)') = One(BatchChunk(x))
        BY <1>2, ZenonT(30)
      <4> QED
        BY <1>3, <4>1, <4>2, ZenonT(30)
    <3> QED
      BY <1>8, <3>1, ZenonT(30) DEF ChunksCounted
  <2>3. ChunkFollowed' /\ PrefillApart'
    BY ZenonT(30) DEF OrderInv, ChunkFollowed, PrefillApart
  <2>4. ChunksLive'
    BY <1>2, <1>6, <1>8, <2>1, ZenonT(30) DEF OrderInv, ChunksLive
  <2>5. Filled'
    BY <2>1, ZenonT(30) DEF Filled
  <2>6. CommittedTokens'
    BY <1>2, <1>3, <1>6, <1>7, <1>8, ZenonT(30) DEF OrderInv, CommittedTokens
  <2>7. SampledAfter'
    BY <1>2, <1>6, <1>8, ZenonT(30) DEF OrderInv, SampledAfter
  <2> QED
    BY <2>2, <2>3, <2>4, <2>5, <2>6, <2>7, ZenonT(30) DEF OrderInv
<1>9. CASE Late(r) /\ req' = req
  <2>1. ~Fresh(r) /\ ~Fresh(r)' /\ Result.chunked # r
    BY <1>2, <1>9, ZenonT(30) DEF Late, Fresh, Finished
  <2>2. One(LastChunk(r)') = 0 /\ One(BatchChunk(r)') = 0 /\ One(LastChunk(r)) = 0 /\ One(BatchChunk(r)) = 0
    BY <1>2, <2>1, ZenonT(30) DEF One
  <2>3. Finished(r)' \/ ~Decodes(r)
    BY <1>2, <1>3, <1>9, <2>1, ZenonT(30) DEF Fresh, Finished
  <2>4. OrderInv'
    BY <1>2, <1>3, <1>8, <1>9, <2>1, <2>2, <2>3, ZenonT(30)
  <2>5. SampledInOrder
    BY <1>9, ZenonT(30) DEF SampledInOrder
  <2> QED
    BY <2>4, <2>5, ZenonT(30)
<1>10. CASE ~Late(r) /\ OfChunk(r) /\ ChunkDone(r)
  <2>1. /\ Result.chunked = r /\ Fresh(r) /\ LastSample(r)' = LastSample(r) /\ BatchSample(r)' = BatchSample(r)
        /\ One(LastChunk(r)) + One(BatchChunk(r)) = One(LastChunk(r)') + One(BatchChunk(r)') + 1
    BY <1>2, <1>5, <1>10, ZenonT(30)
  <2>2. /\ NumTokens(r)' = NumTokens(r) /\ Finished(r)' = Finished(r) /\ Fresh(r)' = Fresh(r)
        /\ req'[r].committed = req[r].committed /\ req'[r].is_retracted = req[r].is_retracted
        /\ req'[r].is_chunked = req[r].is_chunked - 1 /\ req'[r].output = req[r].output
    BY <1>10, ZenonT(30) DEF ChunkDone, ChangesOnly, NumTokens, Finished, Fresh
  <2>3. req'[r].is_chunked = One(LastChunk(r)') + One(BatchChunk(r)')
    <3>1. One(LastChunk(r)') \in {0, 1} /\ One(BatchChunk(r)') \in {0, 1}
      BY ZenonT(30) DEF One
    <3> QED
      BY <1>3, <2>1, <2>2, <3>1
  <2>4. /\ Fresh(r)' /\ LastSample(r)' => queue[1].upto[r] = NumTokens(r)'
        /\ Fresh(r)' /\ BatchSample(r)' => queue[Len(queue)].upto[r] = NumTokens(r)' + One(LastSample(r)')
    BY <1>2, <2>1, <2>2, ZenonT(30) DEF OrderInv, SampledAfter
  <2>5. ~Finished(r)'
    BY <2>1, <2>2, ZenonT(30) DEF Fresh
  <2>6. OrderInv'
    BY <1>3, <1>8, <2>1, <2>2, <2>3, <2>4, <2>5, ZenonT(30)
  <2>7. SampledInOrder
    BY <1>3, <2>2, ZenonT(30) DEF SampledInOrder
  <2> QED
    BY <2>6, <2>7, ZenonT(30)
<1>11. CASE ~Late(r) /\ ~OfChunk(r) /\ Output(r)
  <2>1. /\ Result.chunked # r /\ Fresh(r) /\ r # chunked
        /\ ~LastChunk(r) /\ ~BatchChunk(r) /\ ~LastChunk(r)' /\ ~BatchChunk(r)'
        /\ One(LastSample(r)) + One(BatchSample(r)) = One(BatchSample(r)') + 1 /\ ~LastSample(r)'
        /\ Result.upto[r] = NumTokens(r)
        /\ BatchSample(r)' => queue[Len(queue)].upto[r] = NumTokens(r) + 1
    BY <1>2, <1>5, <1>11, ZenonT(30)
  <2>2. NumTokens(r)' = NumTokens(r) + 1
    <3> DEFINE o == Len(req[r].origin)
               p == Len(req[r].output)
    <3>1. req'[r].origin = req[r].origin /\ req'[r].output = Append(req[r].output, Result.out[r])
      BY <1>11, ZenonT(30) DEF Output, Resets, ChangesOnly
    <3>2. req[r].output \in Seq(Tokens) /\ req'[r].output \in Seq(Tokens)
      BY <1>2, ZenonT(30) DEF PlaceInv, ReqTypes, Tokens
    <3>3. Len(req'[r].output) = p + 1 /\ p \in Nat
      BY <3>1, <3>2
    <3>4. NumTokens(r)' = o + (p + 1) /\ NumTokens(r) = o + p
      BY <3>1, <3>3, ZenonT(30) DEF NumTokens
    <3>5. o \in Nat
      BY <1>2, PromptLength, ZenonT(30)
    <3> HIDE DEF o, p
    <3> QED
      BY <3>3, <3>4, <3>5
  <2>3. One(LastChunk(r)') = 0 /\ One(BatchChunk(r)') = 0 /\ One(LastChunk(r)) = 0 /\ One(BatchChunk(r)) = 0
        /\ One(LastSample(r)') = 0 /\ One(BatchSample(r)') \in {0, 1}
    BY <2>1, ZenonT(30) DEF One
  <2>4. req[r].is_chunked = 0
    BY <1>3, <2>3
  <2>5. SampledInOrder
    BY <1>3, <2>1, ZenonT(30) DEF SampledInOrder
  <2>6. CASE Resets(r) /\ req'[r].finished = TRUE
    <3>1. req'[r].is_chunked = 0 /\ Finished(r)' /\ ~Fresh(r)'
      BY <2>6, ZenonT(30) DEF Resets, Finished, Fresh
    <3>2. req'[r].is_chunked = One(LastChunk(r)') + One(BatchChunk(r)')
      BY <2>3, <3>1
    <3> QED
      BY <1>8, <2>1, <2>5, <3>1, <3>2, ZenonT(30)
  <2>7. CASE /\ req'[r].finished = req[r].finished /\ req'[r].is_retracted = req[r].is_retracted
             /\ req'[r].committed = req[r].committed /\ req'[r].is_chunked = req[r].is_chunked
    <3>0. NumTokens(r) \in Nat
      BY <1>3, ZenonT(30)
    <3>1. Finished(r)' = Finished(r) /\ ~Finished(r)
      BY <2>1, <2>7, ZenonT(30) DEF Finished, Fresh
    <3>2. Decodes(r) => /\ ~req'[r].is_retracted
                        /\ req'[r].committed = NumTokens(r)' - 1 + One(LastSample(r)') + One(BatchSample(r)')
      <4>1. ASSUME Decodes(r)
            PROVE  req[r].committed = NumTokens(r) - 1 + (One(BatchSample(r)') + 1) /\ ~req[r].is_retracted
        <5>1. One(LastSample(r)) \in {0, 1} /\ One(BatchSample(r)) \in {0, 1}
          BY ZenonT(30) DEF One
        <5> QED
          BY <1>3, <2>1, <2>3, <3>1, <4>1, <5>1
      <4>2. ASSUME Decodes(r) PROVE req'[r].committed = NumTokens(r) + One(BatchSample(r)')
        BY <2>3, <2>7, <3>0, <4>1, <4>2
      <4>3. NumTokens(r)' - 1 + One(LastSample(r)') + One(BatchSample(r)') = NumTokens(r) + One(BatchSample(r)')
        BY <2>2, <2>3, <3>0
      <4> QED
        BY <2>7, <4>1, <4>2, <4>3, ZenonT(30)
    <3>3. Fresh(r)' /\ BatchSample(r)' => queue[Len(queue)].upto[r] = NumTokens(r)' + One(LastSample(r)')
      <4>1. NumTokens(r)' + One(LastSample(r)') = NumTokens(r) + 1
        BY <2>2, <2>3, <3>0
      <4> QED
        BY <2>1, <4>1, ZenonT(30)
    <3>4. req'[r].is_chunked = One(LastChunk(r)') + One(BatchChunk(r)')
      BY <2>3, <2>4, <2>7
    <3> QED
      BY <1>8, <2>1, <2>5, <3>2, <3>3, <3>4, ZenonT(30)
  <2> QED
    BY <1>11, <2>6, <2>7, ZenonT(30) DEF Output
<1> QED
  BY <1>1, <1>9, <1>10, <1>11, ZenonT(30)

LEMMA EndOfIterationOrder ==
    ASSUME PlaceInv, Origins, OrderInv, ~Preemption, EndOfIteration
    PROVE  OrderInv'
<1> /\ Loc = "process" /\ Loc' = "begin" /\ (HasResult => next > Len(Result.reqs))
    /\ queue' = IF HasResult THEN Tail(queue) ELSE queue
    /\ last' = batch /\ batch' = NoBatch /\ next' = 1
    /\ UNCHANGED <<conf, req, waiting, running, chunked, adder>>
  BY ZenonT(30) DEF EndOfIteration
<1>1. /\ Running' = Running /\ Admitted = {} /\ Admitted' = {} /\ Batched' = {} /\ Merging' = Batched
      /\ batch'.kind = "none" /\ batch'.chunked = NoReq /\ batch'.decoding = {}
      /\ adder.new_chunked = NoReq /\ ~Preemption'
  <2>1. Running' = Running /\ Merging' = Batched /\ Admitted' = Admitted /\ ~Preemption'
    BY ZenonT(30) DEF Running, Batched, Merging, Preemption, Admitted
  <2>2. Admitted = {} /\ adder.new_chunked = NoReq
    BY NoAdderFacts, ZenonT(30) DEF PlaceInv, Admitting
  <2>3. Batched' = {} /\ batch'.kind = "none" /\ batch'.chunked = NoReq /\ batch'.decoding = {}
    <3>1. batch'.reqs = <<>> /\ batch'.kind = "none" /\ batch'.chunked = NoReq /\ batch'.decoding = {}
      BY ZenonT(30) DEF NoBatch
    <3> QED
      BY <3>1, EmptyFacts, ZenonT(30) DEF Batched
  <2> QED
    BY <2>1, <2>2, <2>3, ZenonT(30)
<1>2. /\ next \in Nat \ {0} /\ batch.reqs \in Seq(Reqs) /\ last.reqs \in Seq(Reqs)
      /\ Len(batch.reqs) \in Nat /\ Len(last.reqs) \in Nat
  BY DEF PlaceInv, PlaceTypes
<1>3. OfLast = {}
  <2>1. CASE FromLast
    <3>1. HasResult /\ Holds(Result, last)
      BY <2>1, ZenonT(30) DEF HasResult, FromLast, PlaceInv, Results, Result
    <3>2. next > Len(last.reqs)
      BY <3>1, ZenonT(30) DEF Holds
    <3>3. Rest(last.reqs) = {}
      BY <1>2, <3>2 DEF Rest
    <3> QED
      BY <3>3, ZenonT(30) DEF OfLast
  <2> QED
    BY <2>1, ZenonT(30) DEF OfLast
<1>4. ~Overlap => OfBatch = {}
  <2> SUFFICES ASSUME ~Overlap, FromBatch PROVE Rest(batch.reqs) = {}
    BY ZenonT(30) DEF OfBatch
  <2>1. HasResult /\ Holds(Result, batch)
    BY ZenonT(30) DEF HasResult, FromBatch, FromLast, PlaceInv, Results, Result
  <2>2. next > Len(batch.reqs)
    BY <2>1, ZenonT(30) DEF Holds
  <2> QED
    BY <1>2, <2>2 DEF Rest
<1>5. OfLast' = OfBatch /\ OfBatch' = {}
  <2>1. Overlap' = Overlap /\ ~FromBatch' /\ (FromLast' <=> Overlap /\ FromBatch)
    BY ZenonT(30) DEF Overlap, FromBatch, FromLast
  <2>2. Rest(last.reqs)' = Batched
    <3>1. DOMAIN batch.reqs = 1 .. Len(batch.reqs)
      BY <1>2
    <3> QED
      BY <3>1, ZenonT(30) DEF Rest, Batched, Range
  <2> QED
    BY <1>4, <2>1, <2>2, ZenonT(30) DEF OfLast, OfBatch
<1>6. \A r \in Reqs : /\ ~LastChunk(r) /\ ~LastSample(r) /\ ~BatchChunk(r)' /\ ~BatchSample(r)'
                      /\ LastChunk(r)' <=> BatchChunk(r)
                      /\ LastSample(r)' <=> BatchSample(r)
  <2>1. \A r \in Reqs : r # NoReq
    BY ReqsAssumption, ZenonT(30)
  <2> QED
    BY <1>1, <1>3, <1>5, <2>1, ZenonT(30) DEF LastChunk, BatchChunk, LastSample, BatchSample
<1>7. \A r \in Reqs : /\ One(LastChunk(r)) = 0 /\ One(LastSample(r)) = 0
                      /\ One(BatchChunk(r)') = 0 /\ One(BatchSample(r)') = 0
                      /\ One(LastChunk(r)') = One(BatchChunk(r)) /\ One(BatchChunk(r)) \in {0, 1}
                      /\ One(LastSample(r)') = One(BatchSample(r)) /\ One(BatchSample(r)) \in {0, 1}
  BY <1>6, ZenonT(30) DEF One
<1>8. \A r \in Reqs : Fresh(r)' = Fresh(r) /\ Finished(r)' = Finished(r) /\ NumTokens(r)' = NumTokens(r)
                      /\ NumTokens(r) \in Nat
  BY NumTokensType, ZenonT(30) DEF Fresh, Finished, NumTokens
<1>9. ChunksCounted'
  <2> SUFFICES ASSUME NEW r \in Reqs PROVE req[r].is_chunked = One(LastChunk(r)') + One(BatchChunk(r)')
    BY ZenonT(30) DEF ChunksCounted
  <2>1. req[r].is_chunked = One(LastChunk(r)) + One(BatchChunk(r))
    BY ZenonT(30) DEF OrderInv, ChunksCounted
  <2> QED
    BY <1>7, <2>1
<1>10. ChunkFollowed'
  BY ZenonT(30) DEF OrderInv, ChunkFollowed, PlaceInv, ChunkedPlace
<1>11. ChunksLive'
  <2>1. \A r \in Reqs : BatchChunk(r) => Fresh(r)
    BY ZenonT(30) DEF OrderInv, ChunksLive
  <2>2. chunked # NoReq => ~Finished(chunked)
    BY ZenonT(30) DEF OrderInv, ChunksLive
  <2>3. chunked' # NoReq => ~Finished(chunked)'
    BY <2>2, ZenonT(30) DEF Finished
  <2> QED
    BY <1>1, <1>6, <1>8, <2>1, <2>3, ZenonT(30) DEF ChunksLive
<1>12. PrefillApart'
  <2>1. waiting \cap Batched = {}
    <3>1. CASE batch.kind = "extend"
      BY <3>1, ZenonT(30) DEF PlaceInv, Apart
    <3>2. CASE batch.kind = "decode"
      BY <3>2, ZenonT(30) DEF PlaceInv, Apart, Running, Batched
    <3>3. CASE batch.kind = "none"
      BY <3>3, ZenonT(30) DEF OrderInv, PrefillApart
    <3> QED
      BY <3>1, <3>2, <3>3, ZenonT(30) DEF PlaceInv, PlaceTypes
  <2> QED
    BY <1>1, <2>1, ZenonT(30) DEF PrefillApart
<1>13. Filled'
  BY <1>1, ZenonT(30) DEF Filled
<1>14. CommittedTokens'
  <2> SUFFICES ASSUME NEW r \in Reqs, Decodes(r)', ~Finished(r)'
               PROVE  /\ ~req[r].is_retracted
                      /\ req[r].committed = NumTokens(r)' - 1 + One(LastSample(r)') + One(BatchSample(r)')
    BY ZenonT(30) DEF CommittedTokens
  <2>1. Decodes(r) /\ ~Finished(r)
    BY <1>1, <1>8, ZenonT(30) DEF Decodes
  <2>2. /\ ~req[r].is_retracted
        /\ req[r].committed = NumTokens(r) - 1 + One(LastSample(r)) + One(BatchSample(r))
    BY <2>1, ZenonT(30) DEF OrderInv, CommittedTokens
  <2> QED
    BY <1>7, <1>8, <2>2
<1>15. SampledAfter'
  <2> SUFFICES ASSUME NEW r \in Reqs, Fresh(r), BatchSample(r) PROVE queue'[1].upto[r] = NumTokens(r)
    BY <1>6, <1>8, ZenonT(30) DEF SampledAfter
  <2>1. queue[Len(queue)].upto[r] = NumTokens(r)
    BY <1>7, <1>8 DEF OrderInv, SampledAfter
  <2>2. FromBatch /\ Overlap
    BY <1>4, ZenonT(30) DEF BatchSample, OfBatch
  <2>3. CASE FromLast
    <3>1. PICK a, b : queue = <<a, b>>
      BY <2>2, <2>3, ZenonT(30) DEF PlaceInv, Results
    <3>2. queue' = Tail(queue)
      BY <2>3, ZenonT(30) DEF HasResult, FromLast
    <3>3. queue'[1] = b /\ queue[Len(queue)] = b
      BY <3>1, <3>2
    <3> QED
      BY <2>1, <3>3, ZenonT(30)
  <2>4. CASE ~FromLast
    <3>1. PICK a : queue = <<a>>
      BY <2>2, <2>4, ZenonT(30) DEF PlaceInv, Results
    <3>2. queue' = queue
      BY <2>2, <2>4, ZenonT(30) DEF HasResult, FromLast
    <3>3. queue'[1] = queue[Len(queue)]
      BY <3>1, <3>2, ZenonT(30)
    <3> QED
      BY <2>1, <3>3, ZenonT(30)
  <2> QED
    BY <2>3, <2>4, ZenonT(30)
<1> QED
  BY <1>9, <1>10, <1>11, <1>12, <1>13, <1>14, <1>15, ZenonT(30) DEF OrderInv

\* At the start there are no results.
LEMMA FlowInitOrder ==
    ASSUME FlowInit
    PROVE  OrderInv /\ Origins
<1>1. /\ PlaceInv /\ chunked = NoReq /\ Loc = "begin" /\ batch = NoBatch /\ last = NoBatch
      /\ Running = {} /\ Admitted = {} /\ waiting = {} /\ adder.new_chunked = NoReq
  BY FlowInitPlaces, EmptyFacts, NoAdderFacts, ZenonT(30) DEF FlowInit, Running, Admitted, PlaceInv
<1>2. /\ Batched = {} /\ batch.kind = "none" /\ batch.chunked = NoReq /\ batch.decoding = {}
      /\ last.kind = "none" /\ last.chunked = NoReq /\ Merging = {}
  BY <1>1, NoBatchFacts, ZenonT(30) DEF Merging, Batched
<1>3. OfLast = {} /\ OfBatch = {}
  BY <1>1, <1>2, ZenonT(30) DEF OfLast, OfBatch, FromLast, FromBatch
<1>4. \A r \in Reqs : ~LastChunk(r) /\ ~BatchChunk(r) /\ ~LastSample(r) /\ ~BatchSample(r)
  BY <1>2, <1>3, ReqsAssumption, ZenonT(30) DEF LastChunk, BatchChunk, LastSample, BatchSample
<1>5. \A r \in Reqs : One(LastChunk(r)) = 0 /\ One(BatchChunk(r)) = 0 /\ ~Decodes(r)
  BY <1>1, <1>2, <1>4, ZenonT(30) DEF One, Decodes
<1>6. \A r \in Reqs : req[r].is_chunked = 0
  BY ZenonT(30) DEF FlowInit
<1>7. ChunksCounted
  BY <1>5, <1>6 DEF ChunksCounted
<1>8. ChunkFollowed /\ ChunksLive /\ PrefillApart /\ Filled
  BY <1>1, <1>2, <1>4, ZenonT(30) DEF ChunkFollowed, ChunksLive, PrefillApart, Filled
<1>9. CommittedTokens /\ SampledAfter
  BY <1>4, <1>5, ZenonT(30) DEF CommittedTokens, SampledAfter
<1>10. Origins
  BY ZenonT(30) DEF FlowInit, Origins
<1> QED
  BY <1>7, <1>8, <1>9, <1>10, ZenonT(30) DEF OrderInv

\* Every step keeps the order of chunks and results, and appends tokens in it.
LEMMA OrderStep ==
    ASSUME PlaceInv, Origins, OrderInv, [FlowNext]_flow
    PROVE  OrderInv' /\ (~Preemption => SampledInOrder)
<1>1. PlaceInv' /\ conf' = conf
  <2>1. conf' = conf
    BY ZenonT(30) DEF FlowNext, flow, Receive, Abort, Admit, Merge, Proceed, Start, ChooseVictims,
       PreemptVictim, GiveUp, Build, ExtendBatch, Filter, RetractRunning, GiveUpLast, DecodeBatch,
       ProcessNext, EndOfIteration
  <2> QED
    BY <2>1, FlowStep, ZenonT(30)
<1> SUFFICES ASSUME ~Preemption PROVE OrderInv' /\ SampledInOrder
  BY <1>1, ZenonT(30) DEF OrderInv, Preemption
<1>2. ASSUME \A r \in Reqs : req'[r].output = req[r].output PROVE SampledInOrder
  BY <1>2, ZenonT(30) DEF SampledInOrder
<1>3. ASSUME NEW r \in Reqs, Receive(r) \/ Abort(r) \/ Admit(r) PROVE OrderInv' /\ SampledInOrder
  <2>1. OrderInv'
    BY <1>3, ReceiveOrder, AbortOrder, AdmitOrder, ZenonT(30)
  <2>2. OutputsKept
    BY <1>3, ReceivePlaces, AbortPlaces, AdmitPlaces, ZenonT(30)
  <2> QED
    BY <1>2, <2>1, <2>2, ZenonT(30) DEF OutputsKept
<1>4. CASE Merge \/ Proceed \/ Start \/ GiveUp \/ Build
  <2>1. OrderInv'
    BY <1>4, MergeOrder, ProceedOrder, StartOrder, GiveUpOrder, BuildOrder, ZenonT(30)
  <2>2. OutputsKept
    BY <1>4, MergePlaces, ProceedPlaces, StartPlaces, GiveUpPlaces, BuildPlaces, ZenonT(30)
  <2> QED
    BY <1>2, <2>1, <2>2, ZenonT(30) DEF OutputsKept
<1>5. ~ChooseVictims /\ ~PreemptVictim
  BY ZenonT(30) DEF ChooseVictims, PreemptVictim, PlaceInv, Kept
<1>6. CASE ExtendBatch \/ Filter \/ RetractRunning \/ GiveUpLast \/ DecodeBatch \/ EndOfIteration
  <2>1. OrderInv'
    BY <1>1, <1>6, ExtendBatchOrder, FilterOrder, RetractRunningOrder, GiveUpLastOrder, DecodeBatchOrder,
       EndOfIterationOrder, ZenonT(30)
  <2>2. OutputsKept
    BY <1>6, ExtendBatchPlaces, FilterPlaces, RetractRunningPlaces, GiveUpLastPlaces, DecodeBatchPlaces,
       EndOfIterationPlaces, ZenonT(30)
  <2> QED
    BY <1>2, <2>1, <2>2, ZenonT(30) DEF OutputsKept
<1>7. CASE ProcessNext
  BY <1>1, <1>7, ProcessNextOrder, ZenonT(30)
<1>8. CASE UNCHANGED flow
  <2>1. /\ UNCHANGED <<conf, req, waiting, running, chunked, batch, last, queue, next, adder>>
        /\ Loc' = Loc
    BY <1>8, ZenonT(30) DEF flow
  <2>2. KeepsReqs({}) /\ KeepsChunks({})
    BY <2>1, ZenonT(30) DEF PlaceInv, ReqTypes, KeepsReqs, SameReq, KeepsChunks
  <2>3. /\ ChunksCounted' /\ SampledAfter'
        /\ \A r \in Reqs : Fresh(r)' = Fresh(r) /\ Finished(r)' = Finished(r) /\ NumTokens(r)' = NumTokens(r)
    BY <2>1, <2>2, QuietOrder, ZenonT(30)
  <2>4. /\ Merging' = Merging /\ Batched' = Batched /\ Running' = Running /\ Admitted' = Admitted
        /\ \A r \in Reqs : /\ LastChunk(r)' = LastChunk(r) /\ BatchChunk(r)' = BatchChunk(r)
                           /\ LastSample(r)' = LastSample(r) /\ BatchSample(r)' = BatchSample(r)
    BY <2>1, SamePending, ZenonT(30) DEF Running, Admitted
  <2>5. ChunkFollowed' /\ PrefillApart' /\ Filled'
    <3>1. \A r : NumTokens(r)' = NumTokens(r) /\ Fresh(r)' = Fresh(r)
      BY <2>1, ZenonT(30) DEF NumTokens, Fresh, Finished
    <3> QED
      BY <2>1, <2>4, <3>1, ZenonT(30) DEF OrderInv, ChunkFollowed, PrefillApart, Filled
  <2>6. ChunksLive'
    <3>1. \A r : Finished(r)' = Finished(r)
      BY <2>1, ZenonT(30) DEF Finished
    <3> QED
      BY <2>1, <2>3, <2>4, <3>1, ZenonT(30) DEF OrderInv, ChunksLive
  <2>7. CommittedTokens'
    <3>1. \A r \in Reqs : Decodes(r)' = Decodes(r)
      BY <2>1, <2>4, ZenonT(30) DEF Decodes
    <3> QED
      BY <2>1, <2>3, <2>4, <3>1, ZenonT(30) DEF OrderInv, CommittedTokens
  <2>8. OrderInv'
    BY <2>3, <2>5, <2>6, <2>7, ZenonT(30) DEF OrderInv
  <2> QED
    BY <1>2, <2>1, <2>8, ZenonT(30)
<1> QED
  BY <1>3, <1>4, <1>5, <1>6, <1>7, <1>8, ZenonT(30) DEF FlowNext

\* Chunks and results keep their order, and every token that is appended was
\* sampled after exactly the tokens its request has.
THEOREM FlowOrder == FlowSpec => [](OrderInv /\ Origins) /\ [][~Preemption => SampledInOrder]_flow
<1> DEFINE I == PlaceInv /\ Origins /\ OrderInv
<1>1. FlowInit => I
  BY FlowInitPlaces, FlowInitOrder, ZenonT(30)
<1>2. I /\ [FlowNext]_flow => I' /\ (~Preemption => SampledInOrder)
  BY FlowStep, OriginsStep, OrderStep, ZenonT(30)
<1> QED
  BY <1>1, <1>2, PTL DEF FlowSpec

=============================================================================
