-------------------------- MODULE PrefixCacheProofs --------------------------
(***************************************************************************)
(* The invariants of PrefixCache, for any requests, pages and paths.       *)
(***************************************************************************)
EXTENDS PrefixCache, SequenceTheorems, TLAPS

-----------------------------------------------------------------------------
(* Paths.                                                                  *)

\* The first i keys of a path are a path of length i with the same prefixes.
LEMMA UptoFacts ==
    ASSUME NEW k \in Paths, NEW i \in 1 .. Len(k)
    PROVE  /\ k \in Seq(Keys) /\ Len(k) \in Nat
           /\ Upto(k, i) \in Paths
           /\ Len(Upto(k, i)) = i
           /\ \A j \in 1 .. i : Upto(Upto(k, i), j) = Upto(k, j)
<1>1. k \in Seq(Keys) /\ Len(k) \in Nat
  BY PathsAssumption, LenProperties
<1>2. Upto(k, i) \in Paths
  BY PathsAssumption DEF Upto
<1>3. Len(Upto(k, i)) = i
  BY <1>1, SubSeqProperties DEF Upto
<1>4. ASSUME NEW j \in 1 .. i PROVE Upto(Upto(k, i), j) = Upto(k, j)
  <2>1. SubSeq(SubSeq(k, 1, i), 1, j) = SubSeq(k, 1 + 1 - 1, 1 + j - 1)
    BY <1>1, SubSeqOfSubSeq
  <2>2. QED
    BY <2>1, <1>1 DEF Upto
<1>5. QED
  BY <1>1, <1>2, <1>3, <1>4

\* A path above k is a prefix of k, named by its length.
LEMMA AboveFacts ==
    ASSUME NEW k \in Paths, NEW j \in Above(k)
    PROVE  j \in Paths /\ Len(j) \in 1 .. Len(k) /\ j = Upto(k, Len(j))
<1>1. PICK i \in 1 .. Len(k) : j = Upto(k, i)
  BY DEF Above
<1>2. QED
  BY <1>1, UptoFacts

\* A path and one that extends it agree on the prefixes of the shorter one.
LEMMA ExtendsFacts ==
    ASSUME NEW k \in Paths, NEW p \in Paths, Extends(k, p)
    PROVE  \A i \in 1 .. Len(p) : i \in 1 .. Len(k) /\ Upto(p, i) = Upto(k, i)
<1> SUFFICES ASSUME NEW i \in 1 .. Len(p)
             PROVE  i \in 1 .. Len(k) /\ Upto(p, i) = Upto(k, i)
  OBVIOUS
<1>1. Len(p) \in 1 .. Len(k)
  BY UptoFacts, PathsAssumption, LenProperties DEF Extends
<1>2. Upto(Upto(k, Len(p)), i) = Upto(k, i)
  BY <1>1, UptoFacts
<1>3. QED
  BY <1>1, <1>2, PathsAssumption, LenProperties DEF Extends
-----------------------------------------------------------------------------
(* Insertion.                                                              *)

\* The types of the parts of a request.
LEMMA RowFacts ==
    ASSUME TypeOK, NEW r \in Reqs
    PROVE  /\ row[r] \in Seq(Pages) /\ Len(row[r]) \in Nat
           /\ \A i \in 1 .. Len(row[r]) : row[r][i] \in Pages
           /\ pin[r] \in Paths /\ Len(pin[r]) \in Nat
           /\ Own(r) \subseteq 1 .. Len(row[r])
<1>1. row[r] \in Seq(Pages) /\ pin[r] \in Paths
  BY DEF TypeOK
<1>2. Len(row[r]) \in Nat /\ \A i \in 1 .. Len(row[r]) : row[r][i] \in Pages
  BY <1>1, LenProperties
<1>3. Len(pin[r]) \in Nat
  BY <1>1, PathsAssumption, LenProperties
<1>4. QED
  BY <1>1, <1>2, <1>3 DEF Own

\* A path up to k that is not cached yet is at one of r's own positions.
LEMMA NewFacts ==
    ASSUME IInv, NEW r \in Reqs, NEW k \in Paths, MayInsert(r, k), NEW j \in New(k)
    PROVE  /\ j \in Paths /\ j \notin Cached /\ j = Upto(k, Len(j))
           /\ Len(j) \in 1 .. Len(k) /\ Len(j) \in Own(r)
           /\ Inserted(r, k)[j] = row[r][Len(j)]
<1>1. j \in Paths /\ Len(j) \in 1 .. Len(k) /\ j = Upto(k, Len(j))
  BY AboveFacts DEF New
<1>2. j \notin Cached
  BY DEF New
<1>3. Len(j) > Len(pin[r])
  <2> SUFFICES ASSUME Len(j) <= Len(pin[r]) PROVE FALSE
    BY <1>1, RowFacts DEF IInv
  <2>1. Len(j) \in 1 .. Len(pin[r])
    BY <1>1, RowFacts DEF IInv
  <2>2. Upto(pin[r], Len(j)) \in Cached
    BY <2>1 DEF IInv, PinnedCached
  <2>3. Upto(pin[r], Len(j)) = j
    BY <1>1, <2>1, ExtendsFacts, RowFacts DEF IInv, MayInsert
  <2>4. QED
    BY <1>2, <2>2, <2>3
<1>4. Len(j) \in Own(r)
  BY <1>1, <1>3, RowFacts, UptoFacts DEF IInv, Own, MayInsert
<1>5. Inserted(r, k)[j] = row[r][Len(j)]
  BY <1>2 DEF Inserted
<1>6. QED
  BY <1>1, <1>2, <1>4, <1>5

\* The duplicates are the own pages of r at positions whose path is cached.
LEMMA DuplicatesFacts ==
    ASSUME IInv, NEW r \in Reqs, NEW k \in Paths, MayInsert(r, k)
    PROVE  \A p : p \in Duplicates(r, k) <=>
             \E i \in Own(r) : i <= Len(k) /\ Upto(k, i) \in Cached /\ p = row[r][i]
<1>1. ASSUME NEW p \in Duplicates(r, k)
      PROVE  \E i \in Own(r) : i <= Len(k) /\ Upto(k, i) \in Cached /\ p = row[r][i]
  <2>1. PICK h \in Above(k) \ New(k) : Len(h) > Len(pin[r]) /\ p = row[r][Len(h)]
    BY DEF Duplicates
  <2>2. Len(h) \in 1 .. Len(k) /\ h = Upto(k, Len(h))
    BY <2>1, AboveFacts
  <2>3. Len(h) \in Own(r) /\ Len(h) <= Len(k)
    BY <2>1, <2>2, RowFacts, UptoFacts DEF IInv, Own, MayInsert
  <2>4. Upto(k, Len(h)) \in Cached
    BY <2>1, <2>2 DEF New
  <2>5. QED
    BY <2>1, <2>3, <2>4
<1>2. ASSUME NEW p, NEW i \in Own(r), i <= Len(k), Upto(k, i) \in Cached, p = row[r][i]
      PROVE  p \in Duplicates(r, k)
  <2>1. i \in 1 .. Len(k) /\ i > Len(pin[r])
    BY <1>2, RowFacts, PathsAssumption, LenProperties DEF IInv, Own
  <2>2. Upto(k, i) \in Above(k) \ New(k) /\ Len(Upto(k, i)) = i
    BY <1>2, <2>1, UptoFacts DEF Above, New
  <2>3. QED
    BY <1>2, <2>1, <2>2 DEF Duplicates
<1>3. QED
  BY <1>1, <1>2

\* The cache after an insertion.
LEMMA InsertedFacts ==
    ASSUME IInv, NEW r \in Reqs, NEW k \in Paths, MayInsert(r, k)
    PROVE  /\ DOMAIN Inserted(r, k) = Cached \cup New(k)
           /\ Above(k) \subseteq Cached \cup New(k)
           /\ \A j \in Cached : Inserted(r, k)[j] = cache[j]
           /\ Cached \cup New(k) \subseteq Paths
           /\ Inserted(r, k) \in [Cached \cup New(k) -> Pages]
           /\ \A j, h \in Cached \cup New(k) :
                Inserted(r, k)[j] = Inserted(r, k)[h] => j = h
<1>1. DOMAIN Inserted(r, k) = Cached \cup New(k) /\ Above(k) \subseteq Cached \cup New(k)
  BY DEF Inserted, New
<1>2. \A j \in Cached : Inserted(r, k)[j] = cache[j]
  BY DEF Inserted
<1>3. Cached \cup New(k) \subseteq Paths
  BY NewFacts DEF IInv, TypeOK
<1>4. \A j \in Cached \cup New(k) : Inserted(r, k)[j] \in Pages
  <2>1. ASSUME NEW j \in Cached PROVE Inserted(r, k)[j] \in Pages
    BY <1>2 DEF IInv, TypeOK
  <2>2. ASSUME NEW j \in New(k) PROVE Inserted(r, k)[j] \in Pages
    BY NewFacts, RowFacts DEF IInv
  <2>3. QED
    BY <2>1, <2>2
<1>5. Inserted(r, k) \in [Cached \cup New(k) -> Pages]
  BY <1>1, <1>4 DEF Inserted
<1>6. ASSUME NEW j \in Cached \cup New(k), NEW h \in Cached \cup New(k),
             Inserted(r, k)[j] = Inserted(r, k)[h]
      PROVE  j = h
  <2>1. CASE j \in Cached /\ h \in Cached
    BY <1>2, <1>6, <2>1 DEF IInv, PageInOnePlace
  <2>2. CASE j \in New(k) /\ h \in New(k)
    <3>1. Len(j) = Len(h)
      BY <1>6, <2>2, NewFacts DEF IInv, PageInOnePlace
    <3>2. QED
      BY <2>2, <3>1, NewFacts
  <2>3. CASE j \in Cached /\ h \in New(k)
    BY <1>2, <1>6, <2>3, NewFacts DEF IInv, PageInOnePlace
  <2>4. CASE j \in New(k) /\ h \in Cached
    BY <1>2, <1>6, <2>4, NewFacts DEF IInv, PageInOnePlace
  <2>5. QED
    BY <2>1, <2>2, <2>3, <2>4
<1>7. QED
  BY <1>1, <1>2, <1>3, <1>5, <1>6
\* The paths above a path that is inserted are inserted or were cached.
LEMMA InsertedClosed ==
    ASSUME IInv, NEW r \in Reqs, NEW k \in Paths, MayInsert(r, k)
    PROVE  \A j \in Cached \cup New(k) : Above(j) \subseteq Cached \cup New(k)
<1>1. ASSUME NEW j \in New(k), NEW h \in Above(j) PROVE h \in Cached \cup New(k)
  <2>1. j \in Paths /\ j = Upto(k, Len(j)) /\ Len(j) \in 1 .. Len(k)
    BY NewFacts
  <2>2. PICK i \in 1 .. Len(j) : h = Upto(j, i)
    BY DEF Above
  <2>3. i \in 1 .. Len(k) /\ h = Upto(k, i)
    <3>1. Len(k) \in Nat /\ Upto(Upto(k, Len(j)), i) = Upto(k, i)
      BY <2>1, <2>2, UptoFacts
    <3>2. QED
      BY <2>1, <2>2, <3>1
  <2>4. h \in Above(k)
    BY <2>3 DEF Above
  <2>5. QED
    BY <2>4, InsertedFacts
<1>2. QED
  BY <1>1 DEF IInv, PrefixClosed

-----------------------------------------------------------------------------
(* Steps.                                                                  *)

\* A function on 1 .. n is a sequence of length n.
LEMMA FunctionIsSeq ==
    ASSUME NEW n \in Nat, NEW f \in [1 .. n -> Pages]
    PROVE  f \in Seq(Pages) /\ Len(f) = n
OBVIOUS

\* Nothing is cached or owned at first.
LEMMA InitIInv == Init => IInv
<1> SUFFICES ASSUME Init PROVE IInv
  OBVIOUS
<1>1. \A r \in Reqs : row[r] = <<>> /\ pin[r] = <<>>
  BY DEF Init
<1>2. Cached = {}
  BY DEF Init, Cached
<1>3. TypeOK
  BY <1>2, PathsAssumption DEF Init, TypeOK, Cached
<1>4. \A r \in Reqs : Own(r) = {} /\ Len(pin[r]) = 0 /\ Len(row[r]) = 0
  <2>1. Len(<<>>) = 0
    OBVIOUS
  <2>2. \A r \in Reqs : Len(pin[r]) = 0 /\ Len(row[r]) = 0
    BY <1>1, <2>1
  <2>3. ASSUME NEW r \in Reqs PROVE Own(r) = {}
    <3>1. Own(r) = 0 + 1 .. 0
      BY <2>2 DEF Own
    <3>2. QED
      BY <3>1
  <2>4. QED
    BY <2>2, <2>3
<1>5. PageInOnePlace /\ NoLeak /\ PrefixClosed
  BY <1>2, <1>4 DEF Init, PageInOnePlace, NoLeak, PrefixClosed
<1>6. PinnedCached
  <2>1. 1 .. 0 = {}
    OBVIOUS
  <2>2. ASSUME NEW r \in Reqs PROVE Len(pin[r]) <= Len(row[r]) /\ 1 .. Len(pin[r]) = {}
    BY <1>4, <2>1
  <2>3. QED
    BY <2>2 DEF PinnedCached
<1>7. QED
  BY <1>3, <1>5, <1>6 DEF IInv

\* A request that starts to read a cached path owns nothing.
LEMMA AdmitIInv ==
    ASSUME IInv, NEW r \in Reqs, NEW k \in Paths, Admit(r, k)
    PROVE  IInv'
<1> DEFINE f == [i \in 1 .. Len(k) |-> cache[Upto(k, i)]]
<1>1. Len(k) \in Nat /\ \A i \in 1 .. Len(k) : Upto(k, i) \in Cached
  BY PathsAssumption, LenProperties DEF Admit, Above
<1>2. f \in [1 .. Len(k) -> Pages]
  BY <1>1 DEF IInv, TypeOK
<1>3. f \in Seq(Pages) /\ Len(f) = Len(k)
  BY <1>1, <1>2, FunctionIsSeq
<1>4. /\ row' = [row EXCEPT ![r] = f] /\ pin' = [pin EXCEPT ![r] = k]
      /\ cache' = cache /\ free' = free /\ Cached' = Cached /\ row[r] = <<>>
  BY DEF Admit, Cached
<1> HIDE DEF f
<1>5. TypeOK'
  BY <1>3, <1>4 DEF IInv, TypeOK, Cached
<1>6. row'[r] = f /\ pin'[r] = k /\ \A s \in Reqs \ {r} : row'[s] = row[s] /\ pin'[s] = pin[s]
  BY <1>4 DEF IInv, TypeOK
<1>7. Own(r)' = {} /\ Own(r) = {} /\ \A s \in Reqs \ {r} : Own(s)' = Own(s)
  BY <1>1, <1>3, <1>4, <1>6, RowFacts DEF Own, IInv
<1>8. PageInOnePlace'
  BY <1>4, <1>6, <1>7 DEF IInv, PageInOnePlace
<1>9. NoLeak'
  BY <1>4, <1>6, <1>7 DEF IInv, NoLeak
<1>10. PinnedCached'
  <2>1. \A i \in 1 .. Len(k) : row'[r][i] = cache[Upto(k, i)]
    BY <1>6 DEF f
  <2>2. QED
    BY <1>1, <1>3, <1>4, <1>6, <2>1 DEF IInv, PinnedCached
<1>11. PrefixClosed'
  BY <1>4 DEF IInv, PrefixClosed
<1>12. QED
  BY <1>5, <1>8, <1>9, <1>10, <1>11 DEF IInv

\* A batch takes pages that were free, each for one position.
LEMMA GrowIInv ==
    ASSUME IInv, Grow
    PROVE  IInv'
<1> DEFINE Added(s) == Len(row[s]) + 1 .. Len(row'[s])
<1>1. /\ row' \in [Reqs -> Rows] /\ \A s \in Reqs : Extends(row'[s], row[s])
      /\ \A s \in Reqs : \A i \in Added(s) : row'[s][i] \in free
      /\ \A s, t \in Reqs : \A i \in Added(s) : \A j \in Added(t) :
           row'[s][i] = row'[t][j] => s = t /\ i = j
  BY DEF Grow
<1>2. free' = free \ UNION {{row'[s][i] : i \in Added(s)} : s \in Reqs}
  BY DEF Grow
<1>3. cache' = cache /\ pin' = pin /\ Cached' = Cached
  BY DEF Grow, Cached
<1>4. ASSUME NEW s \in Reqs
      PROVE  /\ row'[s] \in Seq(Pages) /\ Len(row'[s]) \in Nat /\ Len(row[s]) <= Len(row'[s])
             /\ \A i \in 1 .. Len(row[s]) : row'[s][i] = row[s][i]
  <2>1. row'[s] \in Seq(Pages) /\ Len(row'[s]) \in Nat /\ Len(row[s]) <= Len(row'[s])
    BY <1>1, RowsAssumption, LenProperties DEF Extends
  <2>2. row[s] = SubSeq(row'[s], 1, Len(row[s]))
    BY <1>1 DEF Extends, Upto
  <2>3. \A i \in 1 .. Len(row[s]) : SubSeq(row'[s], 1, Len(row[s]))[i] = row'[s][i]
    BY <2>1, RowFacts DEF IInv
  <2>4. QED
    BY <2>1, <2>2, <2>3
<1>5. TypeOK'
  BY <1>1, <1>2, <1>3, <1>4 DEF IInv, TypeOK, Cached
<1>6. ASSUME NEW s \in Reqs
      PROVE  /\ Own(s)' = Own(s) \cup Added(s) /\ Own(s) \subseteq 1 .. Len(row[s])
             /\ \A i \in Own(s) : row'[s][i] = row[s][i]
             /\ Len(pin[s]) <= Len(row[s])
  BY <1>3, <1>4, RowFacts DEF IInv, Own, PinnedCached
<1>7. \A p : p \in free' <=> p \in free /\ \A s \in Reqs : \A i \in Added(s) : p # row'[s][i]
  BY <1>2
<1> HIDE DEF Added
<1>8. PageInOnePlace'
  <2>1. \A j \in Cached : cache[j] \notin free'
    BY <1>7 DEF IInv, PageInOnePlace
  <2>2. ASSUME NEW s \in Reqs, NEW i \in Own(s)'
        PROVE  row'[s][i] \notin free' /\ \A j \in Cached : row'[s][i] # cache[j]
    <3>1. CASE i \in Own(s)
      BY <1>6, <1>7, <3>1 DEF IInv, PageInOnePlace
    <3>2. CASE i \in Added(s)
      BY <1>1, <1>7, <3>2 DEF IInv, PageInOnePlace
    <3>3. QED
      BY <1>6, <3>1, <3>2
  <2>3. ASSUME NEW s \in Reqs, NEW i \in Own(s)', NEW t \in Reqs, NEW m \in Own(t)',
               row'[s][i] = row'[t][m]
        PROVE  s = t /\ i = m
    <3>1. CASE i \in Own(s) /\ m \in Own(t)
      BY <1>6, <2>3, <3>1 DEF IInv, PageInOnePlace
    <3>2. CASE i \in Added(s) /\ m \in Added(t)
      BY <1>1, <2>3, <3>2
    <3>3. CASE i \in Own(s) /\ m \in Added(t)
      BY <1>1, <1>6, <2>3, <3>3 DEF IInv, PageInOnePlace
    <3>4. CASE i \in Added(s) /\ m \in Own(t)
      BY <1>1, <1>6, <2>3, <3>4 DEF IInv, PageInOnePlace
    <3>5. QED
      BY <1>6, <3>1, <3>2, <3>3, <3>4
  <2>4. \A j, h \in Cached : cache[j] = cache[h] => j = h
    BY DEF IInv, PageInOnePlace
  <2>5. QED
    BY <1>3, <2>1, <2>2, <2>3, <2>4 DEF PageInOnePlace
<1>9. NoLeak'
  <2> SUFFICES ASSUME NEW p \in Pages
               PROVE  \/ p \in free' \/ \E j \in Cached : cache[j] = p
                      \/ \E s \in Reqs : \E i \in Own(s)' : row'[s][i] = p
    BY <1>3 DEF NoLeak
  <2>1. CASE p \in free
    BY <1>6, <1>7, <2>1
  <2>2. CASE \E s \in Reqs : \E i \in Own(s) : row[s][i] = p
    BY <1>6, <2>2
  <2>3. QED
    BY <2>1, <2>2 DEF IInv, NoLeak
<1>10. PinnedCached'
  <2>1. \A s \in Reqs : \A i \in 1 .. Len(pin[s]) : i \in 1 .. Len(row[s])
    BY <1>6, RowFacts DEF IInv
  <2>2. \A s \in Reqs : Len(pin[s]) <= Len(row'[s])
    BY <1>4, <1>6, RowFacts DEF IInv
  <2>3. QED
    BY <1>3, <1>4, <2>1, <2>2 DEF IInv, PinnedCached
<1>11. PrefixClosed'
  BY <1>3 DEF IInv, PrefixClosed
<1>12. QED
  BY <1>5, <1>8, <1>9, <1>10, <1>11 DEF IInv

\* Sharing: what r stops to own is in the cache now, or was a duplicate and is free.
LEMMA ShareIInv ==
    ASSUME IInv, NEW r \in Reqs, NEW k \in Paths, Share(r, k)
    PROVE  IInv'
<1> DEFINE f == [i \in 1 .. Len(row[r]) |-> IF i <= Len(k) THEN Inserted(r, k)[Upto(k, i)] ELSE row[r][i]]
<1>1. MayInsert(r, k) /\ cache' = Inserted(r, k) /\ free' = free \cup Duplicates(r, k)
  BY DEF Share
<1>2. row' = [row EXCEPT ![r] = f] /\ pin' = [pin EXCEPT ![r] = k]
  BY <1>1 DEF Share
<1>3. Len(k) \in Nat /\ Len(row[r]) \in Nat /\ Len(pin[r]) <= Len(k) /\ Len(k) <= Len(row[r])
  BY <1>1, PathsAssumption, LenProperties, RowFacts DEF MayInsert, Extends, IInv
<1>4. Cached' = Cached \cup New(k)
  BY <1>1, InsertedFacts DEF Cached
<1>5. /\ \A i \in 1 .. Len(k) : Upto(k, i) \in Cached \cup New(k)
      /\ \A j \in Cached \cup New(k) : Inserted(r, k)[j] \in Pages
      /\ \A j \in Cached : Inserted(r, k)[j] = cache[j]
  <2>1. \A i \in 1 .. Len(k) : Upto(k, i) \in Above(k)
    BY DEF Above
  <2>2. /\ Above(k) \subseteq Cached \cup New(k)
        /\ Inserted(r, k) \in [Cached \cup New(k) -> Pages]
        /\ \A j \in Cached : Inserted(r, k)[j] = cache[j]
    BY <1>1, InsertedFacts, Zenon
  <2>3. QED
    BY <2>1, <2>2
<1>6. f \in Seq(Pages) /\ Len(f) = Len(row[r])
  <2>1. ASSUME NEW i \in 1 .. Len(row[r])
        PROVE  (IF i <= Len(k) THEN Inserted(r, k)[Upto(k, i)] ELSE row[r][i]) \in Pages
    <3>1. CASE i <= Len(k)
      <4>1. Upto(k, i) \in Cached \cup New(k)
        BY <1>3, <1>5, <3>1
      <4>2. QED
        BY <1>5, <3>1, <4>1
    <3>2. CASE ~(i <= Len(k))
      BY <3>2, RowFacts DEF IInv
    <3>3. QED
      BY <3>1, <3>2
  <2>2. f \in [1 .. Len(row[r]) -> Pages]
    BY <2>1
  <2>3. QED
    BY <1>3, <2>2, FunctionIsSeq
<1>7. /\ \A i \in 1 .. Len(k) : f[i] = Inserted(r, k)[Upto(k, i)]
      /\ \A i \in Len(k) + 1 .. Len(row[r]) : f[i] = row[r][i]
  BY <1>3
<1> HIDE DEF f
<1>8. row'[r] = f /\ pin'[r] = k /\ \A s \in Reqs \ {r} : row'[s] = row[s] /\ pin'[s] = pin[s]
  BY <1>2 DEF IInv, TypeOK
<1>9. \A p \in Duplicates(r, k) : p \in Pages
  BY <1>1, DuplicatesFacts, RowFacts DEF IInv
<1>10. TypeOK'
  <2>1. Cached' \subseteq Paths /\ cache' \in [Cached' -> Pages]
    BY <1>1, <1>4, InsertedFacts
  <2>2. row' \in [Reqs -> Seq(Pages)] /\ pin' \in [Reqs -> Paths]
    BY <1>2, <1>6 DEF IInv, TypeOK
  <2>3. QED
    BY <1>1, <1>9, <2>1, <2>2 DEF IInv, TypeOK
<1>11. Own(r)' = Len(k) + 1 .. Len(row[r]) /\ \A s \in Reqs \ {r} : Own(s)' = Own(s)
  BY <1>6, <1>8 DEF Own
<1>12. \A s \in Reqs : \A i \in Own(s)' : i \in Own(s) /\ row'[s][i] = row[s][i]
  <2>1. \A i \in Own(r)' : i \in Own(r) /\ row'[r][i] = row[r][i]
    BY <1>3, <1>7, <1>8, <1>11, RowFacts DEF Own, IInv
  <2>2. QED
    BY <1>8, <1>11, <2>1
<1>13. \A i \in Own(r)' : i > Len(k)
  BY <1>3, <1>11
<1>14. PageInOnePlace'
  <2>1. \A j, h \in Cached' : cache'[j] = cache'[h] => j = h
    BY <1>1, <1>4, InsertedFacts
  <2>2. ASSUME NEW j \in Cached' PROVE cache'[j] \notin free'
    <3>1. CASE j \in Cached
      <4>1. cache'[j] = cache[j] /\ cache[j] \notin free
        BY <1>1, <3>1, InsertedFacts DEF IInv, PageInOnePlace
      <4>2. cache[j] \notin Duplicates(r, k)
        BY <1>1, <3>1, DuplicatesFacts DEF IInv, PageInOnePlace
      <4>3. QED
        BY <1>1, <4>1, <4>2
    <3>2. CASE j \in New(k)
      <4>1. /\ cache'[j] = row[r][Len(j)] /\ Len(j) \in Own(r)
            /\ j = Upto(k, Len(j)) /\ j \notin Cached
        BY <1>1, <3>2, NewFacts
      <4>2. row[r][Len(j)] \notin free
        BY <4>1 DEF IInv, PageInOnePlace
      <4>3. row[r][Len(j)] \notin Duplicates(r, k)
        BY <1>1, <4>1, DuplicatesFacts DEF IInv, PageInOnePlace
      <4>4. QED
        BY <1>1, <4>1, <4>2, <4>3
    <3>3. QED
      BY <1>4, <3>1, <3>2
  <2>3. ASSUME NEW s \in Reqs, NEW i \in Own(s)'
        PROVE  row'[s][i] \notin free' /\ \A j \in Cached' : row'[s][i] # cache'[j]
    <3>1. i \in Own(s) /\ row'[s][i] = row[s][i] /\ (s = r => i > Len(k))
      BY <1>12, <1>13
    <3>2. row[s][i] \notin free
      BY <3>1 DEF IInv, PageInOnePlace
    <3>3. row[s][i] \notin Duplicates(r, k)
      <4> SUFFICES ASSUME row[s][i] \in Duplicates(r, k) PROVE FALSE
        OBVIOUS
      <4>1. PICK m \in Own(r) : m <= Len(k) /\ row[s][i] = row[r][m]
        BY <1>1, DuplicatesFacts
      <4>2. s = r /\ i = m
        BY <3>1, <4>1 DEF IInv, PageInOnePlace
      <4>3. QED
        BY <1>3, <1>13, <4>1, <4>2, RowFacts DEF IInv
    <3>4. ASSUME NEW j \in Cached' PROVE row[s][i] # cache'[j]
      <4>1. CASE j \in Cached
        BY <1>1, <1>5, <3>1, <4>1 DEF IInv, PageInOnePlace
      <4>2. CASE j \in New(k)
        <5>1. cache'[j] = row[r][Len(j)] /\ Len(j) \in Own(r) /\ Len(j) \in 1 .. Len(k)
          BY <1>1, <4>2, NewFacts
        <5>2. row[s][i] = row[r][Len(j)] => s = r /\ i = Len(j)
          BY <3>1, <5>1 DEF IInv, PageInOnePlace
        <5>3. QED
          BY <1>3, <3>1, <5>1, <5>2
      <4>3. QED
        BY <1>4, <4>1, <4>2
    <3>5. QED
      BY <1>1, <3>1, <3>2, <3>3, <3>4
  <2>4. \A s, t \in Reqs : \A i \in Own(s)' : \A m \in Own(t)' :
          row'[s][i] = row'[t][m] => s = t /\ i = m
    BY <1>12 DEF IInv, PageInOnePlace
  <2>5. QED
    BY <2>1, <2>2, <2>3, <2>4 DEF PageInOnePlace
<1>15. NoLeak'
  <2> SUFFICES ASSUME NEW p \in Pages
               PROVE  \/ p \in free' \/ \E j \in Cached' : cache'[j] = p
                      \/ \E s \in Reqs : \E i \in Own(s)' : row'[s][i] = p
    BY DEF NoLeak
  <2>1. CASE p \in free
    BY <1>1, <2>1
  <2>2. CASE \E j \in Cached : cache[j] = p
    BY <1>1, <1>4, <2>2, InsertedFacts
  <2>3. ASSUME NEW s \in Reqs \ {r}, NEW i \in Own(s), row[s][i] = p
        PROVE  \E t \in Reqs : \E m \in Own(t)' : row'[t][m] = p
    BY <1>8, <1>11, <2>3
  <2>4. ASSUME NEW i \in Own(r), row[r][i] = p
        PROVE  \/ p \in free' \/ \E j \in Cached' : cache'[j] = p
               \/ \E t \in Reqs : \E m \in Own(t)' : row'[t][m] = p
    <3>1. i \in 1 .. Len(row[r])
      BY RowFacts DEF IInv
    <3>2. CASE i > Len(k)
      <4>1. i \in Own(r)'
        BY <1>3, <1>11, <3>1, <3>2
      <4>2. QED
        BY <1>12, <2>4, <4>1
    <3>3. CASE i <= Len(k) /\ Upto(k, i) \in Cached
      BY <1>1, <2>4, <3>3, DuplicatesFacts
    <3>4. CASE i <= Len(k) /\ Upto(k, i) \notin Cached
      <4>1. i \in 1 .. Len(k)
        BY <1>3, <3>1, <3>4
      <4>2. Upto(k, i) \in New(k) /\ Len(Upto(k, i)) = i
        BY <1>5, <3>4, <4>1, UptoFacts
      <4>3. cache'[Upto(k, i)] = p
        BY <1>1, <2>4, <4>2, NewFacts
      <4>4. QED
        BY <1>4, <4>2, <4>3
    <3>5. QED
      BY <1>3, <3>1, <3>2, <3>3, <3>4
  <2>5. QED
    BY <2>1, <2>2, <2>3, <2>4 DEF IInv, NoLeak
<1>16. PinnedCached'
  <2>1. ASSUME NEW i \in 1 .. Len(k)
        PROVE  Upto(k, i) \in Cached' /\ row'[r][i] = cache'[Upto(k, i)]
    BY <1>1, <1>4, <1>5, <1>7, <1>8
  <2>2. ASSUME NEW s \in Reqs \ {r}, NEW i \in 1 .. Len(pin[s])
        PROVE  Upto(pin[s], i) \in Cached' /\ row'[s][i] = cache'[Upto(pin[s], i)]
    <3>1. Upto(pin[s], i) \in Cached /\ row[s][i] = cache[Upto(pin[s], i)]
      BY DEF IInv, PinnedCached
    <3>2. QED
      BY <1>1, <1>4, <1>5, <1>8, <3>1
  <2>3. \A s \in Reqs : Len(pin'[s]) <= Len(row'[s])
    BY <1>3, <1>6, <1>8 DEF IInv, PinnedCached
  <2>4. ASSUME NEW s \in Reqs, NEW i \in 1 .. Len(pin'[s])
        PROVE  Upto(pin'[s], i) \in Cached' /\ row'[s][i] = cache'[Upto(pin'[s], i)]
    <3>1. CASE s = r
      BY <1>8, <2>1, <3>1
    <3>2. CASE s # r
      <4>1. pin'[s] = pin[s]
        BY <1>8, <3>2
      <4>2. QED
        BY <2>2, <3>2, <4>1
    <3>3. QED
      BY <3>1, <3>2
  <2>5. QED
    BY <2>3, <2>4 DEF PinnedCached
<1>17. PrefixClosed'
  BY <1>1, <1>4, InsertedClosed DEF PrefixClosed
<1>18. QED
  BY <1>10, <1>14, <1>15, <1>16, <1>17 DEF IInv

\* Release: what r owned is in the cache now or is free.
LEMMA ReleaseIInv ==
    ASSUME IInv, NEW r \in Reqs, NEW k \in Paths, Release(r, k)
    PROVE  IInv'
<1> DEFINE Rest == Len(k) + 1 .. Len(row[r])
<1>1. /\ MayInsert(r, k) /\ cache' = Inserted(r, k)
      /\ free' = free \cup Duplicates(r, k) \cup {row[r][i] : i \in Rest}
  BY DEF Release
<1>2. row' = [row EXCEPT ![r] = <<>>] /\ pin' = [pin EXCEPT ![r] = <<>>]
  BY DEF Release
<1>3. Len(k) \in Nat /\ Len(row[r]) \in Nat /\ Len(pin[r]) <= Len(k) /\ Len(k) <= Len(row[r])
  BY <1>1, PathsAssumption, LenProperties, RowFacts DEF MayInsert, Extends, IInv
<1>4. Cached' = Cached \cup New(k)
  BY <1>1, InsertedFacts DEF Cached
<1>5. /\ \A i \in 1 .. Len(k) : Upto(k, i) \in Cached \cup New(k)
      /\ \A j \in Cached : Inserted(r, k)[j] = cache[j]
  BY <1>1, InsertedFacts DEF Above
<1>6. \A i \in Rest : i \in Own(r) /\ i > Len(k)
  BY <1>3, RowFacts DEF Own, IInv
<1>7. ASSUME NEW p
      PROVE  p \in free' <=> \/ p \in free
                             \/ \E i \in Own(r) : i <= Len(k) /\ Upto(k, i) \in Cached /\ p = row[r][i]
                             \/ \E i \in Rest : p = row[r][i]
  BY <1>1, DuplicatesFacts
<1>8. /\ row'[r] = <<>> /\ pin'[r] = <<>>
      /\ \A s \in Reqs \ {r} : row'[s] = row[s] /\ pin'[s] = pin[s] /\ Own(s)' = Own(s)
  BY <1>2 DEF IInv, TypeOK, Own
<1>9. Len(row'[r]) = 0 /\ Len(pin'[r]) = 0 /\ Own(r)' = {}
  <2>1. Len(<<>>) = 0
    OBVIOUS
  <2>2. Len(row'[r]) = 0 /\ Len(pin'[r]) = 0
    BY <1>8, <2>1
  <2>3. Own(r)' = 0 + 1 .. 0
    BY <2>2 DEF Own
  <2>4. QED
    BY <2>2, <2>3
<1> HIDE DEF Rest
<1>10. TypeOK'
  <2>1. Cached' \subseteq Paths /\ cache' \in [Cached' -> Pages]
    BY <1>1, <1>4, InsertedFacts
  <2>2. row' \in [Reqs -> Seq(Pages)] /\ pin' \in [Reqs -> Paths]
    BY <1>2, PathsAssumption DEF IInv, TypeOK
  <2>3. free' \subseteq Pages
    BY <1>6, <1>7, RowFacts DEF IInv, TypeOK
  <2>4. QED
    BY <2>1, <2>2, <2>3 DEF TypeOK
<1>11. PageInOnePlace'
  <2>1. \A j, h \in Cached' : cache'[j] = cache'[h] => j = h
    BY <1>1, <1>4, InsertedFacts
  <2>2. ASSUME NEW j \in Cached' PROVE cache'[j] \notin free'
    <3>1. CASE j \in Cached
      <4>1. cache'[j] = cache[j] /\ cache[j] \notin free /\ \A i \in Own(r) : cache[j] # row[r][i]
        BY <1>1, <1>5, <3>1 DEF IInv, PageInOnePlace
      <4>2. QED
        BY <1>6, <1>7, <4>1
    <3>2. CASE j \in New(k)
      <4>1. /\ cache'[j] = row[r][Len(j)] /\ Len(j) \in Own(r) /\ Len(j) \in 1 .. Len(k)
            /\ j = Upto(k, Len(j)) /\ j \notin Cached
        BY <1>1, <3>2, NewFacts
      <4>2. row[r][Len(j)] \notin free /\ \A i \in Own(r) : row[r][Len(j)] = row[r][i] => i = Len(j)
        BY <4>1 DEF IInv, PageInOnePlace
      <4>3. Len(j) \notin Rest
        BY <1>3, <1>6, <4>1
      <4>4. QED
        BY <1>6, <1>7, <4>1, <4>2, <4>3
    <3>3. QED
      BY <1>4, <3>1, <3>2
  <2>3. ASSUME NEW s \in Reqs, NEW i \in Own(s)'
        PROVE  /\ s # r /\ i \in Own(s) /\ row'[s][i] = row[s][i] /\ row[s][i] \notin free
               /\ \A m \in Own(r) : row[s][i] # row[r][m]
    BY <1>8, <1>9 DEF IInv, PageInOnePlace
  <2>4. ASSUME NEW s \in Reqs, NEW i \in Own(s)'
        PROVE  row'[s][i] \notin free' /\ \A j \in Cached' : row'[s][i] # cache'[j]
    <3>1. row'[s][i] \notin free'
      BY <1>6, <1>7, <2>3
    <3>2. ASSUME NEW j \in Cached' PROVE row'[s][i] # cache'[j]
      <4>1. CASE j \in Cached
        <5>1. i \in Own(s) /\ row[s][i] # cache[j]
          BY <2>3, <4>1 DEF IInv, PageInOnePlace
        <5>2. cache'[j] = cache[j]
          BY <1>1, <1>5, <4>1
        <5>3. QED
          BY <2>3, <5>1, <5>2
      <4>2. CASE j \in New(k)
        BY <1>1, <2>3, <4>2, NewFacts
      <4>3. QED
        BY <1>4, <4>1, <4>2
    <3>3. QED
      BY <3>1, <3>2
  <2>5. \A s, t \in Reqs : \A i \in Own(s)' : \A m \in Own(t)' :
          row'[s][i] = row'[t][m] => s = t /\ i = m
    BY <2>3 DEF IInv, PageInOnePlace
  <2>6. QED
    BY <2>1, <2>2, <2>4, <2>5 DEF PageInOnePlace
<1>12. NoLeak'
  <2> SUFFICES ASSUME NEW p \in Pages
               PROVE  \/ p \in free' \/ \E j \in Cached' : cache'[j] = p
                      \/ \E s \in Reqs : \E i \in Own(s)' : row'[s][i] = p
    BY DEF NoLeak
  <2>1. CASE p \in free
    BY <1>7, <2>1
  <2>2. CASE \E j \in Cached : cache[j] = p
    BY <1>1, <1>4, <1>5, <2>2
  <2>3. ASSUME NEW s \in Reqs \ {r}, NEW i \in Own(s), row[s][i] = p
        PROVE  \E t \in Reqs : \E m \in Own(t)' : row'[t][m] = p
    BY <1>8, <2>3
  <2>4. ASSUME NEW i \in Own(r), row[r][i] = p
        PROVE  p \in free' \/ \E j \in Cached' : cache'[j] = p
    <3>1. i \in 1 .. Len(row[r])
      BY RowFacts DEF IInv
    <3>2. CASE i > Len(k)
      <4>1. i \in Rest
        BY <1>3, <3>1, <3>2 DEF Rest
      <4>2. QED
        BY <1>7, <2>4, <4>1
    <3>3. CASE i <= Len(k) /\ Upto(k, i) \in Cached
      BY <1>7, <2>4, <3>3
    <3>4. CASE i <= Len(k) /\ Upto(k, i) \notin Cached
      <4>1. i \in 1 .. Len(k)
        BY <1>3, <3>1, <3>4
      <4>2. Upto(k, i) \in New(k) /\ Len(Upto(k, i)) = i
        BY <1>5, <3>4, <4>1, UptoFacts
      <4>3. cache'[Upto(k, i)] = p
        BY <1>1, <2>4, <4>2, NewFacts
      <4>4. QED
        BY <1>4, <4>2, <4>3
    <3>5. QED
      BY <1>3, <3>1, <3>2, <3>3, <3>4
  <2>5. QED
    BY <2>1, <2>2, <2>3, <2>4 DEF IInv, NoLeak
<1>13. PinnedCached'
  <2>1. 1 .. 0 = {}
    OBVIOUS
  <2>2. ASSUME NEW s \in Reqs \ {r}, NEW i \in 1 .. Len(pin[s])
        PROVE  Upto(pin[s], i) \in Cached' /\ row'[s][i] = cache'[Upto(pin[s], i)]
    <3>1. Upto(pin[s], i) \in Cached /\ row[s][i] = cache[Upto(pin[s], i)]
      BY DEF IInv, PinnedCached
    <3>2. QED
      BY <1>1, <1>4, <1>5, <1>8, <3>1
  <2>3. ASSUME NEW s \in Reqs
        PROVE  /\ Len(pin'[s]) <= Len(row'[s])
               /\ \A i \in 1 .. Len(pin'[s]) :
                    Upto(pin'[s], i) \in Cached' /\ row'[s][i] = cache'[Upto(pin'[s], i)]
    <3>1. CASE s = r
      BY <1>9, <2>1, <3>1
    <3>2. CASE s # r
      <4>1. pin'[s] = pin[s] /\ row'[s] = row[s] /\ Len(pin[s]) <= Len(row[s])
        BY <1>8, <3>2 DEF IInv, PinnedCached
      <4>2. QED
        BY <2>2, <3>2, <4>1
    <3>3. QED
      BY <3>1, <3>2
  <2>4. QED
    BY <2>3 DEF PinnedCached
<1>14. PrefixClosed'
  BY <1>1, <1>4, InsertedClosed DEF PrefixClosed
<1>15. QED
  BY <1>10, <1>11, <1>12, <1>13, <1>14 DEF IInv

\* Eviction: the pages of the dropped paths are free now.
LEMMA EvictIInv ==
    ASSUME IInv, NEW K \in SUBSET Cached, Evict(K)
    PROVE  IInv'
<1>1. /\ \A j \in K : \A h \in Cached : Extends(h, j) => h \in K
      /\ \A r \in Reqs : K \cap Above(pin[r]) = {}
      /\ cache' = [j \in Cached \ K |-> cache[j]]
      /\ free' = free \cup {cache[j] : j \in K}
      /\ row' = row /\ pin' = pin
  BY DEF Evict
<1>2. Cached' = Cached \ K /\ \A j \in Cached \ K : cache'[j] = cache[j]
  BY <1>1 DEF Cached
<1>3. \A r \in Reqs : Own(r)' = Own(r)
  BY <1>1 DEF Own
<1>4. TypeOK'
  BY <1>1, <1>2 DEF IInv, TypeOK
<1>5. PageInOnePlace'
  BY <1>1, <1>2, <1>3 DEF IInv, PageInOnePlace
<1>6. NoLeak'
  BY <1>1, <1>2, <1>3 DEF IInv, NoLeak
<1>7. PinnedCached'
  <2>1. ASSUME NEW r \in Reqs, NEW i \in 1 .. Len(pin[r])
        PROVE  Upto(pin[r], i) \in Cached' /\ row[r][i] = cache'[Upto(pin[r], i)]
    <3>1. Upto(pin[r], i) \in Cached \ K
      BY <1>1 DEF IInv, PinnedCached, Above
    <3>2. QED
      BY <1>2, <3>1 DEF IInv, PinnedCached
  <2>2. \A r \in Reqs : Len(pin[r]) <= Len(row[r])
    BY DEF IInv, PinnedCached
  <2>3. row' = row /\ pin' = pin
    BY <1>1
  <2>4. QED
    BY <2>1, <2>2, <2>3 DEF PinnedCached
<1>8. PrefixClosed'
  <2> SUFFICES ASSUME NEW j \in Cached \ K, NEW h \in Above(j) PROVE h \in Cached \ K
    BY <1>2 DEF PrefixClosed
  <2>1. h \in Cached
    BY DEF IInv, PrefixClosed
  <2>2. j \in Paths /\ Len(h) \in 1 .. Len(j) /\ h = Upto(j, Len(h))
    BY AboveFacts DEF IInv, TypeOK
  <2>3. Extends(j, h)
    BY <2>2, PathsAssumption, LenProperties DEF Extends
  <2>4. QED
    BY <1>1, <2>1, <2>3
<1>9. QED
  BY <1>4, <1>5, <1>6, <1>7, <1>8 DEF IInv

-----------------------------------------------------------------------------
(* Theorems.                                                               *)

\* IInv is an inductive invariant.
THEOREM Inductive == Spec => []IInv
<1>1. ASSUME IInv, [Next]_vars PROVE IInv'
  <2>1. CASE Grow
    BY <1>1, <2>1, GrowIInv
  <2>2. CASE \E K \in SUBSET Cached : Evict(K)
    BY <1>1, <2>2, EvictIInv
  <2>3. CASE \E r \in Reqs, k \in Paths : Admit(r, k) \/ Share(r, k) \/ Release(r, k)
    BY <1>1, <2>3, AdmitIInv, ShareIInv, ReleaseIInv
  <2>4. CASE UNCHANGED vars
    BY <1>1, <2>4 DEF vars, IInv, TypeOK, PageInOnePlace, NoLeak, PinnedCached, PrefixClosed,
                      Own, Cached
  <2>5. QED
    BY <1>1, <2>1, <2>2, <2>3, <2>4 DEF Next
<1>2. QED
  BY <1>1, InitIInv, PTL DEF Spec

\* No page is in two places, whatever requests share, release and evict:
\* cache_finished_req, cache_unfinished_req and evict free only what nobody
\* else has.
THEOREM PagesPartitioned == Spec => []PageInOnePlace
<1>1. IInv => PageInOnePlace
  BY DEF IInv
<1>2. QED
  BY <1>1, Inductive, PTL

\* And none is lost: they free all that nobody has any more.
THEOREM NoPageLeaks == Spec => []NoLeak
<1>1. IInv => NoLeak
  BY DEF IInv
<1>2. QED
  BY <1>1, Inductive, PTL

\* What a request reads from the cache stays cached, at the pages its row
\* names, until it releases it: match_prefix and inc_lock_ref against evict.
THEOREM PinnedStays == Spec => []PinnedCached
<1>1. IInv => PinnedCached
  BY DEF IInv
<1>2. QED
  BY <1>1, Inductive, PTL

\* Every cached path is reachable from the root: evict drops a node only with
\* everything below it.
THEOREM CacheReachable == Spec => []PrefixClosed
<1>1. IInv => PrefixClosed
  BY DEF IInv
<1>2. QED
  BY <1>1, Inductive, PTL
=============================================================================
