--------------------------- MODULE OperatorLemmas ---------------------------
(***************************************************************************)
(* What the operators on sequences, on pages and on the tree return.       *)
(***************************************************************************)
EXTENDS KVCache, FiniteSetTheorems, WellFoundedInduction, TLAPS

-----------------------------------------------------------------------------
(* Numbers.                                                                *)

\* A set of natural numbers has a least member: the form of induction that the
\* proofs below use, on the set of counterexamples.
LEMMA LeastNat ==
    ASSUME NEW T, T \subseteq Nat, T # {}
    PROVE  \E x \in T : \A y \in T : x <= y
<1> DEFINE Less == {ss \in Nat \X Nat : ss[1] < ss[2]}
<1>1. IsWellFoundedOn(Less, Nat)
  BY NatLessThanWellFounded DEF OpToRel
<1> HIDE DEF Less
<1>2. PICK x \in T : \A y \in T : ~(<<y, x>> \in Less)
  BY <1>1, WFMin, ZenonT(30)
<1>3. ASSUME NEW y \in T PROVE x <= y
  <2>1. x \in Nat /\ y \in Nat
    OBVIOUS
  <2>2. ~(y < x)
    BY <1>2, <2>1, ZenonT(30) DEF Less
  <2> QED
    BY <2>1, <2>2
<1> QED
  BY <1>3

\* Min of a set of natural numbers.
LEMMA MinNat ==
    ASSUME NEW T, T \subseteq Nat, T # {}
    PROVE  Min(T) \in T /\ \A y \in T : Min(T) <= y
BY LeastNat, ZenonT(30) DEF Min

-----------------------------------------------------------------------------
(* The i-th smallest number, and filters.                                  *)

Rank(S, x) == Cardinality({y \in S : y <= x})

\* Ranks grow with the numbers.
LEMMA RankFacts ==
    ASSUME NEW S, S \subseteq Nat, IsFiniteSet(S), NEW x \in S
    PROVE  /\ Rank(S, x) \in 1 .. Cardinality(S)
           /\ \A z \in S : x < z => Rank(S, x) < Rank(S, z)
<1> DEFINE C(z) == {y \in S : y <= z}
<1>1. \A z \in S : IsFiniteSet(C(z)) /\ C(z) \subseteq S /\ z \in C(z)
  BY FS_Subset
<1>2. Rank(S, x) \in 1 .. Cardinality(S)
  <2>1. Cardinality(C(x)) \in Nat /\ Cardinality(C(x)) <= Cardinality(S) /\ Cardinality(S) \in Nat
    BY <1>1, FS_Subset, FS_CardinalityType
  <2>2. Cardinality(C(x)) # 0
    BY <1>1, FS_EmptySet
  <2> QED
    BY <2>1, <2>2 DEF Rank
<1>3. ASSUME NEW z \in S, x < z PROVE Rank(S, x) < Rank(S, z)
  <2>1. \A y \in S : y \in Int
    OBVIOUS
  <2>2. C(x) \subseteq C(z) /\ z \notin C(x) /\ z \in C(z)
    <3>1. (\A y \in S : y <= x => y <= z) /\ ~(z <= x) /\ z <= z
      BY <1>3, <2>1
    <3> QED
      BY <3>1, ZenonT(30)
  <2>3. C(x) # C(z) /\ IsFiniteSet(C(z)) /\ IsFiniteSet(C(x))
    BY <1>1, <2>2
  <2>4. /\ Cardinality(C(x)) <= Cardinality(C(z)) /\ Cardinality(C(x)) # Cardinality(C(z))
        /\ Cardinality(C(x)) \in Nat /\ Cardinality(C(z)) \in Nat
    BY <2>2, <2>3, FS_Subset, FS_CardinalityType
  <2> HIDE DEF C
  <2>5. Cardinality(C(x)) < Cardinality(C(z))
    BY <2>4
  <2> USE DEF C
  <2> QED
    BY <2>5 DEF Rank
<1> QED
  BY <1>2, <1>3

\* Every rank up to the size of the set is taken.
LEMMA RankTaken ==
    ASSUME NEW S, S \subseteq Nat, IsFiniteSet(S), NEW i \in 1 .. Cardinality(S)
    PROVE  \E x \in S : Rank(S, x) = i
<1> DEFINE T == {j \in 1 .. Cardinality(S) : \A x \in S : Rank(S, x) # j}
<1>0. Cardinality(S) \in Nat
  BY FS_CardinalityType
<1>1. SUFFICES ASSUME T # {} PROVE FALSE
  OBVIOUS
<1>2. PICK j \in T : \A y \in T : j <= y
  <2>1. T \subseteq Nat
    BY <1>0
  <2> HIDE DEF T
  <2> QED
    BY <1>1, <2>1, LeastNat, ZenonT(30)
<1> HIDE DEF T
<1>3. j \in 1 .. Cardinality(S) /\ \A x \in S : Rank(S, x) # j
  BY DEF T
<1>4. CASE j = 1
  <2>1. S # {}
    BY <1>3, <1>0, FS_EmptySet
  <2>2. PICK x \in S : \A y \in S : x <= y
    BY <2>1, LeastNat, ZenonT(30)
  <2>3. {y \in S : y <= x} = {x}
    <3>1. \A y \in S : y \in Int
      OBVIOUS
    <3>2. x <= x /\ \A y \in S : y <= x => y = x
      BY <2>2, <3>1
    <3> QED
      BY <3>2, ZenonT(30)
  <2>4. Rank(S, x) = 1
    BY <2>3, FS_Singleton DEF Rank
  <2> QED
    BY <1>3, <1>4, <2>4
<1>5. CASE j # 1
  <2>1. j - 1 \in 1 .. Cardinality(S) /\ ~(j <= j - 1)
    BY <1>0, <1>3, <1>5
  <2>2. j - 1 \notin T
    BY <1>2, <2>1
  <2>3. PICK x \in S : Rank(S, x) = j - 1
    BY <2>1, <2>2 DEF T
  <2> DEFINE above == {y \in S : y > x}
             upto == {y \in S : y <= x}
  <2>4. above # {}
    <3>1. SUFFICES ASSUME above = {} PROVE FALSE
      OBVIOUS
    <3>2. \A y \in S : y > x \/ y <= x
      OBVIOUS
    <3>3. upto = S
      BY <3>1, <3>2, ZenonT(30)
    <3> QED
      BY <1>0, <1>3, <2>3, <3>3 DEF Rank
  <2>5. PICK z \in above : \A y \in above : z <= y
    BY <2>4, LeastNat, ZenonT(30)
  <2>6. {y \in S : y <= z} = upto \cup {z} /\ z \notin upto
    <3>1. \A y \in S : y \in Int
      OBVIOUS
    <3>2. z \in S /\ z > x /\ \A y \in S : y > x => z <= y
      BY <2>5
    <3>3. ~(z <= x) /\ \A y \in S : y <= z <=> y <= x \/ y = z
      BY <3>1, <3>2
    <3> QED
      BY <3>2, <3>3, ZenonT(30)
  <2>7. IsFiniteSet(upto)
    BY FS_Subset
  <2>8. Cardinality(upto \cup {z}) = Cardinality(upto) + 1
    BY <2>6, <2>7, FS_AddElement, ZenonT(30)
  <2>9. Rank(S, z) = j
    BY <1>3, <2>3, <2>6, <2>8 DEF Rank
  <2> QED
    BY <1>3, <2>9
<1> QED
  BY <1>4, <1>5

\* Nth picks the number of that rank, a different one for each i, and reaches all.
LEMMA NthFacts ==
    ASSUME NEW S, S \subseteq Nat, IsFiniteSet(S)
    PROVE  /\ \A i \in 1 .. Cardinality(S) : Nth(S, i) \in S /\ Rank(S, Nth(S, i)) = i
           /\ \A x \in S : \E i \in 1 .. Cardinality(S) : Nth(S, i) = x
<1>1. \A i \in 1 .. Cardinality(S) : Nth(S, i) \in S /\ Rank(S, Nth(S, i)) = i
  <2> SUFFICES ASSUME NEW i \in 1 .. Cardinality(S)
               PROVE  Nth(S, i) \in S /\ Rank(S, Nth(S, i)) = i
    OBVIOUS
  <2>1. \E x \in S : Rank(S, x) = i
    BY RankTaken, ZenonT(30)
  <2> QED
    BY <2>1, ZenonT(30) DEF Nth, Rank
<1>2. ASSUME NEW x \in S PROVE \E i \in 1 .. Cardinality(S) : Nth(S, i) = x
  <2> DEFINE i == Rank(S, x)
             y == Nth(S, i)
  <2>1. i \in 1 .. Cardinality(S)
    BY RankFacts, ZenonT(30)
  <2>2. y \in S /\ Rank(S, y) = i
    BY <1>1, <2>1
  <2>3. ~(x < y) /\ ~(y < x)
    <3>1. x < y => Rank(S, x) < Rank(S, y)
      BY <2>2, RankFacts, ZenonT(30)
    <3>2. y < x => Rank(S, y) < Rank(S, x)
      BY <2>2, RankFacts, ZenonT(30)
    <3>3. Rank(S, x) = Rank(S, y) /\ Rank(S, x) \in Int
      BY <2>1, <2>2
    <3> HIDE DEF i, y
    <3> QED
      BY <3>1, <3>2, <3>3
  <2>4. \A z \in S : z \in Int
    OBVIOUS
  <2> HIDE DEF y
  <2>5. x = y
    BY <2>2, <2>3, <2>4
  <2> QED
    BY <2>1, <2>5 DEF y
<1> QED
  BY <1>1, <1>2

\* What a filter keeps.
LEMMA WithoutFacts ==
    ASSUME NEW T, NEW s \in Seq(T), NEW S
    PROVE  /\ Without(s, S) \in Seq(T)
           /\ Range(Without(s, S)) = Range(s) \ S
           /\ Len(Without(s, S)) <= Len(s)
           /\ IsInjective(s) => IsInjective(Without(s, S))
<1> DEFINE kept == {i \in DOMAIN s : s[i] \notin S}
           w == Without(s, S)
<1>1. DOMAIN s = 1 .. Len(s) /\ Len(s) \in Nat
  OBVIOUS
<1>2. kept \subseteq Nat /\ IsFiniteSet(kept) /\ Cardinality(kept) \in Nat
      /\ Cardinality(kept) <= Len(s)
  <2>1. IsFiniteSet(1 .. Len(s)) /\ Cardinality(1 .. Len(s)) = Len(s)
    BY <1>1, FS_Interval
  <2>2. kept \subseteq 1 .. Len(s)
    BY <1>1
  <2> QED
    BY <1>1, <2>1, <2>2, FS_Subset, FS_CardinalityType
<1>3. w = [j \in 1 .. Cardinality(kept) |-> s[Nth(kept, j)]]
  BY DEF Without
<1>4. /\ \A i \in 1 .. Cardinality(kept) : Nth(kept, i) \in kept /\ Rank(kept, Nth(kept, i)) = i
      /\ \A x \in kept : \E i \in 1 .. Cardinality(kept) : Nth(kept, i) = x
  BY <1>2, NthFacts, ZenonT(30)
<1>5. \A k \in kept : k \in 1 .. Len(s) /\ s[k] \in T /\ s[k] \notin S
  BY <1>1
<1> HIDE DEF kept, w
<1>6. w \in Seq(T) /\ DOMAIN w = 1 .. Cardinality(kept) /\ Len(w) = Cardinality(kept)
  <2>1. \A i \in 1 .. Cardinality(kept) : s[Nth(kept, i)] \in T
    BY <1>4, <1>5
  <2>2. w \in [1 .. Cardinality(kept) -> T]
    BY <1>3, <2>1
  <2> QED
    BY <1>2, <2>2
<1>7. Range(w) = Range(s) \ S
  <2>1. ASSUME NEW x \in Range(w) PROVE x \in Range(s) \ S
    BY <1>1, <1>3, <1>4, <1>5, <1>6 DEF Range
  <2>2. ASSUME NEW x \in Range(s) \ S PROVE x \in Range(w)
    <3>1. PICK k \in DOMAIN s : s[k] = x
      BY DEF Range
    <3>2. k \in kept
      BY <3>1 DEF kept
    <3>3. PICK i \in 1 .. Cardinality(kept) : Nth(kept, i) = k
      BY <1>4, <3>2
    <3> QED
      BY <1>3, <1>6, <3>1, <3>3 DEF Range
  <2> QED
    BY <2>1, <2>2
<1>8. ASSUME IsInjective(s) PROVE IsInjective(w)
  <2> SUFFICES ASSUME NEW a \in 1 .. Cardinality(kept), NEW b \in 1 .. Cardinality(kept), w[a] = w[b]
               PROVE  a = b
    BY <1>6 DEF IsInjective
  <2>1. s[Nth(kept, a)] = s[Nth(kept, b)]
    BY <1>3
  <2>2. Nth(kept, a) = Nth(kept, b)
    BY <1>1, <1>4, <1>5, <1>8, <2>1 DEF IsInjective
  <2> QED
    BY <1>4, <2>2
<1> QED
  BY <1>2, <1>6, <1>7, <1>8 DEF w

\* A sequence without repetitions is as long as the set of its members.
LEMMA InjectiveCardinality ==
    ASSUME NEW T, NEW s \in Seq(T), IsInjective(s)
    PROVE  IsFiniteSet(Range(s)) /\ Cardinality(Range(s)) = Len(s)
<1>1. DOMAIN s = 1 .. Len(s) /\ Len(s) \in Nat
  OBVIOUS
<1>2. IsFiniteSet(1 .. Len(s)) /\ Cardinality(1 .. Len(s)) = Len(s)
  BY <1>1, FS_Interval
<1>3. s \in [1 .. Len(s) -> Range(s)]
  BY <1>1 DEF Range
<1>4. s \in Bijection(1 .. Len(s), Range(s))
  BY <1>1, <1>3 DEF Bijection, Injection, Surjection, IsInjective, Range
<1>5. ExistsBijection(1 .. Len(s), Range(s))
  BY <1>4 DEF ExistsBijection
<1>6. IsFiniteSet(Range(s)) /\ Cardinality(Range(s)) = Cardinality(1 .. Len(s))
  BY <1>2, <1>5, FS_Bijection, ZenonT(30)
<1> QED
  BY <1>2, <1>6

-----------------------------------------------------------------------------
(* Numbers of tokens and of pages.                                         *)

LEMMA MinMaxTwo ==
    ASSUME NEW a \in Int, NEW b \in Int
    PROVE  /\ Min({a, b}) \in {a, b} /\ Min({a, b}) <= a /\ Min({a, b}) <= b
           /\ Max({a, b}) \in {a, b} /\ Max({a, b}) >= a /\ Max({a, b}) >= b
<1>1. \E x \in {a, b} : \A y \in {a, b} : x <= y
  OBVIOUS
<1>2. \E x \in {a, b} : \A y \in {a, b} : x >= y
  OBVIOUS
<1>3. Min({a, b}) \in {a, b} /\ \A y \in {a, b} : Min({a, b}) <= y
  BY <1>1, ZenonT(30) DEF Min
<1>4. Max({a, b}) \in {a, b} /\ \A y \in {a, b} : Max({a, b}) >= y
  BY <1>2, ZenonT(30) DEF Max
<1> QED
  BY <1>3, <1>4

\* Whole pages of n tokens: n rounded down to a multiple of the page size.
LEMMA FloorFacts ==
    ASSUME NEW n \in Int
    PROVE  /\ n \div PageSize \in Int /\ PageFloor(n) \in Int
           /\ PageFloor(n) <= n /\ n < PageFloor(n) + PageSize
BY PageSizeAssumption DEF PageFloor

LEMMA MultipleFacts ==
    ASSUME NEW k \in Int
    PROVE  k * PageSize \in Int /\ PageFloor(k * PageSize) = k * PageSize
<1>1. PageSize \in Nat /\ PageSize > 0
  BY PageSizeAssumption
<1>2. k * PageSize \in Int
  BY <1>1
<1>3. PICK d \in Int : d = (k * PageSize) \div PageSize
  BY <1>2, FloorFacts
<1>4. d * PageSize <= k * PageSize /\ k * PageSize < d * PageSize + PageSize
  BY <1>2, <1>3, FloorFacts DEF PageFloor
<1>5. d = k
  <2>1. CASE d < k
    <3>1. d + 1 <= k
      BY <2>1
    <3>2. (d + 1) * PageSize <= k * PageSize
      BY <1>1, <3>1
    <3> QED
      BY <1>1, <1>4, <3>2
  <2>2. CASE d > k
    <3>1. (k + 1) * PageSize <= d * PageSize
      BY <1>1, <2>2
    <3> QED
      BY <1>1, <1>4, <3>1
  <2> QED
    BY <2>1, <2>2
<1> QED
  BY <1>2, <1>3, <1>5 DEF PageFloor

\* Pages that hold n tokens: n rounded up.
LEMMA CeilFacts ==
    ASSUME NEW n \in Int
    PROVE  /\ CeilPaged(n) \in Int /\ n <= CeilPaged(n)
           /\ CeilPaged(n) > 0 <=> n > 0
           /\ n > 0 => CeilPaged(n) >= PageSize
<1>1. PageSize \in Nat /\ PageSize > 0
  BY PageSizeAssumption
<1>2. CeilPaged(n) = PageFloor(n + PageSize - 1) /\ n + PageSize - 1 \in Int
  BY <1>1 DEF CeilPaged, NumPages, PageFloor
<1>3. PICK d \in Int : d = (n + PageSize - 1) \div PageSize
  BY <1>2, FloorFacts
<1>4. /\ CeilPaged(n) = d * PageSize /\ d * PageSize \in Int
      /\ d * PageSize <= n + PageSize - 1 /\ n + PageSize - 1 < d * PageSize + PageSize
  BY <1>2, <1>3, FloorFacts DEF PageFloor
<1>5. n > 0 => d >= 1
  <2> SUFFICES ASSUME n > 0, d <= 0 PROVE FALSE
    OBVIOUS
  <2>1. d * PageSize <= 0
    BY <1>1
  <2> QED
    BY <1>1, <1>4, <2>1
<1>6. n <= 0 => d <= 0
  <2> SUFFICES ASSUME n <= 0, d >= 1 PROVE FALSE
    OBVIOUS
  <2>1. d * PageSize >= PageSize
    BY <1>1
  <2> QED
    BY <1>1, <1>4, <2>1
<1>7. (d >= 1 => d * PageSize >= PageSize) /\ (d <= 0 => d * PageSize <= 0)
  BY <1>1
<1> QED
  BY <1>1, <1>4, <1>5, <1>6, <1>7

\* The rest of a budget from which whole pages are taken is less than a page.
LEMMA TruncFacts ==
    ASSUME NEW c \in Int, NEW j \in Int
    PROVE  LET e == PageFloor(PageFloor(c) + j * PageSize) - j * PageSize
           IN e = PageFloor(c) /\ CeilPaged(e) = e /\ e \in Int
<1>1. PageSize \in Nat /\ PageSize > 0
  BY PageSizeAssumption
<1>2. PICK d \in Int : d = c \div PageSize /\ PageFloor(c) = d * PageSize
  BY FloorFacts DEF PageFloor
<1>3. d * PageSize + j * PageSize = (d + j) * PageSize /\ d * PageSize \in Int /\ j * PageSize \in Int
  BY <1>1
<1>4. PageFloor(PageFloor(c) + j * PageSize) = (d + j) * PageSize
  BY <1>2, <1>3, MultipleFacts
<1>5. PageFloor(PageFloor(c) + j * PageSize) - j * PageSize = d * PageSize
  BY <1>3, <1>4
<1>6. CeilPaged(d * PageSize) = d * PageSize
  <2>1. PICK m \in Int : m = (d * PageSize + PageSize - 1) \div PageSize
    BY <1>1, <1>3, FloorFacts
  <2>2. m * PageSize <= d * PageSize + PageSize - 1 /\ d * PageSize <= m * PageSize
        /\ CeilPaged(d * PageSize) = m * PageSize
    BY <1>1, <1>3, <2>1, FloorFacts DEF PageFloor, CeilPaged, NumPages
  <2>3. m * PageSize < (d + 1) * PageSize
    BY <1>1, <1>3, <2>2
  <2>4. m = d
    <3>1. CASE m < d
      <4>1. (m + 1) * PageSize <= d * PageSize
        BY <1>1, <3>1
      <4> QED
        BY <1>1, <2>2, <4>1
    <3>2. CASE m > d
      <4>1. (d + 1) * PageSize <= m * PageSize
        BY <1>1, <3>2
      <4> QED
        BY <1>1, <2>3, <4>1
    <3> QED
      BY <3>1, <3>2
  <2> QED
    BY <2>2, <2>4
<1> QED
  BY <1>2, <1>3, <1>5, <1>6

\* What add_chunked_req takes of a chunk budget c and R free tokens: all n tokens
\* that are left of the request, or all that is left of one of the two.
LEMMA ChunkTaken ==
    ASSUME NEW c \in Int, NEW R \in Int, NEW n \in Int, NEW e,
           e = LET rem == Min({c, R}) IN Min({n, IF rem <= 0 THEN c ELSE rem})
    PROVE  /\ e \in Int /\ CeilPaged(e) \in Int /\ e <= n
           /\ e < n => c - CeilPaged(e) <= 0 \/ R - CeilPaged(e) - PageSize <= 0
<1> DEFINE rem == Min({c, R})
           m == IF rem <= 0 THEN c ELSE rem
<1>1. rem \in {c, R}
  BY MinMaxTwo
<1>2. m \in Int /\ m \in {c, R}
  BY <1>1
<1>3. e = Min({n, m})
  BY ZenonT(30)
<1> HIDE DEF m
<1>4. e \in {n, m} /\ e <= n /\ e <= m
  BY <1>2, <1>3, MinMaxTwo
<1>5. e \in Int
  BY <1>2, <1>4
<1>6. CeilPaged(e) \in Int /\ e <= CeilPaged(e) /\ PageSize \in Nat
  BY <1>5, CeilFacts, PageSizeAssumption
<1> QED
  BY <1>2, <1>4, <1>5, <1>6

-----------------------------------------------------------------------------
(* Slices, and the cached prefix of a key.                                 *)

LEMMA TakeFacts ==
    ASSUME NEW T, NEW s \in Seq(T), NEW n \in Int
    PROVE  /\ Take(s, n) \in Seq(T) /\ Len(Take(s, n)) \in Nat
           /\ n \in 0 .. Len(s) => Len(Take(s, n)) = n
<1> DEFINE e == IF n < Len(s) THEN n ELSE Len(s)
<1>1. e \in Int /\ e <= Len(s) /\ Len(s) \in Nat /\ Take(s, n) = SubSeq(s, 1, e)
      /\ (n \in 0 .. Len(s) => e = n)
  BY DEF Take
<1> HIDE DEF e
<1>2. SubSeq(s, 1, e) \in Seq(T)
  <2>1. \A i \in 1 .. e : i \in 1 .. Len(s)
    BY <1>1
  <2> QED
    BY <1>1, <2>1
<1>3. Len(SubSeq(s, 1, e)) = IF 1 <= e THEN e ELSE 0
  BY <1>1
<1> QED
  BY <1>1, <1>2, <1>3

LEMMA PageAlignedFacts ==
    ASSUME NEW T, NEW s \in Seq(T)
    PROVE  PageAligned(s) \in Seq(T) /\ Len(PageAligned(s)) \in Nat
<1>1. PageFloor(Len(s)) \in Int
  BY FloorFacts
<1> QED
  BY <1>1, TakeFacts DEF PageAligned

\* A set of numbers with a bound has a largest one.
LEMMA LargestNat ==
    ASSUME NEW T, NEW n \in Nat, T \subseteq 0 .. n, T # {}
    PROVE  \E x \in T : \A y \in T : y <= x
<1> DEFINE D == {n - x : x \in T}
<1>1. D \subseteq Nat /\ D # {}
  <2>1. \A x \in T : n - x \in Nat
    OBVIOUS
  <2> QED
    BY <2>1, ZenonT(30)
<1>2. PICK d \in D : \A y \in D : d <= y
  BY <1>1, LeastNat, ZenonT(30)
<1>3. PICK x \in T : d = n - x
  OBVIOUS
<1>4. \A y \in T : n - x <= n - y
  BY <1>2, <1>3, ZenonT(30)
<1> QED
  BY <1>3, <1>4

\* The cached prefix of a key ends with a page.
LEMMA LongestCachedFacts ==
    ASSUME NEW T, NEW key \in Seq(T), NEW t
    PROVE  \E j \in Nat : Len(LongestCached(t, key)) = j * PageSize
<1> DEFINE n == Len(key) \div PageSize
           hits == {k \in PagePaths(key) : k \in DOMAIN t.value}
           I == {i \in 1 .. n : Take(key, i * PageSize) \in hits}
<1>1. PageSize \in Nat /\ PageSize > 0 /\ Len(key) \in Nat
  BY PageSizeAssumption
<1>2. n \in Int /\ n * PageSize <= Len(key)
  BY <1>1, FloorFacts DEF PageFloor
<1>3. hits = {Take(key, i * PageSize) : i \in I}
  BY DEF PagePaths
<1> HIDE DEF n
<1>4. \A i \in 1 .. n : i * PageSize \in 0 .. Len(key)
  <2> SUFFICES ASSUME NEW i \in 1 .. n PROVE i * PageSize \in 0 .. Len(key)
    OBVIOUS
  <2>1. i * PageSize <= n * PageSize /\ 0 <= i * PageSize /\ i * PageSize \in Int /\ n * PageSize \in Int
    BY <1>1, <1>2
  <2> QED
    BY <1>1, <1>2, <2>1
<1>5. \A i \in 1 .. n : Len(Take(key, i * PageSize)) = i * PageSize
  BY <1>4, TakeFacts
<1> HIDE DEF hits
<1>6. CASE hits = {}
  <2>1. LongestCached(t, key) = <<>>
    BY <1>6, ZenonT(30) DEF LongestCached, hits, Root
  <2>2. Len(LongestCached(t, key)) = 0 * PageSize
    BY <1>1, <2>1
  <2> QED
    BY <2>2
<1>7. CASE hits # {}
  <2>1. I # {} /\ I \subseteq 1 .. n
    BY <1>3, <1>7
  <2> HIDE DEF I
  <2>2. PICK m \in I : \A i \in I : i <= m
    <3>1. n \in Nat /\ I \subseteq 0 .. n
      <4>1. PICK i : i \in I /\ i \in 1 .. n
        BY <2>1, ZenonT(30)
      <4>2. n \in Nat
        BY <1>2, <4>1
      <4> QED
        BY <2>1, <4>2
    <3> QED
      BY <2>1, <3>1, LargestNat, ZenonT(30)
  <2>3. \A i \in I : i * PageSize <= m * PageSize
    BY <1>1, <1>2, <2>1, <2>2
  <2>4. \A h \in hits : Len(h) <= Len(Take(key, m * PageSize))
    BY <1>3, <1>5, <2>1, <2>3
  <2>5. LongestCached(t, key) \in hits
    <3>1. \E k \in hits : \A h \in hits : Len(h) <= Len(k)
      BY <1>3, <2>4
    <3>2. LongestCached(t, key) = CHOOSE k \in hits : \A h \in hits : Len(h) <= Len(k)
      BY <1>7, ZenonT(30) DEF LongestCached, hits
    <3> QED
      BY <3>1, <3>2, ZenonT(30)
  <2>6. PICK i \in I : LongestCached(t, key) = Take(key, i * PageSize)
    BY <1>3, <2>5
  <2> QED
    BY <1>2, <1>5, <2>1, <2>6
<1> QED
  BY <1>6, <1>7

LEMMA SeqUnion ==
    ASSUME NEW A, NEW B, NEW s \in Seq(A)
    PROVE  s \in Seq(A \cup B) /\ s \in Seq(B \cup A)
<1>1. s \in [1 .. Len(s) -> A] /\ Len(s) \in Nat
  OBVIOUS
<1>2. s \in [1 .. Len(s) -> A \cup B]
  BY <1>1
<1> QED
  BY <1>1, <1>2

-----------------------------------------------------------------------------
(* The sizes the tree keeps.                                               *)

TreeFields == {"nodes", "value", "lock", "leaves", "evictable", "protected"}
IsTree(t) == DOMAIN t = TreeFields /\ t.evictable \in Int

LEMMA SumFacts ==
    ASSUME NEW f
    PROVE  Total(f) \in Int
BY DEF Total

\* Splits and leaf updates keep the sizes.
LEMMA SplitFacts ==
    ASSUME NEW t, IsTree(t), NEW K
    PROVE  IsTree(SplitNodes(t, K)) /\ SplitNodes(t, K).evictable = t.evictable
BY DEF IsTree, TreeFields, SplitNodes

LEMMA LeafFacts ==
    ASSUME NEW t, IsTree(t), NEW S
    PROVE  IsTree(UpdateLeafStatus(t, S))
BY DEF IsTree, TreeFields, UpdateLeafStatus

LEMMA LockFacts ==
    ASSUME NEW t, IsTree(t), NEW n
    PROVE  IsTree(IncLockRef(t, n)) /\ IsTree(DecLockRef(t, n))
<1> DEFINE path == Ancestors(t, n) \ {Root}
           a == SizeOf(t, {m \in path : t.lock[m] = 0})
           b == SizeOf(t, {m \in path : t.lock[m] = 1})
           l == [m \in t.nodes |-> t.lock[m] + IF m \in path THEN 1 ELSE 0]
           u == [m \in t.nodes |-> t.lock[m] - IF m \in path THEN 1 ELSE 0]
           locked == [t EXCEPT !.lock = l, !.evictable = @ - a, !.protected = @ + a]
           unlocked == [t EXCEPT !.lock = u, !.evictable = @ + b, !.protected = @ - b]
<1>1. a \in Int /\ b \in Int
  BY SumFacts DEF SizeOf
<1>2. /\ IncLockRef(t, n) = UpdateLeafStatus(locked, path)
      /\ DecLockRef(t, n) = UpdateLeafStatus(unlocked, path)
  BY ZenonT(30) DEF IncLockRef, DecLockRef
<1> HIDE DEF path, a, b, l, u
<1>3. IsTree(locked) /\ IsTree(unlocked)
  BY <1>1 DEF IsTree, TreeFields
<1> QED
  BY <1>2, <1>3, LeafFacts

LEMMA InsertFacts ==
    ASSUME NEW t, IsTree(t), NEW T, NEW key \in Seq(T), NEW row
    PROVE  IsTree(Insert(t, key, row).tree)
<1> DEFINE k == LongestCached(t, key)
           s == SplitNodes(t, {k})
           new == {p \in PagePaths(key) : Len(p) > Len(k)}
           l == [m \in s.nodes \cup {key} |-> IF m = key THEN 0 ELSE s.lock[m]]
           v == [p \in DOMAIN s.value \cup new |->
                   IF p \in new THEN row[Len(p) \div PageSize] ELSE s.value[p]]
           grown == [s EXCEPT !.nodes = @ \cup {key}, !.lock = l, !.value = v,
                              !.evictable = @ + Len(key) - Len(k)]
<1>1. Insert(t, key, row).tree = IF new = {} THEN s ELSE UpdateLeafStatus(grown, {k, key})
  BY ZenonT(30) DEF Insert
<1>2. Len(key) \in Nat /\ Len(k) \in Int
  <2>1. PICK j \in Nat : Len(k) = j * PageSize
    BY LongestCachedFacts
  <2> QED
    BY <2>1, PageSizeAssumption
<1>3. IsTree(s)
  BY SplitFacts
<1> HIDE DEF s, k, l, v, new
<1>4. IsTree(grown)
  BY <1>2, <1>3 DEF IsTree, TreeFields
<1> QED
  BY <1>1, <1>3, <1>4, LeafFacts

LEMMA MatchFacts ==
    ASSUME NEW t, IsTree(t), NEW T, NEW key \in Seq(T)
    PROVE  /\ IsTree(MatchPrefix(t, key).tree) /\ MatchPrefix(t, key).tree.evictable = t.evictable
           /\ \E j \in Nat : Len(MatchPrefix(t, key).node) = j * PageSize
<1> DEFINE k == LongestCached(t, PageAligned(key))
<1>1. MatchPrefix(t, key) = [tree |-> SplitNodes(t, {k}), node |-> k]
  BY DEF MatchPrefix
<1>2. \E j \in Nat : Len(k) = j * PageSize
  BY PageAlignedFacts, LongestCachedFacts
<1> HIDE DEF k
<1> QED
  BY <1>1, <1>2, SplitFacts

LEMMA EvictTreeFacts ==
    ASSUME NEW t, IsTree(t), NEW E
    PROVE  IsTree(Evict(t, E))
<1> DEFINE gone == UNION {SegmentPaths(t, e) : e \in E}
           kept == t.nodes \ E
           l == [m \in kept |-> t.lock[m]]
           v == [k \in DOMAIN t.value \ gone |-> t.value[k]]
           z == SizeOf(t, E)
           left == [t EXCEPT !.nodes = kept, !.lock = l, !.value = v, !.leaves = @ \ E,
                             !.evictable = @ - z]
<1>1. z \in Int
  BY SumFacts DEF SizeOf
<1>2. Evict(t, E) = UpdateLeafStatus(left, {Parent(t, e) : e \in E} \ E)
  BY ZenonT(30) DEF Evict
<1> HIDE DEF gone, kept, l, v, z
<1>3. IsTree(left)
  BY <1>1 DEF IsTree, TreeFields
<1> QED
  BY <1>2, <1>3, LeafFacts

-----------------------------------------------------------------------------
(* Memory.                                                                 *)

IsKV(k) == DOMAIN k = {"tree", "free", "slots"} /\ IsTree(k.tree)

LEMMA EmptyKVFacts ==
    ASSUME NEW pool
    PROVE  IsKV(EmptyKV(pool))
BY DEF IsKV, IsTree, TreeFields, EmptyKV, EmptyTree

LEMMA FreeFacts ==
    ASSUME NEW k, IsKV(k), NEW S, NEW t, IsTree(t)
    PROVE  /\ IsKV(Free(k, S)) /\ IsKV([k EXCEPT !.tree = t])
           /\ [k EXCEPT !.tree = t].tree = t /\ [k EXCEPT !.tree = t].free = k.free
BY DEF IsKV, Free

LEMMA WriteFacts ==
    ASSUME NEW k, IsKV(k), NEW n, NEW W
    PROVE  IsKV(WriteKV(Alloc(k, n), W))
<1>1. IsKV(Alloc(k, n))
  BY DEF IsKV, Alloc
<1> DEFINE a == Alloc(k, n)
<1> HIDE DEF a
<1>2. IsKV(a) => IsKV(WriteKV(a, W))
  BY DEF IsKV, WriteKV
<1> QED
  BY <1>1, <1>2 DEF a

LEMMA EvictKVFacts ==
    ASSUME NEW k, IsKV(k), NEW n, NEW k2 \in EvictFromTreeCache(k, n)
    PROVE  IsKV(k2)
<1>1. CASE k2 = k
  BY <1>1
<1>2. CASE k2 # k
  <2>1. PICK E : k2 = [Free(k, EvictedPages(k.tree, E)) EXCEPT !.tree = Evict(k.tree, E)]
    BY <1>2, ZenonT(30) DEF EvictFromTreeCache
  <2>2. IsTree(Evict(k.tree, E))
    BY EvictTreeFacts DEF IsKV
  <2> QED
    BY <2>1, <2>2, FreeFacts, ZenonT(30)
<1> QED
  BY <1>1, <1>2

LEMMA CacheFinishedFacts ==
    ASSUME NEW k, IsKV(k), NEW q, NEW T, TokenIds(q) \in Seq(T), q.committed \in Int, NEW is_insert
    PROVE  IsKV(CacheFinishedReq(k, q, is_insert))
<1> DEFINE toks == Take(TokenIds(q), q.committed)
           key == PageAligned(toks)
           ins == Insert(k.tree, key, q.row)
           dup == RowPages(q, q.protected, IF is_insert THEN ins.prefix_len ELSE Len(key))
           tail == RowPages(q, Len(key), Len(toks))
           t == IF is_insert THEN ins.tree ELSE k.tree
<1>1. CacheFinishedReq(k, q, is_insert) =
        [Free(Free(k, dup), tail) EXCEPT !.tree = DecLockRef(t, q.last_node)]
  BY ZenonT(30) DEF CacheFinishedReq
<1>2. IsTree(t)
  <2>1. key \in Seq(T)
    BY TakeFacts, PageAlignedFacts, ZenonT(30)
  <2>2. IsTree(ins.tree)
    BY <2>1, InsertFacts DEF IsKV
  <2> QED
    BY <2>2 DEF IsKV
<1> HIDE DEF dup, tail, t
<1>3. IsTree(DecLockRef(t, q.last_node))
  BY <1>2, LockFacts
<1>4. IsKV(Free(Free(k, dup), tail))
  <2>1. IsKV(Free(k, dup))
    BY <1>2, FreeFacts, ZenonT(30)
  <2> QED
    BY <1>2, <2>1, FreeFacts, ZenonT(30)
<1> QED
  BY <1>1, <1>3, <1>4, FreeFacts

LEMMA CacheUnfinishedFacts ==
    ASSUME NEW k, IsKV(k), NEW q, NEW T, TokenIds(q) \in Seq(T), q.fill \in Int
    PROVE  IsKV(CacheUnfinishedReq(k, q).kv)
<1> DEFINE key == PageAligned(Take(TokenIds(q), q.fill))
           ins == Insert(k.tree, key, q.row)
           m == MatchPrefix(ins.tree, key)
           dup == RowPages(q, q.protected, ins.prefix_len)
<1>1. CacheUnfinishedReq(k, q).kv =
        [Free(k, dup) EXCEPT !.tree = IncLockRef(DecLockRef(m.tree, q.last_node), m.node)]
  BY ZenonT(30) DEF CacheUnfinishedReq
<1>2. IsTree(m.tree)
  <2>1. key \in Seq(T)
    BY TakeFacts, PageAlignedFacts, ZenonT(30)
  <2>2. IsTree(ins.tree)
    BY <2>1, InsertFacts DEF IsKV
  <2> HIDE DEF key, ins
  <2> QED
    BY <2>1, <2>2, MatchFacts
<1> HIDE DEF dup, m
<1>3. IsTree(IncLockRef(DecLockRef(m.tree, q.last_node), m.node))
  <2>1. IsTree(DecLockRef(m.tree, q.last_node))
    BY <1>2, LockFacts
  <2> QED
    BY <2>1, LockFacts
<1>4. IsKV(Free(k, dup))
  BY <1>2, FreeFacts, ZenonT(30)
<1> QED
  BY <1>1, <1>3, <1>4, FreeFacts

=============================================================================
