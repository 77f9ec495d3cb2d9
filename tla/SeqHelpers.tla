----------------------------- MODULE SeqHelpers -----------------------------
(* Slices, filters and sums, as the scheduler's modules use them.          *)
EXTENDS Integers, Sequences, FiniteSets, FiniteSetsExt, Functions

\* s is a prefix of t.
IsPrefix(s, t) == Len(s) <= Len(t) /\ \A i \in 1 .. Len(s) : s[i] = t[i]
IsStrictPrefix(s, t) == IsPrefix(s, t) /\ s # t

\* The first n elements of s, or all of s when it is shorter (the slice s[:n]).
Take(s, n) == SubSeq(s, 1, IF n < Len(s) THEN n ELSE Len(s))

\* The i-th smallest number of the finite set S.
Nth(S, i) == CHOOSE x \in S : Cardinality({y \in S : y <= x}) = i

\* The sequence s without the members of S, in the same order.
Without(s, S) ==
    LET kept == {i \in DOMAIN s : s[i] \notin S}
    IN [j \in 1 .. Cardinality(kept) |-> s[Nth(kept, j)]]

\* The sum of the values of f.  They are integers; the test says so to a prover,
\* for which a fold is opaque.
Total(f) ==
    LET n == SumFunction(f)
    IN IF n \in Int THEN n ELSE 0
=============================================================================
