---------------------------- MODULE MCPrefixCache ----------------------------
(* A small instance of PrefixCache. *)
EXTENDS PrefixCache, TLC

CONSTANTS r1, r2, p1, p2, p3, p4, a, b,
    MaxLen   \* longest path and row

MCPaths == UNION {[1 .. n -> Keys] : n \in 0 .. MaxLen}
MCRows == UNION {[1 .. n -> Pages] : n \in 0 .. MaxLen}
Symmetry == Permutations(Reqs) \cup Permutations(Pages)
=============================================================================
