------------------------------- MODULE Ordered -------------------------------
(***************************************************************************)
(* Sets as sequences: what sorted() makes of ids that no two of are equal, *)
(* and what ORDER BY makes of rows that tie.                               *)
(***************************************************************************)
EXTENDS Naturals, Sequences, FiniteSets

\* The elements of S in their order.
Ascending(S) ==
    CHOOSE s \in [1..Cardinality(S) -> S] :
        \A i, j \in 1..Cardinality(S) : i < j => s[i] < s[j]

\* The elements of S by their keys; those of equal keys are in any order.
Orderings(S, key) ==
    {s \in [1..Cardinality(S) -> S] :
        \A i, j \in 1..Cardinality(S) : i < j => s[i] # s[j] /\ key[s[i]] <= key[s[j]]}
=============================================================================
