-------------------------------- MODULE Ranks --------------------------------
(* The members of a finite set, as a sequence in the order of their keys.   *)
EXTENDS Naturals, FiniteSets

\* How many come before s.
Rank(S, key, s) == Cardinality({u \in S : key[u] < key[s]})

InOrder(S, key) ==
    [k \in 1 .. Cardinality(S) |-> CHOOSE s \in S : Rank(S, key, s) = k - 1]
=============================================================================
