----------------------------- MODULE MCC3Fanout -----------------------------
(* The benchmarks of two agents: one that can be split, one that cannot.    *)
(* The pure parts of a benchmark are checked on all small inputs.           *)
EXTENDS C3Fanout

CONSTANTS a1, a2, shared

TwoBenchmarks == [a \in {a1, a2} |-> IF a = a1 THEN <<2, 1>> ELSE <<0, 1>>]

APool(name, tier, vcpu, rate) ==
    [name |-> name, kind |-> "cpu", available |-> name # "gone", tier |-> tier,
     vcpu |-> vcpu, rate |-> rate]

\* Some without a listed rate or size.
SevenPools == {APool("gone", 3, 192, 192),
               APool("wedged", 1, 96, 192), APool("small", 3, 4, 192),
               APool("large", 2, 48, 1152), APool("middle", 3, 16, 384),
               APool("unpriced", 2, 8, 0), APool("unsized", 3, 0, 96)}

\* A manifest, a harness file, and two files of an algorithm; old or new.
Paths == {[part |-> "manifest", challenge |-> shared, name |-> 1],
          [part |-> "harness", challenge |-> "c", name |-> 1],
          [part |-> "algorithm", challenge |-> "c", name |-> 1],
          [part |-> "algorithm", challenge |-> "c", name |-> 2],
          [part |-> "algorithm", challenge |-> "d", name |-> 1]}
SmallTrees == UNION {[S -> {"old", "new"}] : S \in SUBSET Paths}

Worst == -2

Solved(score) ==
    [inTime |-> TRUE, saved |-> TRUE, judged |-> TRUE, score |-> score]

\* A good solution, one at the bottom of the clamp, one the evaluator rejects.
ThreeOutcomes == {Solved(1), Solved(Worst), [Solved(0) EXCEPT !.judged = FALSE]}
=============================================================================
