-------------------------- MODULE MCTrajectoryPool --------------------------
(* Model values, symmetry and bounds for checking TrajectoryPool with TLC.  *)
EXTENDS TrajectoryPool, TLC

\* Below zero (never banked), on the boundary, and above.
SignedScores == {-1, 0, 1}

PoolableScores == {0, 1}

\* Every agent stays on one challenge; its state on the others goes silent.
LoyalKeys == Agents \X {CHOOSE c \in Challenges : TRUE}

AgentSymmetry == Permutations(Agents)
=============================================================================
