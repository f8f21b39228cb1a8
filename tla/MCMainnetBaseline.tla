-------------------------- MODULE MCMainnetBaseline --------------------------
(* Symmetry for checking MainnetBaseline: agents are interchangeable.       *)
EXTENDS MainnetBaseline, TLC

AgentSymmetry == Permutations(Agents)
=============================================================================
