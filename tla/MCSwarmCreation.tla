-------------------------- MODULE MCSwarmCreation --------------------------
(* Two challenges and one contributor.                                     *)
EXTENDS SwarmCreation
CONSTANTS c1, c2, u, d
=============================================================================
