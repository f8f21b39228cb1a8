----------------------------- MODULE MCCompanion -----------------------------
(* A browser with a fleet, a deployment and a restart of the companion; or  *)
(* three starts of one of the tools, and a restart.                         *)
EXTENDS Companion
=============================================================================
