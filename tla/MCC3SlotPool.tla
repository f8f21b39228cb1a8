---------------------------- MODULE MCC3SlotPool ----------------------------
(* Two agent processes; the first runs two shards of its benchmark.          *)
EXTENDS C3SlotPool, TLC

CONSTANTS s1, s2, s3, p1, p2

TwoAgents == s1 :> p1 @@ s2 :> p1 @@ s3 :> p2
=============================================================================
