SPECIFICATION FairSpec
CONSTANTS
  s1 = s1
  s2 = s2
  s3 = s3
  p1 = p1
  p2 = p2
  Shards = {s1, s2, s3}
  Procs = {p1, p2}
  ProcOf <- TwoAgents
  Size = 2
  MaxTicket = 5
  MaxCrashes = 1
  MayTear = FALSE
INVARIANTS CapRespected
PROPERTIES ImplementsQueue WaiterServed
CHECK_DEADLOCK FALSE
