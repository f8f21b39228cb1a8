SPECIFICATION FairSpec
CONSTANTS
    Tools = {"none", "railway", "docker", "c3", "login"}
    Readers = {"a1"}
    Ring = 2
    QueueSize = 2
    MaxEvents = 3
    MaxCreates = 1
    MaxStarts = 3
    MaxRestarts = 1
INVARIANTS StreamIsWhole
PROPERTIES StartedEnds
CHECK_DEADLOCK FALSE
