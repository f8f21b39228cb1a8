SPECIFICATION FanoutFairSpec
CONSTANTS
    a1 = a1
    a2 = a2
    Agents = {a1, a2}
    Work <- TwoBenchmarks
    Cap = 2
    DeployAttempts = 2
    CancelOnTimeout = FALSE
    Timeouts = {0, 3}
    Fixed = 1
    MaxInput = 4
    Outcomes <- ThreeOutcomes
    InfeasibleQuality <- Worst
    Default = default
    shared = shared
    Shared = shared
    Pools <- SevenPools
    Trees <- SmallTrees
    DefaultCpu = default_cpu
INVARIANTS
    ScoreIsWhole
    PlansAreRight
    LiveJobsAccounted
PROPERTIES
    BenchmarksEnd
CHECK_DEADLOCK FALSE
