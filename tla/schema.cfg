SPECIFICATION FairSpec
CONSTANTS
    Latest = 5
    Own = {5}
    Columns = {1, 2, 4}
    Tables = {"agents", "seed_pool", "trajectory_bests"}
    TableOf <- FiveTables
    InSchema = {3, 5}
    Carried = {2, 4}
    MaxCrashes = 2
INVARIANTS ServesWholeSchema
PROPERTIES BootSucceeds
CHECK_DEADLOCK FALSE
