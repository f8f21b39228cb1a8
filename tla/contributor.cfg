SPECIFICATION FairSpec
CONSTANTS
    Challenges = {c1, c2}
    Programs = {p1, p2}
    Stub = Stub
    None = None
    FreezeLimit = 2
    SkipFallback = 2
    FixLimit = 1
    Cooldown = 1
    InfeasibleQuality <- Worst
    Default = d
    Suggested = s
    Drawn = r
    Tracks = {t1, t2}
    Searches <- SmallSearches
INVARIANTS
    PublishesMeasured
    WorksOnServersBest
    FreezeIsExact
    LockedOutSpendsNothing
PROPERTIES
    IterationsEnd
