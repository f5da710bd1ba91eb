SPECIFICATION FairSpec
CONSTANTS
    r1 = r1
    Repos = {r1}
    NumConsumers = 2
    Blocking = {1}
    FollowUpDelta = {1}
    Forcible = {2}
    MaxRunAttempts = 2
    SpanThreshold = 1
    Retention = 1
    MaxGenerations = 2
    MaxRuns = 3
    MaxUpsets = 2
INVARIANTS
    TypeOK
    SingleFlight
    CursorTruthful
    ClaimedRunHasWork
    RetryBudget
    LagIsExplained
PROPERTIES
    CursorNeverRegresses
    EveryRunEnds
CHECK_DEADLOCK FALSE
