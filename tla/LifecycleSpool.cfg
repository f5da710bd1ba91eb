SPECIFICATION FairSpec
CONSTANTS
    Jobs = {j1, j2, j3}
    NoJob = NoJob
    Legacy = {}
    LegacyRow <- NoLegacyRows
    MaxAttempts = 2
    MaxCrashes = 2
    MaxFaults = 2
INVARIANTS
    TypeOK
    RunningIsHead
    ClaimStillHeld
    RetryBudget
PROPERTIES
    LeavesOnlyAfterSuccess
    ImplementsFifoDelivery
    SettlesUnlessHeadStuck
CHECK_DEADLOCK FALSE
