SPECIFICATION Spec
CONSTANTS
    r1 = r1
    p1 = p1
    p2 = p2
    c1 = c1
    Repos = {r1}
    Paths = {p1, p2}
    Commits = {c1}
    NoCommit = NoCommit
    NoPath = NoPath
    Productions <- CommitProductions
    Excludable = {p2}
    RunningTasks <- OneSyncTask
    Backoff = 1
    MaxJobs = 3
    MaxTime = 1
    MaxCrashes = 1
    MaxFaults = 1
INVARIANTS
    TypeOK
    OneRunningJobPerRepo
    NoProducedWorkLost
PROPERTY
    RefreshesPendingRow
CHECK_DEADLOCK FALSE
