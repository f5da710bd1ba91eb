SPECIFICATION Spec
CONSTANTS
    r1 = r1
    p1 = p1
    Repos = {r1}
    Paths = {p1}
    Commits = {c1}
    NoCommit = NoCommit
    NoPath = NoPath
    CommitRepo <- CommitsInR1
    CommitPaths <- CommitsTouchP1
    ManualModes = {}
    Excludable = {}
    MaxTerminal = 1
    Backoff = 1
    MaxTasks = 2
    MaxJobs = 3
    MaxTime = 0
    MaxCrashes = 0
    MaxFaults = 0
    MaxEdits = 0
    MaxManual = 0
    MaxPolicyEdits = 0
INVARIANT DerivationFollowsRefresh
CHECK_DEADLOCK FALSE
