SPECIFICATION Spec
CONSTANTS
    r1 = r1
    p1 = p1
    Repos = {r1}
    Paths = {p1}
    Commits = {}
    NoCommit = NoCommit
    NoPath = NoPath
    CommitRepo <- CommitsInR1
    CommitPaths <- CommitsTouchP1
    ManualModes = {}
    Excludable = {p1}
    MaxTerminal = 1
    Backoff = 1
    MaxTasks = 2
    MaxJobs = 1
    MaxTime = 0
    MaxCrashes = 0
    MaxFaults = 0
    MaxEdits = 1
    MaxManual = 0
    MaxPolicyEdits = 1
INVARIANT RecordedPolicyIsApplied
CHECK_DEADLOCK FALSE
