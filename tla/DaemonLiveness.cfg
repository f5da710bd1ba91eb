SPECIFICATION FairSpec
CONSTANTS
    r1 = r1
    p1 = p1
    Repos = {r1}
    Paths = {p1}
    Commits = {}
    NoCommit = NoCommit
    NoPath = NoPath
    CommitRepo <- CommitsInR1
    CommitPaths <- CommitsTouchP1
    ManualModes = {"full"}
    Excludable = {p1}
    MaxTerminal = 1
    Backoff = 1
    MaxTasks = 3
    MaxJobs = 2
    MaxTime = 0
    MaxCrashes = 1
    MaxFaults = 0
    MaxEdits = 2
    MaxManual = 1
    MaxPolicyEdits = 1
INVARIANT NoEditForgotten
PROPERTY EveryEditIsRead
CHECK_DEADLOCK FALSE
