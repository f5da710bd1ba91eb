SPECIFICATION Spec
CONSTANTS
    r1 = r1
    p1 = p1
    Repos = {r1}
    Paths = {p1, p2}
    Commits = {c1}
    NoCommit = NoCommit
    NoPath = NoPath
    CommitRepo <- CommitsInR1
    CommitPaths <- CommitsTouchP1
    ManualModes = {"full"}
    Excludable = {}
    MaxTerminal = 1
    Backoff = 1
    MaxTasks = 3
    MaxJobs = 3
    MaxTime = 1
    MaxCrashes = 1
    MaxFaults = 1
    MaxEdits = 1
    MaxManual = 0
    MaxPolicyEdits = 0
INVARIANTS
    TypeOK
    AdmissionExcludes
    NoEditForgotten
CHECK_DEADLOCK FALSE
