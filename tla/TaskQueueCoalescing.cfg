SPECIFICATION FairSpec
CONSTANTS
    r1 = r1
    p1 = p1
    p2 = p2
    s1 = s1
    Repos = {r1}
    Paths = {p1, p2}
    Commits = {}
    Sessions = {s1}
    NoCommit = NoCommit
    NoSession = NoSession
    Requests <- CoalescingRequests
    MaxTasks = 2
    MaxTerminal = 1
    Excludable = {p2}
    MaxCrashes = 1
    MaxFaults = 1
INVARIANTS
    TypeOK
    OneRunningPerLane
    PolicySyncRunsAlone
    ExecutionsAreRunning
    AcceptedWorkStaysCovered
PROPERTY EveryTaskEnds
CHECK_DEADLOCK FALSE
