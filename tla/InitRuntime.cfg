SPECIFICATION Spec
CONSTANTS
    Selections <- MCSelections
    MaxTasks = 5
    MaxCalls = 2
    Pollers = {poller}
    MaxUpsets = 1
INVARIANTS
    TypeOK
    NoStrandedSession
    CompletedIsTrue
    CompletedCovers
CHECK_DEADLOCK FALSE
