SPECIFICATION Spec
CONSTANTS
    Jobs = {j1, j2}
    NoJob = NoJob
    Legacy = {j1}
    LegacyRow <- OnePendingLegacyRow
    MaxAttempts = 2
    MaxCrashes = 0
    MaxFaults = 0
PROPERTIES
    CompletedStaysGone
CHECK_DEADLOCK FALSE
