SPECIFICATION Spec
CONSTANTS
    Interval = 2
    Retry = 2
    MaxLag = 3
    SyncMayFail = FALSE
    MaxFaults = 2
    MaxBoots = 3
    MaxPresses = 1
    MaxReruns = 0
    FaultKinds <- LoudFaults
INVARIANTS
    PlannedIsExpected
    JudgedOnItsOwn
CHECK_DEADLOCK FALSE
