SPECIFICATION FairSpec
CONSTANTS
    Interval = 2
    Retry = 2
    MaxLag = 0
    SyncMayFail = TRUE
    MaxFaults = 2
    MaxBoots = 2
    MaxPresses = 1
    MaxReruns = 1
    FaultKinds <- LiveFaults
INVARIANTS
    StandingRequestWasTriggered
PROPERTIES
    DueRebootHappens
