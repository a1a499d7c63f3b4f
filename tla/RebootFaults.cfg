SPECIFICATION Spec
CONSTANTS
    Interval = 2
    Retry = 2
    MaxLag = 3
    SyncMayFail = FALSE
    MaxFaults = 2
    MaxBoots = 3
    MaxPresses = 1
    MaxReruns = 1
    FaultKinds <- AllFaults
INVARIANTS
    TypeOK
    OneRowPerBoot
    EveryBootRecorded
    NoUnaskedReboot
CHECK_DEADLOCK FALSE
