SPECIFICATION Spec
CONSTANTS
    Cap = 4
    Batch = 2
    FlushEvery = 2
    MaxResults = 5
    MaxFaults = 2
    MaxVersions = 3
    MaxStops = 1
    FaultKinds <- AllFaults
INVARIANTS
    TypeOK
    NothingLostWithoutFault
    SignalsAreHeard
PROPERTIES
    KeepsLog
    StopEnds
    ResultsLeaveTheBuffer
