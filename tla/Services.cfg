SPECIFICATION PartSpec
CONSTANTS
    TestIntervals = {6, 8}
    RebootIntervals = {9, 14}
    SkipBefore = 5
    MaxTest = 3
    StopTimeout = 2
    RebootWorks = TRUE
    MaxEdits = 1
    MaxFaults = 1
    MaxLines = 3
    MaxTests = 2
    TargetTime = 2
    BusyTime = 1
    StopTime = 6
    FlushEvery = 2
    Cap = 7
    MaxRounds = 4
    MaxFailures = 2
    Windows = {2, 4, 5}
    Reach = 4
    Interval = 3
    MaxLag = 2
    MaxPurgeFaults = 2
INVARIANTS
    RebootSparesTests
    ResultsAreTrue
    RoundsAreWhole
    StopsAreInTime
    NothingOverstays
PROPERTIES
    TestsKeepTheInterval
    SpeedtestsGoOn
    WindowIsKept
    OldPingsGo
