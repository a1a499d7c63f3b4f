SPECIFICATION Spec
CONSTANTS
    TestIntervals = {6, 8}
    RebootIntervals = {9, 14}
    SkipBefore = 5
    MaxTest = 3
    StopTimeout = 2
    RebootWorks = FALSE
    MaxEdits = 0
    MaxFaults = 0
PROPERTIES
    TestsGoOn
