SPECIFICATION Spec
CONSTANTS
    Collectors = {"speedtest"}
    MaxChanges = 3
    MaxCrashes = 1
    MaxHandlers = 2
INVARIANTS
    OnlyUsableFiles
    WebRunsTheFile
PROPERTIES
    KeepsMailbox
    OverlappingSavesAreRuledOn
    ServicesConverge
CHECK_DEADLOCK FALSE
