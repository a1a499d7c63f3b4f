SPECIFICATION PartSpec
CONSTANTS
    Services = {"pinger", "web"}
    MaxVersion = 2
    MaxFaults = 1
    Starters = {"pinger", "speedtest", "web"}
    SchemaVersion = 1
    Foreign = {2}
    Statements = 3
    MaxSetupFaults = 2
INVARIANTS
    SuccessIsRunning
    StampNamesTheTree
    StampIsAPromise
PROPERTIES
    ServicesStart
CHECK_DEADLOCK FALSE
