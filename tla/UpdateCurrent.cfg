SPECIFICATION Spec
CONSTANTS
    Services = {"pinger", "web"}
    MaxVersion = 2
    MaxFaults = 0
INVARIANTS
    SuccessRunsTheCheckout
CHECK_DEADLOCK FALSE
