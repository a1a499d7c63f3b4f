SPECIFICATION Spec
CONSTANTS
    Windows = {2, 4, 5}
    Reach = 4
    Interval = 3
    MaxLag = 2
    MaxFaults = 1
INVARIANTS
    NeverRaises
