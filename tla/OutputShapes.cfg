SPECIFICATION Spec
CONSTANTS
    MaxLines = 1
    MaxTests = 2
INVARIANTS
    ShapesAreRecorded
CHECK_DEADLOCK FALSE
