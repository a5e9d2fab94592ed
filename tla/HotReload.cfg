SPECIFICATION Spec
CONSTANTS
    MaxEdits = 3
    Faults = 2
INVARIANTS
    NoChangeIsMissed
    StopLeavesNoChild
CHECK_DEADLOCK FALSE
