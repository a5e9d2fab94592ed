SPECIFICATION ModelSpec
CONSTANTS
    s1 = s1
    s2 = s2
    b1 = b1
    b2 = b2
    h1 = h1
    h2 = h2
    Sessions = {s1, s2}
    Branches = {b1, b2}
    Handles = {h1, h2}
    None = None
    MaxCalls = 6
    MaxEdits = 2
SYMMETRY MCSymmetry
INVARIANTS
    OneInstance
PROPERTIES
    SavedEditsSurvive
CHECK_DEADLOCK FALSE
