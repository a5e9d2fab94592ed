SPECIFICATION Spec
CONSTANTS
    w1 = w1
    w2 = w2
    r1 = r1
    r2 = r2
    j1 = j1
    Workers = {w1, w2}
    Rows = {r1, r2}
    Jobs = {j1}
    JobOf <- MCJobOf
    Retries = 1
    Faults = 2
    Redrives = 1
INVARIANTS
    HandOffIsAtomic
    OneLiveAttempt
PROPERTIES
    KeepsItsPromise
    IntentsConclude
CHECK_DEADLOCK FALSE
