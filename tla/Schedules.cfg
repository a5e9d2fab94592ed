SPECIFICATION SchedulesSpec
CONSTANTS
    Schedulers = {s1, s2}
    Declared <- MCDeclared
    MaxTime = 2
INVARIANTS
    RestartAppliesCommand
PROPERTIES
    CatchUpsAreLater
    SlotsKeepComing
CHECK_DEADLOCK FALSE
