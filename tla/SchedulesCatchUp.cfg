SPECIFICATION SchedulesSpec
CONSTANTS
    Schedulers = {s1, s2}
    Declared <- MCDeclared
    MaxTime = 2
PROPERTY CatchUpsWereMissed
CHECK_DEADLOCK FALSE
