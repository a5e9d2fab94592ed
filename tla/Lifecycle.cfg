SPECIFICATION Spec
CONSTANTS
    NParticipants = 2
    Hooks <- MCHooks
    e1 = e1
    e2 = e2
    Execs = {e1, e2}
INVARIANTS
    TypeOK
    ReadyMeansStarted
    UnwindAccountsForEveryStart
    AcceptedWorkEndsOrAborts
PROPERTIES
    NoHookRunsTwice
    TeardownInReverse
    BootConcludes
    ShutdownConcludes
CHECK_DEADLOCK FALSE
