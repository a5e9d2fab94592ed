SPECIFICATION Spec
CONSTANTS
    Requests = {1, 2, 3}
    Operations = {"view", "socket", "start", "stop", "logout"}
    Idle = 2
    Absolute = 3
    Renewal = 1
    Grace = 1
    Impersonation = 1
    MaxTime = 3
INVARIANTS
    ClientStaysSignedIn
PROPERTIES
    RenewalKeepsCurrent
    GrantsEndAlone
CHECK_DEADLOCK FALSE
