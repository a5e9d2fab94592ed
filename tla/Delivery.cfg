SPECIFICATION Spec
CONSTANTS
    Jobs = {1, 2, 3}
    Retries = 1
    Replies = {"took_unknown", "took_accepted", "took_failed"}
    Statuses = {"delivered", "failed"}
    Faults = 1
INVARIANTS
    FailureFitsState
    RedrivesAnswerFailures
PROPERTIES
    TerminalIsFinal
    PendingConcludes
CHECK_DEADLOCK FALSE
