SPECIFICATION Spec
CONSTANTS
    job = job
    framework = framework
    c1 = c1
    Txs = {job, framework}
    Conns = {c1}
    NoConn = NoConn
    Elsewhere = Elsewhere
    Attempts = {job}
    MaxOps = 2
    Callbacks = 1
INVARIANTS
    OperationsShareFate
    NoForeignCancel
    FailureMeansRollback
PROPERTIES
    KeepsItsPromise
    CancelledWorkLetsGo
CHECK_DEADLOCK FALSE
