SPECIFICATION Spec
CONSTANTS
    e1 = e1
    e2 = e2
    w1 = w1
    w2 = w2
    NoJob = NoJob
    Execution = {e1, e2}
    Worker = {w1, w2}
    EarlyDeadline = 2
    LateDeadline = 1
    Deadline <- MCDeadline
    Lease = 1
    Depth = 1
    MaxTime = 4
    MaxRevisions = 1
    MaxWatchCrashes = 1
CONSTRAINT Alternatives
SYMMETRY WorkerSymmetry
CHECK_DEADLOCK FALSE
INVARIANTS
    OneTransactionPerNonce
    ReleasedIsUnpaid
PROPERTIES
    HoldsPayments
