SPECIFICATION FairSpec
CONSTANTS
    e1 = e1
    e2 = e2
    w1 = w1
    w2 = w2
    NoJob = NoJob
    Execution = {e1}
    Worker = {w1}
    EarlyDeadline = 2
    LateDeadline = 2
    Deadline <- MCDeadline
    Lease = 1
    Depth = 0
    MaxTime = 4
    MaxRevisions = 0
    MaxWatchCrashes = 1
CHECK_DEADLOCK FALSE
PROPERTIES
    ConfirmedIsFinalized
