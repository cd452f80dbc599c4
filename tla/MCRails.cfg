SPECIFICATION Spec
CONSTANTS
    n1 = n1
    s1 = s1
    x1 = x1
    p1 = p1
    w1 = w1
    w2 = w2
    c1 = c1
    c2 = c2
    NoTx = NoTx
    NoJob = NoJob
    Reservation = {n1, s1, x1, p1}
    Together = {{n1, s1}, {x1}, {p1}}
    AuthorizationRail <- MCRail
    SingleSubmission = {s1}
    Worker = {w1, w2}
    Copy = {c1, c2}
    MaxNonce = 1
    MaxGeneration = 2
    MaxAttempts = 1
    RejectionIsFinal = TRUE
SYMMETRY WorkerSymmetry
CONSTRAINT FewCopies
CHECK_DEADLOCK FALSE
INVARIANTS
    PaidOnce
    SettledIsPaid
    PayerIsFunded
    InFlightIsTracked
PROPERTIES
    HoldsPayments
