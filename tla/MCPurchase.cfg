SPECIFICATION Spec
CONSTANTS
    Request = {r1, r2}
    NoToken = NoToken
    Scenario <- EachRail
    MaxFailed = 1
SYMMETRY RequestSymmetry
CONSTRAINT ExpiryMatters
CHECK_DEADLOCK FALSE
INVARIANTS
    DeliveredIsSettled
    AttemptIsRecorded
    ProofIsRecoverable
    OutboxUntilFinalized
