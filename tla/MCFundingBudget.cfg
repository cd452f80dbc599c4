SPECIFICATION Spec
CONSTANTS
    p1 = p1
    p3 = p3
    NoGrant = NoGrant
    NoJob = NoJob
    NoLimits = NoLimits
    Grant = {1}
    Purchase = {p1, p2, p3}
    Worker = {w1, w2}
    Amount <- MCAmount
    Limits <- MixedLimits
    Expires <- MCLater
    OwnerMay = {"bind", "reduce", "amend"}
    MaxTime = 2
    Hour = 2
    Day = 1
    Lifetime = 1
    MaxAttempts = 1
    MaxAge = 9
INVARIANTS CommittedWithinTotal ContractHasRoom LedgerMatchesReservations
PROPERTIES RollingHourBounded
CONSTRAINT TwoScenarios
SYMMETRY Symmetry
CHECK_DEADLOCK FALSE
