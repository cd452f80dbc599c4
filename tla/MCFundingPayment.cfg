SPECIFICATION Spec
CONSTANTS
    p1 = p1
    p3 = p3
    NoGrant = NoGrant
    NoJob = NoJob
    NoLimits = NoLimits
    Grant = {1}
    Purchase = {p1}
    Worker = {w1, w2}
    Amount <- MCAmount
    Limits <- ExactLimit
    Expires <- MCExpires
    OwnerMay = {"bind", "revoke", "pause", "identity", "revoke on chain"}
    MaxTime = 2
    Hour = 2
    Day = 1
    Lifetime = 1
    MaxAttempts = 1
    MaxAge = 2
SYMMETRY Symmetry
CHECK_DEADLOCK FALSE
INVARIANTS
    VerdictMatchesChain
    SentOnce
PROPERTIES
    RevokedIsFinal
    HoldsPayments
