SPECIFICATION FairSpec
CONSTANTS
    p1 = p1
    p3 = p3
    NoGrant = NoGrant
    NoJob = NoJob
    NoLimits = NoLimits
    Grant = {1}
    Purchase = {p1}
    Worker = {w1, w2}
    Amount <- MCAmount
    Limits <- ExactLimit
    Expires <- MCExpires
    OwnerMay = {"bind"}
    MaxTime = 0
    Hour = 2
    Day = 1
    Lifetime = 2
    MaxAttempts = 1
    MaxAge = 9
PROPERTY DecidedIsReconciled
CHECK_DEADLOCK FALSE
