SPECIFICATION FacilitatorSpec
CONSTANTS
    t1 = t1
    n1 = n1
    n2 = n2
    e1 = e1
    e2 = e2
    c1 = c1
    c2 = c2
    w1 = w1
    w2 = w2
    NoJob = NoJob
    NoNode = NoNode
    NoKey = NoKey
    NoBundle = NoBundle
    NoRequest = NoRequest
    NoRotation = NoRotation
    Client = {c1, c2}
    MaxKeys = 3
    Earlier = 1
    MaxLate = 2
    Member <- MCMember
    FirstKey <- MCFirstKey
    Execution = {e1, e2}
    Legacy = {e2}
    Node = {n1, n2}
    Tenant = {t1}
    NodeOf <- MCNodeOf
    TenantOf <- MCTenantOf
    Worker = {w1, w2}
    Cost = {1, 2}
    CommonDeadline = 2
    Deadline <- MCDeadline
    Lease = 1
    DayLength = 1
    MaxInFlight = 2
    MaxDaily = 1
    MaxLifetime = 2
    NodeGas = 2
    PlatformGas = 2
    Controlled <- MCControlled
    MaxTime = 2
    MaxClaims = 2
SYMMETRY WorkerSymmetry
CONSTRAINT Explored
CHECK_DEADLOCK FALSE
INVARIANTS
    DailyGasBounded
    SentIsMetered
    ResumeIsAccepted
    AcceptedIsHeld
