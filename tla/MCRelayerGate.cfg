SPECIFICATION RelaySpec
CONSTANTS
    o1 = o1
    o2 = o2
    m1 = m1
    i1 = i1
    i2 = i2
    p1 = p1
    p2 = p2
    p3 = p3
    NoGrant = NoGrant
    NoCall = NoCall
    NoOrder = NoOrder
    NoAttempt = NoAttempt
    Owner = {o1, o2}
    Payee = {m1}
    GrantId = {i1, i2}
    PurchaseId = {p1, p2, p3}
    MaxTime = 3
    Grants <- MCGrants
    Executions <- MCExecutions
    OwnerSignatures <- MCGrants
    ExecutionSignatures <- MCExecutionSignatures
    InitialBalance <- MCInitialBalance
    Orders <- MCOrders
CONSTRAINT Scenarios
INVARIANTS
    ChargedWithinPinnedGrant
    OnePaymentPerPurchase
    AccountingMatchesLog
    LaneIsExclusive
    CompletedIsPaid
PROPERTIES
    RevocationIsFinal
