\* Two operations for one bridge address, driven by two requests at a time,
\* and an order paid from the first, completed by three requests.
SPECIFICATION TradingSpec
CONSTANTS
    Operation = {o1, o2}
    Worker = {w1, w2}
    MaxRevision = 14
    NoOp = NoOp
    NoClaim = NoClaim
    Orphan = Orphan
    Session = {s1}
    Caller = {k1, k2, k3}
    NoSession = NoSession
SYMMETRY Interchangeable
CONSTRAINT TradingScenarios
INVARIANTS
    AskedOnce
    EndedHoldsNothing
    CreditIsOwn
    PostedOnce
    OutcomeMatchesVenue
    FundedOrder
PROPERTIES
    AllowedSteps
