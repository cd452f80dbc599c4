SPECIFICATION Spec
CONSTANTS
    Request = {r1}
    NoToken = NoToken
    Scenario <- ChangingProxy
    MaxFailed = 1
CHECK_DEADLOCK FALSE
INVARIANTS
    ProvenIsNotFailed
