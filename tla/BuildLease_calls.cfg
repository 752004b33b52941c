SPECIFICATION Spec
CONSTANTS
    Provider = "anthropic"
    Orchestrated = FALSE
    Caller = {c1, c2}
    Request = {r1, r2}
    MaxVersion = 2
    MaxSend = 1
    Upper <- MCUpper
    Bill = {1, 3}
    Grant = 3
    TurnGrant = 2
    WarnPercent = 50
    c1 = c1
    c2 = c2
    r1 = r1
    r2 = r2
SYMMETRY Interchangeable
CHECK_DEADLOCK FALSE
INVARIANTS SpendCovered SpendWithinGrants ReservedAgrees NothingUnrecorded
