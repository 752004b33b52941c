SPECIFICATION Spec
CONSTANTS
    Provider = "openai"
    Orchestrated = TRUE
    Caller = {c1, c2, c3}
    Request = {r1, r2}
    MaxVersion = 1
    MaxSend = 2
    Upper <- MCUpper
    Bill = {1, 3}
    Grant = 4
    TurnGrant = 1
    WarnPercent = 50
    c1 = c1
    c2 = c2
    c3 = c3
    r1 = r1
    r2 = r2
SYMMETRY Interchangeable
CHECK_DEADLOCK FALSE
INVARIANTS TurnsWithinGrants
PROPERTIES SettledIsFinal
