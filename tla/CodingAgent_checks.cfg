\* One agent, cancelled by a request and by the shutdown.
SPECIFICATION LiveSpec
CONSTANTS
    a1 = a1
    w1 = w1
    k1 = k1
    k2 = k2
    Agent = {a1}
    Workspace = {w1}
    Root <- MCRoot
    Canceller = {k1, k2}
    Kinds = {"contract", "implementation", "review"}
    MaxRounds = 1
    MaxCalls = 2
    MaxChecks = 2
    MaxRepairs = 2
INVARIANTS PassIsEarned VerdictIsCurrent CancelHonoured
PROPERTY RunEnds
