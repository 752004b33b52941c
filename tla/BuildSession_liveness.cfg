CONSTANTS
    work = work
    close = close
    extra = extra
    Task = {work, extra}
    Plan <- ShortPlan
    Deps <- TaskDeps
    Rank <- TaskRank
    Route <- TaskRoute
    Checkpoint = {}
    Completing = {work}
    InitLimit <- TaskInitLimit
    AttemptCap = 2
    Worker = {w1}
    LockTimeouts = FALSE
SPECIFICATION FairSpec
PROPERTY RunSettles
PROPERTY CancellationEnds
