CONSTANTS
    work = work
    close = close
    extra = extra
    Task = {work, close}
    Plan <- MCPlan
    Deps <- TaskDeps
    Rank <- TaskRank
    Route <- TaskRoute
    Checkpoint = {close}
    Completing = {close}
    InitLimit <- TaskInitLimit
    AttemptCap = 2
    Worker = {w1, w2}
    LockTimeouts = TRUE
SYMMETRY WorkerSymmetry
SPECIFICATION Spec
INVARIANT RunOwnership
INVARIANT CallOwnsRun
INVARIANT DependencyOrder
INVARIANT CloudNeverRetried
INVARIANT QueuedCanRun
PROPERTY HistoryIsFinal
PROPERTY RefinesTasks
