\* Two workers and a founder who replans at any moment.
SPECIFICATION Spec
CONSTANTS
    Criterion = {1, 2}
    DependsOn <- Chain
    NoQuestion = NoQuestion
    Worker = {w1, w2}
    Nobody = Nobody
    Orphan = Orphan
    Plans <- BothPlans
    Questions = {0}
    Requests = {"replan"}
    MaxAttempt = 0
    MaxFault = 0
INVARIANTS TypeOK WaitIsAnswerable
PROPERTIES CompletedKept MilestoneEarned
CHECK_DEADLOCK FALSE
