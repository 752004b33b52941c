\* Repair attempts, a crash or a conflict, pauses, and the founder's answers.
SPECIFICATION LiveSpec
CONSTANTS
    Criterion = {1, 2}
    DependsOn <- Chain
    NoQuestion = NoQuestion
    Worker = {w1}
    Nobody = Nobody
    Orphan = Orphan
    Plans <- OnePlan
    Questions = {0, 2}
    Requests = {"pause", "resume", "reopen"}
    MaxAttempt = 1
    MaxFault = 1
PROPERTIES InOrder Settles AnswerHeard
CHECK_DEADLOCK FALSE
