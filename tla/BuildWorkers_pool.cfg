\* Two sessions for one thread, and a restart.
SPECIFICATION LiveSpec
CONSTANTS
    s1 = s1
    s2 = s2
    Session = {s1, s2}
    Caller = {101}
    Work <- MCWork
    Ops <- MCOps
    MaxLoop = 2
    MaxWorkers = 1
    MaxTasks = 2
    MaxFault = 1
INVARIANTS OneLoop StopsAtTask
PROPERTY GetsItsTurn
CHECK_DEADLOCK FALSE
