\* Two runners, a creator and the founder, with a crash or a failed write at any moment.
SPECIFICATION Spec
CONSTANTS
    Creator = {e1}
    Runner = {r1, r2}
    Desk = {d1}
    Proposal = {"local", "external", "forbidden"}
    First = {"external", "local"}
    Authority <- Verdicts
    Directions = {TRUE, FALSE}
    Ops = {"approve", "run", "deny", "defer", "edit", "dispatch"}
    MaxRequest = 2
    MaxFault = 1
SYMMETRY RunnerSymmetry
INVARIANTS Authorised QueueRunsOnce
CHECK_DEADLOCK FALSE
