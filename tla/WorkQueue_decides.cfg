\* One runner, the founder, a crash or a failed write: does what waits get decided?
SPECIFICATION LiveSpec
CONSTANTS
    Creator = {e1}
    Runner = {r1}
    Desk = {d1}
    Proposal = {"local", "external"}
    First = {"external", "local"}
    Authority <- LocalOrNot
    Directions = {FALSE}
    Ops = {"approve", "deny", "defer", "dispatch"}
    MaxRequest = 5
    MaxFault = 1
PROPERTIES Decidable Drains
CHECK_DEADLOCK FALSE
