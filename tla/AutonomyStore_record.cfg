SPECIFICATION Spec
CONSTANTS
    c1 = c1
    c2 = c2
    p1 = p1
    p2 = p2
    n1 = n1
    Client = {c1, c2}
    Process = {p1, p2}
    Host <- MCHost
    Notice = {n1}
    NoNotice = NoNotice
    Nobody = Nobody
    MaxVersion = 3
    MaxAttempt = 1
CHECK_DEADLOCK FALSE
INVARIANTS StateIsHistory NoticeKept
PROPERTIES RefinesRecord LeaseNotTaken
