CONSTANTS
    None = None
    TtyInput = "typed"
    Procs = {p1, p2}
    Invocations <- Colliding
    SafeName <- MCSafeName
    ChildCodes = {0, 2}
    MaxClock = 1
    ChildRss = {3}
    ChildCpu <- MCChildCpu
    Platform = "linux"
SPECIFICATION Spec
INVARIANT ReportMatchesOutcome
CHECK_DEADLOCK FALSE
