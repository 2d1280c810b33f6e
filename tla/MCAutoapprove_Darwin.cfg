CONSTANTS
    None = None
    TtyInput = "typed"
    Procs = {p1}
    Invocations <- LocalOnly
    SafeName <- MCSafeName
    ChildCodes = {0, 2}
    MaxClock = 1
    ChildRss = {3}
    ChildCpu <- MCChildCpu
    Platform = "darwin"
SPECIFICATION Spec
INVARIANT ReportMatchesOutcome
CHECK_DEADLOCK FALSE
