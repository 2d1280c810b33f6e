CONSTANTS
    None = None
    TtyInput = "typed"
    Procs = {p1}
    Invocations <- TtyOnly
    SafeName <- MCSafeName
    ChildCodes = {0, 2}
    MaxClock = 1
    ChildRss = {3}
    ChildCpu <- MCChildCpu
    Platform = "linux"
SPECIFICATION Spec
INVARIANT StdinLogFaithful
CHECK_DEADLOCK FALSE
