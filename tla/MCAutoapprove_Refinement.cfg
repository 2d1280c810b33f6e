CONSTANTS
    None = None
    TtyInput = "typed"
    Procs = {p1, p2}
    Invocations <- RefInvocations
    SafeName <- MCSafeName
    ChildCodes = {0, 2}
    MaxClock = 1
    ChildRss = {3}
    ChildCpu <- MCChildCpu
    Platform = "linux"
SPECIFICATION SpecDistinct
PROPERTIES RunnerSpec Termination
CHECK_DEADLOCK FALSE
