CONSTANTS
    None = None
    TtyInput = "typed"
    Procs = {p1, p2}
    Invocations <- AllInvocations
    SafeName <- MCSafeName
    ChildCodes = {0, 2}
    MaxClock = 1
    ChildRss = {3}
    ChildCpu <- MCChildCpu
    Platform = "linux"
SPECIFICATION SpecDistinct
INVARIANTS TypeOK ReportPrefix ReportMatchesOutcome
SYMMETRY ProcSymmetry
CHECK_DEADLOCK FALSE
