SPECIFICATION Spec
CONSTANTS
    None = None
    Machines = {m1}
    Workloads = {w1, w2}
    Names = {m1}
    ApiName <- OwnNames
    ListLag = FALSE
    StaleReads = FALSE
    EarlyBootstrap = FALSE
    Unreachable = FALSE
    MaxFaults <- CliDeletion
INVARIANT NoLeak
CHECK_DEADLOCK FALSE
