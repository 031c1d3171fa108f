SPECIFICATION ManagerSpec
CONSTANTS
    None = None
    Machines = {m1}
    Workloads = {w1}
    Names = {m1}
    ApiName <- OwnNames
    ListLag = TRUE
    StaleReads = TRUE
    EarlyBootstrap = FALSE
    Unreachable = FALSE
    MaxFaults <- Some
    MaxPauses = 2
INVARIANTS ManagerTypeOK NoLostWakeup
PROPERTIES ComesUp GoesAway DeadVmNoticed NodeTagged
CHECK_DEADLOCK FALSE
