SPECIFICATION Spec
CONSTANTS
    None = None
    Machines = {m1, m2}
    Workloads = {w1, w2}
    Names = {m1, m2}
    ApiName <- OwnNames
    ListLag = FALSE
    StaleReads = FALSE
    EarlyBootstrap = TRUE
    Unreachable = TRUE
    MaxFaults <- SafetyFaults
SYMMETRY Symmetry
INVARIANTS TypeOK OwnWorkload NoSharing ReadyIsComplete
PROPERTY ReleaseOnlyWhenDead
CHECK_DEADLOCK FALSE
