SPECIFICATION Spec
CONSTANTS
    None = None
    Machines = {m1, m2}
    Workloads = {w1, w2, w3}
    Names = {m1, m2}
    ApiName <- OwnNames
    ListLag = FALSE
    StaleReads = FALSE
    EarlyBootstrap = FALSE
    Unreachable = TRUE
    MaxFaults <- CloudFaults
SYMMETRY Symmetry
INVARIANTS AtMostOneWorkload NoLeak
PROPERTY ImplementsContract
CHECK_DEADLOCK FALSE
