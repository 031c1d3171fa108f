SPECIFICATION FairSpec
CONSTANTS
    None = None
    Machines = {m1}
    Workloads = {w1}
    Names = {m1}
    ApiName <- OwnNames
    ListLag = FALSE
    StaleReads = TRUE
    EarlyBootstrap = TRUE
    Unreachable = FALSE
    MaxFaults <- CallFaults
PROPERTIES EventuallyReady DeletionCompletes
CHECK_DEADLOCK FALSE
