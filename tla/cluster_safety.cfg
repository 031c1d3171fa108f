SPECIFICATION Spec
CONSTANTS
    None = None
    Workloads = {w1,w2}
    Names = {cp, worker}
    Cp = cp
    Worker = worker
    AddrOf <- Addrs
    ListLag = FALSE
    EarlyDeletion = TRUE
    MaxChanges = 2
    MaxFaults <- Trouble
INVARIANTS TypeOK EndpointIsControlPlane
PROPERTIES RestartOnlyOnChange
CHECK_DEADLOCK FALSE
