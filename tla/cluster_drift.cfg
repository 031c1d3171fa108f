SPECIFICATION FairSpec
CONSTANTS
    None = None
    Workloads = {w1, w2}
    Names = {cp, worker}
    Cp = cp
    Worker = worker
    AddrOf <- Addrs
    ListLag = FALSE
    EarlyDeletion = FALSE
    MaxChanges = 0
    MaxFaults <- OneError
PROPERTY DriftReconciled
CHECK_DEADLOCK FALSE
