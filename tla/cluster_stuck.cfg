SPECIFICATION FairSpec
CONSTANTS
    None = None
    Workloads = {w1, w2}
    Names = {cp, worker}
    Cp = cp
    Worker = worker
    AddrOf <- Addrs
    ListLag = FALSE
    EarlyDeletion = FALSE
    MaxChanges = 0
    MaxFaults <- LostAnswer
PROPERTY DeletionCompletes
CHECK_DEADLOCK FALSE
