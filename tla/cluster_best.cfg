SPECIFICATION Spec
CONSTANTS
    None = None
    Workloads = {w1, w2, w3, w4}
    Names = {cp, worker}
    Cp = cp
    Worker = worker
    AddrOf <- Addrs
    ListLag = FALSE
    EarlyDeletion = FALSE
    MaxChanges = 1
    MaxFaults <- Mishaps
SYMMETRY WorkloadSymmetry
INVARIANTS AtMostOneOfEach NoLeak
PROPERTIES ImplementsContract EndpointMovesOnlyFromDead
CHECK_DEADLOCK FALSE
