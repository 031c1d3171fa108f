SPECIFICATION Spec
CONSTANTS
    None = None
    Machines = {m1}
    ControlPlane = {m1}
    Workloads = {1, 2, 3}
    Names = {m1, cp, worker}
    ApiName <- OwnNames
    Cp = cp
    Worker = worker
    NamesSecret = TRUE
    DefaultCredentials = TRUE
INVARIANTS TypeOK NothingUnowned EndpointKept
PROPERTIES ComesUp BackendsFollow TearsDown
CHECK_DEADLOCK FALSE
