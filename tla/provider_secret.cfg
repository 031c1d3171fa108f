SPECIFICATION Spec
CONSTANTS
    None = None
    Machines = {m1}
    ControlPlane = {m1}
    Workloads = {1, 2, 3}
    Names = {m1, cp, worker}
    ApiName <- OwnNames
    Cp = cp
    Worker = worker
    NamesSecret = TRUE
    DefaultCredentials = FALSE
PROPERTY ClusterNotNeededInDeletion
CHECK_DEADLOCK FALSE
