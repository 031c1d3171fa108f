------------------------------- MODULE CoxEdge -------------------------------
(***************************************************************************)
(* The Cox Edge service as the code under src/pkg/cloud/coxedge sees it.   *)
(*                                                                         *)
(* The service itself is not in the repository: its state and its own      *)
(* steps are modelled from how the client uses it.  Only the calls of the  *)
(* client (GetWorkloadByName, GetTask, CreateWorkload, DeleteWorkload) and *)
(* `cox workload delete' are translated from source.                       *)
(*                                                                         *)
(* A workload is a member of Workloads, and the task that provisions it is *)
(* named by the workload, because one POST starts exactly one of each.     *)
(***************************************************************************)
CONSTANTS
    Workloads,   \* the ids the service can still hand out: its quota
    Names,       \* the names of workloads, after shortenName
    None         \* the empty string, where the code stores an id

ASSUME NoneAssumption == None \notin Workloads /\ None \notin Names

VARIABLES
    wlState,     \* wlState[w] : where workload w is in its life
    wlName,      \* wlName[w] : the name it was created under
    task,        \* task[w] : the status GetTask reports for its provisioning
    vm           \* vm[w] : the status GetInstances reports for its instance

cloudVars == <<wlState, wlName, task, vm>>

Ref == Workloads \cup {None}

\* "hidden" is a workload whose POST was accepted and that the list of
\* workloads does not return yet; "deleting" one whose deletion was accepted.
WorkloadStates == {"unborn", "hidden", "listed", "deleting", "gone"}

\* Task.Data.Status: any other string than the last two counts as pending.
TaskStates == {"none", "PENDING", "SUCCESS", "FAILURE"}

\* InstanceData.Status; "none" is an empty list of instances.
VmStates == {"none", "SCHEDULING", "RUNNING", "DEAD"}

CloudTypeOK ==
    /\ wlState \in [Workloads -> WorkloadStates]
    /\ wlName \in [Workloads -> Names \cup {None}]
    /\ task \in [Workloads -> TaskStates]
    /\ vm \in [Workloads -> VmStates]

CloudInit ==
    /\ wlState = [w \in Workloads |-> "unborn"]
    /\ wlName = [w \in Workloads |-> None]
    /\ task = [w \in Workloads |-> "none"]
    /\ vm = [w \in Workloads |-> "none"]

-----------------------------------------------------------------------------
(* What the calls of the client return and do.                             *)

\* The workload answers a GET by its id.
Exists(w) == wlState[w] \in {"hidden", "listed", "deleting"}

\* The workload uses resources and nobody has asked for its deletion.
Live(w) == wlState[w] \in {"hidden", "listed"}

\* Mutant: the loop over the list returns its first workload, whatever its name.
MatchesAnyName(name) == {w \in Workloads : wlState[w] \in {"listed", "deleting"}}

\* The workloads among which GetWorkloadByName returns the first: the order
\* of the list is the service's, so any of them may be it.
Matches(name) ==
    {w \in Workloads : wlName[w] = name /\ wlState[w] \in {"listed", "deleting"}}

\* POST workloads: the service accepts the request and starts a task.
CreateWorkload(w, name) ==
    /\ wlState[w] = "unborn"
    /\ wlState' = [wlState EXCEPT ![w] = "hidden"]
    /\ wlName' = [wlName EXCEPT ![w] = name]
    /\ task' = [task EXCEPT ![w] = "PENDING"]
    /\ UNCHANGED vm

\* GET the workload, then POST its deletion: the service accepts it.
DeleteWorkload(w) ==
    /\ Exists(w)
    /\ wlState' = [wlState EXCEPT ![w] = "deleting"]
    /\ UNCHANGED <<wlName, task, vm>>

-----------------------------------------------------------------------------
(* The service's own steps.                                                *)

\* The list of workloads starts to return w.
Appear(w) ==
    /\ wlState[w] = "hidden"
    /\ wlState' = [wlState EXCEPT ![w] = "listed"]
    /\ UNCHANGED <<wlName, task, vm>>

\* Provisioning succeeds.  Unless lag, the list already returns w by then.
Provision(w, lag) ==
    /\ task[w] = "PENDING"
    /\ lag \/ wlState[w] # "hidden"
    /\ task' = [task EXCEPT ![w] = "SUCCESS"]
    /\ UNCHANGED <<wlState, wlName, vm>>

\* Provisioning fails before the workload was ever listed.
FailProvisioning(w) ==
    /\ task[w] = "PENDING"
    /\ wlState[w] = "hidden"
    /\ task' = [task EXCEPT ![w] = "FAILURE"]
    /\ wlState' = [wlState EXCEPT ![w] = "gone"]
    /\ UNCHANGED <<wlName, vm>>

\* The instance of a provisioned workload is scheduled, then runs.
Boot(w) ==
    /\ Exists(w)
    /\ task[w] = "SUCCESS"
    /\ \/ vm[w] = "none" /\ vm' = [vm EXCEPT ![w] = "SCHEDULING"]
       \/ vm[w] = "SCHEDULING" /\ vm' = [vm EXCEPT ![w] = "RUNNING"]
    /\ UNCHANGED <<wlState, wlName, task>>

\* The instance stops for good.
Die(w) ==
    /\ vm[w] = "RUNNING"
    /\ vm' = [vm EXCEPT ![w] = "DEAD"]
    /\ UNCHANGED <<wlState, wlName, task>>

\* A deletion that was accepted completes, and takes the instance along.
Vanish(w) ==
    /\ wlState[w] = "deleting"
    /\ wlState' = [wlState EXCEPT ![w] = "gone"]
    /\ vm' = [vm EXCEPT ![w] = "none"]
    /\ UNCHANGED <<wlName, task>>

=============================================================================
