------------------------------ MODULE CoxProvider ------------------------------
(***************************************************************************)
(* The two controllers together, with Cluster API between them and the     *)
(* credentials that both need: module CoxMachine and module CoxCluster     *)
(* share one Cox Edge environment.                                         *)
(*                                                                         *)
(* They meet in five places.  The CoxCluster makes the infrastructure      *)
(* ready, without which no machine starts.  The addresses of the           *)
(* CoxMachines are the backends of the load balancers.  The deletion of    *)
(* the Cluster reaches the CoxCluster through its owner, and the           *)
(* CoxMachines through Cluster API.  And the scope of a CoxMachine takes   *)
(* its credentials from the CoxCluster.                                    *)
(*                                                                         *)
(* And a machine is ready only once the workload cluster answered at its   *)
(* endpoint: the API there is out of reach until the first machine is      *)
(* behind the load balancer, and whenever that restarts.                   *)
(*                                                                         *)
(* The Nodes are left to CoxMachine: here none joins.  There are no other  *)
(* faults but what users do.                                               *)
(***************************************************************************)
EXTENDS Naturals, FiniteSets

CONSTANTS
    Workloads,           \* numbers, each the address of its instance, too
    Names, None,
    Machines,            \* the CoxMachines
    ControlPlane,        \* those of the control plane; a MachineDeployment has the others
    ApiName,             \* ApiName[m] : the name of m's workload
    Cp, Worker,          \* the names of the two load balancers
    NamesSecret,         \* the CoxCluster names a secret with credentials
    DefaultCredentials   \* the manager's environment has credentials, too

ASSUME ProviderAssumption ==
    /\ Workloads \subseteq Nat \ {0} /\ None \notin Workloads \cup Names \cup Machines
    /\ ControlPlane \subseteq Machines /\ ApiName \in [Machines -> Names]
    /\ Cp # Worker /\ {Cp, Worker} \subseteq Names
    /\ NamesSecret \in BOOLEAN /\ DefaultCredentials \in BOOLEAN

VARIABLES
    wlState, wlName, task, vm,                 \* of CoxEdge
    obj, infraReady, bootstrap, mrec,          \* of CoxMachine
    cox, clusterDeleting, backends, crec       \* of CoxCluster

cloudVars == <<wlState, wlName, task, vm>>
machineVars == <<obj, infraReady, bootstrap, mrec>>
clusterVars == <<cox, clusterDeleting, backends, crec>>
vars == <<cloudVars, machineVars, clusterVars>>

\* In place of what CoxMachine and CoxCluster have and this module leaves out.
NoFaults(kinds) == [k \in kinds |-> 0]
NoCopy == [exists |-> TRUE, deleting |-> FALSE, finalizer |-> FALSE, providerID |-> None,
           taskID |-> None, ready |-> FALSE, cond |-> "Unknown", addr |-> None]

M == INSTANCE CoxMachine WITH
    rec <- mrec, cache <- [m \in Machines |-> NoCopy],
    node <- [w \in Workloads |-> "absent"],
    faults <- NoFaults({"crash", "api", "lost", "patch", "cli", "die", "fail"}),
    MaxFaults <- NoFaults({"crash", "api", "lost", "patch", "cli", "die", "fail"}),
    StaleReads <- FALSE, ListLag <- FALSE, EarlyBootstrap <- FALSE,
    Unreachable <- TRUE

LbOf(m) == IF m \in ControlPlane THEN Cp ELSE Worker

\* The addresses in the CoxMachines, each for the load balancer of its kind.
MachineAddresses ==
    [lb \in {Cp, Worker} |->
        {obj[m].addr : m \in {n \in Machines :
                                obj[n].exists /\ obj[n].addr # None /\ LbOf(n) = lb}}]

C == INSTANCE CoxCluster WITH
    rec <- crec, changes <- 0, MaxChanges <- 0,
    faults <- NoFaults({"crash", "api", "lost", "patch", "cli", "fail"}),
    MaxFaults <- NoFaults({"crash", "api", "lost", "patch", "cli", "fail"}),
    ListLag <- FALSE, EarlyDeletion <- FALSE,
    AddrOf <- [lb \in {Cp, Worker} |-> Workloads],
    addrs <- MachineAddresses

Init ==
    /\ M!CloudInit
    /\ obj = [m \in Machines |-> M!Fresh]
    /\ infraReady = FALSE
    /\ bootstrap = [m \in Machines |-> FALSE]
    /\ mrec = M!Idle
    /\ cox = C!Fresh
    /\ clusterDeleting = FALSE
    /\ backends = [w \in Workloads |-> <<>>]
    /\ crec = C!Idle

-----------------------------------------------------------------------------
(* The scopes of the two controllers.                                      *)

\* NewClusterScope and NewMachineScope find credentials: those of the secret
\* that the CoxCluster names, or else the manager's.  The CoxMachine's does
\* so also for the empty CoxCluster that stands for one that is gone.
ClusterHasCredentials == NamesSecret \/ DefaultCredentials

MachineHasCredentials == (NamesSecret /\ cox.exists) \/ DefaultCredentials

\* Without a scope a reconcile is an error that changes nothing.
StartMachine(m) ==
    /\ MachineHasCredentials
    /\ M!Start(m)
    /\ UNCHANGED clusterVars

\* The service numbers its workloads as it creates them: which one it creates
\* makes no difference, so the model tries one.
InOrder ==
    \A v, w \in Workloads :
        v < w /\ wlState[w] # "unborn" => wlState[v] # "unborn"

\* The workload cluster answers at the endpoint while its load balancer runs,
\* and behind it a machine of the control plane.
ApiReachable ==
    /\ cox.endpoint # None /\ vm[cox.endpoint] = "RUNNING"
    /\ \E w \in Workloads : vm[w] = "RUNNING" /\ w \in C!Range(backends[cox.endpoint])

\* Of its calls only that to the workload cluster fails, and only then.
MachineCall ==
    /\ \/ M!Call /\ (mrec.at = "node" => ApiReachable)
       \/ M!CallFails /\ ~ApiReachable
    /\ InOrder' /\ UNCHANGED clusterVars

StartCluster ==
    /\ ClusterHasCredentials
    /\ UNCHANGED machineVars
    /\ C!Start

ClusterCall == UNCHANGED machineVars /\ C!Call /\ InOrder'

-----------------------------------------------------------------------------
(* Cluster API and the users.                                              *)

\* The Cluster is ready once its CoxCluster is: it keeps that to itself then.
InfrastructureReady ==
    /\ cox.ready
    /\ M!InfrastructureReady
    /\ UNCHANGED clusterVars

\* The bootstrap data contain the endpoint of the control plane.
BootstrapReady(m) ==
    /\ infraReady /\ cox.endpoint # None
    /\ M!BootstrapReady(m)
    /\ UNCHANGED clusterVars

DeleteCluster == UNCHANGED machineVars /\ C!DeleteCluster

\* A user may delete a machine at any time.  Of a Cluster that is deleted,
\* Cluster API deletes the machines first ...
DeleteMachine(m) ==
    /\ M!RequestDeletion(m)
    /\ UNCHANGED clusterVars

\* ... and then, with the machines gone, the CoxCluster.
DeleteCoxCluster ==
    /\ \A m \in Machines : ~obj[m].exists
    /\ UNCHANGED machineVars
    /\ C!DeleteCoxCluster

\* `kubectl delete' of the CoxCluster: it stays as long as its finalizer does.
DeleteCoxClusterByHand ==
    /\ cox.finalizer /\ ~cox.deleting
    /\ cox' = [cox EXCEPT !.deleting = TRUE]
    /\ UNCHANGED <<cloudVars, machineVars, clusterDeleting, backends, crec>>

CloudStep(w) == M!CloudStep(w) /\ UNCHANGED clusterVars

-----------------------------------------------------------------------------

ClusterApi ==
    \/ InfrastructureReady \/ DeleteCoxCluster
    \/ \E m \in Machines : BootstrapReady(m) \/ (clusterDeleting /\ DeleteMachine(m))

Service == \E w \in Workloads : CloudStep(w)

Users ==
    \/ DeleteCluster \/ DeleteCoxClusterByHand
    \/ \E m \in Machines : DeleteMachine(m)

Next ==
    \/ MachineCall \/ StartCluster \/ ClusterCall \/ ClusterApi \/ Service \/ Users
    \/ \E m \in Machines : StartMachine(m)

\* Resyncs start both controllers again and again, calls return, Cluster API
\* and the service get on.  Nothing obliges users to act.
Fairness ==
    /\ WF_vars(MachineCall) /\ WF_vars(StartCluster) /\ WF_vars(ClusterCall)
    /\ WF_vars(ClusterApi) /\ WF_vars(Service)
    /\ \A m \in Machines : SF_vars(StartMachine(m))

Spec == Init /\ [][Next]_vars /\ Fairness

-----------------------------------------------------------------------------

TypeOK ==
    /\ M!CloudTypeOK
    /\ obj \in [Machines -> M!Object]
    /\ mrec \in M!Job \cup {M!Idle}
    /\ cox \in C!Object
    /\ backends \in [Workloads -> C!Backends]
    /\ crec \in C!Job \cup {C!Idle}
    /\ clusterDeleting \in BOOLEAN /\ infraReady \in BOOLEAN

\* The two circles at the start are broken: the machines wait for the endpoint,
\* and the load balancer that has it waits for the machines' addresses; a
\* machine is not ready before the API answers behind the load balancer, and
\* the load balancer has the addresses of machines that are not ready.  In the
\* end every machine that is not deleted is ready and behind it.
ComesUp ==
    \A m \in Machines :
        <>( \/ clusterDeleting \/ obj[m].deleting \/ ~obj[m].exists
            \/ obj[m].ready /\ \E w \in C!Matches(LbOf(m)) :
                               \E i \in DOMAIN backends[w] : backends[w][i] = obj[m].addr )

\* The load balancers end up with the addresses of the machines that there
\* are: a machine that was deleted does not stay behind one.
BackendsFollow == C!BackendsConverge

\* All workloads go with the Cluster, those of both controllers, if the
\* manager has credentials of its own for a CoxCluster that is gone.
TearsDown ==
    clusterDeleting ~> /\ ~cox.exists
                       /\ \A m \in Machines : ~obj[m].exists
                       /\ \A w \in Workloads : ~M!Live(w)

\* Whatever the order in which the objects go, what is left running belongs
\* to an object that is there.
NothingUnowned ==
    \A w \in Workloads : M!Live(w) =>
        \/ \E m \in Machines : obj[m].exists /\ wlName[w] = ApiName[m]
        \/ cox.exists /\ wlName[w] \in {Cp, Worker}

\* The endpoint is part of the data that a machine boots with: as long as the
\* Cluster is not deleted, a machine's workload finds the load balancer that
\* the endpoint names alive, also while users delete other objects.
EndpointKept ==
    \A m \in Machines : \A w \in Workloads :
        M!Live(w) /\ wlName[w] = ApiName[m] /\ ~clusterDeleting
            => cox.endpoint # None /\ M!Live(cox.endpoint)

\* The comment at the lookup of the CoxCluster, `Allow the cluster to be empty,
\* because it is not needed in the deletion logic', for the deletion of a
\* machine: it is not true where the secret that the CoxCluster names has the
\* only credentials.
ClusterNotNeededInDeletion ==
    \A m \in Machines : obj[m].deleting /\ ~cox.exists ~> ~obj[m].exists

-----------------------------------------------------------------------------
(* Why NothingUnowned and EndpointKept hold, with the inductive invariants *)
(* of the two controllers.                                                 *)

\* Nobody but the two controllers creates workloads.  A machine's exists only
\* if the machine has bootstrap data, and its reconcile looks for one only
\* then; bootstrap data come after the endpoint; and the load balancers, that
\* of the endpoint too, live until the Cluster is deleted.
TogetherInv ==
    /\ \A w \in Workloads :
          \/ wlState[w] = "unborn"
          \/ wlName[w] \in {ApiName[m] : m \in Machines} \cup {Cp, Worker}
    /\ \A m \in Machines, w \in Workloads : wlName[w] = ApiName[m] => bootstrap[m]
    /\ mrec # M!Idle /\ ~mrec.old.deleting /\ mrec.at # "close" => bootstrap[mrec.m]
    /\ ~clusterDeleting =>
          /\ \A m \in Machines : bootstrap[m] => cox.endpoint # None
          /\ \A w \in Workloads : wlName[w] \in {Cp, Worker} => M!Live(w)

=============================================================================
