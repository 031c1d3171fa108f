------------------------------ MODULE CoxCluster ------------------------------
(***************************************************************************)
(* The CoxCluster controller (src/controllers/coxcluster_controller.go,    *)
(* src/pkg/cloud/coxedge/loadbalancer.go and scope/cluster.go): one worker *)
(* that reconciles one cluster, which has two load balancers, against the  *)
(* Cox Edge service of module CoxEdge.                                     *)
(*                                                                         *)
(* A reconcile reads the CoxCluster and the addresses of its machines,     *)
(* makes calls to the service, and persists what it changed.  Each method  *)
(* of LoadBalancerHelper is one step: a workload that vanishes between its *)
(* two calls gives the error that it gives when it was missing before.     *)
(*                                                                         *)
(* The conditions are left out: but for the first, they are set on a copy  *)
(* of the Cluster that no one persists.                                    *)
(***************************************************************************)
EXTENDS CoxEdge, Naturals, SequencesExt

CONSTANTS
    Cp, Worker,      \* the names of the two load balancers, after shortenName
    AddrOf,          \* AddrOf[lb] : the addresses that machines behind lb may have
    ListLag,         \* a reconcile may start before the list has the last POSTs
    EarlyDeletion,   \* the cluster may be deleted before the finalizer is persisted
    MaxChanges,      \* how often machines come and go
    MaxFaults        \* MaxFaults[k] : how many faults of kind k may happen

Lbs == {Cp, Worker}

\* defaultBackend, in the place of the addresses that there are not yet.
Default == 0
Addresses == AddrOf[Cp] \cup AddrOf[Worker] \cup {Default}

FaultKinds == {
    "crash",         \* the controller's process dies
    "api",           \* a call fails and has no effect
    "lost",          \* a POST or PUT takes effect and its answer is lost
    "patch",         \* a part of the final patch is not written
    "cli",           \* someone deletes a load balancer with `cox workload delete'
    "fail"}          \* the provisioning of a load balancer fails

ASSUME ClusterAssumption ==
    /\ Cp # Worker /\ Lbs \subseteq Names
    /\ AddrOf \in [Lbs -> SUBSET (Nat \ {Default})]
    /\ ListLag \in BOOLEAN /\ EarlyDeletion \in BOOLEAN
    /\ MaxChanges \in Nat /\ MaxFaults \in [FaultKinds -> Nat]

VARIABLES
    cox,             \* the CoxCluster in the API server
    clusterDeleting, \* the Cluster that owns it has a deletion timestamp
    addrs,           \* addrs[lb] : the addresses in the CoxMachines behind lb
    backends,        \* backends[w] : LB_BACKENDS of workload w
    changes,         \* how often machines may still come and go
    rec,             \* the reconcile in progress
    faults           \* faults[k] : the faults of kind k that may still happen

k8sVars == <<cox, clusterDeleting, addrs, changes>>
vars == <<wlState, wlName, task, vm, cox, clusterDeleting, addrs, backends, changes, rec,
          faults>>

\* endpoint and lbIP are the load balancer whose public address they hold.
Object == [exists: BOOLEAN, deleting: BOOLEAN, finalizer: BOOLEAN,
           endpoint: Ref, ready: BOOLEAN, lbIP: Ref]

Fresh == [exists |-> TRUE, deleting |-> FALSE, finalizer |-> FALSE,
          endpoint |-> None, ready |-> FALSE, lbIP |-> None]

Gone == [Fresh EXCEPT !.exists = FALSE]

\* Mutant: the default is kept when there are addresses.
BehindAndDefault(lb) == addrs[lb] \cup {Default}

\* The backends that a reconcile wants for a load balancer: the addresses of
\* its machines in any order, which is how a cache lists them.
Behind(lb) == IF addrs[lb] = {} THEN {Default} ELSE addrs[lb]

\* The lists of backends: the default stands alone.
Backends == UNION {SetToSeqs(S) : S \in {{Default}} \cup SUBSET (Addresses \ {Default})}

\* What GetLoadBalancer has returned, or what DeleteLoadBalancer has.
Result == [status: {"none", "ok", "missing", "error"}, backends: Backends, ip: Ref]
Failure(status) == [status |-> status, backends |-> <<>>, ip |-> None]

\* Where a reconcile is: the call it is about to make, and for which of the two.
Phases == {"get", "create", "update", "delete", "close"}

Job == [at: Phases, lb: Lbs, want: [Lbs -> Backends], got: [Lbs -> Result],
        old: Object, new: Object]
Idle == [at |-> "idle"]

TypeOK ==
    /\ CloudTypeOK
    /\ cox \in Object
    /\ clusterDeleting \in BOOLEAN
    /\ addrs \in [Lbs -> SUBSET Addresses]
    /\ backends \in [Workloads -> Backends]
    /\ changes \in Nat
    /\ rec \in Job \cup {Idle}
    /\ faults \in [FaultKinds -> Nat]

Init ==
    /\ CloudInit
    /\ cox = Fresh
    /\ clusterDeleting = FALSE
    /\ addrs = [lb \in Lbs |-> {}]
    /\ backends = [w \in Workloads |-> <<>>]
    /\ changes = MaxChanges
    /\ rec = Idle
    /\ faults = MaxFaults

Spend(k) ==
    /\ faults[k] > 0
    /\ faults' = [faults EXCEPT ![k] = @ - 1]

-----------------------------------------------------------------------------
(* Reconcile: read the objects and choose between the two ways through.    *)

Ours(w) == wlName[w] \in Lbs

\* Unless ListLag, the list has caught up with the POSTs of the last reconcile.
CaughtUp == ListLag \/ \A w \in Workloads : Ours(w) => wlState[w] # "hidden"

Begin(at, want, new) ==
    /\ rec = Idle
    /\ cox.exists
    /\ CaughtUp
    /\ rec' = [at |-> at, lb |-> Cp, want |-> want, old |-> cox, new |-> new,
               got |-> [lb \in Lbs |-> Failure("none")]]
    /\ UNCHANGED <<cloudVars, backends, k8sVars, faults>>

\* Mutant: a CoxCluster that is deleted by itself loses its load balancers.
StartDeleteOfEither ==
    /\ clusterDeleting \/ cox.deleting
    /\ Begin("delete", [lb \in Lbs |-> <<>>], cox)

StartDelete ==
    /\ clusterDeleting
    /\ Begin("delete", [lb \in Lbs |-> <<>>], cox)

\* The finalizer is added to the copy only: the final patch persists it.
StartNormal ==
    /\ ~clusterDeleting
    /\ \E c \in SetToSeqs(Behind(Cp)), w \in SetToSeqs(Behind(Worker)) :
          Begin("get", [lb \in Lbs |-> IF lb = Cp THEN c ELSE w],
                [cox EXCEPT !.finalizer = TRUE])

Start == StartDelete \/ StartNormal

-----------------------------------------------------------------------------
(* reconcileNormal, as a function of the answers so far.                   *)

\* Mutant: nothing is sorted.
Unsorted(s) == s

Ascending(t) == \A i, j \in DOMAIN t : i < j => t[i] < t[j]
Sorted(s) == CHOOSE t \in SetToSeqs(ToSet(s)) : Ascending(t)

\* Mutant: only how many backends there are is compared.
DiffersInLength(job, lb) == Len(job.got[lb].backends) # Len(job.want[lb])

\* Both are sorted before they are compared.
Differs(job, lb) == Sorted(job.got[lb].backends) # Sorted(job.want[lb])

IsUp(job, lb) == job.got[lb].status = "ok"

Publish(job, ip) ==
    [job EXCEPT !.at = "close", !.new.endpoint = ip, !.new.ready = TRUE, !.new.lbIP = ip]

\* Mutant: the address is the worker load balancer's.
FinishWithWorker(job) ==
    LET ip == job.got[Worker].ip IN
    IF ip = None THEN [job EXCEPT !.at = "close"] ELSE Publish(job, ip)

\* Mutant: the wait for a machine of the control plane comes first.
FinishWithMachine(job) ==
    LET ip == job.got[Cp].ip IN
    IF ip = None \/ job.want[Cp] = <<Default>>
       THEN [job EXCEPT !.at = "close"]
       ELSE Publish(job, ip)

\* Only the load balancer of the control plane has to be ready.
Finish(job) ==
    LET ip == job.got[Cp].ip IN
    IF ip = None THEN [job EXCEPT !.at = "close"] ELSE Publish(job, ip)

\* Without the second load balancer its nil pointer is dereferenced: the
\* process panics, and persists what it has while it unwinds.
CompareWorker(job) ==
    IF ~IsUp(job, Worker) THEN [job EXCEPT !.at = "close"]
    ELSE IF Differs(job, Worker) THEN [job EXCEPT !.at = "update", !.lb = Worker]
    ELSE Finish(job)

\* Mutant: both are created when either is missing.
CompareEither(job) ==
    IF \E lb \in Lbs : job.got[lb].status = "missing"
       THEN [job EXCEPT !.at = "create", !.lb = Cp]
    ELSE IF ~IsUp(job, Cp) THEN [job EXCEPT !.at = "close"]
    ELSE IF Differs(job, Cp) THEN [job EXCEPT !.at = "update", !.lb = Cp]
    ELSE CompareWorker(job)

\* Neither is there: both are created.  Only the first is missing: its nil
\* pointer is dereferenced.
Compare(job) ==
    IF ~IsUp(job, Cp)
       THEN IF \A lb \in Lbs : job.got[lb].status = "missing"
               THEN [job EXCEPT !.at = "create", !.lb = Cp]
               ELSE [job EXCEPT !.at = "close"]
    ELSE IF Differs(job, Cp) THEN [job EXCEPT !.at = "update", !.lb = Cp]
    ELSE CompareWorker(job)

\* Mutant: nothing removes the finalizer.
DeletedKeepsFinalizer(job) == [job EXCEPT !.at = "close"]

\* reconcileDelete removes the finalizer when both deletions were accepted.
Deleted(job) ==
    [job EXCEPT !.at = "close",
                !.new.finalizer = @ /\ ~\A lb \in Lbs : job.got[lb].status = "ok"]

\* On to the second load balancer, or with both answers to the rest.
Answered(result, Rest(_)) ==
    LET job == [rec EXCEPT !.got[rec.lb] = result]
    IN rec' = IF rec.lb = Cp THEN [job EXCEPT !.lb = Worker] ELSE Rest(job)

-----------------------------------------------------------------------------
(* The methods of LoadBalancerHelper.                                      *)

GetLoadBalancer ==
    /\ rec.at = "get"
    /\ LET found == Matches(rec.lb) IN
          \/ \E w \in found :
                Answered([status |-> "ok", backends |-> backends[w],
                          ip |-> IF vm[w] = "RUNNING" THEN w ELSE None], Compare)
          \/ found = {} /\ Answered(Failure("missing"), Compare)
    /\ UNCHANGED <<cloudVars, backends, k8sVars, faults>>

\* Nothing that is persisted depends on the answers to the two POSTs: a lost
\* answer is as good as any.
Created ==
    rec' = IF rec.lb = Cp THEN [rec EXCEPT !.lb = Worker] ELSE [rec EXCEPT !.at = "close"]

CreateLoadBalancer ==
    /\ rec.at = "create"
    /\ \E w \in Workloads :
          /\ CreateWorkload(w, rec.lb)
          /\ backends' = [backends EXCEPT ![w] = rec.want[rec.lb]]
    /\ Created
    /\ UNCHANGED <<k8sVars, faults>>

\* The service refuses to create more workloads than its quota.
CreateRefused ==
    /\ rec.at = "create"
    /\ \A w \in Workloads : wlState[w] # "unborn"
    /\ Created
    /\ UNCHANGED <<cloudVars, backends, k8sVars, faults>>

\* PUT a workload with other backends, which restarts its instance.
UpdateWorkload(w, b) ==
    /\ backends' = [backends EXCEPT ![w] = b]
    /\ vm' = [vm EXCEPT ![w] = IF @ = "RUNNING" THEN "SCHEDULING" ELSE @]
    /\ UNCHANGED <<wlState, wlName, task>>

\* After an update the known address of the control plane is forgotten.
UpdateLoadBalancer ==
    /\ rec.at = "update"
    /\ \E w \in Matches(rec.lb) : UpdateWorkload(w, Sorted(rec.want[rec.lb]))
    /\ \/ /\ rec' = IF rec.lb = Cp THEN CompareWorker([rec EXCEPT !.got[Cp].ip = None])
                                   ELSE Finish(rec)
          /\ UNCHANGED faults
       \/ /\ Spend("lost")
          /\ rec' = [rec EXCEPT !.at = "close"]
    /\ UNCHANGED k8sVars

UpdateMissing ==
    /\ rec.at = "update"
    /\ Matches(rec.lb) = {}
    /\ rec' = [rec EXCEPT !.at = "close"]
    /\ UNCHANGED <<cloudVars, backends, k8sVars, faults>>

\* Mutant: both names are the control plane's.
DeleteLoadBalancerTwice ==
    /\ rec.at = "delete"
    /\ \E w \in Matches(Cp) : DeleteWorkload(w)
    /\ \/ Answered(Failure("ok"), Deleted) /\ UNCHANGED faults
       \/ Answered(Failure("error"), Deleted) /\ Spend("lost")
    /\ UNCHANGED <<backends, k8sVars>>

DeleteLoadBalancer ==
    /\ rec.at = "delete"
    /\ \E w \in Matches(rec.lb) : DeleteWorkload(w)
    /\ \/ Answered(Failure("ok"), Deleted) /\ UNCHANGED faults
       \/ Answered(Failure("error"), Deleted) /\ Spend("lost")
    /\ UNCHANGED <<backends, k8sVars>>

\* ErrWorkloadNotFound is not the NotFound error that the code looks for.
DeleteMissing ==
    /\ rec.at = "delete"
    /\ Matches(rec.lb) = {}
    /\ Answered(Failure("missing"), Deleted)
    /\ UNCHANGED <<cloudVars, backends, k8sVars, faults>>

\* The call that the reconcile is about to make fails.
CallFails ==
    /\ Spend("api")
    /\ \/ rec.at = "get" /\ Answered(Failure("error"), Compare)
       \/ rec.at = "create" /\ Created
       \/ rec.at = "update" /\ rec' = [rec EXCEPT !.at = "close"]
       \/ rec.at = "delete" /\ Answered(Failure("error"), Deleted)
    /\ UNCHANGED <<cloudVars, backends, k8sVars>>

-----------------------------------------------------------------------------
(* ClusterScope.Close: the patches of what the reconcile changed.          *)

Parts == {"object", "status"}

\* Only the fields that the reconcile changed in its copy are written.
Patched(parts) ==
    LET Merge(part, from, to, now) == IF part \in parts /\ from # to THEN to ELSE now
    IN [cox EXCEPT
          !.finalizer = Merge("object", rec.old.finalizer, rec.new.finalizer, @),
          !.endpoint = Merge("object", rec.old.endpoint, rec.new.endpoint, @),
          !.ready = Merge("status", rec.old.ready, rec.new.ready, @),
          !.lbIP = Merge("status", rec.old.lbIP, rec.new.lbIP, @)]

\* The API server drops an object being deleted with its last finalizer.
Settled(o) == IF ~o.exists \/ (o.deleting /\ ~o.finalizer) THEN Gone ELSE o

Write(parts) ==
    /\ rec.at = "close"
    /\ cox' = Settled(Patched(parts))
    /\ rec' = Idle
    /\ UNCHANGED <<cloudVars, backends, clusterDeleting, addrs, changes>>

Close == Write(Parts) /\ UNCHANGED faults

ClosePartly == Spend("patch") /\ \E parts \in SUBSET Parts \ {Parts} : Write(parts)

\* A crash loses the reconcile and what it has not persisted yet.
Crash ==
    /\ rec # Idle
    /\ Spend("crash")
    /\ \/ rec' = Idle /\ UNCHANGED <<cloudVars, backends, k8sVars>>
       \/ Write({"object"})

-----------------------------------------------------------------------------
(* Everybody else.                                                         *)

\* Machines get an address, or go away with theirs.
MachinesChange(lb) ==
    /\ changes > 0
    /\ changes' = changes - 1
    /\ \E a \in AddrOf[lb] :
          addrs' = [addrs EXCEPT ![lb] = IF a \in @ THEN @ \ {a} ELSE @ \cup {a}]
    /\ UNCHANGED <<cloudVars, backends, cox, clusterDeleting, rec, faults>>

\* A user deletes the Cluster.
DeleteCluster ==
    /\ ~clusterDeleting
    /\ EarlyDeletion \/ cox.finalizer
    /\ clusterDeleting' = TRUE
    /\ UNCHANGED <<cloudVars, backends, cox, addrs, changes, rec, faults>>

\* Cluster API deletes the CoxCluster of a Cluster that is being deleted.
DeleteCoxCluster ==
    /\ clusterDeleting
    /\ cox.exists /\ ~cox.deleting
    /\ cox' = Settled([cox EXCEPT !.deleting = TRUE])
    /\ UNCHANGED <<cloudVars, backends, clusterDeleting, addrs, changes, rec, faults>>

\* `cox workload delete', on a workload that `cox workload list' shows.
CliDelete(w) ==
    /\ wlState[w] = "listed"
    /\ Spend("cli")
    /\ DeleteWorkload(w)
    /\ UNCHANGED <<backends, k8sVars, rec>>

CloudStep(w) ==
    /\ Appear(w) \/ Provision(w, ListLag) \/ Boot(w) \/ Vanish(w)
    /\ UNCHANGED <<backends, k8sVars, rec, faults>>

CloudFault(w) ==
    /\ Spend("fail") /\ FailProvisioning(w)
    /\ UNCHANGED <<backends, k8sVars, rec>>

-----------------------------------------------------------------------------

Call ==
    \/ GetLoadBalancer \/ CreateLoadBalancer \/ CreateRefused
    \/ UpdateLoadBalancer \/ UpdateMissing \/ DeleteLoadBalancer \/ DeleteMissing
    \/ Close

Next ==
    \/ Start \/ Call \/ CallFails \/ ClosePartly \/ Crash
    \/ DeleteCluster \/ DeleteCoxCluster
    \/ \E lb \in Lbs : MachinesChange(lb)
    \/ \E w \in Workloads : CliDelete(w) \/ CloudStep(w) \/ CloudFault(w)

\* The manager resyncs the CoxCluster every two minutes (Start), calls return
\* (Call), the service gets on with accepted requests, Cluster API deletes the
\* CoxCluster of a deleted Cluster.  Nothing obliges users or faults to act.
Fairness ==
    /\ WF_vars(Start) /\ WF_vars(Call) /\ WF_vars(DeleteCoxCluster)
    /\ \A w \in Workloads : WF_vars(CloudStep(w))

Spec == Init /\ [][Next]_vars
FairSpec == Spec /\ Fairness

-----------------------------------------------------------------------------
(* Properties of every behaviour, whatever goes wrong.                     *)

\* The endpoint of the control plane is always the address of a load balancer
\* that was created as such, and the cluster is ready only with an endpoint.
EndpointIsControlPlane ==
    /\ cox.endpoint # None => wlName[cox.endpoint] = Cp
    /\ cox.ready => cox.endpoint # None

\* A load balancer is restarted only for other backends than it has: the
\* machines come in a different order from every list, and that alone must
\* not restart it (sort.Strings before reflect.DeepEqual).
RestartOnlyOnChange ==
    [][ \A w \in Workloads :
          vm[w] = "RUNNING" /\ vm'[w] = "SCHEDULING"
            => ToSet(backends'[w]) # ToSet(backends[w]) ]_vars

-----------------------------------------------------------------------------
(* Properties of a service whose list keeps up.                            *)

\* Never two control planes' load balancers alive, nor two of the workers'.
AtMostOneOfEach ==
    \A v, w \in Workloads :
        Live(v) /\ Live(w) /\ Ours(v) /\ wlName[v] = wlName[w] => v = w

\* The endpoint moves to another load balancer only when the one before is
\* being deleted or gone: clients are never moved between two that are alive.
EndpointMovesOnlyFromDead ==
    [][ cox.endpoint # None /\ cox'.exists /\ cox'.endpoint # cox.endpoint
          => ~Live(cox.endpoint) ]_vars

\* What ClusterFinalizer is for: when the CoxCluster is gone from the API
\* server, no load balancer of it is left running.
NoLeak == ~cox.exists => \A w \in Workloads : Ours(w) => ~Live(w)

Contract == INSTANCE ResourceContract WITH
    Owners <- Lbs,
    Resources <- Workloads,
    present <- IF cox.exists THEN Lbs ELSE {},
    owner <- wlName,
    running <- {w \in Workloads : Live(w)},
    ref <- [lb \in Lbs |-> IF lb = Cp THEN cox.endpoint ELSE None]

\* The controller keeps the contract for its two load balancers, of which the
\* endpoint refers to the control plane's: none is started while another of
\* its kind runs or for a CoxCluster that is gone, the endpoint never moves to
\* the other kind or away from one that runs, and none is left behind.
ImplementsContract == Contract!Spec

-----------------------------------------------------------------------------
(* What must eventually happen.                                            *)

\* A cluster that is deleted goes away.
DeletionCompletes == clusterDeleting ~> ~cox.exists

Both == \A lb \in Lbs : Matches(lb) # {}
InSync(lb) == \A w \in Matches(lb) : ToSet(backends[w]) = Behind(lb)

\* As long as both load balancers are there, each of them ends up with the
\* addresses of its machines: these change only finitely often.
BackendsConverge ==
    \A lb \in Lbs : Both ~> InSync(lb) \/ ~Both \/ clusterDeleting

\* Drift is reconciled: a missing load balancer is created again.
DriftReconciled ==
    \A lb \in Lbs : cox.exists /\ Matches(lb) = {} ~> Matches(lb) # {} \/ clusterDeleting

-----------------------------------------------------------------------------
(* Why EndpointIsControlPlane holds while no part of a patch is lost (an   *)
(* inductive invariant).                                                   *)

IsControlPlane(names, w) == w # None => names[w] = Cp

Pointed(names, o) ==
    /\ IsControlPlane(names, o.endpoint)
    /\ o.ready => o.endpoint # None

\* What the reconcile may publish is the control plane's, and what it has
\* published once is never emptied.
Sound(names, job) ==
    /\ IsControlPlane(names, job.got[Cp].ip)
    /\ Pointed(names, job.old) /\ Pointed(names, job.new)
    /\ job.old.endpoint # None => job.new.endpoint # None

\* Nobody else changes the endpoint during a reconcile, so that the fields it
\* did not change are the ones that it read.
EndpointInv ==
    /\ faults["patch"] = 0
    /\ \A w \in Workloads : wlState[w] = "unborn" => wlName[w] = None
    /\ Pointed(wlName, cox)
    /\ rec # Idle =>
          /\ Sound(wlName, rec)
          /\ cox.exists => cox.endpoint = rec.old.endpoint /\ cox.ready = rec.old.ready

-----------------------------------------------------------------------------
(* Why AtMostOneOfEach, NoLeak, EndpointMovesOnlyFromDead and              *)
(* ImplementsContract hold of a service whose list keeps up and a cluster  *)
(* that is not deleted early, whatever goes wrong (an inductive invariant).*)

\* Nothing of that name is there, or nothing but w is.
NoneNamed(name) == \A v \in Workloads : Exists(v) => wlName[v] # name
Alone(w) == \A v \in Workloads : Exists(v) /\ wlName[v] = wlName[w] => v = w
NoneLive == \A w \in Workloads : Ours(w) => ~Live(w)

\* The finalizer was removed: nothing may be left, nor be created any more.
Ended == clusterDeleting /\ ~cox.finalizer

\* The list shows what there is: nobody creates before the next reconcile.
AllShown == \A w \in Workloads : Ours(w) => wlState[w] # "hidden"

\* A new endpoint is the only load balancer of the control plane there is.
Found(w) == w \in Workloads /\ wlName[w] = Cp /\ Alone(w)

\* What a reconcile knows, each item from when its answer came.
Knows ==
    /\ cox.exists =>
          cox.endpoint = rec.old.endpoint /\ cox.finalizer = rec.old.finalizer
    /\ rec.new.endpoint # rec.old.endpoint => rec.at = "close" /\ Found(rec.new.endpoint)
    /\ ~rec.new.finalizer => clusterDeleting /\ NoneLive
    /\ rec.at \in {"get", "update", "create"} => rec.new.finalizer /\ ~Ended
    /\ rec.at \in {"get", "update", "delete"} => AllShown
    /\ rec.at \in {"get", "update"} /\ rec.got[Cp].ip # None => Found(rec.got[Cp].ip)
    /\ rec.at = "get" /\ rec.lb = Worker /\ rec.got[Cp].status = "missing" => NoneNamed(Cp)
    /\ rec.at = "create" => NoneNamed(Worker) /\ (rec.lb = Cp => NoneNamed(Cp))
    /\ rec.at = "delete" =>
          /\ clusterDeleting
          /\ \A lb \in Lbs, w \in Workloads :
                rec.got[lb].status = "ok" /\ wlName[w] = lb => ~Live(w)

\* What is there was created by this controller, once of each name.
PairInv ==
    /\ \A w \in Workloads : wlState[w] = "unborn" => wlName[w] = None
    /\ \A w \in Workloads : Exists(w) /\ Ours(w) => Alone(w)
    /\ IsControlPlane(wlName, cox.endpoint)
    /\ cox.deleting => clusterDeleting \/ cox.finalizer
    /\ ~cox.exists => cox = Gone /\ clusterDeleting
    /\ Ended => NoneLive
    /\ rec # Idle => Knows

-----------------------------------------------------------------------------
(* Why RestartOnlyOnChange holds of a service whose list keeps up (an      *)
(* inductive invariant).                                                   *)

\* What the reconcile read of a load balancer is what it has.
AsRead(lb) ==
    \A w \in Workloads : Exists(w) /\ wlName[w] = lb => backends[w] = rec.got[lb].backends

\* The update of the control plane's leaves the worker's as it was read.
Unchanged(lb) == rec.at = "get" \/ (rec.at = "update" /\ lb \in {rec.lb, Worker})

\* What the reconcile goes by when it updates, and when it creates.
HasRead ==
    /\ rec.at \in {"get", "update"} => AllShown
    /\ \A lb \in Lbs : Unchanged(lb) /\ IsUp(rec, lb) => AsRead(lb)
    /\ rec.at = "update" => IsUp(rec, rec.lb) /\ Differs(rec, rec.lb)
    /\ rec.at = "get" /\ rec.lb = Worker /\ rec.got[Cp].status = "missing" => NoneNamed(Cp)
    /\ rec.at = "create" => NoneNamed(Worker) /\ (rec.lb = Cp => NoneNamed(Cp))

RestartInv ==
    /\ \A w \in Workloads : wlState[w] = "unborn" => wlName[w] = None
    /\ \A w \in Workloads : Exists(w) /\ Ours(w) => Alone(w)
    /\ rec # Idle => HasRead

=============================================================================
