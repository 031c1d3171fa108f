----------------------------- MODULE CoxMachine -----------------------------
(***************************************************************************)
(* The CoxMachine controller (src/controllers/coxmachine_controller.go and *)
(* src/pkg/cloud/coxedge/scope/machine.go): one worker that reconciles one *)
(* CoxMachine at a time, against the Cox Edge service of module CoxEdge.   *)
(*                                                                         *)
(* A reconcile reads the CoxMachine, then makes calls to the service, then *)
(* persists what it changed in its copy.  Every call is a step of its own, *)
(* so that the service, the users, Cluster API and crashes act in between. *)
(***************************************************************************)
EXTENDS CoxEdge, Naturals

CONSTANTS
    Machines,        \* the CoxMachine objects
    ApiName,         \* ApiName[m] : shortenName(m's name), its workload's name
    ListLag,         \* the list may miss a workload whose task has succeeded
    StaleReads,      \* the controller reads CoxMachines from a lagging cache
    EarlyBootstrap,  \* bootstrap data may precede the persisted finalizer
    Unreachable,     \* the API of the workload cluster may be out of reach
    MaxFaults        \* MaxFaults[k] : how many faults of kind k may happen

FaultKinds == {
    "crash",         \* the controller's process dies
    "api",           \* a call fails and has no effect
    "lost",          \* a POST takes effect and its answer is lost
    "patch",         \* a part of the final patch is not written
    "cli",           \* someone deletes a workload with `cox workload delete'
    "die",           \* an instance stops
    "fail"}          \* a provisioning task fails

ASSUME MachineAssumption ==
    /\ None \notin Machines
    /\ ApiName \in [Machines -> Names]
    /\ ListLag \in BOOLEAN /\ StaleReads \in BOOLEAN
    /\ EarlyBootstrap \in BOOLEAN /\ Unreachable \in BOOLEAN
    /\ MaxFaults \in [FaultKinds -> Nat]

VARIABLES
    obj,             \* obj[m] : the CoxMachine in the API server
    cache,           \* cache[m] : the informer's copy of it
    infraReady,      \* Cluster.Status.InfrastructureReady
    bootstrap,       \* bootstrap[m] : Machine.Spec.Bootstrap.DataSecretName is set
    node,            \* node[w] : the Node that w's instance runs as
    rec,             \* the reconcile in progress
    faults           \* faults[k] : the faults of kind k that may still happen

k8sVars == <<obj, cache, infraReady, bootstrap, node>>
vars == <<wlState, wlName, task, vm, obj, cache, infraReady, bootstrap, node, rec, faults>>

\* A CoxMachine.  providerID and taskID are the workload they name; addr is
\* the workload whose instance has the addresses in Status.Addresses.
\* Status.TaskStatus is left out: it is written for display and never read.
Object == [exists: BOOLEAN, deleting: BOOLEAN, finalizer: BOOLEAN, providerID: Ref,
           taskID: Ref, ready: BOOLEAN, cond: {"Unknown", "False", "True"}, addr: Ref]

Fresh == [exists |-> TRUE, deleting |-> FALSE, finalizer |-> FALSE, providerID |-> None,
          taskID |-> None, ready |-> FALSE, cond |-> "Unknown", addr |-> None]

Gone == [Fresh EXCEPT !.exists = FALSE]

\* Where a reconcile is: the call it is about to make.
Phases == {"list", "task", "create", "instances", "node", "get", "delete", "close"}

Job == [at: Phases, m: Machines, old: Object, new: Object]
Idle == [at |-> "idle"]

TypeOK ==
    /\ CloudTypeOK
    /\ obj \in [Machines -> Object]
    /\ cache \in [Machines -> Object]
    /\ infraReady \in BOOLEAN
    /\ bootstrap \in [Machines -> BOOLEAN]
    /\ node \in [Workloads -> {"absent", "joined", "tagged"}]
    /\ rec \in Job \cup {Idle}
    /\ faults \in [FaultKinds -> Nat]

\* Cluster API has created the objects; no reconcile has run yet.
Init ==
    /\ CloudInit
    /\ obj = [m \in Machines |-> Fresh]
    /\ cache = obj
    /\ infraReady = FALSE
    /\ bootstrap = [m \in Machines |-> FALSE]
    /\ node = [w \in Workloads |-> "absent"]
    /\ rec = Idle
    /\ faults = MaxFaults

Spend(k) ==
    /\ faults[k] > 0
    /\ faults' = [faults EXCEPT ![k] = @ - 1]

-----------------------------------------------------------------------------
(* Reconcile: read the object and choose between the two ways through.     *)

Observed(m) == IF StaleReads THEN cache[m] ELSE obj[m]

Begin(m, at, new) ==
    /\ rec = Idle
    /\ Observed(m).exists
    /\ rec' = [at |-> at, m |-> m, old |-> Observed(m), new |-> new]
    /\ UNCHANGED <<cloudVars, k8sVars, faults>>

StartDelete(m) ==
    /\ Observed(m).deleting
    /\ Begin(m, "list", Observed(m))

\* The finalizer is added to the copy only: the final patch persists it.
Adopted(m) == [Observed(m) EXCEPT !.cond = "Unknown", !.finalizer = TRUE]

\* Mutant: any failed reconcile is an error state that is never left.
StartNormalUnlessFailed(m) ==
    /\ ~Observed(m).deleting
    /\ infraReady /\ bootstrap[m] /\ Observed(m).cond # "False"
    /\ Begin(m, "list", Adopted(m))

StartNormal(m) ==
    /\ ~Observed(m).deleting
    /\ infraReady /\ bootstrap[m]
    /\ Begin(m, "list", Adopted(m))

StartTooEarly(m) ==
    /\ ~Observed(m).deleting
    /\ ~(infraReady /\ bootstrap[m])
    /\ Begin(m, "close", [Adopted(m) EXCEPT !.cond = "False"])

Start(m) == StartDelete(m) \/ StartNormal(m) \/ StartTooEarly(m)

-----------------------------------------------------------------------------
(* The calls of a reconcile.                                               *)

Deleting == rec.old.deleting

Continue(at, new) == rec' = [rec EXCEPT !.at = at, !.new = new]

\* Only reconcileNormal reports on the condition.
Failed(o) == IF Deleting THEN o ELSE [o EXCEPT !.cond = "False"]

\* Mutant: GetWorkloadID does not strip the scheme again.
BindWithScheme(w) ==
    Continue(IF Deleting THEN "get" ELSE "instances",
             [rec.new EXCEPT !.providerID = <<"coxedge", w>>])

\* SetProviderID, and on to the rest of either way through.
Bind(w) ==
    Continue(IF Deleting THEN "get" ELSE "instances", [rec.new EXCEPT !.providerID = w])

ReconcileWorkloadFound ==
    /\ rec.at = "list"
    /\ \E w \in Matches(ApiName[rec.m]) : Bind(w)
    /\ UNCHANGED <<cloudVars, k8sVars, faults>>

\* Mutant: the deletion is complete, and the finalizer stays.
ReconcileWorkloadNotFoundKeeps ==
    /\ rec.at = "list"
    /\ Matches(ApiName[rec.m]) = {}
    /\ rec.new.providerID # None \/ rec.new.taskID = None
    /\ Continue(IF Deleting THEN "close" ELSE "create", rec.new)
    /\ UNCHANGED <<cloudVars, k8sVars, faults>>

\* No workload to be found: a first one is created, a deletion is complete.
ReconcileWorkloadNotFound ==
    /\ rec.at = "list"
    /\ Matches(ApiName[rec.m]) = {}
    /\ rec.new.providerID # None \/ rec.new.taskID = None
    /\ IF Deleting
          THEN Continue("close", [rec.new EXCEPT !.finalizer = FALSE])
          ELSE Continue("create", rec.new)
    /\ UNCHANGED <<cloudVars, k8sVars, faults>>

ReconcileWorkloadAskTask ==
    /\ rec.at = "list"
    /\ Matches(ApiName[rec.m]) = {}
    /\ rec.new.providerID = None /\ rec.new.taskID # None
    /\ Continue("task", rec.new)
    /\ UNCHANGED <<cloudVars, k8sVars, faults>>

\* Mutant: a deletion does not wait for the provisioning to end.
ReconcileWorkloadTaskImpatient ==
    /\ rec.at = "task"
    /\ \/ task[rec.new.taskID] = "SUCCESS" /\ Bind(rec.new.taskID)
       \/ task[rec.new.taskID] = "FAILURE" /\ Continue("close", Failed(rec.new))
       \/ /\ task[rec.new.taskID] = "PENDING"
          /\ Continue("close", [rec.new EXCEPT !.finalizer = @ /\ ~Deleting])
    /\ UNCHANGED <<cloudVars, k8sVars, faults>>

ReconcileWorkloadTask ==
    /\ rec.at = "task"
    /\ \/ task[rec.new.taskID] = "SUCCESS" /\ Bind(rec.new.taskID)
       \/ task[rec.new.taskID] = "FAILURE" /\ Continue("close", Failed(rec.new))
       \/ task[rec.new.taskID] = "PENDING" /\ Continue("close", rec.new)
    /\ UNCHANGED <<cloudVars, k8sVars, faults>>

\* Mutant: the answer's TaskID is not recorded.
CreateUnrecorded ==
    /\ rec.at = "create"
    /\ \E w \in Workloads : CreateWorkload(w, ApiName[rec.m])
    /\ Continue("close", rec.new)
    /\ UNCHANGED <<k8sVars, faults>>

\* POST the workload; only an answer that arrives gives the task's id.
Create ==
    /\ rec.at = "create"
    /\ \E w \in Workloads :
          /\ CreateWorkload(w, ApiName[rec.m])
          /\ \/ /\ Continue("close", [rec.new EXCEPT !.taskID = w])
                /\ UNCHANGED faults
             \/ /\ Spend("lost")
                /\ Continue("close", Failed(rec.new))
    /\ UNCHANGED k8sVars

\* The service refuses to create more workloads than its quota.
CreateRefused ==
    /\ rec.at = "create"
    /\ \A w \in Workloads : wlState[w] # "unborn"
    /\ Continue("close", Failed(rec.new))
    /\ UNCHANGED <<cloudVars, k8sVars, faults>>

\* Mutant: a machine whose workload was found is ready, whatever its instance does.
InstancesUnchecked ==
    /\ rec.at = "instances"
    /\ LET w == rec.new.providerID IN
          \/ vm[w] = "RUNNING" /\ Continue("node", [rec.new EXCEPT !.addr = w, !.cond = "True"])
          \/ vm[w] \in {"SCHEDULING", "DEAD"} /\ Continue("close", [rec.new EXCEPT !.ready = TRUE])
          \/ vm[w] = "none" /\ Continue("close", Failed(rec.new))
    /\ UNCHANGED <<cloudVars, k8sVars, faults>>

Instances ==
    /\ rec.at = "instances"
    /\ LET w == rec.new.providerID IN
          \/ vm[w] = "RUNNING" /\ Continue("node", [rec.new EXCEPT !.addr = w, !.cond = "True"])
          \/ vm[w] \in {"SCHEDULING", "DEAD"} /\ Continue("close", rec.new)
          \/ vm[w] = "none" /\ Continue("close", Failed(rec.new))
    /\ UNCHANGED <<cloudVars, k8sVars, faults>>

\* Mutant: a machine that is ready already is not looked at again.
SetNodeProviderIDOnce ==
    /\ rec.at = "node"
    /\ node' = IF rec.old.ready THEN node
               ELSE [node EXCEPT ![rec.new.addr] = IF @ = "joined" THEN "tagged" ELSE @]
    /\ Continue("close", [rec.new EXCEPT !.ready = TRUE])
    /\ UNCHANGED <<cloudVars, obj, cache, infraReady, bootstrap, faults>>

\* A Node that has not joined yet is not an error.
SetNodeProviderID ==
    /\ rec.at = "node"
    /\ node' = [node EXCEPT ![rec.new.addr] = IF @ = "joined" THEN "tagged" ELSE @]
    /\ Continue("close", [rec.new EXCEPT !.ready = TRUE])
    /\ UNCHANGED <<cloudVars, obj, cache, infraReady, bootstrap, faults>>

\* Mutant: the finalizer is taken off before the deletion is asked for.
CheckDeletedReleasesFirst ==
    /\ rec.at = "get"
    /\ Continue(IF Exists(rec.new.providerID) THEN "delete" ELSE "close",
                [rec.new EXCEPT !.finalizer = FALSE])
    /\ UNCHANGED <<cloudVars, k8sVars, faults>>

CheckDeleted ==
    /\ rec.at = "get"
    /\ IF Exists(rec.new.providerID)
          THEN Continue("delete", rec.new)
          ELSE Continue("close", [rec.new EXCEPT !.finalizer = FALSE])
    /\ UNCHANGED <<cloudVars, k8sVars, faults>>

Delete ==
    /\ rec.at = "delete"
    /\ DeleteWorkload(rec.new.providerID)
    /\ \/ /\ Continue("close", [rec.new EXCEPT !.finalizer = FALSE])
          /\ UNCHANGED faults
       \/ /\ Spend("lost")
          /\ Continue("close", rec.new)
    /\ UNCHANGED k8sVars

\* The workload vanished since CheckDeleted: an error, and a retry.
DeleteTooLate ==
    /\ rec.at = "delete"
    /\ ~Exists(rec.new.providerID)
    /\ Continue("close", rec.new)
    /\ UNCHANGED <<cloudVars, k8sVars, faults>>

\* SetNodeProviderID is the one call to the workload cluster: it has no client
\* while the API there does not answer.  All others are calls to the service.
Failing ==
    \/ Spend("api")
    \/ Unreachable /\ rec.at = "node" /\ UNCHANGED faults

\* Mutant: a reconcile that ends with an error persists nothing.
CallFailsUnpersisted ==
    /\ rec # Idle /\ rec.at # "close"
    /\ Failing
    /\ rec' = Idle
    /\ UNCHANGED <<cloudVars, k8sVars>>

\* Mutant: any error of the GET in reconcileDelete passes for a 404.
CallFailsAsNotFound ==
    /\ rec # Idle /\ rec.at # "close"
    /\ Failing
    /\ Continue("close", IF rec.at = "get" THEN [rec.new EXCEPT !.finalizer = FALSE]
                                          ELSE Failed(rec.new))
    /\ UNCHANGED <<cloudVars, k8sVars>>

\* The call that the reconcile is about to make fails.  By then a condition
\* that Instances has set stays set.
CallFails ==
    /\ rec # Idle /\ rec.at # "close"
    /\ Failing
    /\ Continue("close", IF rec.at = "node" THEN rec.new ELSE Failed(rec.new))
    /\ UNCHANGED <<cloudVars, k8sVars>>

-----------------------------------------------------------------------------
(* MachineScope.Close: the three patches of what the reconcile changed.    *)

Parts == {"conditions", "object", "status"}

\* Only the fields that the reconcile changed in its copy are written.
Patched(o, parts) ==
    LET Merge(part, from, to, now) == IF part \in parts /\ from # to THEN to ELSE now
    IN [o EXCEPT
          !.cond = Merge("conditions", rec.old.cond, rec.new.cond, @),
          !.finalizer = Merge("object", rec.old.finalizer, rec.new.finalizer, @),
          !.providerID = Merge("object", rec.old.providerID, rec.new.providerID, @),
          !.taskID = Merge("status", rec.old.taskID, rec.new.taskID, @),
          !.ready = Merge("status", rec.old.ready, rec.new.ready, @),
          !.addr = Merge("status", rec.old.addr, rec.new.addr, @)]

\* The API server drops an object being deleted with its last finalizer.
Settled(o) == IF ~o.exists \/ (o.deleting /\ ~o.finalizer) THEN Gone ELSE o

Write(parts) ==
    /\ rec.at = "close"
    /\ obj' = [obj EXCEPT ![rec.m] = Settled(Patched(@, parts))]
    /\ rec' = Idle
    /\ UNCHANGED <<cloudVars, cache, infraReady, bootstrap, node>>

Close == Write(Parts) /\ UNCHANGED faults

ClosePartly == Spend("patch") /\ \E parts \in SUBSET Parts \ {Parts} : Write(parts)

\* A crash loses the reconcile and what it has not persisted yet; the three
\* patches are written in this order.
Crash ==
    /\ rec # Idle
    /\ Spend("crash")
    /\ \/ /\ rec' = Idle
          /\ UNCHANGED <<cloudVars, k8sVars>>
       \/ Write({"conditions"})
       \/ Write({"conditions", "object"})

-----------------------------------------------------------------------------
(* Everybody else.                                                         *)

InfrastructureReady ==
    /\ ~infraReady
    /\ infraReady' = TRUE
    /\ UNCHANGED <<cloudVars, obj, cache, bootstrap, node, rec, faults>>

BootstrapReady(m) ==
    /\ ~bootstrap[m]
    /\ EarlyBootstrap \/ obj[m].finalizer
    /\ bootstrap' = [bootstrap EXCEPT ![m] = TRUE]
    /\ UNCHANGED <<cloudVars, obj, cache, infraReady, node, rec, faults>>

\* A user, or Cluster API, deletes the CoxMachine.
RequestDeletion(m) ==
    /\ obj[m].exists /\ ~obj[m].deleting
    /\ obj' = [obj EXCEPT ![m] = Settled([@ EXCEPT !.deleting = TRUE])]
    /\ UNCHANGED <<cloudVars, cache, infraReady, bootstrap, node, rec, faults>>

CacheSync(m) ==
    /\ StaleReads /\ cache[m] # obj[m]
    /\ cache' = [cache EXCEPT ![m] = obj[m]]
    /\ UNCHANGED <<cloudVars, obj, infraReady, bootstrap, node, rec, faults>>

NodeJoins(w) ==
    /\ vm[w] = "RUNNING" /\ node[w] = "absent"
    /\ node' = [node EXCEPT ![w] = "joined"]
    /\ UNCHANGED <<cloudVars, obj, cache, infraReady, bootstrap, rec, faults>>

\* `cox workload delete', on a workload that `cox workload list' shows.
CliDelete(w) ==
    /\ wlState[w] = "listed"
    /\ Spend("cli")
    /\ DeleteWorkload(w)
    /\ UNCHANGED <<k8sVars, rec>>

CloudStep(w) ==
    /\ Appear(w) \/ Provision(w, ListLag) \/ Boot(w) \/ Vanish(w)
    /\ UNCHANGED <<k8sVars, rec, faults>>

CloudFault(w) ==
    /\ \/ Spend("fail") /\ FailProvisioning(w)
       \/ Spend("die") /\ Die(w)
    /\ UNCHANGED <<k8sVars, rec>>

-----------------------------------------------------------------------------

Call ==
    \/ ReconcileWorkloadFound \/ ReconcileWorkloadNotFound
    \/ ReconcileWorkloadAskTask \/ ReconcileWorkloadTask
    \/ Create \/ CreateRefused \/ Instances \/ SetNodeProviderID
    \/ CheckDeleted \/ Delete \/ DeleteTooLate \/ Close

Next ==
    \/ Call \/ CallFails \/ ClosePartly \/ Crash
    \/ InfrastructureReady
    \/ \E m \in Machines :
          Start(m) \/ BootstrapReady(m) \/ RequestDeletion(m) \/ CacheSync(m)
    \/ \E w \in Workloads :
          NodeJoins(w) \/ CliDelete(w) \/ CloudStep(w) \/ CloudFault(w)

\* The manager resyncs every object every two minutes and serves its queue in
\* order (Start), calls return (Call), caches catch up, the service gets on
\* with accepted requests.  Cluster API makes the infrastructure and the
\* bootstrap data ready.  Nothing obliges users or faults to act.
Fairness ==
    /\ WF_vars(Call)
    /\ \A m \in Machines :
          SF_vars(Start(m)) /\ WF_vars(BootstrapReady(m)) /\ WF_vars(CacheSync(m))
    /\ \A w \in Workloads : WF_vars(CloudStep(w)) /\ WF_vars(NodeJoins(w))
    /\ WF_vars(InfrastructureReady)

Spec == Init /\ [][Next]_vars
FairSpec == Spec /\ Fairness

-----------------------------------------------------------------------------
(* Properties of every behaviour, whatever goes wrong.                     *)

\* Everything a CoxMachine records (its ProviderID, its task, its addresses)
\* is of a workload that was created under its own name: GetWorkloadByName
\* and the TaskID never hand it anybody else's.
OwnWorkload ==
    \A m \in Machines : \A w \in {obj[m].providerID, obj[m].taskID, obj[m].addr} :
        w # None => wlName[w] = ApiName[m]

\* No two CoxMachines end up with the same workload as their ProviderID, when
\* their names stay distinct after shortenName.
NoSharing ==
    \A m, n \in Machines :
        m # n /\ obj[m].providerID # None => obj[m].providerID # obj[n].providerID

\* A machine is reported ready only together with its ProviderID and with the
\* addresses of an instance, although the three patches of Close can be cut
\* off in between by a crash: readiness is the last thing written.
ReadyIsComplete ==
    \A m \in Machines :
        obj[m].ready => obj[m].providerID # None /\ obj[m].addr # None

\* The finalizer is released only once the workload that the deleting
\* reconcile has found, by name or by task, is being deleted or gone.
ReleaseOnlyWhenDead ==
    [][ rec.at = "close" /\ obj[rec.m].finalizer /\ ~obj'[rec.m].exists
          /\ rec.new.providerID # None
        => ~Live(rec.new.providerID) ]_vars

-----------------------------------------------------------------------------
(* Properties of the service and the cluster at their best.                *)

\* `1 CAPI Machine == 1 Cox Workload' (Instances, and CreateWorkload): never
\* two workloads alive under one machine's name.
AtMostOneWorkload ==
    \A m \in Machines : \A v, w \in Workloads :
        Live(v) /\ Live(w) /\ wlName[v] = ApiName[m] /\ wlName[w] = ApiName[m] => v = w

\* What MachineFinalizer is for: when the CoxMachine is gone from the API
\* server, no workload of it is left running.
NoLeak ==
    \A m \in Machines : \A w \in Workloads :
        ~obj[m].exists /\ wlName[w] = ApiName[m] => ~Live(w)

\* The machine that a workload was created for.
OwnerOf(w) ==
    IF \E m \in Machines : ApiName[m] = wlName[w]
       THEN CHOOSE m \in Machines : ApiName[m] = wlName[w]
       ELSE None

Contract == INSTANCE ResourceContract WITH
    Owners <- Machines,
    Resources <- Workloads,
    present <- {m \in Machines : obj[m].exists},
    owner <- [w \in Workloads |-> OwnerOf(w)],
    running <- {w \in Workloads : Live(w)},
    ref <- [m \in Machines |-> obj[m].providerID]

\* The controller keeps the contract for the workloads of its machines, the
\* workload that a ProviderID names being the one that a machine refers to:
\* none is started while another runs or for a CoxMachine that is gone, and
\* the ProviderID never moves between two that run.
ImplementsContract == Contract!Spec

-----------------------------------------------------------------------------
(* What must eventually happen.                                            *)

\* A machine that is not deleted becomes ready, in spite of finitely many
\* crashes, failed calls, lost answers and lost patches.
EventuallyReady ==
    \A m \in Machines :
        obj[m].exists ~> obj[m].ready \/ obj[m].deleting \/ ~obj[m].exists

\* A machine that is deleted goes away.
DeletionCompletes ==
    \A m \in Machines : obj[m].deleting ~> ~obj[m].exists

BoundDead(m) ==
    /\ obj[m].exists /\ ~obj[m].deleting
    /\ obj[m].providerID # None /\ vm[obj[m].providerID] = "DEAD"

\* The five-minute requeue notices that the instance stopped: the Ready
\* condition stops being True.
DeadVmNoticed ==
    \A m \in Machines : BoundDead(m) ~> obj[m].cond # "True" \/ ~BoundDead(m)

\* A Node that joins after its machine became ready still gets its ProviderID.
NodeTagged ==
    \A m \in Machines : \A w \in Workloads :
        node[w] = "joined" /\ obj[m].providerID = w
          ~> node[w] = "tagged" \/ obj[m].deleting \/ ~obj[m].exists
               \/ obj[m].providerID # w \/ vm[w] # "RUNNING"

-----------------------------------------------------------------------------
(* Why OwnWorkload holds (an inductive invariant).                         *)

Own(names, m, o) ==
    \A w \in {o.providerID, o.taskID, o.addr} : w # None => names[w] = ApiName[m]

\* Not only the objects refer to workloads of their own: so do the informer's
\* copies and the two copies of the reconcile in progress, and nothing refers
\* to a workload before it has its name.
OwnInv ==
    /\ \A w \in Workloads : wlState[w] = "unborn" => wlName[w] = None
    /\ \A m \in Machines : Own(wlName, m, obj[m]) /\ Own(wlName, m, cache[m])
    /\ rec # Idle => Own(wlName, rec.m, rec.old) /\ Own(wlName, rec.m, rec.new)

(* Why ReadyIsComplete holds while no part of a patch is lost.             *)

Complete(o) == o.ready => o.providerID # None /\ o.addr # None

Grows(a, b) ==
    /\ a.providerID # None => b.providerID # None
    /\ a.addr # None => b.addr # None

\* Readiness is set on a copy that has the rest already, and what has been set
\* is never emptied again, so that an old copy cannot undo it.
ReadyInv ==
    /\ faults["patch"] = 0
    /\ \A m \in Machines :
          /\ Complete(obj[m]) /\ Complete(cache[m])
          /\ obj[m].exists => Grows(cache[m], obj[m])
    /\ rec # Idle =>
          /\ obj[rec.m].exists => Grows(rec.old, obj[rec.m])
          /\ Grows(rec.old, rec.new) /\ Complete(rec.new)
          /\ rec.at \in {"instances", "node"} => rec.new.providerID # None
          /\ rec.at = "node" => rec.new.addr # None
          /\ rec.at = "task" => rec.new.taskID # None

(* Why ReleaseOnlyWhenDead holds while the list does not lag.              *)

Found(states, o) ==
    o.providerID # None => states[o.providerID] \in {"listed", "deleting", "gone"}

Finished(states, o) ==
    o.providerID # None => states[o.providerID] \in {"deleting", "gone"}

\* A ProviderID is recorded when the list has its workload, so that a list
\* without it says that it is gone.
ReleaseInv ==
    /\ \A w \in Workloads : wlState[w] = "hidden" => task[w] # "SUCCESS"
    /\ \A m \in Machines :
          /\ Found(wlState, obj[m]) /\ Found(wlState, cache[m])
          /\ obj[m].finalizer => obj[m].exists
    /\ rec # Idle =>
          /\ Found(wlState, rec.old) /\ Found(wlState, rec.new)
          /\ rec.at = "task" => rec.new.taskID # None
          /\ rec.old.finalizer /\ ~rec.new.finalizer =>
                rec.at = "close" /\ Finished(wlState, rec.new)

(* Why AtMostOneWorkload, NoLeak and ImplementsContract hold when no answer *)
(* and no part of a patch is lost, nothing crashes and nobody else deletes  *)
(* workloads, with fresh reads and bootstrap data after the finalizer.      *)

Untroubled == \A k \in {"lost", "crash", "patch", "cli"} : faults[k] = 0

\* Since it was read, the object has at most been marked for deletion.
AsRead(old, o) ==
    /\ o.finalizer = old.finalizer
    /\ o.providerID = old.providerID /\ o.taskID = old.taskID
    /\ old.deleting => o.deleting

\* Everything but its own patch leaves the object of a reconcile as it was
\* read, and what has the finalizer loses it in a deletion only.
CopyInv ==
    /\ Untroubled
    /\ \A m \in Machines :
          /\ obj[m].exists => obj[m].finalizer \/ (~obj[m].deleting /\ ~bootstrap[m])
          /\ ~obj[m].exists => obj[m] = Gone
    /\ rec # Idle =>
          /\ obj[rec.m].exists => AsRead(rec.old, obj[rec.m])
          /\ rec.at # "close" => obj[rec.m].exists /\ obj[rec.m].finalizer
          /\ ~rec.new.finalizer => rec.at = "close" /\ rec.old.deleting
          /\ rec.at \in {"get", "delete"} => rec.old.deleting
          /\ rec.at = "create" => ~rec.old.deleting
          /\ rec.at \in {"get", "delete", "instances"} => rec.new.providerID # None

Named(m) == {w \in Workloads : wlName[w] = ApiName[m]}

WorksOn(m) == rec # Idle /\ rec.m = m

\* No reconcile has set about deleting what m has.
Untouched(m) ==
    \/ obj[m].exists /\ ~obj[m].deleting
    \/ WorksOn(m) /\ ~rec.old.deleting

\* A workload that nobody deleted runs, or its provisioning has failed.
Undeleted(w) == Live(w) \/ (wlState[w] = "gone" /\ task[w] = "FAILURE")

\* A machine never gets a second workload: it remembers the task of its first,
\* its ProviderID is listed until a reconcile deletes it, and the finalizer
\* stays until then.
SoleInv ==
    /\ \A m \in Machines : \A v, w \in Named(m) : v = w
    /\ \A m \in Machines :
          /\ obj[m].exists =>
                \A w \in Named(m) :
                    /\ obj[m].finalizer
                    /\ \/ w = obj[m].taskID
                       \/ WorksOn(m) /\ rec.at = "close" /\ w = rec.new.taskID
          /\ ~obj[m].exists => \A w \in Named(m) : ~Live(w)
          /\ Untouched(m) =>
                /\ \A w \in Named(m) : Undeleted(w)
                /\ obj[m].providerID # None => wlState[obj[m].providerID] = "listed"
    /\ rec # Idle =>
          /\ rec.at = "create" => Named(rec.m) = {}
          /\ rec.old.taskID # None => rec.new.taskID = rec.old.taskID
          /\ rec.old.providerID # None => rec.new.providerID = rec.old.providerID
          /\ ~rec.old.deleting /\ rec.new.providerID # None
                => wlState[rec.new.providerID] = "listed"
          /\ ~rec.new.finalizer => \A w \in Named(rec.m) : ~Live(w)

=============================================================================
