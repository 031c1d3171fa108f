---------------------- MODULE CoxMachineContractProofs ----------------------
(***************************************************************************)
(* One workload for a CoxMachine, none left behind, and the contract of    *)
(* module ResourceContract: theorems for any machines and workloads, and   *)
(* any number of failed calls, failed tasks and dead instances.            *)
(***************************************************************************)
EXTENDS CoxMachineProofs

\* What the theorems of this module assume: fresh reads, a list that keeps up
\* with the tasks, bootstrap data after the finalizer, and neither crashes,
\* lost answers, lost patches nor deletions behind the controller's back.
AtItsBest ==
    /\ ListLag = FALSE /\ StaleReads = FALSE /\ EarlyBootstrap = FALSE
    /\ \A k \in {"lost", "crash", "patch", "cli"} : MaxFaults[k] = 0
    /\ \A m, n \in Machines : ApiName[m] = ApiName[n] => m = n

-----------------------------------------------------------------------------
(* Where nothing is lost.                                                  *)

\* Faults of a kind that cannot happen do not happen.
LEMMA NoTrouble ==
    ASSUME Untroubled
    PROVE  /\ ~Spend("lost") /\ ~ClosePartly /\ ~Crash
           /\ \A w \in Workloads : ~CliDelete(w)
BY DEF Untroubled, Spend, ClosePartly, Crash, CliDelete

LEMMA UntroubledKept ==
    ASSUME TypeOK, Untroubled, [Next]_vars
    PROVE  Untroubled'
<1>1. CASE UNCHANGED faults
      BY <1>1 DEF Untroubled
<1>2. ASSUME NEW k \in FaultKinds, Spend(k)
      PROVE  Untroubled'
      BY <1>2 DEF Untroubled, Spend, TypeOK, FaultKinds
<1>3. CASE Call \/ CallFails \/ ClosePartly \/ Crash
      BY <1>1, <1>2, <1>3
      DEF Call, ReconcileWorkloadFound, ReconcileWorkloadNotFound, CreateRefused,
          ReconcileWorkloadAskTask, ReconcileWorkloadTask, Instances, Create, Delete,
          SetNodeProviderID, CheckDeleted, DeleteTooLate, Close, CallFails, Failing,
          ClosePartly, Crash, FaultKinds
<1>4. CASE \/ InfrastructureReady
           \/ \E m \in Machines :
                 Start(m) \/ BootstrapReady(m) \/ RequestDeletion(m) \/ CacheSync(m)
      BY <1>1, <1>4 DEF InfrastructureReady, Start, StartDelete, StartNormal,
                        StartTooEarly, Begin, BootstrapReady, RequestDeletion, CacheSync
<1>5. CASE \E w \in Workloads :
              NodeJoins(w) \/ CliDelete(w) \/ CloudStep(w) \/ CloudFault(w)
      BY <1>1, <1>2, <1>5 DEF NodeJoins, CliDelete, CloudStep, CloudFault, FaultKinds
<1>6. CASE UNCHANGED vars
      BY <1>1, <1>6 DEF vars
<1>7. QED
      BY <1>3, <1>4, <1>5, <1>6 DEF Next

-----------------------------------------------------------------------------
(* CopyInv: a reconcile works on the object as it is.                      *)

LEMMA CopyContinue ==
    ASSUME TypeOK, CopyInv, Untroubled', rec \in Job, rec # Idle, rec.at # "close",
           UNCHANGED <<obj, bootstrap>>,
           NEW at \in Phases, NEW new \in Object, Continue(at, new),
           ~new.finalizer => at = "close" /\ rec.old.deleting,
           at \in {"get", "delete"} => rec.old.deleting,
           at = "create" => ~rec.old.deleting,
           at \in {"get", "delete", "instances"} => new.providerID # None
    PROVE  CopyInv'
<1>1. /\ rec'.m = rec.m /\ rec'.old = rec.old /\ rec'.new = new /\ rec'.at = at
      BY DEF Job, Continue
<1>2. QED
      BY <1>1 DEF CopyInv

LEMMA CopyWorker ==
    ASSUME TypeOK, ReleaseInv, CopyInv, Untroubled',
           \/ ReconcileWorkloadFound \/ ReconcileWorkloadNotFound
           \/ ReconcileWorkloadAskTask \/ ReconcileWorkloadTask
           \/ Create \/ CreateRefused \/ Instances \/ SetNodeProviderID
           \/ CheckDeleted \/ Delete \/ DeleteTooLate \/ CallFails
    PROVE  CopyInv'
<1>1. UNCHANGED <<obj, bootstrap>> /\ rec.at \in Phases \ {"close"}
  <2>1. CASE CallFails
        BY <2>1 DEF CallFails, TypeOK, Job, k8sVars
  <2>2. CASE ~CallFails
        BY <2>2 DEF Phases, k8sVars, ReconcileWorkloadFound, ReconcileWorkloadNotFound,
               CreateRefused, ReconcileWorkloadAskTask, ReconcileWorkloadTask, Instances,
               SetNodeProviderID, CheckDeleted, DeleteTooLate, Create, Delete
  <2>3. QED
        BY <2>1, <2>2
<1>2. /\ rec \in Job /\ rec # Idle
      /\ rec.m \in Machines /\ rec.old \in Object /\ rec.new \in Object
      BY <1>1, InProgress DEF TypeOK
<1> DEFINE Good(at, new) ==
              /\ new \in Object
              /\ ~new.finalizer => at = "close" /\ rec.old.deleting
              /\ at \in {"get", "delete"} => rec.old.deleting
              /\ at = "create" => ~rec.old.deleting
              /\ at \in {"get", "delete", "instances"} => new.providerID # None
<1>3. /\ rec.new.finalizer
      /\ \A at \in {"list", "task", "node", "close"} : Good(at, rec.new)
      BY <1>1, <1>2 DEF CopyInv
<1>4. Good("close", Failed(rec.new))
  <2>1. Failed(rec.new) \in Object
        BY <1>2, ObjectEdits
  <2>2. Failed(rec.new).finalizer = rec.new.finalizer
        BY <1>2 DEF Failed, Object
  <2>3. QED
        BY <1>3, <2>1, <2>2
<1>5. ASSUME NEW w \in Workloads
      PROVE  Good(IF Deleting THEN "get" ELSE "instances", [rec.new EXCEPT !.providerID = w])
      BY <1>2, <1>3, NoneAssumption DEF Deleting, Object, Ref
<1>6. rec.old.deleting => Good("close", [rec.new EXCEPT !.finalizer = FALSE])
      BY <1>2, <1>3 DEF Object
<1>7. \E at \in Phases : \E new : Continue(at, new) /\ Good(at, new)
  <2>1. CASE ReconcileWorkloadFound
        BY <1>5, <2>1 DEF ReconcileWorkloadFound, Matches, Bind, Phases
  <2>2. CASE ReconcileWorkloadNotFound
    <3>1. CASE Deleting
          BY <1>6, <2>2, <3>1 DEF ReconcileWorkloadNotFound, Phases, Deleting
    <3>2. CASE ~Deleting
          BY <1>2, <1>3, <2>2, <3>2 DEF ReconcileWorkloadNotFound, Phases, Deleting
    <3>3. QED
          BY <3>1, <3>2
  <2>3. CASE ReconcileWorkloadAskTask \/ DeleteTooLate \/ CreateRefused \/ CallFails
        BY <1>3, <1>4, <2>3 DEF ReconcileWorkloadAskTask, DeleteTooLate, CreateRefused,
                                CallFails, Phases
  <2>4. CASE ReconcileWorkloadTask
    <3>1. rec.new.taskID \in Workloads
          BY <1>2, <2>4 DEF ReconcileWorkloadTask, ReleaseInv, Object, Ref
    <3>2. QED
          BY <1>3, <1>4, <1>5, <2>4, <3>1 DEF ReconcileWorkloadTask, Bind, Phases
  <2>5. CASE Create
    <3>1. \A w \in Workloads : Good("close", [rec.new EXCEPT !.taskID = w])
          BY <1>2, <1>3 DEF Object, Ref
    <3>2. QED
          BY <1>4, <2>5, <3>1 DEF Create, Phases
  <2>6. CASE Instances
    <3>1. Good("node", [rec.new EXCEPT !.addr = rec.new.providerID, !.cond = "True"])
          BY <1>2, <1>3 DEF Object
    <3>2. QED
          BY <1>3, <1>4, <2>6, <3>1 DEF Instances, Phases
  <2>7. CASE SetNodeProviderID
    <3>1. Good("close", [rec.new EXCEPT !.ready = TRUE])
          BY <1>2, <1>3 DEF Object
    <3>2. QED
          BY <2>7, <3>1 DEF SetNodeProviderID, Phases
  <2>8. CASE CheckDeleted \/ Delete
    <3>1. rec.old.deleting /\ rec.new.providerID # None
          BY <1>2, <2>8 DEF CheckDeleted, Delete, CopyInv
    <3>2. Good("delete", rec.new)
          BY <1>3, <3>1
    <3>3. QED
          BY <1>3, <1>6, <2>8, <3>1, <3>2 DEF CheckDeleted, Delete, Phases
  <2>9. QED
        BY <2>1, <2>2, <2>3, <2>4, <2>5, <2>6, <2>7, <2>8
<1>8. QED
      BY <1>1, <1>2, <1>7, CopyContinue

\* What the final patch makes of the object.
LEMMA ClosedObject ==
    ASSUME TypeOK, CopyInv, Close
    PROVE  /\ rec' = Idle /\ rec # Idle /\ rec \in Job /\ rec.m \in Machines
           /\ rec.old \in Object /\ rec.new \in Object
           /\ \A m \in Machines : m # rec.m => obj'[m] = obj[m]
           /\ obj[rec.m].exists /\ rec.new.finalizer =>
                /\ obj'[rec.m].exists /\ obj'[rec.m].finalizer
                /\ obj'[rec.m].deleting = obj[rec.m].deleting
                /\ obj'[rec.m].providerID = rec.new.providerID
                /\ obj'[rec.m].taskID = rec.new.taskID
           /\ ~(obj[rec.m].exists /\ rec.new.finalizer) => obj'[rec.m] = Gone
<1>1. /\ rec \in Job /\ rec # Idle
      /\ rec.m \in Machines /\ rec.old \in Object /\ rec.new \in Object
      BY InProgress DEF Close, Write, Phases, TypeOK
<1>2. /\ rec' = Idle
      /\ obj' = [obj EXCEPT ![rec.m] = Settled(Patched(obj[rec.m], Parts))]
      BY DEF Close, Write
<1>3. obj[rec.m] \in Object
      BY <1>1 DEF TypeOK
<1> DEFINE q == Patched(obj[rec.m], Parts)
<1>4. /\ q.exists = obj[rec.m].exists /\ q.deleting = obj[rec.m].deleting
      /\ obj[rec.m].exists =>
           /\ q.finalizer = rec.new.finalizer
           /\ q.providerID = rec.new.providerID /\ q.taskID = rec.new.taskID
      BY <1>1, <1>3 DEF Patched, Parts, Object, CopyInv, AsRead
<1> HIDE DEF q
<1>5. obj'[rec.m] = Settled(q) /\ \A m \in Machines : m # rec.m => obj'[m] = obj[m]
      BY <1>1, <1>2 DEF q, TypeOK
<1>6. obj[rec.m].exists /\ ~rec.new.finalizer => obj[rec.m].deleting
      BY <1>1 DEF CopyInv, AsRead
<1>7. QED
      BY <1>1, <1>2, <1>4, <1>5, <1>6 DEF Settled

LEMMA CopyClose ==
    ASSUME TypeOK, CopyInv, Untroubled', Close
    PROVE  CopyInv'
<1>1. /\ rec' = Idle
      /\ \A m \in Machines : m # rec.m => obj'[m] = obj[m]
      /\ (obj'[rec.m].exists /\ obj'[rec.m].finalizer) \/ obj'[rec.m] = Gone
      BY ClosedObject
<1>2. ~Gone.exists /\ UNCHANGED bootstrap
      BY DEF Gone, Fresh, Close, Write
<1>3. QED
      BY <1>1, <1>2 DEF CopyInv

LEMMA CopyStart ==
    ASSUME TypeOK, CopyInv, Untroubled', StaleReads = FALSE, NEW m \in Machines, Start(m)
    PROVE  CopyInv'
<1>1. Observed(m) = obj[m] /\ obj[m] \in Object
      BY DEF Observed, TypeOK
<1>2. UNCHANGED <<obj, bootstrap>> /\ obj[m].exists
      BY <1>1 DEF Start, StartDelete, StartNormal, StartTooEarly, Begin, k8sVars
<1>3. ASSUME NEW at \in {"list", "close"}, NEW new, Begin(m, at, new), new.finalizer,
             at # "close" => obj[m].finalizer
      PROVE  CopyInv'
  <2>1. rec' = [at |-> at, m |-> m, old |-> obj[m], new |-> new]
        BY <1>1, <1>3 DEF Begin
  <2>2. AsRead(obj[m], obj[m])
        BY DEF AsRead
  <2>3. QED
        BY <1>2, <1>3, <2>1, <2>2 DEF CopyInv
<1>4. Adopted(m).finalizer /\ [Adopted(m) EXCEPT !.cond = "False"].finalizer
      BY <1>1 DEF Adopted, Object
<1>5. CASE StartDelete(m)
  <2>1. obj[m].finalizer
        BY <1>1, <1>2, <1>5 DEF StartDelete, CopyInv
  <2>2. QED
        BY <1>1, <1>3, <1>5, <2>1 DEF StartDelete
<1>6. CASE StartNormal(m)
  <2>1. obj[m].finalizer
        BY <1>1, <1>2, <1>6 DEF StartNormal, CopyInv
  <2>2. QED
        BY <1>3, <1>4, <1>6, <2>1 DEF StartNormal
<1>7. CASE StartTooEarly(m)
      BY <1>3, <1>4, <1>7 DEF StartTooEarly
<1>8. QED
      BY <1>5, <1>6, <1>7 DEF Start

\* A request for deletion marks what has the finalizer and drops the rest.
LEMMA RequestedObject ==
    ASSUME TypeOK, NEW m \in Machines, RequestDeletion(m)
    PROVE  /\ UNCHANGED <<wlState, wlName, task, bootstrap, rec>>
           /\ \A n \in Machines : n # m => obj'[n] = obj[n]
           /\ obj[m].exists /\ ~obj[m].deleting
           /\ obj[m].finalizer => obj'[m] = [obj[m] EXCEPT !.deleting = TRUE]
           /\ ~obj[m].finalizer => obj'[m] = Gone
BY DEF RequestDeletion, Settled, TypeOK, Object, cloudVars

LEMMA CopyRequest ==
    ASSUME TypeOK, CopyInv, Untroubled', NEW m \in Machines, RequestDeletion(m)
    PROVE  CopyInv'
<1>1. obj[m] \in Object /\ (rec # Idle => rec.m \in Machines)
      BY DEF TypeOK, Job
<1>2. /\ UNCHANGED <<bootstrap, rec>>
      /\ \A n \in Machines : n # m => obj'[n] = obj[n]
      /\ obj[m].exists
      /\ ~obj[m].finalizer => obj'[m] = Gone
      BY RequestedObject
<1>3. obj[m].finalizer =>
          /\ obj'[m].exists /\ obj'[m].finalizer /\ obj'[m].deleting
          /\ obj'[m].providerID = obj[m].providerID /\ obj'[m].taskID = obj[m].taskID
  <2>1. obj[m].finalizer => obj'[m] = [obj[m] EXCEPT !.deleting = TRUE]
        BY RequestedObject
  <2>2. QED
        BY <1>1, <1>2, <2>1 DEF Object
<1>4. ~Gone.exists
      BY DEF Gone, Fresh
<1>5. \A n \in Machines :
          /\ obj'[n].exists => obj'[n].finalizer \/ (~obj'[n].deleting /\ ~bootstrap'[n])
          /\ ~obj'[n].exists => obj'[n] = Gone
      BY <1>2, <1>3, <1>4 DEF CopyInv
<1>6. ASSUME rec # Idle, rec.m = m
      PROVE  /\ obj'[m].exists => AsRead(rec.old, obj'[m])
             /\ rec.at # "close" => obj'[m].exists /\ obj'[m].finalizer
      BY <1>2, <1>3, <1>4, <1>6 DEF CopyInv, AsRead
<1>7. QED
      BY <1>1, <1>2, <1>5, <1>6 DEF CopyInv

LEMMA CopyEnvironment ==
    ASSUME TypeOK, CopyInv, Untroubled', StaleReads = FALSE, EarlyBootstrap = FALSE,
           \/ InfrastructureReady
           \/ \E m \in Machines : BootstrapReady(m) \/ RequestDeletion(m) \/ CacheSync(m)
           \/ \E w \in Workloads :
                 NodeJoins(w) \/ CliDelete(w) \/ CloudStep(w) \/ CloudFault(w)
    PROVE  CopyInv'
<1>1. CASE UNCHANGED <<obj, bootstrap, rec>>
      BY <1>1 DEF CopyInv
<1>2. ASSUME NEW m \in Machines, BootstrapReady(m)
      PROVE  CopyInv'
      BY <1>2 DEF BootstrapReady, CopyInv, TypeOK
<1>3. QED
      BY <1>1, <1>2, CopyRequest DEF InfrastructureReady, CacheSync, NodeJoins, CliDelete,
                                     CloudStep, CloudFault, k8sVars

LEMMA CopyStep ==
    ASSUME AtItsBest, TypeOK, ReleaseInv, CopyInv, [Next]_vars
    PROVE  CopyInv'
<1>1. Untroubled' /\ ~ClosePartly /\ ~Crash
      BY NoTrouble, UntroubledKept DEF CopyInv
<1>2. CASE UNCHANGED vars
      BY <1>1, <1>2 DEF vars, CopyInv
<1>3. CASE Call \/ CallFails
      BY <1>1, <1>3, CopyWorker, CopyClose DEF Call
<1>4. QED
      BY <1>1, <1>2, <1>3, CopyStart, CopyEnvironment DEF Next, AtItsBest

LEMMA CopyInit ==
    ASSUME AtItsBest, Init
    PROVE  CopyInv
BY DEF AtItsBest, Init, CopyInv, Untroubled, Fresh

\* The copies of a CoxMachine agree but for a deletion mark.
THEOREM CopyCorrect ==
    ASSUME AtItsBest
    PROVE  Spec => []CopyInv
<1>1. Init => CopyInv
      BY CopyInit
<1>2. TypeOK /\ ReleaseInv /\ CopyInv /\ [Next]_vars => CopyInv'
      BY CopyStep
<1>3. Spec => []ReleaseInv
      BY ReleaseInvariant DEF AtItsBest
<1>4. QED
      BY <1>1, <1>2, <1>3, TypeCorrect, PTL DEF Spec

-----------------------------------------------------------------------------
(* SoleInv: a machine never gets a second workload.                        *)

\* What an object refers to is of its machine.
LEMMA OwnIsNamed ==
    ASSUME NEW m \in Machines, NEW o \in Object, Own(wlName, m, o)
    PROVE  /\ o.providerID # None => o.providerID \in Named(m)
           /\ o.taskID # None => o.taskID \in Named(m)
BY DEF Own, Named, Object, Ref

\* The reconcile in progress, with what is known of its machine.
LEMMA WorkingCopy ==
    ASSUME TypeOK, OwnInv, CopyInv, SoleInv, rec.at \in Phases \ {"close"}
    PROVE  /\ rec \in Job /\ rec # Idle
           /\ rec.m \in Machines /\ rec.old \in Object /\ rec.new \in Object
           /\ obj[rec.m] \in Object /\ obj[rec.m].exists /\ obj[rec.m].finalizer
           /\ rec.new.finalizer
           /\ rec.old.taskID = obj[rec.m].taskID
           /\ \A w \in Named(rec.m) : w = rec.old.taskID
           /\ rec.new.providerID # None => rec.new.providerID \in Named(rec.m)
           /\ rec.old.providerID # None => rec.old.providerID \in Named(rec.m)
           /\ rec.new.taskID # None => rec.new.taskID \in Named(rec.m)
           /\ rec.old.taskID # None => rec.old.taskID \in Named(rec.m)
           /\ ~rec.old.deleting => Untouched(rec.m)
<1>1. /\ rec \in Job /\ rec # Idle
      /\ rec.m \in Machines /\ rec.old \in Object /\ rec.new \in Object
      BY InProgress DEF TypeOK
<1>2. /\ obj[rec.m] \in Object /\ obj[rec.m].exists /\ obj[rec.m].finalizer
      /\ rec.new.finalizer /\ rec.old.taskID = obj[rec.m].taskID
      BY <1>1 DEF TypeOK, CopyInv, AsRead
<1>3. \A w \in Named(rec.m) : w = rec.old.taskID
      BY <1>1, <1>2 DEF SoleInv
<1>4. Own(wlName, rec.m, rec.old) /\ Own(wlName, rec.m, rec.new)
      BY <1>1 DEF OwnInv
<1>5. QED
      BY <1>1, <1>2, <1>3, <1>4, OwnIsNamed DEF Untouched, WorksOn

\* What may happen to a workload that no one creates or deletes.
Settles(w) ==
    /\ wlState[w] = "listed" => wlState'[w] = "listed"
    /\ wlState[w] = "unborn" <=> wlState'[w] = "unborn"
    /\ Live(w)' => Live(w)
    /\ Undeleted(w) => Undeleted(w)'

LEMMA SoleContinue ==
    ASSUME TypeOK, OwnInv, SoleInv, rec \in Job, rec # Idle, rec.at # "close",
           UNCHANGED <<wlState, wlName, task, obj>>,
           NEW at, NEW new, Continue(at, new),
           at = "create" => Named(rec.m) = {},
           rec.old.taskID # None => new.taskID = rec.old.taskID,
           rec.old.providerID # None => new.providerID = rec.old.providerID,
           ~rec.old.deleting /\ new.providerID # None
              => wlState[new.providerID] = "listed",
           ~new.finalizer => \A w \in Named(rec.m) : ~Live(w)
    PROVE  SoleInv'
<1>1. /\ rec'.m = rec.m /\ rec'.old = rec.old /\ rec'.new = new /\ rec'.at = at
      BY DEF Job, Continue
<1>2. /\ \A m \in Machines : Named(m)' = Named(m)
      /\ \A w \in Workloads : (Live(w)' <=> Live(w)) /\ (Undeleted(w)' <=> Undeleted(w))
      BY DEF Named, Live, Undeleted
<1>3. rec' # Idle
      BY <1>1 DEF Job, Continue, Idle
<1>4. \A m \in Machines :
          (WorksOn(m)' <=> WorksOn(m)) /\ (Untouched(m)' <=> Untouched(m))
      BY <1>1, <1>3 DEF WorksOn, Untouched
<1>5. \A m \in Machines : \A w \in Named(m) : w \in Workloads
      BY DEF Named
<1>6. rec.m \in Machines
      BY DEF Job
<1>7. \A m \in Machines :
          /\ obj[m].exists =>
                \A w \in Named(m) : obj[m].finalizer /\ w = obj[m].taskID
          /\ ~obj[m].exists => \A w \in Named(m) : ~Live(w)
          /\ Untouched(m) =>
                /\ \A w \in Named(m) : Undeleted(w)
                /\ obj[m].providerID # None => wlState[obj[m].providerID] = "listed"
      BY DEF SoleInv
<1>8. \A m \in Machines : \A v, w \in Named(m)' : v = w
      BY <1>2 DEF SoleInv
<1>9. \A m \in Machines :
          /\ obj'[m].exists =>
                \A w \in Named(m)' : obj'[m].finalizer /\ w = obj'[m].taskID
          /\ ~obj'[m].exists => \A w \in Named(m)' : ~Live(w)'
          /\ Untouched(m)' =>
                /\ \A w \in Named(m)' : Undeleted(w)'
                /\ obj'[m].providerID # None => wlState'[obj'[m].providerID] = "listed"
      BY <1>2, <1>4, <1>5, <1>7
<1>10. QED
      BY <1>1, <1>2, <1>5, <1>6, <1>8, <1>9 DEF SoleInv

\* The calls that change nothing in the service.
LEMMA SoleReads ==
    ASSUME TypeOK, OwnInv, ReleaseInv, CopyInv, SoleInv,
           \/ ReconcileWorkloadFound \/ ReconcileWorkloadNotFound
           \/ ReconcileWorkloadAskTask \/ ReconcileWorkloadTask
           \/ CreateRefused \/ Instances \/ SetNodeProviderID
           \/ CheckDeleted \/ DeleteTooLate \/ CallFails
    PROVE  SoleInv'
<1>1. UNCHANGED <<wlState, wlName, task, obj>> /\ rec.at \in Phases \ {"close"}
  <2>1. CASE CallFails
        BY <2>1 DEF CallFails, TypeOK, Job, k8sVars, cloudVars
  <2>2. CASE ~CallFails
        BY <2>2 DEF Phases, k8sVars, cloudVars, ReconcileWorkloadFound,
               ReconcileWorkloadNotFound, CreateRefused, ReconcileWorkloadAskTask,
               ReconcileWorkloadTask, Instances, SetNodeProviderID, CheckDeleted,
               DeleteTooLate
  <2>3. QED
        BY <2>1, <2>2
<1>2. /\ rec \in Job /\ rec # Idle
      /\ rec.m \in Machines /\ rec.old \in Object /\ rec.new \in Object
      /\ rec.new.finalizer
      /\ \A w \in Named(rec.m) : w = rec.old.taskID
      /\ \A v \in {rec.new.providerID, rec.old.providerID, rec.new.taskID, rec.old.taskID} :
             v # None => v \in Named(rec.m)
      /\ ~rec.old.deleting => \A w \in Named(rec.m) : Undeleted(w)
      BY <1>1, WorkingCopy DEF SoleInv
<1>3. \A v, w \in Named(rec.m) : v = w
      BY <1>2
<1> DEFINE Good(at, new) ==
              /\ at = "create" => Named(rec.m) = {}
              /\ rec.old.taskID # None => new.taskID = rec.old.taskID
              /\ rec.old.providerID # None => new.providerID = rec.old.providerID
              /\ ~rec.old.deleting /\ new.providerID # None
                    => wlState[new.providerID] = "listed"
              /\ ~new.finalizer => \A w \in Named(rec.m) : ~Live(w)
<1>4. \A at : at # "create" => Good(at, rec.new)
      BY <1>2 DEF SoleInv
<1>5. Good("close", Failed(rec.new))
  <2>1. /\ Failed(rec.new).finalizer = rec.new.finalizer
        /\ Failed(rec.new).providerID = rec.new.providerID
        /\ Failed(rec.new).taskID = rec.new.taskID
        BY <1>2 DEF Failed, Object
  <2>2. QED
        BY <1>4, <2>1
<1>6. ASSUME NEW w \in Named(rec.m), ~rec.old.deleting => wlState[w] = "listed"
      PROVE  \A at \in {"get", "instances"} : Good(at, [rec.new EXCEPT !.providerID = w])
      BY <1>2, <1>3, <1>4, <1>6 DEF Object
<1>7. ASSUME \A w \in Named(rec.m) : ~Live(w)
      PROVE  Good("close", [rec.new EXCEPT !.finalizer = FALSE])
      BY <1>2, <1>4, <1>7 DEF Object
<1>8. \E at, new : Continue(at, new) /\ Good(at, new)
  <2>1. CASE ReconcileWorkloadFound
    <3>1. PICK w \in Matches(ApiName[rec.m]) : Bind(w)
          BY <2>1 DEF ReconcileWorkloadFound
    <3>2. w \in Named(rec.m) /\ wlState[w] \in {"listed", "deleting"}
          BY <3>1 DEF Matches, Named
    <3>3. ~rec.old.deleting => wlState[w] = "listed"
          BY <1>2, <3>2 DEF Undeleted, Live
    <3>4. QED
          BY <1>6, <3>1, <3>2, <3>3 DEF Bind, Deleting
  <2>2. CASE ReconcileWorkloadNotFound
    <3>1. /\ Matches(ApiName[rec.m]) = {}
          /\ rec.new.providerID # None \/ rec.new.taskID = None
          BY <2>2 DEF ReconcileWorkloadNotFound
    <3>2. CASE rec.new.providerID # None
      <4>1. /\ rec.new.providerID \in Named(rec.m)
            /\ wlState[rec.new.providerID] \in {"listed", "deleting", "gone"}
            BY <1>2, <3>2 DEF ReleaseInv, Found
      <4>2. wlState[rec.new.providerID] = "gone"
            BY <3>1, <4>1 DEF Matches, Named
      <4>3. rec.old.deleting
            BY <1>2, <3>2, <4>2 DEF SoleInv
      <4>4. \A w \in Named(rec.m) : ~Live(w)
            BY <1>3, <4>1, <4>2 DEF Live
      <4>5. QED
            BY <1>7, <2>2, <4>3, <4>4 DEF ReconcileWorkloadNotFound, Deleting
    <3>3. CASE rec.new.taskID = None
      <4>1. rec.old.taskID = None
            BY <1>2, <3>3 DEF SoleInv
      <4>2. Named(rec.m) = {}
            BY <1>2, <4>1, NoneAssumption DEF Named
      <4>3. Good("create", rec.new)
            BY <1>2, <4>2 DEF SoleInv
      <4>4. QED
            BY <1>7, <2>2, <4>2, <4>3 DEF ReconcileWorkloadNotFound, Deleting
    <3>4. QED
          BY <3>1, <3>2, <3>3
  <2>3. CASE ReconcileWorkloadAskTask \/ DeleteTooLate \/ CreateRefused \/ CallFails
        BY <1>4, <1>5, <2>3 DEF ReconcileWorkloadAskTask, DeleteTooLate, CreateRefused,
                                CallFails
  <2>4. CASE ReconcileWorkloadTask
    <3>1. CASE task[rec.new.taskID] = "SUCCESS" /\ Bind(rec.new.taskID)
      <4>1. /\ rec.new.taskID \in Named(rec.m) /\ rec.new.taskID \in Workloads
            /\ wlState[rec.new.taskID] # "hidden"
            BY <1>2, <2>4, <3>1 DEF ReconcileWorkloadTask, ReleaseInv, Named
      <4>2. ~rec.old.deleting => wlState[rec.new.taskID] = "listed"
            BY <1>2, <3>1, <4>1 DEF Undeleted, Live
      <4>3. QED
            BY <1>6, <3>1, <4>1, <4>2 DEF Bind, Deleting
    <3>2. QED
          BY <1>4, <1>5, <2>4, <3>1 DEF ReconcileWorkloadTask
  <2>5. CASE Instances
    <3>1. Good("node", [rec.new EXCEPT !.addr = rec.new.providerID, !.cond = "True"])
          BY <1>2, <1>4 DEF Object
    <3>2. QED
          BY <1>4, <1>5, <2>5, <3>1 DEF Instances
  <2>6. CASE SetNodeProviderID
    <3>1. Good("close", [rec.new EXCEPT !.ready = TRUE])
          BY <1>2, <1>4 DEF Object
    <3>2. QED
          BY <2>6, <3>1 DEF SetNodeProviderID
  <2>7. CASE CheckDeleted
    <3>1. rec.new.providerID \in Named(rec.m)
          BY <1>2, <2>7 DEF CheckDeleted, CopyInv
    <3>2. ~Exists(rec.new.providerID) => \A w \in Named(rec.m) : ~Live(w)
          BY <1>3, <3>1 DEF Exists, Live
    <3>3. QED
          BY <1>4, <1>7, <2>7, <3>2 DEF CheckDeleted
  <2>8. QED
        BY <2>1, <2>2, <2>3, <2>4, <2>5, <2>6, <2>7
<1>9. QED
      BY <1>1, <1>2, <1>8, SoleContinue

\* The first workload of a machine, whose task the reconcile remembers.
LEMMA SoleCreate ==
    ASSUME AtItsBest, TypeOK, OwnInv, CopyInv, SoleInv, Create
    PROVE  SoleInv'
<1>1. rec.at = "create" /\ UNCHANGED obj
      BY DEF Create, k8sVars
<1>2. PICK w \in Workloads :
          /\ CreateWorkload(w, ApiName[rec.m])
          /\ Continue("close", [rec.new EXCEPT !.taskID = w])
      BY NoTrouble DEF Create, CopyInv
<1>3. /\ rec \in Job /\ rec # Idle
      /\ rec.m \in Machines /\ rec.old \in Object /\ rec.new \in Object
      /\ obj[rec.m] \in Object /\ obj[rec.m].exists /\ obj[rec.m].finalizer
      /\ rec.new.finalizer
      /\ Named(rec.m) = {} /\ rec.old.taskID = None
  <2>1. Named(rec.m) = {}
        BY <1>1, WorkingCopy DEF SoleInv, Phases
  <2>2. QED
        BY <1>1, <2>1, WorkingCopy DEF Phases
<1>4. /\ rec'.m = rec.m /\ rec'.old = rec.old /\ rec'.at = "close"
      /\ rec'.new = [rec.new EXCEPT !.taskID = w] /\ rec' # Idle
      BY <1>2, <1>3 DEF Job, Continue, Idle
<1>5. /\ rec'.new.taskID = w /\ rec'.new.finalizer
      /\ rec'.new.providerID = rec.new.providerID
      BY <1>3, <1>4 DEF Object
<1>6. /\ wlState[w] = "unborn" /\ wlState'[w] = "hidden" /\ wlName'[w] = ApiName[rec.m]
      /\ \A v \in Workloads \ {w} :
            /\ wlState'[v] = wlState[v] /\ wlName'[v] = wlName[v] /\ task'[v] = task[v]
            /\ (Live(v)' <=> Live(v)) /\ (Undeleted(v)' <=> Undeleted(v))
      /\ Live(w)' /\ Undeleted(w)'
      BY <1>2 DEF CreateWorkload, TypeOK, CloudTypeOK, Live, Undeleted
<1>7. \A m \in Machines : w \notin Named(m)
      BY <1>6, MachineAssumption, NoneAssumption DEF OwnInv, Named
<1>8. /\ Named(rec.m)' = {w}
      /\ \A m \in Machines : m # rec.m => Named(m)' = Named(m)
  <2>1. Named(rec.m)' = {w}
        BY <1>2, <1>3, <1>4, <1>6 DEF Named
  <2>2. ASSUME NEW m \in Machines, m # rec.m
        PROVE  Named(m)' = Named(m)
        BY <1>2, <1>3, <1>6, <1>7, <2>2 DEF Named, AtItsBest
  <2>3. QED
        BY <2>1, <2>2
<1>9. /\ \A m \in Machines :
            (WorksOn(m)' <=> WorksOn(m)) /\ (Untouched(m)' <=> Untouched(m))
      /\ WorksOn(rec.m)' /\ \A m \in Machines : m # rec.m => ~WorksOn(m)
      BY <1>1, <1>3, <1>4 DEF WorksOn, Untouched
<1>10. \A m \in Machines : \A u, v \in Named(m)' : u = v
      BY <1>4, <1>8 DEF SoleInv
<1>11. \A m \in Machines :
          obj[m].providerID # None =>
              obj[m].providerID \in Named(m) /\ obj[m].providerID \in Workloads
      BY OwnIsNamed DEF OwnInv, TypeOK, Named
<1>12. ASSUME NEW m \in Machines
       PROVE  /\ obj'[m].exists =>
                   \A v \in Named(m)' :
                       /\ obj'[m].finalizer
                       /\ \/ v = obj'[m].taskID
                          \/ WorksOn(m)' /\ rec'.at = "close" /\ v = rec'.new.taskID
              /\ ~obj'[m].exists => \A v \in Named(m)' : ~Live(v)'
              /\ Untouched(m)' =>
                   /\ \A v \in Named(m)' : Undeleted(v)'
                   /\ obj'[m].providerID # None
                        => wlState'[obj'[m].providerID] = "listed"
  <2>1. CASE m = rec.m
    <3>1. obj[m].providerID = None
          BY <1>3, <1>11, <2>1
    <3>2. QED
          BY <1>1, <1>3, <1>4, <1>5, <1>6, <1>8, <1>9, <2>1, <3>1
  <2>2. CASE m # rec.m
    <3>1. Named(m)' = Named(m) /\ ~WorksOn(m) /\ (Untouched(m)' <=> Untouched(m))
          BY <1>8, <1>9, <2>2
    <3>2. \A v \in Named(m) : v \in Workloads \ {w}
          BY <1>7 DEF Named
    <3>3. obj[m].providerID # None => obj[m].providerID \in Workloads \ {w}
          BY <1>11, <3>2
    <3>4. QED
          BY <1>1, <1>6, <3>1, <3>2, <3>3 DEF SoleInv
  <2>3. QED
        BY <2>1, <2>2
<1>13. /\ rec.old.providerID # None => rec'.new.providerID = rec.old.providerID
       /\ ~rec.old.deleting /\ rec'.new.providerID # None
             => wlState'[rec'.new.providerID] = "listed"
  <2>1. rec.new.providerID = None
        BY <1>1, <1>3, WorkingCopy DEF Phases
  <2>2. rec.old.providerID = None
        BY <1>3, <2>1 DEF SoleInv
  <2>3. QED
        BY <1>5, <2>1, <2>2
<1>14. QED
      BY <1>3, <1>4, <1>5, <1>10, <1>12, <1>13 DEF SoleInv

LEMMA SoleDelete ==
    ASSUME AtItsBest, TypeOK, OwnInv, CopyInv, SoleInv, Delete
    PROVE  SoleInv'
<1>0. PICK w : w = rec.new.providerID
      OBVIOUS
<1>1. /\ rec.at = "delete" /\ UNCHANGED <<obj, wlName, task>> /\ Exists(w)
      /\ wlState' = [wlState EXCEPT ![w] = "deleting"]
      BY <1>0 DEF Delete, DeleteWorkload, k8sVars
<1>2. Continue("close", [rec.new EXCEPT !.finalizer = FALSE])
      BY NoTrouble DEF Delete, CopyInv
<1>3. /\ rec \in Job /\ rec # Idle
      /\ rec.m \in Machines /\ rec.old \in Object /\ rec.new \in Object
      /\ obj[rec.m].exists /\ obj[rec.m].deleting /\ rec.old.deleting
      /\ w # None /\ w \in Named(rec.m) /\ w \in Workloads
  <2>1. rec.old.deleting /\ w # None
        BY <1>0, <1>1, WorkingCopy DEF CopyInv, Phases
  <2>2. QED
        BY <1>0, <1>1, <2>1, WorkingCopy DEF CopyInv, AsRead, Phases, Named
<1>4. /\ rec'.m = rec.m /\ rec'.old = rec.old /\ rec'.at = "close"
      /\ rec'.new = [rec.new EXCEPT !.finalizer = FALSE] /\ rec' # Idle
      BY <1>2, <1>3 DEF Job, Continue, Idle
<1>5. rec'.new.taskID = rec.new.taskID /\ rec'.new.providerID = rec.new.providerID
      BY <1>3, <1>4 DEF Object
<1>6. /\ ~Live(w)' /\ wlState'[w] = "deleting" /\ wlState[w] # "unborn"
      /\ \A v \in Workloads : v # w =>
            /\ wlState'[v] = wlState[v]
            /\ (Live(v)' <=> Live(v)) /\ (Undeleted(v)' <=> Undeleted(v))
      BY <1>1, <1>3 DEF Exists, TypeOK, CloudTypeOK, Live, Undeleted
<1>7. \A m \in Machines : Named(m)' = Named(m) /\ \A v \in Named(m) : v \in Workloads
      BY <1>1 DEF Named
<1>8. \A m \in Machines : m # rec.m => w \notin Named(m)
      BY <1>3 DEF Named, AtItsBest
<1>9. \A m \in Machines :
          /\ WorksOn(m)' <=> WorksOn(m)
          /\ Untouched(m)' <=> Untouched(m)
          /\ Untouched(m) => m # rec.m
      BY <1>1, <1>3, <1>4 DEF WorksOn, Untouched
<1>10. \A m \in Machines :
          obj[m].providerID # None =>
              obj[m].providerID \in Named(m) /\ obj[m].providerID \in Workloads
      BY OwnIsNamed DEF OwnInv, TypeOK, Named
<1>11. ASSUME NEW m \in Machines
       PROVE  /\ obj'[m].exists =>
                   \A v \in Named(m)' :
                       /\ obj'[m].finalizer
                       /\ \/ v = obj'[m].taskID
                          \/ WorksOn(m)' /\ rec'.at = "close" /\ v = rec'.new.taskID
              /\ ~obj'[m].exists => \A v \in Named(m)' : ~Live(v)'
              /\ Untouched(m)' =>
                   /\ \A v \in Named(m)' : Undeleted(v)'
                   /\ obj'[m].providerID # None
                        => wlState'[obj'[m].providerID] = "listed"
  <2>1. obj'[m].exists =>
            \A v \in Named(m)' : obj'[m].finalizer /\ v = obj'[m].taskID
        BY <1>1, <1>7 DEF SoleInv
  <2>2. ~obj'[m].exists => \A v \in Named(m)' : ~Live(v)'
        BY <1>1, <1>6, <1>7 DEF SoleInv
  <2>3. ASSUME Untouched(m)'
        PROVE  /\ \A v \in Named(m)' : Undeleted(v)'
               /\ obj'[m].providerID # None => wlState'[obj'[m].providerID] = "listed"
        BY <1>1, <1>6, <1>7, <1>8, <1>9, <1>10, <2>3 DEF SoleInv
  <2>4. QED
        BY <2>1, <2>2, <2>3
<1>12. \A m \in Machines : \A u, v \in Named(m)' : u = v
      BY <1>7 DEF SoleInv
<1>13. \A v \in Named(rec.m)' : ~Live(v)'
      BY <1>3, <1>4, <1>6, <1>7, <1>12
<1>14. QED
      BY <1>3, <1>4, <1>5, <1>11, <1>12, <1>13 DEF SoleInv

LEMMA SoleClose ==
    ASSUME TypeOK, OwnInv, CopyInv, SoleInv, Close
    PROVE  SoleInv'
<1>1. /\ rec' = Idle /\ rec # Idle /\ rec \in Job /\ rec.m \in Machines
      /\ rec.old \in Object /\ rec.new \in Object
      /\ \A m \in Machines : m # rec.m => obj'[m] = obj[m]
      /\ obj[rec.m].exists /\ rec.new.finalizer =>
            /\ obj'[rec.m].exists /\ obj'[rec.m].finalizer
            /\ obj'[rec.m].deleting = obj[rec.m].deleting
            /\ obj'[rec.m].providerID = rec.new.providerID
            /\ obj'[rec.m].taskID = rec.new.taskID
      /\ ~(obj[rec.m].exists /\ rec.new.finalizer) => obj'[rec.m] = Gone
      BY ClosedObject
<1>2. UNCHANGED <<wlState, wlName, task>>
      BY DEF Close, Write, cloudVars
<1>3. /\ \A m \in Machines : Named(m)' = Named(m)
      /\ \A w \in Workloads : (Live(w)' <=> Live(w)) /\ (Undeleted(w)' <=> Undeleted(w))
      /\ \A m \in Machines : \A w \in Named(m) : w \in Workloads
      BY <1>2 DEF Named, Live, Undeleted
<1>4. ~Gone.exists /\ Gone.providerID = None
      BY DEF Gone, Fresh
<1>5. ASSUME NEW m \in Machines
      PROVE  /\ obj'[m].exists =>
                  \A w \in Named(m)' : obj'[m].finalizer /\ w = obj'[m].taskID
             /\ ~obj'[m].exists => \A w \in Named(m)' : ~Live(w)'
             /\ Untouched(m)' =>
                  /\ \A w \in Named(m)' : Undeleted(w)'
                  /\ obj'[m].providerID # None
                       => wlState'[obj'[m].providerID] = "listed"
  <2>1. CASE m # rec.m
    <3>1. obj'[m] = obj[m] /\ ~WorksOn(m) /\ (Untouched(m)' <=> Untouched(m))
          BY <1>1, <2>1 DEF WorksOn, Untouched
    <3>2. QED
          BY <1>2, <1>3, <3>1 DEF SoleInv
  <2>2. CASE m = rec.m /\ obj[m].exists /\ rec.new.finalizer
    <3>1. AsRead(rec.old, obj[m])
          BY <1>1, <2>2 DEF CopyInv
    <3>2. \A w \in Named(m) : w = rec.new.taskID
          BY <1>1, <1>3, <2>2, <3>1, NoneAssumption DEF SoleInv, AsRead
    <3>3. Untouched(m)' => Untouched(m) /\ ~rec.old.deleting
          BY <1>1, <2>2, <3>1 DEF Untouched, WorksOn, AsRead
    <3>4. QED
          BY <1>1, <1>2, <1>3, <2>2, <3>2, <3>3 DEF SoleInv
  <2>3. CASE m = rec.m /\ ~(obj[m].exists /\ rec.new.finalizer)
    <3>1. \A w \in Named(m) : ~Live(w)
          BY <1>1, <2>3 DEF SoleInv
    <3>2. ~Untouched(m)' /\ ~obj'[m].exists
          BY <1>1, <1>4, <2>3 DEF Untouched, WorksOn
    <3>3. QED
          BY <1>3, <3>1, <3>2
  <2>4. QED
        BY <2>1, <2>2, <2>3
<1>6. \A m \in Machines : \A v, w \in Named(m)' : v = w
      BY <1>3 DEF SoleInv
<1>7. QED
      BY <1>1, <1>5, <1>6 DEF SoleInv

LEMMA SoleStart ==
    ASSUME TypeOK, CopyInv, SoleInv, StaleReads = FALSE, NEW m \in Machines, Start(m)
    PROVE  SoleInv'
<1>1. Observed(m) = obj[m] /\ obj[m] \in Object
      BY DEF Observed, TypeOK
<1>2. /\ UNCHANGED <<wlState, wlName, task, obj>>
      /\ rec = Idle /\ obj[m].exists
      BY <1>1 DEF Start, StartDelete, StartNormal, StartTooEarly, Begin, k8sVars, cloudVars
<1>3. PICK at \in {"list", "close"}, new \in Object :
          /\ Begin(m, at, new)
          /\ new.finalizer
          /\ new.providerID = obj[m].providerID /\ new.taskID = obj[m].taskID
  <2> DEFINE early == [Adopted(m) EXCEPT !.cond = "False"]
  <2>1. /\ Adopted(m) \in Object /\ Adopted(m).finalizer
        /\ Adopted(m).providerID = obj[m].providerID /\ Adopted(m).taskID = obj[m].taskID
        BY <1>1 DEF Adopted, Object
  <2>2. /\ early \in Object /\ early.finalizer
        /\ early.providerID = obj[m].providerID /\ early.taskID = obj[m].taskID
        BY <2>1 DEF Object
  <2>3. CASE StartDelete(m)
        BY <1>1, <1>2, <2>3 DEF StartDelete, CopyInv
  <2>4. CASE StartNormal(m) \/ StartTooEarly(m)
        BY <2>1, <2>2, <2>4 DEF StartNormal, StartTooEarly
  <2>5. QED
        BY <2>3, <2>4 DEF Start
<1>4. /\ rec'.at = at /\ rec'.m = m /\ rec'.old = obj[m] /\ rec'.new = new
      /\ rec' # Idle
      BY <1>1, <1>3 DEF Begin, Idle
<1>5. /\ \A n \in Machines : Named(n)' = Named(n)
      /\ \A w \in Workloads : (Live(w)' <=> Live(w)) /\ (Undeleted(w)' <=> Undeleted(w))
      /\ \A n \in Machines : \A w \in Named(n) : w \in Workloads
      BY <1>2 DEF Named, Live, Undeleted
<1>6. \A n \in Machines : Untouched(n)' <=> Untouched(n)
      BY <1>2, <1>4 DEF Untouched, WorksOn
<1>7. ~obj[m].deleting => Untouched(m)
      BY <1>2 DEF Untouched
<1>8. \A n \in Machines :
          /\ obj'[n].exists =>
                \A w \in Named(n)' : obj'[n].finalizer /\ w = obj'[n].taskID
          /\ ~obj'[n].exists => \A w \in Named(n)' : ~Live(w)'
          /\ Untouched(n)' =>
                /\ \A w \in Named(n)' : Undeleted(w)'
                /\ obj'[n].providerID # None => wlState'[obj'[n].providerID] = "listed"
      BY <1>2, <1>5, <1>6 DEF SoleInv, WorksOn
<1>9. \A n \in Machines : \A v, w \in Named(n)' : v = w
      BY <1>5 DEF SoleInv
<1>10. /\ rec'.at # "create" /\ rec'.new.finalizer
       /\ ~rec'.old.deleting /\ rec'.new.providerID # None
             => wlState'[rec'.new.providerID] = "listed"
      BY <1>2, <1>3, <1>4, <1>7 DEF SoleInv
<1>11. QED
      BY <1>3, <1>4, <1>8, <1>9, <1>10 DEF SoleInv

LEMMA SoleRequest ==
    ASSUME TypeOK, SoleInv, NEW m \in Machines, RequestDeletion(m)
    PROVE  SoleInv'
<1>0. obj[m] \in Object
      BY DEF TypeOK
<1>1. /\ UNCHANGED <<wlState, wlName, task, rec>>
      /\ \A n \in Machines : n # m => obj'[n] = obj[n]
      /\ obj[m].exists /\ ~obj[m].deleting
      /\ ~obj[m].finalizer => obj'[m] = Gone
      BY RequestedObject
<1>2. obj[m].finalizer =>
          /\ obj'[m].exists /\ obj'[m].finalizer /\ obj'[m].deleting
          /\ obj'[m].providerID = obj[m].providerID /\ obj'[m].taskID = obj[m].taskID
      BY <1>0, RequestedObject DEF Object
<1>3. ~Gone.exists /\ Gone.providerID = None
      BY DEF Gone, Fresh
<1>4. /\ \A n \in Machines : Named(n)' = Named(n) /\ (WorksOn(n)' <=> WorksOn(n))
      /\ \A w \in Workloads : (Live(w)' <=> Live(w)) /\ (Undeleted(w)' <=> Undeleted(w))
      /\ \A n \in Machines : \A w \in Named(n) : w \in Workloads
      BY <1>1 DEF Named, Live, Undeleted, WorksOn
<1>5. ASSUME NEW n \in Machines
      PROVE  /\ obj'[n].exists =>
                  \A w \in Named(n)' :
                      /\ obj'[n].finalizer
                      /\ \/ w = obj'[n].taskID
                         \/ WorksOn(n)' /\ rec'.at = "close" /\ w = rec'.new.taskID
             /\ ~obj'[n].exists => \A w \in Named(n)' : ~Live(w)'
             /\ Untouched(n)' =>
                  /\ \A w \in Named(n)' : Undeleted(w)'
                  /\ obj'[n].providerID # None
                       => wlState'[obj'[n].providerID] = "listed"
  <2>1. CASE n # m
    <3>1. obj'[n] = obj[n] /\ (Untouched(n)' <=> Untouched(n))
          BY <1>1, <1>4, <2>1 DEF Untouched
    <3>2. QED
          BY <1>1, <1>4, <3>1 DEF SoleInv
  <2>2. CASE n = m /\ obj[m].finalizer
    <3>1. Untouched(n)
          BY <1>1, <2>2 DEF Untouched
    <3>2. QED
          BY <1>1, <1>2, <1>4, <2>2, <3>1 DEF SoleInv
  <2>3. CASE n = m /\ ~obj[m].finalizer
    <3>1. Named(m) = {}
          BY <1>1, <2>3 DEF SoleInv
    <3>2. QED
          BY <1>1, <1>3, <1>4, <2>3, <3>1
  <2>4. QED
        BY <2>1, <2>2, <2>3
<1>6. \A n \in Machines : \A v, w \in Named(n)' : v = w
      BY <1>4 DEF SoleInv
<1>7. rec # Idle => rec.m \in Machines
      BY DEF TypeOK, Job
<1>8. QED
      BY <1>1, <1>4, <1>5, <1>6, <1>7 DEF SoleInv

\* The service gets on with its workloads; the controller does not move.
LEMMA SoleSettles ==
    ASSUME TypeOK, OwnInv, SoleInv, UNCHANGED <<wlName, obj, rec>>,
           \A w \in Workloads : Settles(w)
    PROVE  SoleInv'
<1>1. \A n \in Machines :
          /\ Named(n)' = Named(n)
          /\ (WorksOn(n)' <=> WorksOn(n)) /\ (Untouched(n)' <=> Untouched(n))
          /\ \A w \in Named(n) : w \in Workloads
          /\ obj[n].providerID # None => obj[n].providerID \in Workloads
      BY DEF Named, WorksOn, Untouched, TypeOK, Object, Ref
<1>2. rec # Idle =>
          /\ rec.m \in Machines
          /\ rec.new.providerID # None => rec.new.providerID \in Workloads
      BY DEF TypeOK, Job, Object, Ref
<1>3. ASSUME NEW n \in Machines
      PROVE  /\ obj'[n].exists =>
                  \A w \in Named(n)' :
                      /\ obj'[n].finalizer
                      /\ \/ w = obj'[n].taskID
                         \/ WorksOn(n)' /\ rec'.at = "close" /\ w = rec'.new.taskID
             /\ ~obj'[n].exists => \A w \in Named(n)' : ~Live(w)'
             /\ Untouched(n)' =>
                  /\ \A w \in Named(n)' : Undeleted(w)'
                  /\ obj'[n].providerID # None
                       => wlState'[obj'[n].providerID] = "listed"
      BY <1>1 DEF SoleInv, Settles
<1>4. \A n \in Machines : \A v, w \in Named(n)' : v = w
      BY <1>1 DEF SoleInv
<1>5. rec # Idle =>
          /\ rec.at = "create" => Named(rec.m)' = {}
          /\ ~rec.old.deleting /\ rec.new.providerID # None
                => wlState'[rec.new.providerID] = "listed"
          /\ ~rec.new.finalizer => \A w \in Named(rec.m)' : ~Live(w)'
      BY <1>1, <1>2 DEF SoleInv, Settles
<1>6. QED
      BY <1>3, <1>4, <1>5 DEF SoleInv

LEMMA SoleEnvironment ==
    ASSUME TypeOK, OwnInv, ReleaseInv, CopyInv, SoleInv, ListLag = FALSE, StaleReads = FALSE,
           \/ InfrastructureReady
           \/ \E m \in Machines : BootstrapReady(m) \/ RequestDeletion(m) \/ CacheSync(m)
           \/ \E w \in Workloads :
                 NodeJoins(w) \/ CliDelete(w) \/ CloudStep(w) \/ CloudFault(w)
    PROVE  SoleInv'
<1>1. CASE UNCHANGED <<wlState, wlName, task, obj, rec>>
      BY <1>1, SoleSettles DEF Settles, Live, Undeleted
<1>2. ASSUME NEW w \in Workloads,
             Appear(w) \/ Vanish(w) \/ FailProvisioning(w) \/ Provision(w, FALSE),
             UNCHANGED <<obj, rec>>
      PROVE  SoleInv'
  <2>1. \A v \in Workloads : Settles(v)
        BY <1>2 DEF Appear, Vanish, FailProvisioning, Provision, Settles, Live, Undeleted,
                    TypeOK, CloudTypeOK
  <2>2. QED
        BY <1>2, <2>1, SoleSettles DEF Appear, Vanish, FailProvisioning, Provision
<1>3. QED
      BY <1>1, <1>2, SoleRequest, NoTrouble
      DEF InfrastructureReady, BootstrapReady, CacheSync, NodeJoins, CloudStep, CloudFault,
          Boot, Die, CopyInv, k8sVars, cloudVars

LEMMA SoleStep ==
    ASSUME AtItsBest, TypeOK, OwnInv, ReleaseInv, CopyInv, SoleInv, [Next]_vars
    PROVE  SoleInv'
<1>1. ~ClosePartly /\ ~Crash
      BY NoTrouble DEF CopyInv
<1>2. CASE UNCHANGED vars
      BY <1>2, SoleSettles DEF vars, Settles, Live, Undeleted
<1>3. CASE Call \/ CallFails
      BY <1>3, SoleReads, SoleCreate, SoleDelete, SoleClose DEF Call
<1>4. QED
      BY <1>1, <1>2, <1>3, SoleStart, SoleEnvironment DEF Next, AtItsBest

LEMMA SoleInit ==
    ASSUME Init
    PROVE  SoleInv
<1>1. \A m \in Machines : Named(m) = {} /\ obj[m] = Fresh
      BY NoneAssumption, MachineAssumption DEF Init, CloudInit, Named
<1>2. QED
      BY <1>1 DEF Init, CloudInit, SoleInv, Fresh

\* No machine ever gets a second workload.
THEOREM SoleCorrect ==
    ASSUME AtItsBest
    PROVE  Spec => []SoleInv
<1>1. Init => SoleInv
      BY SoleInit
<1>2. TypeOK /\ OwnInv /\ ReleaseInv /\ CopyInv /\ SoleInv /\ [Next]_vars => SoleInv'
      BY SoleStep
<1>3. Spec => []ReleaseInv
      BY ReleaseInvariant DEF AtItsBest
<1>4. QED
      BY <1>1, <1>2, <1>3, TypeCorrect, OwnCorrect, CopyCorrect, PTL DEF Spec

\* Never are two workloads alive under one machine's name, whatever calls and
\* tasks fail and whatever instances die.
THEOREM AtMostOneWorkloadCorrect ==
    ASSUME AtItsBest
    PROVE  Spec => []AtMostOneWorkload
<1>1. SoleInv => AtMostOneWorkload
      BY DEF SoleInv, Named, AtMostOneWorkload
<1>2. QED
      BY <1>1, SoleCorrect, PTL

\* No workload of a CoxMachine that is gone is left running.
THEOREM NoLeakCorrect ==
    ASSUME AtItsBest
    PROVE  Spec => []NoLeak
<1>1. SoleInv => NoLeak
      BY DEF SoleInv, Named, NoLeak
<1>2. QED
      BY <1>1, SoleCorrect, PTL

-----------------------------------------------------------------------------
(* The contract, step by step.                                             *)

LEMMA OwnerOfNamed ==
    ASSUME AtItsBest, NEW m \in Machines, NEW w \in Named(m)
    PROVE  OwnerOf(w) = m
<1>1. wlName[w] = ApiName[m] /\ wlName[w] # None
      BY NoneAssumption, MachineAssumption DEF Named
<1>2. \A n \in Machines : ApiName[n] = wlName[w] => n = m
      BY <1>1 DEF AtItsBest
<1>3. QED
      BY <1>1, <1>2 DEF OwnerOf

\* A workload without a name has no owner.
LEMMA NamelessUnowned ==
    ASSUME NEW w, wlName[w] = None
    PROVE  OwnerOf(w) = None
<1>1. \A m \in Machines : ApiName[m] # None
      BY NoneAssumption, MachineAssumption
<1>2. QED
      BY <1>1 DEF OwnerOf

\* An owner is idle when none of the workloads of its name runs.
LEMMA IdleOwner ==
    ASSUME AtItsBest, SoleInv, NEW m \in Machines, \A w \in Named(m) : ~Live(w)
    PROVE  Contract!Idle(m)
<1> SUFFICES ASSUME NEW r \in Workloads, Live(r), OwnerOf(r) = m
             PROVE  FALSE
    BY DEF Contract!Idle
<1>1. PICK n \in Machines : ApiName[n] = wlName[r]
      BY MachineAssumption DEF OwnerOf
<1>2. r \in Named(n) /\ OwnerOf(r) = n
      BY <1>1, OwnerOfNamed DEF Named
<1>3. QED
      BY <1>2

LEMMA OwnersKept ==
    ASSUME UNCHANGED wlName
    PROVE  UNCHANGED [w \in Workloads |-> OwnerOf(w)]
BY DEF OwnerOf

\* Steps that the contract does not see.
LEMMA ContractStutters ==
    ASSUME UNCHANGED wlName, \A w \in Workloads : Live(w)' <=> Live(w),
           \A m \in Machines : /\ obj'[m].exists <=> obj[m].exists
                              /\ obj'[m].providerID = obj[m].providerID
    PROVE  UNCHANGED Contract!contractVars
BY OwnersKept DEF Contract!contractVars

LEMMA ContractStops ==
    ASSUME UNCHANGED <<wlName, obj>>, NEW w \in Workloads,
           \A v \in Workloads : Live(v)' <=> Live(v) /\ v # w
    PROVE  Contract!Next
<1>1. Contract!Stop(w)
      BY OwnersKept DEF Contract!Stop
<1>2. QED
      BY <1>1 DEF Contract!Next

LEMMA ContractRuns ==
    ASSUME AtItsBest, TypeOK, OwnInv, CopyInv, SoleInv, Create
    PROVE  Contract!Next
<1>1. rec.at = "create" /\ UNCHANGED obj
      BY DEF Create, k8sVars
<1>2. rec.m \in Machines /\ obj[rec.m].exists /\ Named(rec.m) = {}
  <2>1. Named(rec.m) = {}
        BY <1>1, WorkingCopy DEF SoleInv, Phases
  <2>2. QED
        BY <1>1, <2>1, WorkingCopy DEF Phases
<1>3. PICK m \in Machines : m = rec.m
      BY <1>2
<1>4. PICK w \in Workloads : CreateWorkload(w, ApiName[m])
      BY <1>3 DEF Create
<1>5. /\ Live(w)'
      /\ \A v \in Workloads : v # w => (Live(v)' <=> Live(v))
      BY <1>4 DEF CreateWorkload, TypeOK, CloudTypeOK, Live
<1>6. wlName' = [wlName EXCEPT ![w] = ApiName[m]] /\ wlName[w] = None
      BY <1>4 DEF CreateWorkload, OwnInv
<1>7. OwnerOf(w) = None /\ OwnerOf(w)' = m
  <2>1. wlName'[w] = ApiName[m] /\ ApiName[m] # None
        BY <1>6, NoneAssumption, MachineAssumption DEF TypeOK, CloudTypeOK
  <2>2. \A n \in Machines : ApiName[n] = wlName'[w] => n = m
        BY <2>1 DEF AtItsBest
  <2>3. OwnerOf(w)' = m
        BY <2>1, <2>2 DEF OwnerOf
  <2>4. QED
        BY <1>6, <2>3, NamelessUnowned
<1>8. \A v \in Workloads : v # w => OwnerOf(v)' = OwnerOf(v)
      BY <1>6 DEF OwnerOf, TypeOK, CloudTypeOK
<1>9. Contract!Idle(m)
      BY <1>2, <1>3, IdleOwner
<1>10. Contract!Run(m, w)
  <2>1. [v \in Workloads |-> OwnerOf(v)]' = [[v \in Workloads |-> OwnerOf(v)] EXCEPT ![w] = m]
        BY <1>7, <1>8
  <2>2. {v \in Workloads : Live(v)}' = {v \in Workloads : Live(v)} \cup {w}
        BY <1>5
  <2>3. QED
        BY <1>1, <1>2, <1>3, <1>7, <1>9, <2>1, <2>2 DEF Contract!Run
<1>11. QED
      BY <1>10 DEF Contract!Next

\* An object that goes away leaves nothing running.
LEMMA ContractLeaves ==
    ASSUME AtItsBest, SoleInv, SoleInv', UNCHANGED <<wlState, wlName>>,
           NEW m \in Machines, obj[m].exists, obj'[m] = Gone,
           \A n \in Machines : n # m => obj'[n] = obj[n]
    PROVE  Contract!Next
<1>1. ~obj'[m].exists /\ obj'[m].providerID = None
      BY DEF Gone, Fresh
<1>2. Named(m)' = Named(m) /\ \A w \in Workloads : Live(w)' <=> Live(w)
      BY DEF Named, Live
<1>3. \A w \in Named(m) : ~Live(w)
      BY <1>1, <1>2 DEF SoleInv, Named
<1>4. Contract!Idle(m)
      BY <1>3, IdleOwner
<1>5. Contract!Leave({m})
  <2>1. {n \in Machines : obj[n].exists}' = {n \in Machines : obj[n].exists} \ {m}
        BY <1>1
  <2>2. [n \in Machines |-> obj[n].providerID]'
          = [o \in Machines |-> IF o \in {m} THEN None
                                ELSE [n \in Machines |-> obj[n].providerID][o]]
        BY <1>1
  <2>3. QED
        BY <1>2, <1>4, <2>1, <2>2, OwnersKept DEF Contract!Leave
<1>6. {m} \in SUBSET {n \in Machines : obj[n].exists}
      OBVIOUS
<1>7. QED
      BY <1>5, <1>6 DEF Contract!Next

LEMMA ContractCloses ==
    ASSUME AtItsBest, TypeOK, OwnInv, CopyInv, SoleInv, SoleInv', Close
    PROVE  Contract!Next \/ UNCHANGED Contract!contractVars
<1>1. UNCHANGED <<wlState, wlName>> /\ \A w \in Workloads : Live(w)' <=> Live(w)
      BY DEF Close, Write, cloudVars, Live
<1>2. PICK m \in Machines : m = rec.m
      BY ClosedObject
<1>3. /\ rec # Idle /\ rec.old \in Object /\ rec.new \in Object
      /\ \A n \in Machines : n # m => obj'[n] = obj[n]
      /\ obj[m].exists /\ rec.new.finalizer =>
            obj'[m].exists /\ obj'[m].providerID = rec.new.providerID
      /\ ~(obj[m].exists /\ rec.new.finalizer) => obj'[m] = Gone
      BY <1>2, ClosedObject
<1>4. CASE ~obj[m].exists
      BY <1>1, <1>3, <1>4, ContractStutters DEF CopyInv
<1>5. CASE obj[m].exists /\ ~rec.new.finalizer
      BY <1>1, <1>3, <1>5, ContractLeaves
<1>6. CASE obj[m].exists /\ rec.new.finalizer /\ rec.new.providerID = obj[m].providerID
      BY <1>1, <1>3, <1>6, ContractStutters
<1>7. CASE obj[m].exists /\ rec.new.finalizer /\ rec.new.providerID # obj[m].providerID
  <2>1. obj[m].providerID = None
        BY <1>2, <1>3, <1>7 DEF CopyInv, AsRead, SoleInv
  <2>2. PICK w \in Named(m) : w = rec.new.providerID
        BY <1>2, <1>3, <1>7, <2>1, OwnIsNamed DEF OwnInv
  <2>3. w \in Workloads /\ OwnerOf(w) = m
        BY <2>2, OwnerOfNamed DEF Named
  <2>4. [n \in Machines |-> obj[n].providerID]'
          = [[n \in Machines |-> obj[n].providerID] EXCEPT ![m] = w]
        BY <1>3, <1>7, <2>2
  <2>5. Contract!Refer(m, w)
        BY <1>1, <1>3, <1>7, <2>1, <2>3, <2>4, OwnersKept, NoneAssumption
        DEF Contract!Refer
  <2>6. QED
        BY <2>3, <2>5 DEF Contract!Next
<1>8. QED
      BY <1>4, <1>5, <1>6, <1>7

LEMMA ContractReads ==
    ASSUME UNCHANGED <<wlState, wlName, obj>>
    PROVE  UNCHANGED Contract!contractVars
BY ContractStutters DEF Live

LEMMA ContractDeletes ==
    ASSUME TypeOK, OwnInv, CopyInv, SoleInv, Delete
    PROVE  Contract!Next
<1>1. PICK w \in Workloads : w = rec.new.providerID
      BY WorkingCopy DEF Delete, CopyInv, Phases, Named
<1>2. UNCHANGED <<wlName, obj>> /\ \A v \in Workloads : Live(v)' <=> Live(v) /\ v # w
      BY <1>1 DEF Delete, DeleteWorkload, k8sVars, TypeOK, CloudTypeOK, Live
<1>3. QED
      BY <1>2, ContractStops

LEMMA ContractEnvironment ==
    ASSUME AtItsBest, TypeOK, CopyInv, SoleInv, SoleInv',
           \/ InfrastructureReady
           \/ \E m \in Machines : BootstrapReady(m) \/ RequestDeletion(m) \/ CacheSync(m)
           \/ \E w \in Workloads :
                 NodeJoins(w) \/ CliDelete(w) \/ CloudStep(w) \/ CloudFault(w)
    PROVE  Contract!Next \/ UNCHANGED Contract!contractVars
<1>1. CASE UNCHANGED <<wlState, wlName, obj>>
      BY <1>1, ContractReads
<1>2. ASSUME NEW m \in Machines, RequestDeletion(m)
      PROVE  Contract!Next \/ UNCHANGED Contract!contractVars
  <2>1. /\ UNCHANGED <<wlState, wlName>> /\ obj[m] \in Object /\ obj[m].exists
        /\ \A n \in Machines : n # m => obj'[n] = obj[n]
        BY <1>2, RequestedObject DEF TypeOK
  <2>2. CASE obj[m].finalizer
    <3>1. obj'[m].exists /\ obj'[m].providerID = obj[m].providerID
          BY <1>2, <2>1, <2>2, RequestedObject DEF Object
    <3>2. QED
          BY <2>1, <3>1, ContractStutters DEF Live
  <2>3. CASE ~obj[m].finalizer
        BY <1>2, <2>1, <2>3, RequestedObject, ContractLeaves
  <2>4. QED
        BY <2>2, <2>3
<1>3. ASSUME NEW w \in Workloads, Appear(w) \/ Vanish(w) \/ FailProvisioning(w),
             UNCHANGED obj
      PROVE  Contract!Next \/ UNCHANGED Contract!contractVars
  <2>1. CASE Appear(w) \/ Vanish(w)
    <3>1. UNCHANGED wlName /\ \A v \in Workloads : Live(v)' <=> Live(v)
          BY <2>1 DEF Appear, Vanish, Live, TypeOK, CloudTypeOK
    <3>2. QED
          BY <1>3, <3>1, ContractStutters
  <2>2. CASE FailProvisioning(w)
    <3>1. UNCHANGED wlName /\ \A v \in Workloads : Live(v)' <=> Live(v) /\ v # w
          BY <2>2 DEF FailProvisioning, Live, TypeOK, CloudTypeOK
    <3>2. QED
          BY <1>3, <3>1, ContractStops
  <2>3. QED
        BY <1>3, <2>1, <2>2
<1>4. QED
      BY <1>1, <1>2, <1>3, NoTrouble
      DEF InfrastructureReady, BootstrapReady, CacheSync, NodeJoins, CloudStep, CloudFault,
          Provision, Boot, Die, CopyInv, k8sVars, cloudVars

\* The controller keeps the contract of module ResourceContract: every step of
\* it runs, stops or refers to one workload, lets one CoxMachine leave, or is
\* none that the contract sees.
THEOREM ContractCorrect ==
    ASSUME AtItsBest
    PROVE  Spec => ImplementsContract
<1>1. Init => Contract!Init
  <2> SUFFICES ASSUME Init PROVE Contract!Init
      OBVIOUS
  <2>1. \A w \in Workloads : OwnerOf(w) = None
        BY NamelessUnowned DEF Init, CloudInit
  <2>2. QED
        BY <2>1 DEF Init, CloudInit, Contract!Init, Fresh, Live
<1>2. TypeOK /\ OwnInv /\ CopyInv /\ SoleInv /\ SoleInv' /\ [Next]_vars
          => [Contract!Next]_(Contract!contractVars)
  <2> SUFFICES ASSUME TypeOK, OwnInv, CopyInv, SoleInv, SoleInv', [Next]_vars
               PROVE  Contract!Next \/ UNCHANGED Contract!contractVars
      OBVIOUS
  <2>1. ~ClosePartly /\ ~Crash
        BY NoTrouble DEF CopyInv
  <2>2. CASE UNCHANGED <<wlState, wlName, obj>>
        BY <2>2, ContractReads
  <2>3. CASE Call \/ CallFails
        BY <2>2, <2>3, ContractRuns, ContractDeletes, ContractCloses
        DEF Call, ReconcileWorkloadFound, ReconcileWorkloadNotFound, CreateRefused,
            ReconcileWorkloadAskTask, ReconcileWorkloadTask, Instances,
            SetNodeProviderID, CheckDeleted, DeleteTooLate, CallFails, k8sVars, cloudVars
  <2>4. ASSUME NEW m \in Machines, Start(m)
        PROVE  UNCHANGED <<wlState, wlName, obj>>
        BY <2>4 DEF Start, StartDelete, StartNormal, StartTooEarly, Begin, k8sVars,
                    cloudVars
  <2>5. QED
        BY <2>1, <2>2, <2>3, <2>4, ContractEnvironment DEF Next, vars
<1>3. QED
      BY <1>1, <1>2, TypeCorrect, OwnCorrect, CopyCorrect, SoleCorrect, PTL
      DEF Spec, ImplementsContract, Contract!Spec

-----------------------------------------------------------------------------
(* The invariants together, and beside other users of the environment.     *)

BestInv == TypeOK /\ OwnInv /\ ReleaseInv /\ CopyInv /\ SoleInv

LEMMA BestInit ==
    ASSUME AtItsBest, Init
    PROVE  BestInv
BY TypeInit, OwnInit, ReleaseInit, CopyInit, SoleInit DEF BestInv, AtItsBest

LEMMA BestStep ==
    ASSUME AtItsBest, BestInv, [Next]_vars
    PROVE  BestInv'
BY TypeStep, OwnStep, ReleaseStep, CopyStep, SoleStep DEF BestInv, AtItsBest

\* A step of somebody else in the same environment: the machines and what
\* they are named stay as they are, and nobody takes one of their names.
ForeignStep ==
    /\ CloudTypeOK'
    /\ UNCHANGED <<obj, cache, infraReady, bootstrap, node, rec, faults>>
    /\ \A w \in Workloads :
          /\ wlState'[w] = "unborn" => wlName'[w] = None
          /\ wlState'[w] = "hidden" => task'[w] # "SUCCESS"
          /\ \A m \in Machines :
                /\ wlName'[w] = ApiName[m] <=> wlName[w] = ApiName[m]
                /\ wlName[w] = ApiName[m] => wlState'[w] = wlState[w] /\ task'[w] = task[w]

LEMMA BestBeside ==
    ASSUME BestInv, ForeignStep
    PROVE  BestInv'
<1>1. TypeOK'
      BY DEF BestInv, TypeOK, ForeignStep
<1>2. \A m \in Machines : \A o \in Object :
          Own(wlName, m, o) =>
              /\ Own(wlName', m, o)
              /\ Found(wlState, o) => Found(wlState', o)
              /\ Finished(wlState, o) => Finished(wlState', o)
      BY DEF ForeignStep, Own, Found, Finished, Object, Ref
<1>3. /\ \A m \in Machines : obj[m] \in Object /\ cache[m] \in Object
      /\ rec # Idle => rec.m \in Machines /\ rec.old \in Object /\ rec.new \in Object
      BY DEF BestInv, TypeOK, Job
<1>4. OwnInv'
      BY <1>2, <1>3 DEF BestInv, OwnInv, ForeignStep
<1>5. ReleaseInv'
      BY <1>2, <1>3 DEF BestInv, OwnInv, ReleaseInv, ForeignStep
<1>6. CopyInv'
      BY DEF BestInv, CopyInv, Untroubled, ForeignStep
<1>7. \A m \in Machines :
          /\ Named(m)' = Named(m)
          /\ \A w \in Named(m) :
                /\ w \in Workloads /\ wlState'[w] = wlState[w]
                /\ (Live(w)' <=> Live(w)) /\ (Undeleted(w)' <=> Undeleted(w))
          /\ (WorksOn(m)' <=> WorksOn(m)) /\ (Untouched(m)' <=> Untouched(m))
      BY DEF ForeignStep, Named, Live, Undeleted, WorksOn, Untouched
<1>8. /\ \A m \in Machines : obj[m].providerID # None => obj[m].providerID \in Named(m)
      /\ rec # Idle /\ rec.new.providerID # None => rec.new.providerID \in Named(rec.m)
      BY <1>3, OwnIsNamed DEF BestInv, OwnInv
<1>9. SoleInv'
  <2>1. ASSUME NEW m \in Machines
        PROVE  /\ \A v, w \in Named(m)' : v = w
               /\ obj'[m].exists =>
                    \A w \in Named(m)' :
                        /\ obj'[m].finalizer
                        /\ \/ w = obj'[m].taskID
                           \/ WorksOn(m)' /\ rec'.at = "close" /\ w = rec'.new.taskID
               /\ ~obj'[m].exists => \A w \in Named(m)' : ~Live(w)'
               /\ Untouched(m)' =>
                    /\ \A w \in Named(m)' : Undeleted(w)'
                    /\ obj'[m].providerID # None
                         => wlState'[obj'[m].providerID] = "listed"
        BY <1>7, <1>8 DEF BestInv, SoleInv, ForeignStep
  <2>2. rec' # Idle =>
          /\ rec'.at = "create" => Named(rec.m)' = {}
          /\ rec'.old.taskID # None => rec'.new.taskID = rec'.old.taskID
          /\ rec'.old.providerID # None => rec'.new.providerID = rec'.old.providerID
          /\ ~rec'.old.deleting /\ rec'.new.providerID # None
                => wlState'[rec'.new.providerID] = "listed"
          /\ ~rec'.new.finalizer => \A w \in Named(rec.m)' : ~Live(w)'
        BY <1>3, <1>7, <1>8 DEF BestInv, SoleInv, ForeignStep
  <2>3. UNCHANGED rec
        BY DEF ForeignStep
  <2>4. QED
        BY <2>1, <2>2, <2>3 DEF SoleInv
<1>10. QED
      BY <1>1, <1>4, <1>5, <1>6, <1>9 DEF BestInv

\* A call creates a workload of the machine's own name, for a machine that is
\* not deleted, or deletes one, and leaves all others alone.
LEMMA CallsOnOwn ==
    ASSUME BestInv, Call \/ CallFails
    PROVE  \A w \in Workloads :
              \/ wlState'[w] = wlState[w] /\ wlName'[w] = wlName[w]
              \/ /\ rec.at = "create" /\ rec # Idle /\ rec.m \in Machines /\ ~rec.old.deleting
                 /\ wlName[w] = None /\ wlName'[w] = ApiName[rec.m]
              \/ /\ wlName'[w] = wlName[w]
                 /\ \E m \in Machines : wlName[w] = ApiName[m]
<1>1. CASE Create
  <2>1. PICK w \in Workloads : CreateWorkload(w, ApiName[rec.m])
        BY <1>1 DEF Create
  <2>2. /\ rec.at = "create" /\ rec # Idle /\ rec.m \in Machines /\ ~rec.old.deleting
        BY <1>1, WorkingCopy DEF Create, BestInv, CopyInv, Phases
  <2>3. wlName[w] = None
        BY <2>1 DEF CreateWorkload, BestInv, OwnInv
  <2>4. QED
        BY <2>1, <2>2, <2>3 DEF CreateWorkload, BestInv, TypeOK, CloudTypeOK
<1>2. CASE Delete
  <2>1. PICK w : w = rec.new.providerID
        OBVIOUS
  <2>2. w \in Named(rec.m) /\ rec.m \in Machines
        BY <1>2, <2>1, WorkingCopy DEF Delete, BestInv, CopyInv, Phases
  <2>3. UNCHANGED wlName /\ wlState' = [wlState EXCEPT ![w] = "deleting"]
        BY <1>2, <2>1 DEF Delete, DeleteWorkload
  <2>4. QED
        BY <2>2, <2>3 DEF Named, BestInv, TypeOK, CloudTypeOK
<1>3. CASE ~Create /\ ~Delete
  <2>1. UNCHANGED <<wlState, wlName>>
        BY <1>3 DEF Call, ReconcileWorkloadFound, ReconcileWorkloadNotFound, CreateRefused,
                    ReconcileWorkloadAskTask, ReconcileWorkloadTask, Instances,
                    SetNodeProviderID, CheckDeleted, DeleteTooLate, Close, Write,
                    CallFails, cloudVars
  <2>2. QED
        BY <2>1
<1>4. QED
      BY <1>1, <1>2, <1>3

\* A reconcile goes on with its machine, or ends.
LEMMA CallsGoOn ==
    ASSUME BestInv, Call \/ CallFails
    PROVE  /\ UNCHANGED <<bootstrap, infraReady>>
           /\ \/ rec' = Idle
              \/ /\ rec # Idle /\ rec.at # "close"
                 /\ rec'.m = rec.m /\ rec'.old = rec.old
<1>1. CASE Close
      BY <1>1 DEF Close, Write
<1>2. CASE CallFails
      BY <1>2 DEF CallFails, Continue, BestInv, TypeOK, Job, k8sVars
<1>3. CASE Call /\ ~Close
  <2>1. /\ UNCHANGED <<bootstrap, infraReady>> /\ rec.at \in Phases \ {"close"}
        /\ \E at, new : Continue(at, new)
        BY <1>3 DEF Call, ReconcileWorkloadFound, ReconcileWorkloadNotFound, CreateRefused,
                    ReconcileWorkloadAskTask, ReconcileWorkloadTask, Create, Delete, Bind,
                    Instances, SetNodeProviderID, CheckDeleted, DeleteTooLate, k8sVars,
                    Phases
  <2>2. rec \in Job /\ rec # Idle
        BY <2>1, InProgress DEF BestInv, TypeOK
  <2>3. QED
        BY <2>1, <2>2 DEF Continue, Job
<1>4. QED
      BY <1>1, <1>2, <1>3

\* One that looks for a workload, and is no deletion, has bootstrap data.
LEMMA StartsBooted ==
    ASSUME BestInv, StaleReads = FALSE, NEW m \in Machines, Start(m)
    PROVE  /\ UNCHANGED <<wlState, wlName, task, vm, bootstrap, infraReady, obj>>
           /\ rec'.m = m
           /\ ~rec'.old.deleting /\ rec'.at # "close" => bootstrap[m]
<1>1. Observed(m) = obj[m]
      BY DEF Observed
<1>2. QED
      BY <1>1 DEF Start, StartDelete, StartNormal, StartTooEarly, Begin, cloudVars, k8sVars

=============================================================================
