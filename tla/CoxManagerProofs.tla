--------------------------- MODULE CoxManagerProofs ---------------------------
(***************************************************************************)
(* Theorems about CoxManager, for any machines, workloads, names, faults   *)
(* and pauses, checked by TLAPS: the manager only restricts when the       *)
(* reconciles of CoxMachine start, and no wake-up is lost.                 *)
(***************************************************************************)
EXTENDS CoxManager, CoxMachineProofs

-----------------------------------------------------------------------------
(* Reconciles from the queue are reconciles of CoxMachine.                 *)

LEMMA ManagerStep == [ManagerNext]_managerVars => [Next]_vars
<1> SUFFICES ASSUME [ManagerNext]_managerVars
             PROVE  [Next]_vars
    OBVIOUS
<1>1. CASE Proceed \/ Finish \/ Restart
      BY <1>1 DEF Proceed, Finish, Restart, Next, Call
<1>2. CASE ClusterReady \/ CoxClusterToCoxMachines \/ Elsewhere
      BY <1>2 DEF ClusterReady, CoxClusterToCoxMachines, Elsewhere, Next
<1>3. CASE \E m \in Machines : Serve(m) \/ Notice(m) \/ MachineBootstrapped(m)
      BY <1>3 DEF Serve, Notice, MachineBootstrapped, Next
<1>4. CASE \E m \in Machines : Skip(m) \/ SetOwner(m) \/ TogglePause(m) \/ MachineChanges(m)
      BY <1>4 DEF Skip, SetOwner, TogglePause, MachineChanges
<1>5. CASE UNCHANGED managerVars
      BY <1>5 DEF managerVars
<1>6. QED
      BY <1>1, <1>2, <1>3, <1>4, <1>5 DEF ManagerNext

\* Whatever is shown of CoxMachine, where reconciles start at any time, holds
\* when they start from the queue of the controller only.
THEOREM ManagerImplements == ManagerSpec => Spec
<1>1. ManagerInit => Init
      BY DEF ManagerInit
<1>2. QED
      BY <1>1, ManagerStep, PTL DEF ManagerSpec, Spec

\* A key on the queue is of a CoxMachine, and the variables of the manager keep
\* their types as those of CoxMachine do.
THEOREM ManagerTypeCorrect == ManagerSpec => []ManagerTypeOK
<1> DEFINE QueueOK ==
              /\ queue \subseteq Machines
              /\ requeue \in BOOLEAN
              /\ owned \in [Machines -> BOOLEAN]
              /\ paused \in [Machines -> BOOLEAN]
              /\ pauses \in 0..MaxPauses
<1>1. ManagerInit => QueueOK
  <2>1. MaxPauses \in 0..MaxPauses
        BY ManagerAssumption
  <2>2. QED
        BY <2>1 DEF ManagerInit
<1>2. TypeOK /\ QueueOK /\ [ManagerNext]_managerVars => QueueOK'
  <2> SUFFICES ASSUME TypeOK, QueueOK, [ManagerNext]_managerVars
               PROVE  QueueOK'
      OBVIOUS
  <2>1. CASE Proceed
        BY <2>1 DEF Proceed, EmptyResult
  <2>2. CASE Finish
    <3>1. rec.m \in Machines
          BY <2>2, InProgress DEF Finish, Close, ClosePartly, Write, TypeOK, Phases
    <3>2. QED
          BY <2>2, <3>1 DEF Finish
  <2>3. CASE Restart
        BY <2>3 DEF Restart
  <2>4. CASE ClusterReady \/ CoxClusterToCoxMachines \/ Elsewhere
        BY <2>4 DEF ClusterReady, CoxClusterToCoxMachines, Elsewhere, queueVars
  <2>5. ASSUME NEW m \in Machines,
               Serve(m) \/ Skip(m) \/ Notice(m) \/ SetOwner(m) \/ TogglePause(m)
               \/ MachineBootstrapped(m) \/ MachineChanges(m)
        PROVE  QueueOK'
    <3>1. CASE Serve(m) \/ Skip(m)
          BY <3>1 DEF Serve, Skip, EmptyResult
    <3>2. CASE Notice(m) \/ MachineBootstrapped(m) \/ MachineChanges(m)
          BY <3>2 DEF Notice, MachineBootstrapped, MachineChanges
    <3>3. CASE SetOwner(m)
          BY <3>3 DEF SetOwner
    <3>4. CASE TogglePause(m)
          BY <3>4, ManagerAssumption DEF TogglePause
    <3>5. QED
          BY <2>5, <3>1, <3>2, <3>3, <3>4
  <2>6. CASE UNCHANGED managerVars
        BY <2>6 DEF managerVars, queueVars
  <2>7. QED
        BY <2>1, <2>2, <2>3, <2>4, <2>5, <2>6 DEF ManagerNext
<1>3. TypeOK /\ QueueOK => ManagerTypeOK
      BY DEF ManagerTypeOK
<1>4. ManagerSpec => []TypeOK
      BY ManagerImplements, TypeCorrect, PTL
<1> HIDE DEF QueueOK
<1>5. QED
      BY <1>1, <1>2, <1>3, <1>4, PTL DEF ManagerSpec

-----------------------------------------------------------------------------
(* The life of an object, and the informer's copy of it.                   *)

\* A patch neither creates an object nor takes a request for deletion back.
LEMMA PatchLife ==
    ASSUME NEW o \in Object, NEW parts
    PROVE  /\ Settled(Patched(o, parts)) \in {Patched(o, parts), Gone}
           /\ Settled(Patched(o, parts)).exists =>
                 /\ Settled(Patched(o, parts)) = Patched(o, parts)
                 /\ o.exists
           /\ Patched(o, parts).exists = o.exists
           /\ Patched(o, parts).deleting = o.deleting
BY DEF Settled, Patched, Object, Gone, Fresh

\* Objects only ever age, and the informer's copy follows them.
Ages ==
    \A m \in Machines :
        /\ obj'[m].exists => obj[m].exists
        /\ obj'[m].exists /\ obj[m].deleting => obj'[m].deleting
        /\ cache'[m] \in {cache[m], obj[m]}

LEMMA WriteAges ==
    ASSUME TypeOK, NEW parts, Write(parts)
    PROVE  Ages
<1>1. rec.m \in Machines
      BY InProgress DEF Write, Phases, TypeOK
<1>2. obj[rec.m] \in Object
      BY <1>1 DEF TypeOK
<1>3. /\ obj'[rec.m].exists => obj[rec.m].exists
      /\ obj'[rec.m].exists /\ obj[rec.m].deleting => obj'[rec.m].deleting
  <2>1. obj'[rec.m] = Settled(Patched(obj[rec.m], parts))
        BY <1>1 DEF Write, TypeOK
  <2>2. QED
        BY <1>2, <2>1, PatchLife
<1>4. \A m \in Machines \ {rec.m} : obj'[m] = obj[m]
      BY DEF Write, TypeOK
<1>5. QED
      BY <1>3, <1>4 DEF Ages, Write

LEMMA StepAges ==
    ASSUME TypeOK, [Next]_vars
    PROVE  Ages
<1>1. CASE UNCHANGED <<obj, cache>>
      BY <1>1 DEF Ages
<1>2. CASE Close \/ ClosePartly \/ Crash
      BY <1>1, <1>2, WriteAges DEF Close, ClosePartly, Crash, k8sVars
<1>3. ASSUME NEW m \in Machines, RequestDeletion(m)
      PROVE  Ages
  <2>1. \A n \in Machines \ {m} : obj'[n] = obj[n]
        BY <1>3 DEF RequestDeletion, TypeOK
  <2>2. obj[m].exists /\ ~obj[m].deleting
        BY <1>3 DEF RequestDeletion
  <2>3. QED
        BY <1>3, <2>1, <2>2 DEF Ages, RequestDeletion
<1>4. ASSUME NEW m \in Machines, CacheSync(m)
      PROVE  Ages
      BY <1>4 DEF Ages, CacheSync, TypeOK
<1>5. CASE Call \/ CallFails
      BY <1>1, <1>2, <1>5
      DEF Call, ReconcileWorkloadFound, ReconcileWorkloadNotFound, CreateRefused,
          ReconcileWorkloadAskTask, ReconcileWorkloadTask, Instances, Create, Delete,
          SetNodeProviderID, CheckDeleted, DeleteTooLate, CallFails, k8sVars
<1>6. CASE InfrastructureReady \/ \E m \in Machines : Start(m) \/ BootstrapReady(m)
      BY <1>1, <1>6 DEF InfrastructureReady, BootstrapReady, Start, StartDelete,
                        StartNormal, StartTooEarly, Begin, k8sVars
<1>7. CASE \E w \in Workloads :
               NodeJoins(w) \/ CliDelete(w) \/ CloudStep(w) \/ CloudFault(w)
      BY <1>1, <1>7 DEF NodeJoins, CliDelete, CloudStep, CloudFault, k8sVars
<1>8. CASE UNCHANGED vars
      BY <1>1, <1>8 DEF vars
<1>9. QED
      BY <1>2, <1>3, <1>4, <1>5, <1>6, <1>7, <1>8 DEF Next

LEMMA BehindKept ==
    ASSUME CacheBehind, Ages
    PROVE  CacheBehind'
BY DEF CacheBehind, Ages

-----------------------------------------------------------------------------
(* The worker.                                                             *)

\* A reconcile that starts rests only if it is too early for a workload.
LEMMA WakeServe ==
    ASSUME TypeOK, CacheBehind, Asleep, NEW m \in Machines, Serve(m)
    PROVE  Asleep' /\ AtWork'
<1>1. /\ rec = Idle /\ Start(m) /\ queue' = queue \ {m}
      /\ UNCHANGED <<obj, cache, infraReady, bootstrap, owned, paused>>
      BY DEF Serve, Start, StartDelete, StartNormal, StartTooEarly, Begin, k8sVars
<1>2. Observed(m) = cache[m] /\ cache[m] \in Object
      BY ManagerAssumption DEF Observed, TypeOK
<1>3. PICK at, new :
         /\ at \in {"list", "close"}
         /\ Begin(m, at, new)
         /\ cache[m].deleting => new = cache[m] /\ at = "list"
         /\ at = "close" => TooEarly(m)
      BY <1>1, <1>2 DEF Start, StartDelete, StartNormal, StartTooEarly, TooEarly
<1>4. /\ rec' = [at |-> at, m |-> m, old |-> cache[m], new |-> new]
      /\ rec' # Idle
      BY <1>2, <1>3 DEF Begin, Idle
<1>5. rec'.m = m /\ rec'.old = cache[m] /\ rec'.new = new /\ rec'.at = at
      BY <1>4
<1>6. requeue' = (at # "close")
      BY <1>1, <1>5 DEF Serve, EmptyResult
<1>7. Asleep'
      BY <1>1, <1>4, <1>5 DEF Asleep, Unwoken, WorksOn, TooEarly
<1>8. ASSUME at = "close"
      PROVE  MayRest(m)'
      BY <1>1, <1>3, <1>5, <1>8 DEF MayRest, TooEarly
<1>9. AtWork'
  <2>1. cache[m].deleting /\ obj[m].exists => obj[m].deleting
        BY DEF CacheBehind
  <2>2. rec'.m = m /\ obj' = obj
        BY <1>1, <1>5
  <2>3. Unwoken(m)' /\ ~requeue' => MayRest(m)'
        BY <1>6, <1>8, <1>3
  <2>4. Unwoken(rec.m)' /\ ~requeue' => MayRest(rec.m)'
        BY <2>2, <2>3 DEF Unwoken, MayRest, TooEarly
  <2>5. QED
        BY <1>3, <1>5, <1>6, <2>1, <2>2, <2>4 DEF AtWork
<1>10. QED
      BY <1>7, <1>9

\* Nothing refers to a workload that is not there yet.
LEMMA NewTask ==
    ASSUME OwnInv, NEW w \in Workloads, wlState[w] = "unborn",
           NEW m \in Machines, NEW o, Own(wlName, m, o)
    PROVE  o.taskID # w
<1>1. wlName[w] = None
      BY DEF OwnInv
<1>2. ApiName[m] # None /\ w # None
      BY NoneAssumption, MachineAssumption
<1>3. QED
      BY <1>1, <1>2 DEF Own

\* A call writes a new task, takes the finalizer off or neither.
LEMMA CallEdits ==
    ASSUME TypeOK, OwnInv, AtWork, rec.at # "close", Call \/ CallFails
    PROVE  /\ rec # Idle /\ rec' # Idle
           /\ rec'.m = rec.m /\ rec'.old = rec.old
           /\ UNCHANGED <<obj, cache, infraReady, bootstrap>>
           /\ rec'.at \in {"get", "delete"} => rec.old.deleting
           /\ \/ rec'.new.taskID = rec.new.taskID
              \/ /\ rec.at = "create" /\ rec'.new.taskID \in Workloads
                 /\ wlState[rec'.new.taskID] = "unborn"
           /\ \/ rec'.new.finalizer = rec.new.finalizer
              \/ rec.old.deleting /\ rec'.new.finalizer = FALSE /\ rec'.at = "close"
<1>1. rec.at \in Phases /\ rec # Idle
  <2>1. CASE CallFails
        BY <2>1 DEF CallFails, TypeOK, Job
  <2>2. CASE Call
    <3>1. rec.at \in Phases
          BY <2>2 DEF Call, Phases, ReconcileWorkloadFound, ReconcileWorkloadNotFound,
               CreateRefused, ReconcileWorkloadAskTask, ReconcileWorkloadTask, Instances,
               SetNodeProviderID, CheckDeleted, DeleteTooLate, Create, Delete, Close, Write
    <3>2. QED
          BY <3>1, InProgress DEF TypeOK
  <2>3. QED
        BY <2>1, <2>2
<1>2. /\ rec \in Job /\ rec.new \in Object
      BY <1>1, InProgress DEF TypeOK
<1>3. UNCHANGED <<obj, cache, infraReady, bootstrap>>
      BY DEF Call, ReconcileWorkloadFound, ReconcileWorkloadNotFound, CreateRefused,
          ReconcileWorkloadAskTask, ReconcileWorkloadTask, Instances, Create, Delete,
          SetNodeProviderID, CheckDeleted, DeleteTooLate, Close, Write, CallFails, k8sVars
<1>4. ASSUME NEW at, NEW new, Continue(at, new)
      PROVE  /\ rec' # Idle /\ rec'.m = rec.m /\ rec'.old = rec.old
             /\ rec'.at = at /\ rec'.new = new
      BY <1>2, <1>4 DEF Continue, Job, Idle
<1>5. /\ Failed(rec.new).taskID = rec.new.taskID
      /\ Failed(rec.new).finalizer = rec.new.finalizer
      BY <1>2 DEF Failed, Object
<1> DEFINE Quiet(at, new) ==
              /\ at \in {"get", "delete"} => rec.old.deleting
              /\ \/ new.taskID = rec.new.taskID
                 \/ rec.at = "create" /\ new.taskID \in Workloads
                      /\ wlState[new.taskID] = "unborn"
              /\ \/ new.finalizer = rec.new.finalizer
                 \/ rec.old.deleting /\ new.finalizer = FALSE /\ at = "close"
<1>6. \E at, new : Continue(at, new) /\ Quiet(at, new)
  <2>1. ASSUME NEW w, Bind(w)
        PROVE  \E at, new : Continue(at, new) /\ Quiet(at, new)
    <3> DEFINE at == IF Deleting THEN "get" ELSE "instances"
               new == [rec.new EXCEPT !.providerID = w]
    <3>1. Continue(at, new)
          BY <2>1 DEF Bind
    <3>2. new.taskID = rec.new.taskID /\ new.finalizer = rec.new.finalizer
          BY <1>2 DEF Object
    <3>3. at \in {"get", "delete"} => rec.old.deleting
          BY DEF Deleting
    <3>4. Quiet(at, new)
          BY <3>2, <3>3
    <3>5. QED
          BY <3>1, <3>4
  <2>2. CASE ReconcileWorkloadFound \/ ReconcileWorkloadTask
    <3>1. \/ \E w : Bind(w)
          \/ Continue("close", Failed(rec.new))
          \/ Continue("close", rec.new)
          BY <2>2 DEF ReconcileWorkloadFound, ReconcileWorkloadTask
    <3>2. Quiet("close", Failed(rec.new)) /\ Quiet("close", rec.new)
          BY <1>5
    <3>3. QED
          BY <2>1, <3>1, <3>2
  <2>3. CASE ReconcileWorkloadNotFound \/ ReconcileWorkloadAskTask
        BY <2>3, <1>2 DEF ReconcileWorkloadNotFound, ReconcileWorkloadAskTask, Deleting, Object
  <2>4. CASE Create
    <3>1. PICK w \in Workloads :
             /\ wlState[w] = "unborn"
             /\ \/ Continue("close", [rec.new EXCEPT !.taskID = w])
                \/ Continue("close", Failed(rec.new))
          BY <2>4 DEF Create, CreateWorkload
    <3>2. /\ [rec.new EXCEPT !.taskID = w].taskID = w
          /\ [rec.new EXCEPT !.taskID = w].finalizer = rec.new.finalizer
          /\ rec.at = "create"
          BY <2>4, <1>2 DEF Object, Create
    <3>3. QED
          BY <3>1, <3>2, <1>5
  <2>5. CASE CreateRefused \/ CallFails \/ DeleteTooLate
        BY <2>5, <1>5 DEF CreateRefused, CallFails, DeleteTooLate
  <2>6. CASE Instances \/ SetNodeProviderID
    <3> DEFINE found == [rec.new EXCEPT !.addr = rec.new.providerID, !.cond = "True"]
               ready == [rec.new EXCEPT !.ready = TRUE]
    <3>1. \/ Continue("node", found) \/ Continue("close", ready)
          \/ Continue("close", rec.new) \/ Continue("close", Failed(rec.new))
          BY <2>6 DEF Instances, SetNodeProviderID
    <3>2. Quiet("node", found) /\ Quiet("close", ready)
          BY <1>2 DEF Object
    <3>3. Quiet("close", Failed(rec.new)) /\ Quiet("close", rec.new)
          BY <1>5
    <3>4. QED
          BY <3>1, <3>2, <3>3
  <2>7. CASE CheckDeleted \/ Delete
    <3>1. rec.old.deleting
          BY <2>7, <1>1 DEF CheckDeleted, Delete, AtWork
    <3>2. /\ [rec.new EXCEPT !.finalizer = FALSE].taskID = rec.new.taskID
          /\ [rec.new EXCEPT !.finalizer = FALSE].finalizer = FALSE
          BY <1>2 DEF Object
    <3>3. QED
          BY <2>7, <3>1, <3>2 DEF CheckDeleted, Delete
  <2>8. QED
        BY <2>2, <2>3, <2>4, <2>5, <2>6, <2>7 DEF Call, Close, Write
<1>7. QED
      BY <1>1, <1>3, <1>4, <1>6

\* A reconcile that goes on asks for its key unless it has just created the
\* workload or taken the finalizer off.
LEMMA WakeProceed ==
    ASSUME TypeOK, OwnInv, Asleep, AtWork, Proceed
    PROVE  Asleep' /\ AtWork'
<1>1. /\ rec.at # "close"
      /\ UNCHANGED <<queue, owned, paused>>
      /\ requeue' = ~EmptyResult
      BY DEF Proceed
<1>2. /\ rec # Idle /\ rec' # Idle
      /\ rec'.m = rec.m /\ rec'.old = rec.old
      /\ UNCHANGED <<obj, cache, infraReady, bootstrap>>
      /\ rec'.at \in {"get", "delete"} => rec.old.deleting
      /\ \/ rec'.new.taskID = rec.new.taskID
         \/ /\ rec.at = "create" /\ rec'.new.taskID \in Workloads
            /\ wlState[rec'.new.taskID] = "unborn"
      /\ \/ rec'.new.finalizer = rec.new.finalizer
         \/ rec.old.deleting /\ rec'.new.finalizer = FALSE /\ rec'.at = "close"
      BY <1>1, CallEdits DEF Proceed
<1>3. rec.m \in Machines /\ rec.old \in Object /\ rec.new \in Object /\ rec \in Job
      BY <1>2 DEF TypeOK, Job
<1>4. Asleep'
      BY <1>1, <1>2 DEF Asleep, Unwoken, WorksOn, TooEarly
<1>5. ASSUME ~requeue'
      PROVE  MayRest(rec.m)'
  <2>1. \/ rec'.new.taskID # rec.new.taskID
        \/ rec'.new.finalizer # rec.new.finalizer
        BY <1>1, <1>2, <1>5 DEF EmptyResult
  <2>2. CASE rec'.new.taskID # rec.new.taskID
    <3>1. /\ rec.old.taskID # rec'.new.taskID
          /\ obj[rec.m].taskID # rec'.new.taskID
          /\ cache[rec.m].taskID # rec'.new.taskID
          BY <1>2, <1>3, <2>2, NewTask DEF OwnInv
    <3>2. QED
          BY <1>2, <3>1 DEF MayRest
  <2>3. CASE rec'.new.finalizer # rec.new.finalizer
    <3>1. rec.old.deleting /\ rec'.new.finalizer = FALSE
          BY <1>2, <2>3
    <3>2. rec.new.finalizer = rec.old.finalizer
          BY <1>1, <1>2, <3>1 DEF AtWork
    <3>3. rec.new.finalizer
          BY <1>3, <2>3, <3>1, <1>2 DEF Object
    <3>4. QED
          BY <1>2, <3>1, <3>2, <3>3 DEF MayRest
  <2>4. QED
        BY <2>1, <2>2, <2>3
<1>6. rec'.at # "close" => requeue'
      BY <1>1 DEF EmptyResult
<1>7. rec.old.deleting /\ rec'.at # "close" => rec'.new.finalizer = rec.old.finalizer
      BY <1>1, <1>2 DEF AtWork
<1>8. QED
      BY <1>1, <1>2, <1>4, <1>5, <1>6, <1>7 DEF AtWork

\* The patch that ends a reconcile puts its key back, or is an event that will
\* wake it, or ends the object, or leaves nothing to do.
LEMMA WakeFinish ==
    ASSUME TypeOK, CacheBehind, Asleep, AtWork, Finish
    PROVE  Asleep' /\ AtWork'
<1>1. /\ rec # Idle /\ rec' = Idle /\ rec \in Job /\ rec.m \in Machines
      /\ rec.old \in Object /\ rec.new \in Object
  <2>1. rec.at = "close" /\ rec' = Idle
        BY DEF Finish, Close, ClosePartly, Write
  <2>2. QED
        BY <2>1, InProgress DEF Phases, TypeOK
<1>2. PICK parts : Write(parts)
      BY DEF Finish, Close, ClosePartly
<1>3. /\ UNCHANGED <<cache, infraReady, bootstrap, owned, paused>>
      /\ obj' = [obj EXCEPT ![rec.m] = Settled(Patched(@, parts))]
      BY <1>2 DEF Write, Finish
<1>4. queue \subseteq queue'
      BY DEF Finish
<1>5. ASSUME NEW m \in Machines, m # rec.m,
             Unwoken(m)', cache'[m] = obj'[m]
      PROVE  ~obj'[m].deleting /\ TooEarly(m)'
  <2>1. obj'[m] = obj[m]
        BY <1>3, <1>5
  <2>2. Unwoken(m) /\ ~WorksOn(m) /\ cache[m] = obj[m]
        BY <1>3, <1>4, <1>5, <2>1 DEF Unwoken, WorksOn
  <2>3. QED
        BY <1>3, <1>5, <2>1, <2>2 DEF Asleep, TooEarly
<1>6. ASSUME Unwoken(rec.m), rec.m \notin queue', obj'[rec.m].exists,
             cache'[rec.m] = obj'[rec.m]
      PROVE  ~obj'[rec.m].deleting /\ ~(infraReady /\ bootstrap[rec.m])
  <2> DEFINE o == obj[rec.m]
  <2>1. Close /\ ~requeue
        BY <1>6 DEF Finish
  <2>2. obj'[rec.m] = Settled(Patched(o, Parts)) /\ o \in Object
        BY <2>1, <1>1 DEF Close, Write, TypeOK
  <2>3. /\ obj'[rec.m] = Patched(o, Parts)
        /\ obj'[rec.m] # Gone
        /\ obj'[rec.m].deleting = o.deleting /\ o.exists
        BY <1>6, <2>2, PatchLife DEF Gone, Fresh
  <2>4. MayRest(rec.m)
        BY <1>1, <1>6, <2>1 DEF AtWork
  <2>5. CASE ~rec.old.deleting /\ ~cache[rec.m].deleting /\ TooEarly(rec.m)
        BY <1>3, <1>6, <2>5 DEF TooEarly
  <2>6. CASE rec.new.taskID \notin {rec.old.taskID, o.taskID, cache[rec.m].taskID}
    <3>1. Patched(o, Parts).taskID = rec.new.taskID
          BY <2>2, <2>6 DEF Patched, Object, Parts
    <3>2. cache[rec.m].taskID = rec.new.taskID
          BY <1>3, <1>6, <2>3, <3>1
    <3>3. QED
          BY <2>6, <3>2
  <2>7. CASE rec.old.deleting /\ rec.old.finalizer /\ ~rec.new.finalizer
    <3>1. ~Patched(o, Parts).finalizer
          BY <1>1, <2>2, <2>7 DEF Patched, Object, Parts
    <3>2. o.deleting
          BY <1>1, <2>3, <2>7 DEF AtWork
    <3>3. Patched(o, Parts).deleting
          BY <2>2, <3>2, PatchLife
    <3>4. QED
          BY <2>2, <2>3, <3>1, <3>3 DEF Settled
  <2>8. QED
        BY <2>4, <2>5, <2>6, <2>7 DEF MayRest
<1>7. ASSUME NEW m \in Machines, m = rec.m,
             Unwoken(m)', cache'[m] = obj'[m]
      PROVE  ~obj'[m].deleting /\ TooEarly(m)'
  <2>1. obj'[m].exists /\ owned[m] /\ ~paused[m] /\ m \notin queue'
        BY <1>3, <1>7 DEF Unwoken
  <2>2. obj[m].exists
        BY <1>2, <1>7, <2>1, WriteAges DEF Ages
  <2>3. Unwoken(rec.m)
        BY <1>4, <1>7, <2>1, <2>2 DEF Unwoken
  <2>4. ~obj'[rec.m].deleting /\ ~(infraReady /\ bootstrap[rec.m])
        BY <1>6, <1>7, <2>1, <2>3
  <2>5. QED
        BY <1>3, <1>7, <2>4 DEF TooEarly
<1>8. Asleep'
      BY <1>5, <1>7 DEF Asleep
<1>9. QED
      BY <1>1, <1>8 DEF AtWork

\* A new process has every key on its queue.
LEMMA WakeRestart ==
    ASSUME Restart
    PROVE  Asleep' /\ AtWork'
BY DEF Restart, Crash, Write, Asleep, AtWork, Unwoken

-----------------------------------------------------------------------------
(* The others.                                                             *)

\* Steps that leave the objects and the reconcile alone, and put on the queue
\* every machine that they concern.
LEMMA WakeFrame ==
    ASSUME Asleep, AtWork, UNCHANGED <<obj, cache, rec, requeue>>,
           queue \subseteq queue',
           \A m \in Machines :
              Unwoken(m)' => /\ owned'[m] = owned[m] /\ paused'[m] = paused[m]
                             /\ infraReady' = infraReady /\ bootstrap'[m] = bootstrap[m],
           rec # Idle => rec.m \in Machines
    PROVE  Asleep' /\ AtWork'
<1>1. ASSUME NEW m \in Machines, Unwoken(m)'
      PROVE  Unwoken(m) /\ (TooEarly(m) => TooEarly(m)')
      BY <1>1 DEF Unwoken, TooEarly
<1>2. Asleep'
      BY <1>1 DEF Asleep, WorksOn
<1>3. ASSUME rec # Idle, Unwoken(rec.m)', ~requeue
      PROVE  MayRest(rec.m)'
  <2>1. Unwoken(rec.m) /\ (TooEarly(rec.m) => TooEarly(rec.m)')
        BY <1>3, <1>1
  <2>2. MayRest(rec.m)
        BY <1>3, <2>1 DEF AtWork
  <2>3. QED
        BY <2>1, <2>2 DEF MayRest
<1>4. QED
      BY <1>2, <1>3 DEF AtWork

\* An event of the watches that add keys, or one that brings none and changes
\* nothing that a sleeper waits for.
LEMMA WakeWatches ==
    ASSUME ManagerTypeOK, CacheBehind, Asleep, AtWork,
           \/ ClusterReady \/ CoxClusterToCoxMachines
           \/ \E m \in Machines :
                 \/ Skip(m) \/ SetOwner(m) \/ TogglePause(m)
                 \/ MachineBootstrapped(m) \/ MachineChanges(m)
           \/ /\ UNCHANGED queueVars
              /\ \E w \in Workloads :
                    NodeJoins(w) \/ CliDelete(w) \/ CloudStep(w) \/ CloudFault(w)
    PROVE  Asleep' /\ AtWork'
<1>1. rec # Idle => rec.m \in Machines
      BY DEF ManagerTypeOK, TypeOK, Job
<1>2. CASE ClusterReady
  <2>1. UNCHANGED <<obj, cache, rec, requeue, owned, paused>> /\ queue \subseteq queue'
        BY <1>2 DEF ClusterReady, InfrastructureReady
  <2>2. \A m \in Machines : ~Unwoken(m)'
        BY <1>2, <2>1 DEF ClusterReady, CacheBehind, Unwoken
  <2>3. QED
        BY <1>1, <2>1, <2>2, WakeFrame
<1>3. CASE CoxClusterToCoxMachines
  <2>1. UNCHANGED <<obj, cache, rec, requeue>> /\ queue \subseteq queue'
        BY <1>3 DEF CoxClusterToCoxMachines, vars, ManagerTypeOK
  <2>2. \A m \in Machines : ~Unwoken(m)'
        BY <1>3 DEF CoxClusterToCoxMachines, Unwoken
  <2>3. QED
        BY <1>1, <2>1, <2>2, WakeFrame
<1>4. ASSUME NEW m \in Machines, Skip(m)
      PROVE  Asleep' /\ AtWork'
  <2>1. /\ UNCHANGED <<obj, cache, rec, infraReady, bootstrap, requeue, owned, paused>>
        /\ queue' = queue \ {m} /\ rec = Idle
        BY <1>4 DEF Skip, vars
  <2>2. ~(owned[m] /\ cache[m].exists)
        BY <1>4, ManagerAssumption DEF Skip, Observed
  <2>3. ~Unwoken(m)'
        BY <2>1, <2>2 DEF CacheBehind, Unwoken
  <2>4. ASSUME NEW n \in Machines, Unwoken(n)', cache[n] = obj[n]
        PROVE  ~obj[n].deleting /\ TooEarly(n)
    <3>1. Unwoken(n) /\ ~WorksOn(n)
          BY <2>1, <2>3, <2>4 DEF Unwoken, WorksOn
    <3>2. QED
          BY <2>4, <3>1 DEF Asleep
  <2>5. QED
        BY <2>1, <2>4 DEF Asleep, AtWork, TooEarly
<1>5. ASSUME NEW m \in Machines, SetOwner(m) \/ TogglePause(m)
      PROVE  Asleep' /\ AtWork'
  <2>1. UNCHANGED <<obj, cache, rec, infraReady, bootstrap, requeue>> /\ queue \subseteq queue'
        BY <1>5 DEF SetOwner, TogglePause, vars
  <2>2. \A n \in Machines \ {m} : owned'[n] = owned[n] /\ paused'[n] = paused[n]
        BY <1>5 DEF SetOwner, TogglePause, ManagerTypeOK
  <2>3. ~Unwoken(m)'
    <3>1. CASE SetOwner(m)
          BY <3>1 DEF SetOwner, Unwoken
    <3>2. CASE TogglePause(m)
      <4>1. paused'[m] = ~paused[m]
            BY <3>2 DEF TogglePause, ManagerTypeOK
      <4>2. QED
            BY <3>2, <4>1 DEF TogglePause, Unwoken
    <3>3. QED
          BY <1>5, <3>1, <3>2
  <2>4. QED
        BY <1>1, <2>1, <2>2, <2>3, WakeFrame
<1>6. ASSUME NEW m \in Machines, MachineBootstrapped(m) \/ MachineChanges(m)
      PROVE  Asleep' /\ AtWork'
  <2>1. /\ UNCHANGED <<obj, cache, rec, infraReady, requeue, owned, paused>>
        /\ queue' = queue \cup {m}
        BY <1>6 DEF MachineBootstrapped, MachineChanges, BootstrapReady, vars
  <2>2. \A n \in Machines \ {m} : bootstrap'[n] = bootstrap[n]
        BY <1>6 DEF MachineBootstrapped, MachineChanges, BootstrapReady, vars,
                    ManagerTypeOK, TypeOK
  <2>3. ~Unwoken(m)'
        BY <2>1 DEF Unwoken
  <2>4. QED
        BY <1>1, <2>1, <2>2, <2>3, WakeFrame
<1>7. ASSUME NEW w \in Workloads, UNCHANGED queueVars,
             NodeJoins(w) \/ CliDelete(w) \/ CloudStep(w) \/ CloudFault(w)
      PROVE  Asleep' /\ AtWork'
  <2>1. UNCHANGED <<obj, cache, rec, infraReady, bootstrap>>
        BY <1>7 DEF NodeJoins, CliDelete, CloudStep, CloudFault, k8sVars
  <2>2. UNCHANGED <<queue, requeue, owned, paused>>
        BY <1>7 DEF queueVars
  <2>3. QED
        BY <1>1, <2>1, <2>2, WakeFrame
<1>8. QED
      BY <1>2, <1>3, <1>4, <1>5, <1>6, <1>7

\* The informer catches up: that is the event, unless the object is paused.
LEMMA WakeNotice ==
    ASSUME ManagerTypeOK, Asleep, AtWork, NEW m \in Machines, Notice(m)
    PROVE  Asleep' /\ AtWork'
<1>1. /\ UNCHANGED <<obj, rec, infraReady, bootstrap, requeue, owned, paused>>
      /\ queue \subseteq queue'
      BY DEF Notice, CacheSync
<1>2. \A n \in Machines \ {m} : cache'[n] = cache[n]
      BY DEF Notice, CacheSync, ManagerTypeOK, TypeOK
<1>3. ~Unwoken(m)'
      BY <1>1 DEF Notice, Unwoken
<1>4. ASSUME NEW n \in Machines, Unwoken(n)'
      PROVE  n # m /\ cache'[n] = cache[n] /\ Unwoken(n)
      BY <1>1, <1>2, <1>3, <1>4 DEF Unwoken
<1>5. Asleep'
      BY <1>1, <1>4 DEF Asleep, WorksOn, TooEarly
<1>6. ASSUME rec # Idle, Unwoken(rec.m)', ~requeue
      PROVE  MayRest(rec.m)'
  <2>1. rec.m \in Machines
        BY <1>6 DEF ManagerTypeOK, TypeOK, Job
  <2>2. cache'[rec.m] = cache[rec.m] /\ Unwoken(rec.m)
    <3>1. PICK n \in Machines : n = rec.m
          BY <2>1
    <3>2. Unwoken(n)'
          BY <1>1, <1>6, <3>1 DEF Unwoken
    <3>3. QED
          BY <1>4, <3>1, <3>2
  <2>3. MayRest(rec.m)
        BY <1>6, <2>2 DEF AtWork
  <2>4. QED
        BY <1>1, <2>2, <2>3 DEF MayRest, TooEarly
<1>7. QED
      BY <1>1, <1>5, <1>6 DEF AtWork

\* A request for deletion is a change that the informer has yet to see.
LEMMA WakeDeletion ==
    ASSUME ManagerTypeOK, CacheBehind, Asleep, AtWork, UNCHANGED queueVars,
           NEW m \in Machines, RequestDeletion(m)
    PROVE  Asleep' /\ AtWork'
<1>1. /\ UNCHANGED <<cache, rec, infraReady, bootstrap, queue, requeue, owned, paused>>
      /\ obj[m].exists /\ ~obj[m].deleting /\ obj[m] \in Object
      /\ obj' = [obj EXCEPT ![m] = Settled([@ EXCEPT !.deleting = TRUE])]
      BY DEF RequestDeletion, queueVars, ManagerTypeOK, TypeOK
<1>2. \A n \in Machines \ {m} : obj'[n] = obj[n]
      BY <1>1
<1>3. obj'[m] = Settled([obj[m] EXCEPT !.deleting = TRUE])
      BY <1>1 DEF ManagerTypeOK, TypeOK
<1>4. obj'[m].exists => obj'[m].deleting /\ obj'[m].taskID = obj[m].taskID
      BY <1>1, <1>3 DEF Settled, Object, Gone, Fresh
<1>5. ~cache[m].deleting
      BY <1>1 DEF CacheBehind
<1>6. ASSUME NEW n \in Machines, Unwoken(n)', cache[n] = obj'[n]
      PROVE  Unwoken(n) /\ obj'[n] = obj[n]
  <2>1. n # m
        BY <1>4, <1>5, <1>6 DEF Unwoken
  <2>2. QED
        BY <1>1, <1>2, <1>6, <2>1 DEF Unwoken
<1>7. Asleep'
      BY <1>1, <1>6 DEF Asleep, WorksOn, TooEarly
<1>8. ASSUME rec # Idle
      PROVE  /\ rec.old.deleting /\ obj'[rec.m].exists => obj'[rec.m].deleting
             /\ Unwoken(rec.m)' => Unwoken(rec.m) /\ obj'[rec.m].taskID = obj[rec.m].taskID
  <2>1. rec.m \in Machines
        BY <1>8 DEF ManagerTypeOK, TypeOK, Job
  <2>2. CASE rec.m = m
        BY <1>1, <1>4, <2>2 DEF Unwoken
  <2>3. CASE rec.m # m
        BY <1>1, <1>2, <1>8, <2>1, <2>3 DEF Unwoken, AtWork
  <2>4. QED
        BY <2>2, <2>3
<1>9. ASSUME rec # Idle, Unwoken(rec.m)', ~requeue
      PROVE  MayRest(rec.m)'
  <2>1. MayRest(rec.m) /\ obj'[rec.m].taskID = obj[rec.m].taskID
        BY <1>8, <1>9 DEF AtWork
  <2>2. QED
        BY <1>1, <2>1 DEF MayRest, TooEarly
<1>10. AtWork'
      BY <1>1, <1>8, <1>9 DEF AtWork
<1>11. QED
      BY <1>7, <1>10

-----------------------------------------------------------------------------

\* The inductive invariant: a CoxMachine sleeps only while there is nothing to
\* do for it, and a result that asks for nothing leaves an event behind.
THEOREM WakeCorrect == ManagerSpec => []WakeInv
<1>1. ManagerInit => WakeInv
  <2> SUFFICES ASSUME ManagerInit
               PROVE  WakeInv
      OBVIOUS
  <2>1. CacheBehind
        BY DEF ManagerInit, Init, CacheBehind, Fresh
  <2>2. Asleep /\ AtWork
        BY DEF ManagerInit, Init, Asleep, Unwoken, AtWork
  <2>3. QED
        BY <2>1, <2>2 DEF WakeInv
<1>2. ManagerTypeOK /\ OwnInv /\ WakeInv /\ [ManagerNext]_managerVars => WakeInv'
  <2> SUFFICES ASSUME ManagerTypeOK, OwnInv, WakeInv, [ManagerNext]_managerVars
               PROVE  WakeInv'
      OBVIOUS
  <2>1. TypeOK /\ CacheBehind /\ Asleep /\ AtWork
        BY DEF ManagerTypeOK, WakeInv
  <2>2. CacheBehind'
        BY <2>1, ManagerStep, StepAges, BehindKept
  <2>3. CASE Proceed \/ Finish \/ Restart
        BY <2>1, <2>2, <2>3, WakeProceed, WakeFinish, WakeRestart DEF WakeInv
  <2>4. CASE Elsewhere
        BY <2>1, <2>2, <2>4, WakeDeletion, WakeWatches DEF WakeInv, Elsewhere
  <2>5. CASE ClusterReady \/ CoxClusterToCoxMachines
        BY <2>1, <2>2, <2>5, WakeWatches DEF WakeInv
  <2>6. CASE \E m \in Machines : Serve(m) \/ Notice(m)
        BY <2>1, <2>2, <2>6, WakeServe, WakeNotice DEF WakeInv
  <2>7. CASE \E m \in Machines :
                Skip(m) \/ SetOwner(m) \/ TogglePause(m)
                \/ MachineBootstrapped(m) \/ MachineChanges(m)
        BY <2>1, <2>2, <2>7, WakeWatches DEF WakeInv
  <2>8. CASE UNCHANGED managerVars
        BY <2>1, <2>2, <2>8
        DEF WakeInv, Asleep, AtWork, Unwoken, WorksOn, TooEarly, MayRest,
            managerVars, queueVars, vars
  <2>9. QED
        BY <2>3, <2>4, <2>5, <2>6, <2>7, <2>8 DEF ManagerNext
<1>3. ManagerSpec => []OwnInv
      BY ManagerImplements, OwnCorrect, PTL
<1>4. QED
      BY <1>1, <1>2, <1>3, ManagerTypeCorrect, PTL DEF ManagerSpec

\* No result of Reconcile that asks for nothing and no event that the filter
\* drops leaves a CoxMachine asleep while there is something to do for it, in
\* spite of stale reads, faults of every kind, crashes and pauses.
THEOREM NoLostWakeupCorrect == ManagerSpec => []NoLostWakeup
<1>1. WakeInv => NoLostWakeup
      BY DEF WakeInv, Asleep, NoLostWakeup, Pending, Unwoken, TooEarly
<1>2. QED
      BY <1>1, WakeCorrect, PTL

=============================================================================
