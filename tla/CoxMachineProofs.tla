-------------------------- MODULE CoxMachineProofs --------------------------
(***************************************************************************)
(* Theorems about CoxMachine, for any machines, workloads, names and       *)
(* faults: the types, whose workload a machine refers to, readiness with   *)
(* all that belongs to it (while no part of a patch is lost), and release  *)
(* only once the workload is being deleted (while the list of workloads    *)
(* does not lag behind the tasks).                                         *)
(***************************************************************************)
EXTENDS CoxMachine, TLAPS

\* A reconcile that is in progress works for a machine, on two objects.
LEMMA InProgress ==
    ASSUME rec \in Job \cup {Idle}, rec.at \in Phases
    PROVE  /\ rec \in Job /\ rec # Idle
           /\ rec.m \in Machines /\ rec.old \in Object /\ rec.new \in Object
<1>1. "idle" \notin Phases
      BY DEF Phases
<1>2. Idle.at = "idle"
      BY DEF Idle
<1>3. rec # Idle
      BY <1>1, <1>2
<1>4. rec \in Job
      BY <1>3
<1>5. QED
      BY <1>3, <1>4 DEF Job

\* A reconcile may go on with any copy of the object.
LEMMA ContinueType ==
    ASSUME rec \in Job, NEW at \in Phases, NEW new \in Object, Continue(at, new)
    PROVE  rec' \in Job \cup {Idle}
BY DEF Continue, Job

\* What a reconcile writes into its copy of the object.
LEMMA ObjectEdits ==
    ASSUME NEW o \in Object
    PROVE  /\ \A w \in Ref :
                /\ [o EXCEPT !.providerID = w] \in Object
                /\ [o EXCEPT !.taskID = w] \in Object
                /\ [o EXCEPT !.addr = w, !.cond = "True"] \in Object
           /\ \A b \in BOOLEAN :
                /\ [o EXCEPT !.finalizer = b] \in Object
                /\ [o EXCEPT !.ready = b] \in Object
                /\ [o EXCEPT !.deleting = b] \in Object
           /\ \A c \in {"Unknown", "False"} :
                /\ [o EXCEPT !.cond = c] \in Object
                /\ [o EXCEPT !.cond = c, !.finalizer = TRUE] \in Object
           /\ o.providerID \in Ref /\ o.taskID \in Ref /\ o.addr \in Ref
           /\ Failed(o) \in Object
<1>1. Failed(o) \in Object
      BY DEF Failed, Object
<1>2. QED
      BY <1>1 DEF Object

LEMMA GoneType == Gone \in Object
BY DEF Gone, Fresh, Object, Ref

\* A fault that happens is one fault fewer to come.
LEMMA SpendType ==
    ASSUME faults \in [FaultKinds -> Nat], NEW k \in FaultKinds, Spend(k)
    PROVE  faults' \in [FaultKinds -> Nat]
BY DEF Spend

\* The steps of the worker that change no more than the reconcile and the
\* Node that it tags.
LEMMA TypeReconcile ==
    ASSUME TypeOK,
           \/ ReconcileWorkloadFound \/ ReconcileWorkloadNotFound
           \/ ReconcileWorkloadAskTask \/ ReconcileWorkloadTask
           \/ CreateRefused \/ Instances \/ SetNodeProviderID \/ CheckDeleted
           \/ DeleteTooLate
    PROVE  TypeOK'
<1>1. rec.at \in Phases
      BY DEF Phases, ReconcileWorkloadFound, ReconcileWorkloadNotFound, CreateRefused,
             ReconcileWorkloadAskTask, ReconcileWorkloadTask, Instances,
             SetNodeProviderID, CheckDeleted, DeleteTooLate
<1>2. rec \in Job /\ rec.new \in Object
      BY <1>1, InProgress DEF TypeOK
<1>3. \E at \in Phases, new \in Object : Continue(at, new)
  <2>1. CASE ReconcileWorkloadFound
    <3>1. PICK w \in Workloads : Bind(w)
          BY <2>1 DEF ReconcileWorkloadFound, Matches
    <3>2. QED
          BY <3>1, <1>2, ObjectEdits DEF Bind, Ref, Phases
  <2>2. CASE ReconcileWorkloadNotFound
        BY <2>2, <1>2, ObjectEdits, NoneAssumption DEF ReconcileWorkloadNotFound, Phases, Ref
  <2>3. CASE ReconcileWorkloadAskTask
        BY <2>3, <1>2 DEF ReconcileWorkloadAskTask, Phases
  <2>4. CASE ReconcileWorkloadTask
    <3>1. rec.new.taskID \in Ref
          BY <1>2, ObjectEdits DEF Ref
    <3>2. QED
          BY <3>1, <2>4, <1>2, ObjectEdits DEF ReconcileWorkloadTask, Bind, Phases
  <2>5. CASE CreateRefused
        BY <2>5, <1>2, ObjectEdits DEF CreateRefused, Phases
  <2>6. CASE Instances
        BY <2>6, <1>2, ObjectEdits DEF Instances, Phases
  <2>7. CASE SetNodeProviderID
        BY <2>7, <1>2, ObjectEdits DEF SetNodeProviderID, Phases
  <2>8. CASE CheckDeleted
        BY <2>8, <1>2, ObjectEdits DEF CheckDeleted, Phases
  <2>9. CASE DeleteTooLate
        BY <2>9, <1>2 DEF DeleteTooLate, Phases
  <2>10. QED
        BY <2>1, <2>2, <2>3, <2>4, <2>5, <2>6, <2>7, <2>8, <2>9
<1>4. rec' \in Job \cup {Idle}
      BY <1>2, <1>3, ContinueType
<1>5. /\ UNCHANGED <<cloudVars, obj, cache, infraReady, bootstrap, faults>>
      /\ node' \in [Workloads -> {"absent", "joined", "tagged"}]
      BY DEF TypeOK, k8sVars, cloudVars, ReconcileWorkloadFound, ReconcileWorkloadNotFound,
             CreateRefused, ReconcileWorkloadAskTask, ReconcileWorkloadTask, Instances,
             SetNodeProviderID, CheckDeleted, DeleteTooLate
<1>6. QED
      BY <1>4, <1>5 DEF TypeOK, CloudTypeOK, cloudVars

\* The other steps of the worker.
LEMMA TypeCalls ==
    ASSUME TypeOK, Create \/ Delete \/ CallFails
    PROVE  TypeOK'
<1>1. /\ rec.at \in Phases
      /\ UNCHANGED <<obj, cache, infraReady, bootstrap, node>>
  <2>1. CASE Create \/ Delete
        BY <2>1 DEF Create, Delete, Phases, k8sVars
  <2>2. CASE CallFails
        BY <2>2 DEF CallFails, TypeOK, Job, k8sVars
  <2>3. QED
        BY <2>1, <2>2
<1>2. rec \in Job /\ rec.new \in Object /\ rec.m \in Machines
      BY <1>1, InProgress DEF TypeOK
<1>3. \E at \in Phases, new \in Object : Continue(at, new)
  <2>1. CASE Create
        BY <2>1, <1>2, ObjectEdits DEF Create, Phases, Ref
  <2>2. CASE Delete
        BY <2>2, <1>2, ObjectEdits DEF Delete, Phases
  <2>3. CASE CallFails
        BY <2>3, <1>2, ObjectEdits DEF CallFails, Phases
  <2>4. QED
        BY <2>1, <2>2, <2>3
<1>4. rec' \in Job \cup {Idle}
      BY <1>2, <1>3, ContinueType
<1>5. faults' \in [FaultKinds -> Nat]
      BY SpendType DEF TypeOK, Create, Delete, CallFails, Failing, FaultKinds
<1>6. CloudTypeOK'
  <2>1. CASE Create
        BY <2>1, <1>2, MachineAssumption
        DEF Create, CreateWorkload, TypeOK, CloudTypeOK, WorkloadStates, TaskStates
  <2>2. CASE Delete
        BY <2>2 DEF Delete, DeleteWorkload, TypeOK, CloudTypeOK, WorkloadStates
  <2>3. CASE CallFails
        BY <2>3 DEF CallFails, TypeOK, CloudTypeOK, cloudVars
  <2>4. QED
        BY <2>1, <2>2, <2>3
<1>7. QED
      BY <1>1, <1>4, <1>5, <1>6 DEF TypeOK

\* A patch of any of its parts leaves an object of the right type.
LEMMA WriteType ==
    ASSUME TypeOK, NEW parts, Write(parts)
    PROVE  /\ UNCHANGED <<cloudVars, cache, infraReady, bootstrap, node>>
           /\ obj' \in [Machines -> Object]
           /\ rec' = Idle
<1>1. rec.m \in Machines /\ rec.old \in Object /\ rec.new \in Object
      BY InProgress DEF Write, Phases, TypeOK
<1>2. Patched(obj[rec.m], parts) \in Object
  <2> DEFINE o == obj[rec.m]
             Merge(part, from, to, now) == IF part \in parts /\ from # to THEN to ELSE now
             c == Merge("conditions", rec.old.cond, rec.new.cond, o.cond)
             f == Merge("object", rec.old.finalizer, rec.new.finalizer, o.finalizer)
             p == Merge("object", rec.old.providerID, rec.new.providerID, o.providerID)
             t == Merge("status", rec.old.taskID, rec.new.taskID, o.taskID)
             r == Merge("status", rec.old.ready, rec.new.ready, o.ready)
             a == Merge("status", rec.old.addr, rec.new.addr, o.addr)
  <2>1. o \in Object
        BY <1>1 DEF TypeOK
  <2>2. /\ c \in {"Unknown", "False", "True"} /\ f \in BOOLEAN /\ p \in Ref
        /\ t \in Ref /\ r \in BOOLEAN /\ a \in Ref
        BY <1>1, <2>1 DEF Object
  <2> HIDE DEF c, f, p, t, r, a, o
  <2>3. [o EXCEPT !.cond = c, !.finalizer = f, !.providerID = p, !.taskID = t,
                  !.ready = r, !.addr = a] \in Object
        BY <2>1, <2>2 DEF Object
  <2>4. QED
        BY <2>3 DEF Patched, c, f, p, t, r, a, o
<1>3. Settled(Patched(obj[rec.m], parts)) \in Object
      BY <1>2, GoneType DEF Settled
<1>4. QED
      BY <1>1, <1>3 DEF Write, TypeOK

LEMMA TypePatches ==
    ASSUME TypeOK, Close \/ ClosePartly \/ Crash
    PROVE  TypeOK'
<1>1. faults' \in [FaultKinds -> Nat]
      BY SpendType DEF TypeOK, Close, ClosePartly, Crash, FaultKinds
<1>2. CASE \E parts : Write(parts)
      BY <1>1, <1>2, WriteType DEF TypeOK, CloudTypeOK, cloudVars
<1>3. CASE rec' = Idle /\ UNCHANGED <<cloudVars, k8sVars>>
      BY <1>1, <1>3 DEF TypeOK, CloudTypeOK, cloudVars, k8sVars
<1>4. QED
      BY <1>2, <1>3 DEF Close, ClosePartly, Crash

LEMMA TypeStart ==
    ASSUME TypeOK, NEW m \in Machines, Start(m)
    PROVE  TypeOK'
<1>1. Observed(m) \in Object
      BY DEF Observed, TypeOK
<1>2. Adopted(m) \in Object
      BY <1>1, ObjectEdits DEF Adopted
<1>3. [Adopted(m) EXCEPT !.cond = "False"] \in Object
      BY <1>2, ObjectEdits
<1>4. \E at \in Phases, new \in Object : Begin(m, at, new)
      BY <1>1, <1>2, <1>3 DEF Start, StartDelete, StartNormal, StartTooEarly, Phases
<1>5. QED
      BY <1>1, <1>4 DEF Begin, TypeOK, CloudTypeOK, Job, cloudVars, k8sVars

\* Everybody else's steps.
LEMMA TypeEnvironment ==
    ASSUME TypeOK,
           \/ InfrastructureReady
           \/ \E m \in Machines : BootstrapReady(m) \/ RequestDeletion(m) \/ CacheSync(m)
           \/ \E w \in Workloads :
                 NodeJoins(w) \/ CliDelete(w) \/ CloudStep(w) \/ CloudFault(w)
    PROVE  TypeOK'
<1>1. CASE \/ InfrastructureReady
           \/ \E m \in Machines : BootstrapReady(m) \/ CacheSync(m)
           \/ \E w \in Workloads : NodeJoins(w)
      BY <1>1 DEF InfrastructureReady, BootstrapReady, CacheSync, NodeJoins,
                  TypeOK, CloudTypeOK, cloudVars
<1>2. ASSUME NEW m \in Machines, RequestDeletion(m)
      PROVE  TypeOK'
  <2>1. Settled([obj[m] EXCEPT !.deleting = TRUE]) \in Object
        BY ObjectEdits, GoneType DEF Settled, TypeOK
  <2>2. QED
        BY <1>2, <2>1 DEF RequestDeletion, TypeOK, CloudTypeOK, cloudVars
<1>3. ASSUME NEW w \in Workloads, CliDelete(w) \/ CloudStep(w) \/ CloudFault(w)
      PROVE  TypeOK'
  <2>1. UNCHANGED <<obj, cache, infraReady, bootstrap, node, rec>>
        BY <1>3 DEF CliDelete, CloudStep, CloudFault, k8sVars
  <2>2. faults' \in [FaultKinds -> Nat]
        BY <1>3, SpendType DEF TypeOK, CliDelete, CloudStep, CloudFault, FaultKinds
  <2>3. CloudTypeOK'
        BY <1>3 DEF TypeOK, CloudTypeOK, CliDelete, DeleteWorkload, CloudStep, CloudFault,
           Appear, Provision, Boot, Vanish, FailProvisioning, Die,
           WorkloadStates, TaskStates, VmStates
  <2>4. QED
        BY <2>1, <2>2, <2>3 DEF TypeOK
<1>4. QED
      BY <1>1, <1>2, <1>3

-----------------------------------------------------------------------------

LEMMA TypeStep ==
    ASSUME TypeOK, [Next]_vars
    PROVE  TypeOK'
<1>1. CASE UNCHANGED vars
      BY <1>1 DEF vars, TypeOK, CloudTypeOK
<1>2. CASE Next
      BY <1>2, TypeReconcile, TypeCalls, TypePatches, TypeStart, TypeEnvironment
      DEF Next, Call
<1>3. QED
      BY <1>1, <1>2

LEMMA TypeInit ==
    ASSUME Init
    PROVE  TypeOK
<1>1. Fresh \in Object
      BY DEF Fresh, Object, Ref
<1>2. CloudInit => CloudTypeOK
      BY DEF CloudInit, CloudTypeOK, WorkloadStates, TaskStates, VmStates
<1>3. QED
      BY <1>1, <1>2, MachineAssumption DEF Init, TypeOK

\* No step, and so no behaviour, takes a variable out of its type.
THEOREM TypeCorrect == Spec => []TypeOK
<1>1. Init => TypeOK
      BY TypeInit
<1>2. TypeOK /\ [Next]_vars => TypeOK'
      BY TypeStep
<1>3. QED
      BY <1>1, <1>2, PTL DEF Spec

-----------------------------------------------------------------------------
(* Workloads and their names.                                              *)

\* A step names workloads when it creates them, and never renames one.
NamesKept ==
    \A w \in Workloads :
        /\ wlName[w] # None => wlName'[w] = wlName[w]
        /\ wlState'[w] = "unborn" => wlName'[w] = None

LEMMA NextKeepsNames ==
    ASSUME TypeOK, OwnInv, [Next]_vars
    PROVE  NamesKept
<1>1. CASE UNCHANGED <<wlState, wlName>>
      BY <1>1 DEF NamesKept, OwnInv
<1>2. CASE Create
      BY <1>2 DEF Create, CreateWorkload, NamesKept, OwnInv, TypeOK, CloudTypeOK
<1>3. CASE \E w \in Workloads : DeleteWorkload(w)
      BY <1>3 DEF DeleteWorkload, NamesKept, OwnInv, TypeOK, CloudTypeOK, Exists
<1>4. CASE \E w \in Workloads : Appear(w) \/ Vanish(w) \/ FailProvisioning(w)
      BY <1>4 DEF Appear, Vanish, FailProvisioning, NamesKept, OwnInv, TypeOK, CloudTypeOK
<1>5. CASE Delete
  <2>1. rec.new.providerID \in Workloads \/ UNCHANGED <<wlState, wlName>>
        BY <1>5 DEF Delete, DeleteWorkload, TypeOK, CloudTypeOK
  <2>2. QED
        BY <1>1, <1>3, <1>5, <2>1 DEF Delete
<1>6. CASE \E parts : Write(parts)
      BY <1>1, <1>6 DEF Write, cloudVars
<1>7. CASE ClosePartly \/ Crash \/ Close
      BY <1>1, <1>6, <1>7 DEF ClosePartly, Crash, Close, cloudVars
<1>8. CASE Call
      BY <1>1, <1>2, <1>5, <1>7, <1>8
      DEF Call, ReconcileWorkloadFound, ReconcileWorkloadNotFound, CreateRefused,
          ReconcileWorkloadAskTask, ReconcileWorkloadTask, Instances,
          SetNodeProviderID, CheckDeleted, DeleteTooLate, cloudVars
<1>9. CASE CallFails \/ InfrastructureReady
      BY <1>1, <1>9 DEF CallFails, InfrastructureReady, cloudVars
<1>10. CASE \E m \in Machines :
               Start(m) \/ BootstrapReady(m) \/ RequestDeletion(m) \/ CacheSync(m)
      BY <1>1, <1>10 DEF Start, StartDelete, StartNormal, StartTooEarly, Begin,
                         BootstrapReady, RequestDeletion, CacheSync, cloudVars
<1>11. CASE \E w \in Workloads :
               NodeJoins(w) \/ CliDelete(w) \/ CloudStep(w) \/ CloudFault(w)
      BY <1>1, <1>3, <1>4, <1>11 DEF NodeJoins, CliDelete, CloudStep, CloudFault,
                                      Provision, Boot, Die, cloudVars
<1>12. CASE UNCHANGED vars
      BY <1>1, <1>12 DEF vars
<1>13. QED
      BY <1>7, <1>8, <1>9, <1>10, <1>11, <1>12 DEF Next

\* What an object refers to stays its own as long as names are kept.
LEMMA OwnCarried ==
    ASSUME NEW names, NEW later,
           \A w \in Workloads : names[w] # None => later[w] = names[w],
           NEW m \in Machines, NEW o \in Object, Own(names, m, o)
    PROVE  Own(later, m, o)
BY NoneAssumption, MachineAssumption DEF Own, Object, Ref

\* A reconcile goes on with a copy that refers to workloads of its own.
LEMMA OwnContinue ==
    ASSUME TypeOK, OwnInv, NamesKept, rec \in Job, UNCHANGED <<obj, cache>>,
           NEW at, NEW new, Continue(at, new), Own(wlName', rec.m, new)
    PROVE  OwnInv'
<1>1. /\ rec.m \in Machines /\ rec.old \in Object /\ rec # Idle
      /\ rec' = [rec EXCEPT !.at = at, !.new = new]
      /\ rec'.m = rec.m /\ rec'.old = rec.old /\ rec'.new = new
      BY DEF Job, Idle, Continue
<1>2. \A m \in Machines : Own(wlName', m, obj[m]) /\ Own(wlName', m, cache[m])
      BY OwnCarried DEF TypeOK, OwnInv, NamesKept
<1>3. Own(wlName', rec.m, rec.old)
      BY <1>1, OwnCarried DEF OwnInv, NamesKept
<1>4. QED
      BY <1>1, <1>2, <1>3 DEF OwnInv, NamesKept

\* Edits that add no reference but to a workload of the same name.
LEMMA OwnEdits ==
    ASSUME NEW names, NEW m, NEW o \in Object, Own(names, m, o),
           NEW w, w # None => names[w] = ApiName[m]
    PROVE  /\ Own(names, m, [o EXCEPT !.providerID = w])
           /\ Own(names, m, [o EXCEPT !.taskID = w])
           /\ \A b : /\ Own(names, m, [o EXCEPT !.finalizer = b])
                     /\ Own(names, m, [o EXCEPT !.ready = b])
                     /\ Own(names, m, [o EXCEPT !.deleting = b])
           /\ \A c : /\ Own(names, m, [o EXCEPT !.cond = c])
                     /\ Own(names, m, [o EXCEPT !.addr = w, !.cond = c])
                     /\ Own(names, m, [o EXCEPT !.cond = c, !.finalizer = TRUE])
           /\ Own(names, m, Failed(o))
BY DEF Own, Object, Failed

LEMMA OwnWorker ==
    ASSUME TypeOK, OwnInv, NamesKept,
           \/ ReconcileWorkloadFound \/ ReconcileWorkloadNotFound
           \/ ReconcileWorkloadAskTask \/ ReconcileWorkloadTask
           \/ Create \/ CreateRefused \/ Instances \/ SetNodeProviderID
           \/ CheckDeleted \/ Delete \/ DeleteTooLate \/ CallFails
    PROVE  OwnInv'
<1>1. UNCHANGED <<obj, cache>> /\ rec.at \in Phases
  <2>1. CASE CallFails
        BY <2>1 DEF CallFails, TypeOK, Job, k8sVars
  <2>2. CASE ~CallFails
        BY <2>2 DEF Phases, k8sVars, ReconcileWorkloadFound, ReconcileWorkloadNotFound,
               CreateRefused, ReconcileWorkloadAskTask, ReconcileWorkloadTask, Instances,
               SetNodeProviderID, CheckDeleted, DeleteTooLate, Create, Delete
  <2>3. QED
        BY <2>1, <2>2
<1>2. /\ rec \in Job /\ rec # Idle
      /\ rec.m \in Machines /\ rec.old \in Object /\ rec.new \in Object
      BY <1>1, InProgress DEF TypeOK
<1>3. Own(wlName', rec.m, rec.new)
      BY <1>2, OwnCarried DEF OwnInv, NamesKept
<1>4. \A w \in {rec.new.providerID, rec.new.taskID, rec.new.addr} :
          w # None => wlName'[w] = ApiName[rec.m]
      BY <1>3 DEF Own
<1>5. \E at, new : Continue(at, new) /\ Own(wlName', rec.m, new)
  <2>1. CASE ReconcileWorkloadFound
    <3>1. PICK w \in Matches(ApiName[rec.m]) : Bind(w)
          BY <2>1 DEF ReconcileWorkloadFound
    <3>2. wlName'[w] = ApiName[rec.m]
          BY <1>2, <3>1, NoneAssumption, MachineAssumption DEF Matches, NamesKept
    <3>3. Own(wlName', rec.m, [rec.new EXCEPT !.providerID = w])
          BY <1>2, <1>3, <3>2, OwnEdits
    <3>4. QED
          BY <3>1, <3>3 DEF Bind
  <2>2. CASE ReconcileWorkloadNotFound \/ CheckDeleted
    <3>1. \A b : Own(wlName', rec.m, [rec.new EXCEPT !.finalizer = b])
          BY <1>2, <1>3, OwnEdits
    <3>2. QED
          BY <1>3, <2>2, <3>1 DEF ReconcileWorkloadNotFound, CheckDeleted
  <2>3. CASE ReconcileWorkloadAskTask \/ DeleteTooLate
        BY <1>3, <2>3 DEF ReconcileWorkloadAskTask, DeleteTooLate
  <2>4. CASE ReconcileWorkloadTask
    <3>1. Own(wlName', rec.m, Failed(rec.new))
          BY <1>2, <1>3, OwnEdits
    <3>2. Own(wlName', rec.m, [rec.new EXCEPT !.providerID = rec.new.taskID])
          BY <1>2, <1>3, <1>4, OwnEdits
    <3>3. QED
          BY <1>3, <2>4, <3>1, <3>2 DEF ReconcileWorkloadTask, Bind
  <2>5. CASE Create
    <3>1. PICK w \in Workloads :
             /\ CreateWorkload(w, ApiName[rec.m])
             /\ \/ Continue("close", [rec.new EXCEPT !.taskID = w])
                \/ Continue("close", Failed(rec.new))
          BY <2>5 DEF Create
    <3>2. wlName'[w] = ApiName[rec.m]
          BY <3>1 DEF CreateWorkload, TypeOK, CloudTypeOK
    <3>3. Own(wlName', rec.m, [rec.new EXCEPT !.taskID = w])
          BY <1>2, <1>3, <3>2, OwnEdits
    <3>4. Own(wlName', rec.m, Failed(rec.new))
          BY <1>2, <1>3, OwnEdits
    <3>5. QED
          BY <3>1, <3>3, <3>4
  <2>6. CASE CreateRefused \/ CallFails
    <3>1. Own(wlName', rec.m, Failed(rec.new))
          BY <1>2, <1>3, OwnEdits
    <3>2. QED
          BY <1>3, <2>6, <3>1 DEF CreateRefused, CallFails
  <2>7. CASE Instances
    <3> DEFINE w == rec.new.providerID
    <3>1. Own(wlName', rec.m, [rec.new EXCEPT !.addr = w, !.cond = "True"])
          BY <1>2, <1>3, <1>4, OwnEdits
    <3>2. Own(wlName', rec.m, Failed(rec.new))
          BY <1>2, <1>3, OwnEdits
    <3>3. QED
          BY <1>3, <2>7, <3>1, <3>2 DEF Instances
  <2>8. CASE SetNodeProviderID
    <3>1. Own(wlName', rec.m, [rec.new EXCEPT !.ready = TRUE])
          BY <1>2, <1>3, OwnEdits
    <3>2. QED
          BY <2>8, <3>1 DEF SetNodeProviderID
  <2>9. CASE Delete
    <3>1. Own(wlName', rec.m, [rec.new EXCEPT !.finalizer = FALSE])
          BY <1>2, <1>3, OwnEdits
    <3>2. QED
          BY <1>3, <2>9, <3>1 DEF Delete
  <2>10. QED
        BY <2>1, <2>2, <2>3, <2>4, <2>5, <2>6, <2>7, <2>8, <2>9
<1>6. QED
      BY <1>1, <1>2, <1>5, OwnContinue

LEMMA OwnGone == ASSUME NEW names, NEW m PROVE Own(names, m, Gone)
BY DEF Own, Gone, Fresh

\* Each field of a patched object comes from the object or from the copy.
LEMMA OwnPatched ==
    ASSUME rec \in Job, NEW o \in Object, NEW parts, NEW names, NEW m,
           Own(names, m, o), Own(names, m, rec.new)
    PROVE  Own(names, m, Settled(Patched(o, parts)))
<1> DEFINE q == Patched(o, parts)
<1>1. /\ q.providerID \in {o.providerID, rec.new.providerID}
      /\ q.taskID \in {o.taskID, rec.new.taskID}
      /\ q.addr \in {o.addr, rec.new.addr}
      BY DEF Patched, Object
<1> HIDE DEF q
<1>2. Own(names, m, q)
      BY <1>1 DEF Own
<1>3. QED
      BY <1>2, OwnGone DEF Settled, q

LEMMA OwnWrite ==
    ASSUME TypeOK, OwnInv, NamesKept, NEW parts, Write(parts)
    PROVE  OwnInv'
<1>1. rec \in Job /\ rec # Idle /\ rec.m \in Machines /\ rec.new \in Object
      BY InProgress DEF Write, Phases, TypeOK
<1>2. \A m \in Machines : Own(wlName', m, obj[m]) /\ Own(wlName', m, cache[m])
      BY OwnCarried DEF TypeOK, OwnInv, NamesKept
<1>3. Own(wlName', rec.m, rec.new)
      BY <1>1, OwnCarried DEF OwnInv, NamesKept
<1>4. Own(wlName', rec.m, Settled(Patched(obj[rec.m], parts)))
      BY <1>1, <1>2, <1>3, OwnPatched DEF TypeOK
<1>5. \A m \in Machines : Own(wlName', m, obj'[m]) /\ Own(wlName', m, cache'[m])
      BY <1>1, <1>2, <1>4 DEF Write, TypeOK
<1>6. QED
      BY <1>5 DEF Write, OwnInv, NamesKept

\* Steps that touch neither the reconcile nor what the objects refer to.
LEMMA OwnQuiet ==
    ASSUME TypeOK, OwnInv, NamesKept, UNCHANGED <<obj, cache, rec>>
    PROVE  OwnInv'
<1>1. \A m \in Machines : Own(wlName', m, obj[m]) /\ Own(wlName', m, cache[m])
      BY OwnCarried DEF TypeOK, OwnInv, NamesKept
<1>2. ASSUME rec # Idle
      PROVE  Own(wlName', rec.m, rec.old) /\ Own(wlName', rec.m, rec.new)
  <2>1. rec.m \in Machines /\ rec.old \in Object /\ rec.new \in Object
        BY <1>2 DEF TypeOK, Job
  <2>2. QED
        BY <1>2, <2>1, OwnCarried DEF OwnInv, NamesKept
<1>3. QED
      BY <1>1, <1>2 DEF OwnInv, NamesKept

LEMMA OwnStart ==
    ASSUME TypeOK, OwnInv, NamesKept, NEW m \in Machines, Start(m)
    PROVE  OwnInv'
<1>1. \A n \in Machines : Own(wlName', n, obj[n]) /\ Own(wlName', n, cache[n])
      BY OwnCarried DEF TypeOK, OwnInv, NamesKept
<1>2. Observed(m) \in Object /\ Own(wlName', m, Observed(m))
      BY <1>1 DEF Observed, TypeOK
<1>3. Own(wlName', m, Adopted(m))
      BY <1>2, OwnEdits, NoneAssumption DEF Adopted, Own
<1>4. Adopted(m) \in Object
      BY <1>2, ObjectEdits DEF Adopted
<1>5. Own(wlName', m, [Adopted(m) EXCEPT !.cond = "False"])
      BY <1>3, <1>4 DEF Own, Object
<1>6. \E at, new : Begin(m, at, new) /\ Own(wlName', m, new)
      BY <1>2, <1>3, <1>5 DEF Start, StartDelete, StartNormal, StartTooEarly
<1>7. QED
      BY <1>1, <1>2, <1>6 DEF Begin, OwnInv, NamesKept, k8sVars, Idle

LEMMA OwnEnvironment ==
    ASSUME TypeOK, OwnInv, NamesKept,
           \/ InfrastructureReady
           \/ \E m \in Machines : BootstrapReady(m) \/ RequestDeletion(m) \/ CacheSync(m)
           \/ \E w \in Workloads :
                 NodeJoins(w) \/ CliDelete(w) \/ CloudStep(w) \/ CloudFault(w)
    PROVE  OwnInv'
<1>1. CASE UNCHANGED <<obj, cache, rec>>
      BY <1>1, OwnQuiet
<1>2. \A m \in Machines : Own(wlName', m, obj[m]) /\ Own(wlName', m, cache[m])
      BY OwnCarried DEF TypeOK, OwnInv, NamesKept
<1>3. ASSUME NEW m \in Machines, RequestDeletion(m)
      PROVE  OwnInv'
  <2> DEFINE o == [obj[m] EXCEPT !.deleting = TRUE]
  <2>1. obj[m] \in Object /\ UNCHANGED <<cache, rec, wlName>>
        BY <1>3 DEF RequestDeletion, TypeOK, cloudVars
  <2>2. Own(wlName', m, o)
        BY <1>2, <2>1 DEF Own, Object
  <2>3. Own(wlName', m, Settled(o))
        BY <2>2, OwnGone DEF Settled
  <2>4. QED
        BY <1>2, <1>3, <2>1, <2>3 DEF RequestDeletion, OwnInv, NamesKept, TypeOK
<1>4. ASSUME NEW m \in Machines, CacheSync(m)
      PROVE  OwnInv'
      BY <1>2, <1>4 DEF CacheSync, OwnInv, NamesKept, TypeOK, cloudVars
<1>5. QED
      BY <1>1, <1>3, <1>4 DEF InfrastructureReady, BootstrapReady, NodeJoins, CliDelete,
                              CloudStep, CloudFault, k8sVars

-----------------------------------------------------------------------------

LEMMA OwnStep ==
    ASSUME TypeOK, OwnInv, [Next]_vars
    PROVE  OwnInv'
<1>1. NamesKept
      BY NextKeepsNames
<1>2. CASE UNCHANGED vars
      BY <1>1, <1>2, OwnQuiet DEF vars
<1>3. CASE Call \/ CallFails
      BY <1>1, <1>3, OwnWorker, OwnWrite DEF Call, Close
<1>4. CASE ClosePartly
      BY <1>1, <1>4, OwnWrite DEF ClosePartly
<1>5. CASE Crash
  <2>1. CASE rec' = Idle /\ UNCHANGED <<cloudVars, k8sVars>>
        BY <2>1, <1>1 DEF OwnInv, NamesKept, cloudVars, k8sVars
  <2>2. QED
        BY <1>1, <1>5, <2>1, OwnWrite DEF Crash
<1>6. CASE \E m \in Machines : Start(m)
      BY <1>1, <1>6, OwnStart
<1>7. QED
      BY <1>1, <1>2, <1>3, <1>4, <1>5, <1>6, OwnEnvironment DEF Next

LEMMA OwnInit ==
    ASSUME Init
    PROVE  OwnInv
BY DEF Init, CloudInit, OwnInv, Own, Fresh

\* GetWorkloadByName, the task and the two copies that a reconcile works on
\* never mix up the workloads of two names, whatever fails.
THEOREM OwnCorrect == Spec => []OwnInv
<1>1. Init => OwnInv
      BY OwnInit
<1>2. TypeOK /\ OwnInv /\ [Next]_vars => OwnInv'
      BY OwnStep
<1>3. QED
      BY <1>1, <1>2, TypeCorrect, PTL DEF Spec

\* Every reference of a CoxMachine is to a workload of its own name.
THEOREM OwnWorkloadCorrect == Spec => []OwnWorkload
<1>1. OwnInv => OwnWorkload
      BY DEF OwnInv, Own, OwnWorkload
<1>2. QED
      BY <1>1, OwnCorrect, PTL

\* Machines whose names stay distinct never share a workload.
THEOREM NoSharingCorrect ==
    ASSUME \A m, n \in Machines : ApiName[m] = ApiName[n] => m = n
    PROVE  Spec => []NoSharing
<1>1. OwnInv => NoSharing
      BY DEF OwnInv, Own, NoSharing
<1>2. QED
      BY <1>1, OwnCorrect, PTL

-----------------------------------------------------------------------------
(* ReadyInv: readiness comes last.                                         *)

\* A reconcile goes on with a copy that has what its next call relies on.
LEMMA ReadyContinue ==
    ASSUME TypeOK, ReadyInv, rec \in Job, rec # Idle, UNCHANGED <<obj, cache>>,
           faults'["patch"] = 0,
           NEW at \in Phases, NEW new \in Object, Continue(at, new),
           Grows(rec.new, new), Complete(new),
           at \in {"instances", "node"} => new.providerID # None,
           at = "node" => new.addr # None,
           at = "task" => new.taskID # None
    PROVE  ReadyInv'
<1>1. /\ rec'.m = rec.m /\ rec'.old = rec.old /\ rec'.new = new /\ rec'.at = at
      BY DEF Job, Continue
<1>2. Grows(rec.old, new)
      BY DEF ReadyInv, Grows
<1>3. QED
      BY <1>1, <1>2 DEF ReadyInv

\* The faults that are spent are not lost patches.
LEMMA PatchesIntact ==
    ASSUME TypeOK, ReadyInv, NEW k \in FaultKinds \ {"patch"}, Spend(k)
    PROVE  faults'["patch"] = 0
BY DEF TypeOK, ReadyInv, Spend, FaultKinds

LEMMA ReadyWorker ==
    ASSUME TypeOK, ReadyInv,
           \/ ReconcileWorkloadFound \/ ReconcileWorkloadNotFound
           \/ ReconcileWorkloadAskTask \/ ReconcileWorkloadTask
           \/ Create \/ CreateRefused \/ Instances \/ SetNodeProviderID
           \/ CheckDeleted \/ Delete \/ DeleteTooLate \/ CallFails
    PROVE  ReadyInv'
<1>1. UNCHANGED <<obj, cache>> /\ rec.at \in Phases
  <2>1. CASE CallFails
        BY <2>1 DEF CallFails, TypeOK, Job, k8sVars
  <2>2. CASE ~CallFails
        BY <2>2 DEF Phases, k8sVars, ReconcileWorkloadFound, ReconcileWorkloadNotFound,
               CreateRefused, ReconcileWorkloadAskTask, ReconcileWorkloadTask, Instances,
               SetNodeProviderID, CheckDeleted, DeleteTooLate, Create, Delete
  <2>3. QED
        BY <2>1, <2>2
<1>2. /\ rec \in Job /\ rec # Idle
      /\ rec.m \in Machines /\ rec.old \in Object /\ rec.new \in Object
      BY <1>1, InProgress DEF TypeOK
<1>3. faults'["patch"] = 0
      BY PatchesIntact
      DEF ReadyInv, FaultKinds, ReconcileWorkloadFound, ReconcileWorkloadNotFound,
          CreateRefused, ReconcileWorkloadAskTask, ReconcileWorkloadTask, Instances,
          SetNodeProviderID, CheckDeleted, DeleteTooLate, Create, Delete, CallFails,
          Failing
<1> DEFINE Good(at, new) ==
              /\ Grows(rec.new, new) /\ Complete(new)
              /\ at \in {"instances", "node"} => new.providerID # None
              /\ at = "node" => new.addr # None
              /\ at = "task" => new.taskID # None
<1>4. /\ Good("close", rec.new) /\ Good("create", rec.new) /\ Good("delete", rec.new)
      /\ rec.new.taskID # None => Good("task", rec.new)
      BY <1>2 DEF ReadyInv, Grows
<1>5. /\ Failed(rec.new) \in Object
      /\ Good("close", Failed(rec.new))
  <2>1. Failed(rec.new) \in Object
        BY <1>2, ObjectEdits
  <2>2. /\ Failed(rec.new).providerID = rec.new.providerID
        /\ Failed(rec.new).addr = rec.new.addr
        /\ Failed(rec.new).ready = rec.new.ready
        BY <1>2 DEF Failed, Object
  <2>3. QED
        BY <1>4, <2>1, <2>2 DEF Grows, Complete
<1>6. ASSUME NEW w \in Workloads, NEW at \in {"get", "instances"}
      PROVE  /\ [rec.new EXCEPT !.providerID = w] \in Object
             /\ Good(at, [rec.new EXCEPT !.providerID = w])
      BY <1>2, NoneAssumption DEF ReadyInv, Grows, Complete, Object, Ref
<1>7. /\ [rec.new EXCEPT !.finalizer = FALSE] \in Object
      /\ Good("close", [rec.new EXCEPT !.finalizer = FALSE])
      BY <1>2 DEF ReadyInv, Grows, Complete, Object
<1>8. \E at \in Phases, new \in Object : Continue(at, new) /\ Good(at, new)
  <2>1. CASE ReconcileWorkloadFound
    <3>1. PICK w \in Workloads : Bind(w)
          BY <2>1 DEF ReconcileWorkloadFound, Matches
    <3>2. QED
          BY <3>1, <1>6 DEF Bind, Phases
  <2>2. CASE ReconcileWorkloadNotFound \/ CheckDeleted \/ Delete
        BY <2>2, <1>2, <1>4, <1>7
        DEF ReconcileWorkloadNotFound, CheckDeleted, Delete, Phases
  <2>3. CASE ReconcileWorkloadAskTask \/ DeleteTooLate
        BY <1>2, <1>4, <2>3 DEF ReconcileWorkloadAskTask, DeleteTooLate, Phases
  <2>4. CASE CreateRefused \/ CallFails
        BY <1>2, <1>4, <1>5, <2>4 DEF CreateRefused, CallFails, Phases
  <2>5. CASE ReconcileWorkloadTask
    <3>1. CASE Bind(rec.new.taskID)
      <4>1. rec.new.taskID \in Workloads
            BY <2>5, <1>2 DEF ReconcileWorkloadTask, ReadyInv, Object, Ref
      <4>2. QED
            BY <3>1, <4>1, <1>6 DEF Bind, Phases
    <3>2. QED
          BY <1>2, <1>4, <1>5, <2>5, <3>1 DEF ReconcileWorkloadTask, Phases
  <2>6. CASE Create
    <3>1. PICK w \in Workloads :
             \/ Continue("close", [rec.new EXCEPT !.taskID = w])
             \/ Continue("close", Failed(rec.new))
          BY <2>6 DEF Create
    <3>2. /\ [rec.new EXCEPT !.taskID = w] \in Object
          /\ Good("close", [rec.new EXCEPT !.taskID = w])
          BY <1>2 DEF ReadyInv, Grows, Complete, Object, Ref
    <3>3. QED
          BY <1>5, <3>1, <3>2 DEF Phases
  <2>7. CASE Instances
    <3> DEFINE new == [rec.new EXCEPT !.addr = rec.new.providerID, !.cond = "True"]
    <3>1. rec.new.providerID # None
          BY <1>2, <2>7 DEF Instances, ReadyInv
    <3>2. new \in Object /\ Good("node", new)
          BY <1>2, <3>1 DEF ReadyInv, Grows, Complete, Object
    <3>3. QED
          BY <1>2, <1>4, <1>5, <2>7, <3>2 DEF Instances, Phases
  <2>8. CASE SetNodeProviderID
    <3> DEFINE new == [rec.new EXCEPT !.ready = TRUE]
    <3>1. new \in Object /\ Good("close", new)
          BY <1>2, <2>8 DEF SetNodeProviderID, ReadyInv, Grows, Complete, Object
    <3>2. QED
          BY <2>8, <3>1 DEF SetNodeProviderID, Phases
  <2>9. QED
        BY <2>1, <2>2, <2>3, <2>4, <2>5, <2>6, <2>7, <2>8
<1>9. QED
      BY <1>1, <1>2, <1>3, <1>8, ReadyContinue

\* The final patch, whole or cut off by a crash, in its order.
LEMMA ReadyPatched ==
    ASSUME ReadyInv, rec \in Job, rec # Idle, obj[rec.m] \in Object,
           NEW parts \in {Parts, {"conditions"}, {"conditions", "object"}}
    PROVE  LET o == Settled(Patched(obj[rec.m], parts))
           IN  /\ Complete(o)
               /\ o.exists => obj[rec.m].exists /\ Grows(obj[rec.m], o)
<1> DEFINE o == obj[rec.m]
           q == Patched(o, parts)
<1>1. /\ rec.m \in Machines /\ rec.old \in Object /\ rec.new \in Object
      /\ Complete(o) /\ (o.exists => Grows(rec.old, o))
      /\ Grows(rec.old, rec.new) /\ Complete(rec.new)
      BY DEF ReadyInv, Job
<1>2. /\ q.exists = o.exists
      /\ \/ q.providerID = o.providerID
         \/ /\ "object" \in parts
            /\ rec.old.providerID # rec.new.providerID /\ q.providerID = rec.new.providerID
      /\ \/ q.addr = o.addr
         \/ rec.old.addr # rec.new.addr /\ q.addr = rec.new.addr
      /\ \/ q.ready = o.ready
         \/ /\ rec.old.ready # rec.new.ready /\ q.ready = rec.new.ready
            /\ "status" \in parts /\ "object" \in parts
      /\ "object" \in parts /\ rec.old.providerID # rec.new.providerID
            => q.providerID = rec.new.providerID
      /\ "status" \in parts /\ rec.old.addr # rec.new.addr => q.addr = rec.new.addr
      BY DEF Patched, Object, Parts
<1>3. ASSUME o.exists
      PROVE  Complete(q) /\ Grows(o, q)
  <2>1. /\ rec.old.providerID # None => o.providerID # None /\ rec.new.providerID # None
        /\ rec.old.addr # None => o.addr # None /\ rec.new.addr # None
        BY <1>1, <1>3 DEF Grows
  <2>2. Grows(o, q)
        BY <1>2, <2>1 DEF Grows
  <2>3. CASE q.ready = o.ready
        BY <1>1, <2>2, <2>3 DEF Complete, Grows
  <2>4. CASE q.ready = rec.new.ready /\ "status" \in parts /\ "object" \in parts
        BY <1>1, <1>2, <2>1, <2>2, <2>4 DEF Complete
  <2>5. QED
        BY <1>2, <2>2, <2>3, <2>4
<1> HIDE DEF q
<1>4. Complete(Gone) /\ ~Gone.exists
      BY DEF Complete, Gone, Fresh
<1>5. QED
      BY <1>2, <1>3, <1>4 DEF Settled, q

LEMMA ReadyWrite ==
    ASSUME TypeOK, ReadyInv, faults'["patch"] = 0,
           NEW parts \in {Parts, {"conditions"}, {"conditions", "object"}}, Write(parts)
    PROVE  ReadyInv'
<1>1. rec \in Job /\ rec # Idle /\ rec.m \in Machines
      BY InProgress DEF Write, Phases, TypeOK
<1>2. obj[rec.m] \in Object
      BY <1>1 DEF TypeOK
<1>3. /\ Complete(obj'[rec.m])
      /\ obj'[rec.m].exists => obj[rec.m].exists /\ Grows(obj[rec.m], obj'[rec.m])
      /\ \A m \in Machines : m # rec.m => obj'[m] = obj[m]
      BY <1>1, <1>2, ReadyPatched DEF Write, TypeOK
<1>4. \A m \in Machines : obj'[m].exists => Grows(cache[m], obj'[m])
      BY <1>3 DEF ReadyInv, Grows
<1>5. QED
      BY <1>3, <1>4 DEF Write, ReadyInv

LEMMA ReadyStart ==
    ASSUME TypeOK, ReadyInv, NEW m \in Machines, Start(m)
    PROVE  ReadyInv'
<1>1. /\ Observed(m) \in Object /\ Complete(Observed(m))
      /\ obj[m].exists => Grows(Observed(m), obj[m])
      BY DEF Observed, TypeOK, ReadyInv, Grows
<1>2. \E at \in {"list", "close"}, new \in Object :
          Begin(m, at, new) /\ Grows(Observed(m), new) /\ Complete(new)
  <2> DEFINE early == [Adopted(m) EXCEPT !.cond = "False"]
  <2>1. Adopted(m) \in Object /\ Grows(Observed(m), Adopted(m)) /\ Complete(Adopted(m))
        BY <1>1 DEF Adopted, Object, Grows, Complete
  <2>2. early \in Object /\ Grows(Observed(m), early) /\ Complete(early)
        BY <2>1 DEF Object, Grows, Complete
  <2>3. QED
        BY <1>1, <2>1, <2>2 DEF Start, StartDelete, StartNormal, StartTooEarly, Grows
<1>3. QED
      BY <1>1, <1>2 DEF Begin, ReadyInv, k8sVars

LEMMA ReadyEnvironment ==
    ASSUME TypeOK, ReadyInv,
           \/ InfrastructureReady
           \/ \E m \in Machines : BootstrapReady(m) \/ RequestDeletion(m) \/ CacheSync(m)
           \/ \E w \in Workloads :
                 NodeJoins(w) \/ CliDelete(w) \/ CloudStep(w) \/ CloudFault(w)
    PROVE  ReadyInv'
<1>1. CASE UNCHANGED <<obj, cache, rec>>
  <2>1. faults'["patch"] = 0
        BY PatchesIntact
        DEF ReadyInv, FaultKinds, InfrastructureReady, BootstrapReady, RequestDeletion,
            CacheSync, NodeJoins, CliDelete, CloudStep, CloudFault
  <2>2. QED
        BY <1>1, <2>1 DEF ReadyInv
<1>2. ASSUME NEW m \in Machines, RequestDeletion(m)
      PROVE  ReadyInv'
  <2>1. /\ obj'[m].exists => obj[m].exists /\ Grows(obj[m], obj'[m])
        /\ Complete(obj'[m])
        /\ \A n \in Machines : n # m => obj'[n] = obj[n]
        BY <1>2 DEF RequestDeletion, Settled, Gone, Fresh, TypeOK, Object, ReadyInv,
                    Complete, Grows
  <2>2. rec # Idle => rec.m \in Machines
        BY DEF TypeOK, Job
  <2>3. QED
        BY <1>2, <2>1, <2>2 DEF RequestDeletion, ReadyInv, Grows
<1>3. ASSUME NEW m \in Machines, CacheSync(m)
      PROVE  ReadyInv'
      BY <1>3 DEF CacheSync, ReadyInv, Grows, TypeOK
<1>4. QED
      BY <1>1, <1>2, <1>3 DEF InfrastructureReady, BootstrapReady, NodeJoins, CliDelete,
                              CloudStep, CloudFault, k8sVars

-----------------------------------------------------------------------------

\* However a reconcile is interrupted, a machine that is reported ready has its
\* ProviderID and its addresses, as long as no part of a patch is lost.
THEOREM ReadyCorrect ==
    ASSUME MaxFaults["patch"] = 0
    PROVE  Spec => []ReadyIsComplete
<1>1. Init => ReadyInv
      BY DEF Init, ReadyInv, Complete, Grows, Fresh
<1>2. TypeOK /\ ReadyInv /\ [Next]_vars => ReadyInv'
  <2> SUFFICES ASSUME TypeOK, ReadyInv, [Next]_vars
               PROVE  ReadyInv'
      OBVIOUS
  <2>1. CASE UNCHANGED vars
        BY <2>1 DEF vars, ReadyInv
  <2>2. CASE Call \/ CallFails
        BY <2>2, ReadyWorker, ReadyWrite DEF Call, Close, ReadyInv
  <2>3. CASE Crash
    <3>1. faults'["patch"] = 0
          BY <2>3, PatchesIntact DEF Crash, FaultKinds
    <3>2. CASE rec' = Idle /\ UNCHANGED <<cloudVars, k8sVars>>
          BY <3>1, <3>2 DEF ReadyInv, k8sVars
    <3>3. QED
          BY <2>3, <3>1, <3>2, ReadyWrite DEF Crash
  <2>4. ~ClosePartly
        BY DEF ClosePartly, Spend, ReadyInv
  <2>5. QED
        BY <2>1, <2>2, <2>3, <2>4, ReadyStart, ReadyEnvironment DEF Next
<1>3. ReadyInv => ReadyIsComplete
      BY DEF ReadyInv, ReadyIsComplete, Complete
<1>4. QED
      BY <1>1, <1>2, <1>3, TypeCorrect, PTL DEF Spec

-----------------------------------------------------------------------------
(* ReleaseInv: nothing is released that the list still shows.               *)


\* Workloads only move on, and one whose task has succeeded is in the list.
MovesOn ==
    \A w \in Workloads :
        /\ wlState[w] \in {"listed", "deleting", "gone"}
              => wlState'[w] \in {"listed", "deleting", "gone"}
        /\ wlState[w] \in {"deleting", "gone"} => wlState'[w] \in {"deleting", "gone"}
        /\ wlState'[w] = "hidden" => task'[w] # "SUCCESS"

LEMMA NextMovesOn ==
    ASSUME TypeOK, ReleaseInv, ListLag = FALSE, [Next]_vars
    PROVE  MovesOn
<1> USE DEF MovesOn, ReleaseInv, TypeOK, CloudTypeOK
<1>1. CASE UNCHANGED <<wlState, task>>
      BY <1>1
<1>2. CASE Create
      BY <1>2 DEF Create, CreateWorkload
<1>3. CASE \E w \in Workloads : DeleteWorkload(w)
      BY <1>3 DEF DeleteWorkload, Exists
<1>4. CASE \E w \in Workloads : Appear(w) \/ Vanish(w) \/ FailProvisioning(w)
      BY <1>4 DEF Appear, Vanish, FailProvisioning
<1>5. CASE \E w \in Workloads : Provision(w, FALSE)
      BY <1>5 DEF Provision
<1>6. CASE Delete
  <2>1. rec.new.providerID \in Workloads \/ UNCHANGED <<wlState, task>>
        BY <1>6 DEF Delete, DeleteWorkload
  <2>2. QED
        BY <1>1, <1>3, <1>6, <2>1 DEF Delete
<1>7. CASE Close \/ ClosePartly \/ Crash
      BY <1>1, <1>7 DEF Close, ClosePartly, Crash, Write, cloudVars
<1>8. CASE Call
      BY <1>1, <1>2, <1>6, <1>7, <1>8
      DEF Call, ReconcileWorkloadFound, ReconcileWorkloadNotFound, CreateRefused,
          ReconcileWorkloadAskTask, ReconcileWorkloadTask, Instances,
          SetNodeProviderID, CheckDeleted, DeleteTooLate, cloudVars
<1>9. CASE CallFails \/ InfrastructureReady
      BY <1>1, <1>9 DEF CallFails, InfrastructureReady, cloudVars
<1>10. CASE \E m \in Machines :
               Start(m) \/ BootstrapReady(m) \/ RequestDeletion(m) \/ CacheSync(m)
      BY <1>1, <1>10 DEF Start, StartDelete, StartNormal, StartTooEarly, Begin,
                         BootstrapReady, RequestDeletion, CacheSync, cloudVars
<1>11. CASE \E w \in Workloads :
               NodeJoins(w) \/ CliDelete(w) \/ CloudStep(w) \/ CloudFault(w)
      BY <1>1, <1>3, <1>4, <1>5, <1>11 DEF NodeJoins, CliDelete, CloudStep, CloudFault,
                                            Boot, Die, cloudVars
<1>12. CASE UNCHANGED vars
      BY <1>1, <1>12 DEF vars
<1>13. QED
      BY <1>7, <1>8, <1>9, <1>10, <1>11, <1>12 DEF Next

\* What is said of the workload of an object stays true.
LEMMA FoundCarried ==
    ASSUME MovesOn, NEW o \in Object
    PROVE  /\ Found(wlState, o) => Found(wlState', o)
           /\ Finished(wlState, o) => Finished(wlState', o)
BY DEF MovesOn, Found, Finished, Object, Ref

\* A reconcile goes on with a copy whose workload is known, and which releases
\* the finalizer only for a finished one, as the last thing.
LEMMA ReleaseContinue ==
    ASSUME TypeOK, ReleaseInv, MovesOn, rec \in Job, rec # Idle, UNCHANGED <<obj, cache>>,
           NEW at \in Phases, NEW new \in Object, Continue(at, new),
           Found(wlState', new), at = "task" => new.taskID # None,
           rec.old.finalizer /\ ~new.finalizer => at = "close" /\ Finished(wlState', new)
    PROVE  ReleaseInv'
<1>1. /\ rec'.m = rec.m /\ rec'.old = rec.old /\ rec'.new = new /\ rec'.at = at
      /\ rec.old \in Object
      BY DEF Job, Continue
<1>2. Found(wlState', rec.old)
      BY <1>1, FoundCarried DEF ReleaseInv
<1>3. \A m \in Machines : Found(wlState', obj[m]) /\ Found(wlState', cache[m])
      BY FoundCarried DEF ReleaseInv, TypeOK
<1>4. QED
      BY <1>1, <1>2, <1>3 DEF ReleaseInv, MovesOn

LEMMA ReleaseWorker ==
    ASSUME TypeOK, OwnInv, ReleaseInv, MovesOn,
           \/ ReconcileWorkloadFound \/ ReconcileWorkloadNotFound
           \/ ReconcileWorkloadAskTask \/ ReconcileWorkloadTask
           \/ Create \/ CreateRefused \/ Instances \/ SetNodeProviderID
           \/ CheckDeleted \/ Delete \/ DeleteTooLate \/ CallFails
    PROVE  ReleaseInv'
<1>1. UNCHANGED <<obj, cache>> /\ rec.at \in Phases \ {"close"}
  <2>1. CASE CallFails
        BY <2>1 DEF CallFails, TypeOK, Job, k8sVars
  <2>2. CASE ~CallFails
        BY <2>2 DEF Phases, k8sVars, ReconcileWorkloadFound, ReconcileWorkloadNotFound,
               CreateRefused, ReconcileWorkloadAskTask, ReconcileWorkloadTask, Instances,
               SetNodeProviderID, CheckDeleted, DeleteTooLate, Create, Delete
  <2>3. QED
        BY <2>1, <2>2
<1>2. /\ rec \in Job /\ rec # Idle
      /\ rec.m \in Machines /\ rec.old \in Object /\ rec.new \in Object
      BY <1>1, InProgress DEF TypeOK
<1>3. Found(wlState', rec.new) /\ (rec.old.finalizer => rec.new.finalizer)
      BY <1>1, <1>2, FoundCarried DEF ReleaseInv
<1> DEFINE Good(at, new) ==
              /\ Found(wlState', new)
              /\ at = "task" => new.taskID # None
              /\ rec.old.finalizer /\ ~new.finalizer
                    => at = "close" /\ Finished(wlState', new)
<1>4. /\ \A at \in Phases \ {"task"} : Good(at, rec.new)
      /\ rec.new.taskID # None => Good("task", rec.new)
      BY <1>3
<1>5. /\ Failed(rec.new) \in Object
      /\ Good("close", Failed(rec.new))
  <2>1. Failed(rec.new) \in Object
        BY <1>2, ObjectEdits
  <2>2. /\ Failed(rec.new).providerID = rec.new.providerID
        /\ Failed(rec.new).finalizer = rec.new.finalizer
        BY <1>2 DEF Failed, Object
  <2>3. QED
        BY <1>3, <2>1, <2>2 DEF Found
<1>6. ASSUME NEW w \in Workloads, NEW at \in {"get", "instances"},
             wlState'[w] \in {"listed", "deleting", "gone"}
      PROVE  /\ [rec.new EXCEPT !.providerID = w] \in Object
             /\ Good(at, [rec.new EXCEPT !.providerID = w])
      BY <1>2, <1>3, <1>6 DEF Found, Object, Ref
<1>7. ASSUME Finished(wlState', rec.new)
      PROVE  /\ [rec.new EXCEPT !.finalizer = FALSE] \in Object
             /\ Good("close", [rec.new EXCEPT !.finalizer = FALSE])
      BY <1>2, <1>3, <1>7 DEF Found, Finished, Object
<1>8. \E at \in Phases, new \in Object : Continue(at, new) /\ Good(at, new)
  <2>1. CASE ReconcileWorkloadFound
    <3>1. PICK w \in Matches(ApiName[rec.m]) : Bind(w)
          BY <2>1 DEF ReconcileWorkloadFound
    <3>2. w \in Workloads /\ wlState'[w] \in {"listed", "deleting", "gone"}
          BY <3>1 DEF Matches, MovesOn
    <3>3. QED
          BY <3>1, <3>2, <1>6 DEF Bind, Phases
  <2>2. CASE ReconcileWorkloadNotFound
    <3>1. Finished(wlState, rec.new)
          BY <1>2, <2>2 DEF ReconcileWorkloadNotFound, Matches, ReleaseInv, Found, Finished,
                            OwnInv, Own, Object, Ref
    <3>2. Finished(wlState', rec.new)
          BY <1>2, <3>1, FoundCarried
    <3>3. QED
          BY <1>2, <1>4, <1>7, <2>2, <3>2 DEF ReconcileWorkloadNotFound, Phases
  <2>3. CASE CheckDeleted
    <3>1. ~Exists(rec.new.providerID) => Finished(wlState, rec.new)
          BY <1>2 DEF Exists, ReleaseInv, Found, Finished
    <3>2. ~Exists(rec.new.providerID) => Finished(wlState', rec.new)
          BY <1>2, <3>1, FoundCarried
    <3>3. QED
          BY <1>2, <1>4, <1>7, <2>3, <3>2 DEF CheckDeleted, Phases
  <2>4. CASE Delete
    <3>1. Finished(wlState', rec.new)
          BY <1>2, <2>4 DEF Delete, DeleteWorkload, Finished, TypeOK, CloudTypeOK, Object, Ref
    <3>2. QED
          BY <1>2, <1>4, <1>7, <2>4, <3>1 DEF Delete, Phases
  <2>5. CASE ReconcileWorkloadAskTask \/ DeleteTooLate
        BY <1>2, <1>4, <2>5 DEF ReconcileWorkloadAskTask, DeleteTooLate, Phases
  <2>6. CASE CreateRefused \/ CallFails
        BY <1>2, <1>4, <1>5, <2>6 DEF CreateRefused, CallFails, Phases
  <2>7. CASE ReconcileWorkloadTask
    <3>1. CASE task[rec.new.taskID] = "SUCCESS" /\ Bind(rec.new.taskID)
      <4>1. /\ rec.new.taskID \in Workloads
            /\ wlState[rec.new.taskID] # "hidden"
            BY <1>2, <2>7, <3>1 DEF ReconcileWorkloadTask, ReleaseInv, Object, Ref
      <4>2. wlState[rec.new.taskID] # "unborn"
            BY <1>2, <4>1, NoneAssumption, MachineAssumption DEF OwnInv, Own
      <4>3. wlState'[rec.new.taskID] \in {"listed", "deleting", "gone"}
            BY <4>1, <4>2 DEF MovesOn, TypeOK, CloudTypeOK, WorkloadStates
      <4>4. QED
            BY <3>1, <4>1, <4>3, <1>6 DEF Bind, Phases
    <3>2. QED
          BY <1>2, <1>4, <1>5, <2>7, <3>1 DEF ReconcileWorkloadTask, Phases
  <2>8. CASE Create
    <3>1. PICK w \in Workloads :
             \/ Continue("close", [rec.new EXCEPT !.taskID = w])
             \/ Continue("close", Failed(rec.new))
          BY <2>8 DEF Create
    <3>2. /\ [rec.new EXCEPT !.taskID = w] \in Object
          /\ Good("close", [rec.new EXCEPT !.taskID = w])
          BY <1>2, <1>3 DEF Found, Object, Ref
    <3>3. QED
          BY <1>5, <3>1, <3>2 DEF Phases
  <2>9. CASE Instances
    <3> DEFINE new == [rec.new EXCEPT !.addr = rec.new.providerID, !.cond = "True"]
    <3>1. new \in Object /\ Good("node", new)
          BY <1>2, <1>3 DEF Found, Object
    <3>2. QED
          BY <1>2, <1>4, <1>5, <2>9, <3>1 DEF Instances, Phases
  <2>10. CASE SetNodeProviderID
    <3> DEFINE new == [rec.new EXCEPT !.ready = TRUE]
    <3>1. new \in Object /\ Good("close", new)
          BY <1>2, <1>3 DEF Found, Object
    <3>2. QED
          BY <2>10, <3>1 DEF SetNodeProviderID, Phases
  <2>11. QED
        BY <2>1, <2>2, <2>3, <2>4, <2>5, <2>6, <2>7, <2>8, <2>9, <2>10
<1>9. QED
      BY <1>1, <1>2, <1>8, ReleaseContinue

LEMMA ReleaseWrite ==
    ASSUME TypeOK, ReleaseInv, MovesOn, NEW parts, Write(parts)
    PROVE  ReleaseInv'
<1>1. /\ rec \in Job /\ rec # Idle
      /\ rec.m \in Machines /\ rec.old \in Object /\ rec.new \in Object
      BY InProgress DEF Write, Phases, TypeOK
<1>2. /\ Found(wlState', rec.new)
      /\ \A m \in Machines : Found(wlState', obj[m]) /\ Found(wlState', cache[m])
      BY <1>1, FoundCarried DEF ReleaseInv, TypeOK
<1> DEFINE q == Patched(obj[rec.m], parts)
<1>3. /\ q.providerID \in {obj[rec.m].providerID, rec.new.providerID}
      /\ q.exists = obj[rec.m].exists
      BY <1>1 DEF Patched, Object, TypeOK
<1> HIDE DEF q
<1>4. Found(wlState', Settled(q)) /\ (Settled(q).finalizer => Settled(q).exists)
      BY <1>1, <1>2, <1>3 DEF Settled, Found, Gone, Fresh
<1>5. \A m \in Machines :
          /\ Found(wlState', obj'[m]) /\ Found(wlState', cache'[m])
          /\ obj'[m].finalizer => obj'[m].exists
      BY <1>1, <1>2, <1>4 DEF Write, ReleaseInv, TypeOK, q
<1>6. QED
      BY <1>5 DEF Write, ReleaseInv, MovesOn

\* Steps that touch neither the reconcile nor what the objects refer to.
LEMMA ReleaseQuiet ==
    ASSUME TypeOK, ReleaseInv, MovesOn, UNCHANGED <<obj, cache, rec>>
    PROVE  ReleaseInv'
<1>1. \A m \in Machines : Found(wlState', obj[m]) /\ Found(wlState', cache[m])
      BY FoundCarried DEF TypeOK, ReleaseInv
<1>2. ASSUME rec # Idle
      PROVE  /\ Found(wlState', rec.old) /\ Found(wlState', rec.new)
             /\ Finished(wlState, rec.new) => Finished(wlState', rec.new)
  <2>1. rec.old \in Object /\ rec.new \in Object
        BY <1>2 DEF TypeOK, Job
  <2>2. QED
        BY <1>2, <2>1, FoundCarried DEF ReleaseInv
<1>3. QED
      BY <1>1, <1>2 DEF ReleaseInv, MovesOn

LEMMA ReleaseStart ==
    ASSUME TypeOK, ReleaseInv, MovesOn, NEW m \in Machines, Start(m)
    PROVE  ReleaseInv'
<1>1. \A n \in Machines : Found(wlState', obj[n]) /\ Found(wlState', cache[n])
      BY FoundCarried DEF TypeOK, ReleaseInv
<1>2. Observed(m) \in Object /\ Found(wlState', Observed(m))
      BY <1>1 DEF Observed, TypeOK
<1>3. \E at \in {"list", "close"}, new \in Object :
          /\ Begin(m, at, new) /\ Found(wlState', new)
          /\ Observed(m).finalizer => new.finalizer
  <2> DEFINE early == [Adopted(m) EXCEPT !.cond = "False"]
  <2>1. Adopted(m) \in Object /\ Found(wlState', Adopted(m)) /\ Adopted(m).finalizer
        BY <1>2 DEF Adopted, Object, Found
  <2>2. early \in Object /\ Found(wlState', early) /\ early.finalizer
        BY <2>1 DEF Object, Found
  <2>3. QED
        BY <1>2, <2>1, <2>2 DEF Start, StartDelete, StartNormal, StartTooEarly
<1>4. QED
      BY <1>1, <1>2, <1>3 DEF Begin, ReleaseInv, MovesOn, k8sVars

LEMMA ReleaseEnvironment ==
    ASSUME TypeOK, ReleaseInv, MovesOn,
           \/ InfrastructureReady
           \/ \E m \in Machines : BootstrapReady(m) \/ RequestDeletion(m) \/ CacheSync(m)
           \/ \E w \in Workloads :
                 NodeJoins(w) \/ CliDelete(w) \/ CloudStep(w) \/ CloudFault(w)
    PROVE  ReleaseInv'
<1>1. CASE UNCHANGED <<obj, cache, rec>>
      BY <1>1, ReleaseQuiet
<1>2. ASSUME NEW m \in Machines, RequestDeletion(m)
      PROVE  ReleaseInv'
  <2>1. UNCHANGED <<wlState, task, cache, rec>> /\ obj[m] \in Object
        BY <1>2 DEF RequestDeletion, TypeOK, cloudVars
  <2>2. /\ Found(wlState, obj'[m]) /\ (obj'[m].finalizer => obj'[m].exists)
        /\ \A n \in Machines : n # m => obj'[n] = obj[n]
        BY <1>2, <2>1 DEF RequestDeletion, Settled, Gone, Fresh, TypeOK, Object, ReleaseInv,
                          Found
  <2>3. QED
        BY <2>1, <2>2 DEF ReleaseInv
<1>3. ASSUME NEW m \in Machines, CacheSync(m)
      PROVE  ReleaseInv'
      BY <1>3 DEF CacheSync, ReleaseInv, TypeOK, cloudVars
<1>4. QED
      BY <1>1, <1>2, <1>3 DEF InfrastructureReady, BootstrapReady, NodeJoins, CliDelete,
                              CloudStep, CloudFault, k8sVars

-----------------------------------------------------------------------------

\* A step that lets a CoxMachine go.
LEMMA ReleasingStep ==
    ASSUME TypeOK, ReleaseInv, [Next]_vars,
           rec.at = "close", obj[rec.m].finalizer, ~obj'[rec.m].exists
    PROVE  Finished(wlState, rec.new)
<1>1. /\ rec \in Job /\ rec # Idle /\ rec.m \in Machines
      /\ rec.old \in Object /\ rec.new \in Object
      BY InProgress DEF Phases, TypeOK
<1>2. obj[rec.m] \in Object /\ obj[rec.m].exists
      BY <1>1 DEF TypeOK, ReleaseInv
<1>3. ASSUME NEW parts, Write(parts)
      PROVE  rec.old.finalizer /\ ~rec.new.finalizer
      BY <1>1, <1>2, <1>3 DEF Write, Settled, Patched, Object, TypeOK
<1>4. \A m \in Machines : ~RequestDeletion(m)
  <2> SUFFICES ASSUME NEW m \in Machines, RequestDeletion(m)
               PROVE  FALSE
      OBVIOUS
  <2>2. CASE m = rec.m
        BY <1>2, <2>2 DEF RequestDeletion, Settled, TypeOK, Object
  <2>3. CASE m # rec.m
        BY <1>1, <1>2, <2>3 DEF RequestDeletion, TypeOK
  <2>4. QED
        BY <2>2, <2>3
<1>5. CASE UNCHANGED obj
      BY <1>2, <1>5
<1>6. CASE \E parts : Write(parts)
      BY <1>1, <1>3, <1>6 DEF ReleaseInv
<1>7. QED
      BY <1>4, <1>5, <1>6
      DEF Next, Call, Close, ClosePartly, Crash, ReconcileWorkloadFound,
          ReconcileWorkloadNotFound, ReconcileWorkloadAskTask, ReconcileWorkloadTask,
          Create, CreateRefused, Instances, SetNodeProviderID, CheckDeleted, Delete,
          DeleteTooLate, CallFails, InfrastructureReady, Start, StartDelete, StartNormal,
          StartTooEarly, Begin, BootstrapReady, CacheSync, NodeJoins, CliDelete, CloudStep,
          CloudFault, vars, k8sVars

LEMMA ReleaseStep ==
    ASSUME ListLag = FALSE, TypeOK, OwnInv, ReleaseInv, [Next]_vars
    PROVE  ReleaseInv'
<1>1. MovesOn
      BY NextMovesOn
<1>2. CASE UNCHANGED vars
      BY <1>1, <1>2, ReleaseQuiet DEF vars
<1>3. CASE Call \/ CallFails
      BY <1>1, <1>3, ReleaseWorker, ReleaseWrite DEF Call, Close
<1>4. CASE ClosePartly
      BY <1>1, <1>4, ReleaseWrite DEF ClosePartly
<1>5. CASE Crash
  <2>1. CASE rec' = Idle /\ UNCHANGED <<cloudVars, k8sVars>>
        BY <2>1 DEF ReleaseInv, cloudVars, k8sVars
  <2>2. QED
        BY <1>1, <1>5, <2>1, ReleaseWrite DEF Crash
<1>6. QED
      BY <1>1, <1>2, <1>3, <1>4, <1>5, ReleaseStart, ReleaseEnvironment DEF Next

LEMMA ReleaseInit ==
    ASSUME Init
    PROVE  ReleaseInv
BY DEF Init, CloudInit, ReleaseInv, Found, Fresh

\* A recorded ProviderID's workload has been listed, and a copy without the
\* finalizer has its workload on the way out.
THEOREM ReleaseInvariant ==
    ASSUME ListLag = FALSE
    PROVE  Spec => []ReleaseInv
<1>1. Init => ReleaseInv
      BY ReleaseInit
<1>2. TypeOK /\ OwnInv /\ ReleaseInv /\ [Next]_vars => ReleaseInv'
      BY ReleaseStep
<1>3. QED
      BY <1>1, <1>2, TypeCorrect, OwnCorrect, PTL DEF Spec

\* However reconciles are interrupted, retried and fed with old copies, a
\* CoxMachine is let go only once the workload that its deletion has found is
\* being deleted or gone, as long as the list does not lag.
THEOREM ReleaseCorrect ==
    ASSUME ListLag = FALSE
    PROVE  Spec => ReleaseOnlyWhenDead
<1>1. TypeOK /\ ReleaseInv /\ [Next]_vars =>
          [ rec.at = "close" /\ obj[rec.m].finalizer /\ ~obj'[rec.m].exists
                /\ rec.new.providerID # None
              => ~Live(rec.new.providerID) ]_vars
      BY ReleasingStep DEF Finished, Live
<1>2. QED
      BY <1>1, ReleaseInvariant, TypeCorrect, PTL DEF Spec, ReleaseOnlyWhenDead

=============================================================================
