-------------------------- MODULE CoxProviderProofs --------------------------
(***************************************************************************)
(* The two controllers together: theorems about CoxProvider for any        *)
(* machines, workloads and credentials.  Each controller keeps its own     *)
(* invariant beside the other, because neither touches what the other has  *)
(* named; the rest is what they owe each other.                            *)
(***************************************************************************)
EXTENDS CoxProvider, TLAPS

\* The modules with the proofs, instantiated as CoxProvider does CoxMachine
\* and CoxCluster.
MP == INSTANCE CoxMachineContractProofs WITH
    rec <- mrec, cache <- [m \in Machines |-> NoCopy],
    node <- [w \in Workloads |-> "absent"],
    faults <- NoFaults({"crash", "api", "lost", "patch", "cli", "die", "fail"}),
    MaxFaults <- NoFaults({"crash", "api", "lost", "patch", "cli", "die", "fail"}),
    StaleReads <- FALSE, ListLag <- FALSE, EarlyBootstrap <- FALSE,
    Unreachable <- TRUE

CP == INSTANCE CoxClusterTypeProofs WITH
    rec <- crec, changes <- 0, MaxChanges <- 0,
    faults <- NoFaults({"crash", "api", "lost", "patch", "cli", "fail"}),
    MaxFaults <- NoFaults({"crash", "api", "lost", "patch", "cli", "fail"}),
    ListLag <- FALSE, EarlyDeletion <- FALSE,
    AddrOf <- [lb \in {Cp, Worker} |-> Workloads],
    addrs <- MachineAddresses

\* The names stay apart when they are shortened: those of the machines from
\* each other, and from those of the load balancers.
Apart ==
    /\ \A m, n \in Machines : ApiName[m] = ApiName[n] => m = n
    /\ \A m \in Machines : ApiName[m] \notin {Cp, Worker}

-----------------------------------------------------------------------------
(* What the two modules assume holds here.                                 *)

LEMMA MachineAssumptions ==
    /\ None \notin Workloads /\ None \notin Names
    /\ None \notin Machines
    /\ ApiName \in [Machines -> Names]
    /\ NoFaults({"crash", "api", "lost", "patch", "cli", "die", "fail"})
          \in [MP!FaultKinds -> Nat]
BY ProviderAssumption DEF NoFaults, MP!FaultKinds

LEMMA ClusterAssumptions ==
    /\ None \notin Workloads /\ None \notin Names
    /\ Cp # Worker /\ CP!Lbs \subseteq Names
    /\ [lb \in {Cp, Worker} |-> Workloads] \in [CP!Lbs -> SUBSET (Nat \ {CP!Default})]
    /\ NoFaults({"crash", "api", "lost", "patch", "cli", "fail"}) \in [CP!FaultKinds -> Nat]
BY ProviderAssumption DEF NoFaults, CP!FaultKinds, CP!Lbs, CP!Default

LEMMA AtTheirBest ==
    ASSUME Apart
    PROVE  MP!AtItsBest /\ CP!KeepsUp
BY DEF Apart, NoFaults, MP!AtItsBest, CP!KeepsUp

-----------------------------------------------------------------------------
(* The actions are those of the modules with the proofs.                   *)

LEMMA SameMachineInit == Init => MP!Init
BY DEF Init, M!CloudInit, MP!CloudInit, M!Fresh, MP!Fresh, M!Idle, MP!Idle, MP!Init,
       NoCopy

LEMMA SameCalls == (M!Call => MP!Call) /\ (M!CallFails => MP!CallFails)
BY DEF M!Call, M!CallFails, M!Failing, M!ReconcileWorkloadFound,
       M!ReconcileWorkloadNotFound, M!ReconcileWorkloadAskTask, M!ReconcileWorkloadTask, M!Create, M!CreateRefused,
       M!Instances, M!SetNodeProviderID, M!CheckDeleted, M!Delete, M!DeleteTooLate,
       M!Close, M!Bind, M!Continue, M!Failed, M!Deleting, M!Spend, M!Matches, M!Exists,
       M!CreateWorkload, M!DeleteWorkload, M!Write, M!Patched, M!Parts, M!Settled,
       M!Gone, M!Fresh, M!Idle, M!cloudVars, M!k8sVars,
       MP!Call, MP!CallFails, MP!Failing, MP!ReconcileWorkloadFound,
       MP!ReconcileWorkloadNotFound, MP!ReconcileWorkloadAskTask, MP!ReconcileWorkloadTask, MP!Create, MP!CreateRefused,
       MP!Instances, MP!SetNodeProviderID, MP!CheckDeleted, MP!Delete, MP!DeleteTooLate,
       MP!Close, MP!Bind, MP!Continue, MP!Failed, MP!Deleting, MP!Spend, MP!Matches,
       MP!Exists, MP!CreateWorkload, MP!DeleteWorkload, MP!Write, MP!Patched, MP!Parts,
       MP!Settled, MP!Gone, MP!Fresh, MP!Idle, MP!cloudVars, MP!k8sVars

LEMMA SameMachineActions ==
    /\ \A m \in Machines :
          /\ M!Start(m) => MP!Start(m)
          /\ M!BootstrapReady(m) => MP!BootstrapReady(m)
          /\ M!RequestDeletion(m) => MP!RequestDeletion(m)
    /\ M!InfrastructureReady => MP!InfrastructureReady
    /\ \A w \in Workloads : M!CloudStep(w) => MP!CloudStep(w)
BY DEF M!Start, M!StartDelete, M!StartNormal, M!StartTooEarly, M!Begin, M!Adopted,
       M!Observed, M!Idle, M!BootstrapReady, M!RequestDeletion, M!InfrastructureReady,
       M!CloudStep, M!Appear, M!Provision, M!Boot, M!Vanish, M!Exists, M!Settled,
       M!Gone, M!Fresh, M!cloudVars, M!k8sVars,
       MP!Start, MP!StartDelete, MP!StartNormal, MP!StartTooEarly, MP!Begin, MP!Adopted,
       MP!Observed, MP!Idle, MP!BootstrapReady, MP!RequestDeletion,
       MP!InfrastructureReady, MP!CloudStep, MP!Appear, MP!Provision, MP!Boot,
       MP!Vanish, MP!Exists, MP!Settled, MP!Gone, MP!Fresh, MP!cloudVars, MP!k8sVars

LEMMA SameClusterInit ==
    ASSUME Init
    PROVE  CP!Shape /\ CP!PairInv
<1>1. CP!Init
  <2>1. MachineAddresses = [lb \in CP!Lbs |-> {}]
        BY DEF Init, MachineAddresses, M!Fresh, CP!Lbs
  <2>2. QED
        BY <2>1 DEF Init, M!CloudInit, CP!CloudInit, C!Fresh, CP!Fresh, C!Idle, CP!Idle,
                    CP!Init
<1>2. QED
      BY <1>1, ClusterAssumptions, CP!PairInit

\* What the cluster's controller does with lists, and what follows the answers.
LEMMA SameLists ==
    /\ \A S : C!SetToSeqs(S) = CP!SetToSeqs(S)
    /\ \A s : C!Sorted(s) = CP!Sorted(s)
    /\ C!Backends = CP!Backends
<1>1. \A S : C!Cardinality(S) = CP!Cardinality(S)
      BY DEF C!Cardinality, CP!Cardinality
<1>2. \A S : C!SetToSeqs(S) = CP!SetToSeqs(S)
      BY <1>1 DEF C!SetToSeqs, CP!SetToSeqs
<1>3. ASSUME NEW s
      PROVE  C!Sorted(s) = CP!Sorted(s)
  <2>1. C!ToSet(s) = CP!ToSet(s)
        BY DEF C!ToSet, CP!ToSet
  <2>2. C!SetToSeqs(C!ToSet(s)) = CP!SetToSeqs(CP!ToSet(s))
        BY <1>2, <2>1
  <2>3. \A t : C!Ascending(t) <=> CP!Ascending(t)
        BY DEF C!Ascending, CP!Ascending
  <2>4. QED
        BY <2>2, <2>3 DEF C!Sorted, CP!Sorted
<1>4. C!Backends = CP!Backends
      BY <1>2 DEF C!Backends, CP!Backends, C!Addresses, CP!Addresses, C!Default,
                  CP!Default
<1>5. QED
      BY <1>2, <1>3, <1>4

LEMMA SameRest ==
    ASSUME NEW job
    PROVE  /\ C!Finish(job) = CP!Finish(job)
           /\ C!CompareWorker(job) = CP!CompareWorker(job)
           /\ C!Compare(job) = CP!Compare(job)
           /\ C!Deleted(job) = CP!Deleted(job)
<1>1. C!Finish(job) = CP!Finish(job)
      BY DEF C!Finish, C!Publish, CP!Finish, CP!Publish
<1>2. \A lb : /\ C!IsUp(job, lb) <=> CP!IsUp(job, lb)
              /\ C!Differs(job, lb) <=> CP!Differs(job, lb)
      BY SameLists DEF C!IsUp, C!Differs, CP!IsUp, CP!Differs
<1>3. C!CompareWorker(job) = CP!CompareWorker(job)
      BY <1>1, <1>2 DEF C!CompareWorker, CP!CompareWorker
<1>4. C!Compare(job) = CP!Compare(job)
      BY <1>2, <1>3 DEF C!Compare, CP!Compare, C!Lbs, CP!Lbs
<1>5. C!Deleted(job) = CP!Deleted(job)
      BY DEF C!Deleted, CP!Deleted, C!Lbs, CP!Lbs
<1>6. QED
      BY <1>1, <1>3, <1>4, <1>5

LEMMA SameClusterStart == C!Start => CP!Start
<1>1. \A lb : C!Behind(lb) = CP!Behind(lb)
      BY DEF C!Behind, CP!Behind, C!Default, CP!Default
<1>2. ASSUME NEW at, NEW want, NEW new, C!Begin(at, want, new)
      PROVE  CP!Begin(at, want, new)
      BY <1>2 DEF C!Begin, C!Idle, C!CaughtUp, C!Ours, C!Lbs, C!Failure, C!cloudVars,
                  C!k8sVars, CP!Begin, CP!Idle, CP!CaughtUp, CP!Ours, CP!Lbs, CP!Failure,
                  CP!cloudVars, CP!k8sVars
<1>3. C!StartDelete => CP!StartDelete
      BY <1>2 DEF C!StartDelete, CP!StartDelete, C!Lbs, CP!Lbs
<1>4. ASSUME C!StartNormal
      PROVE  CP!StartNormal
  <2>1. PICK c \in C!SetToSeqs(C!Behind(Cp)), w \in C!SetToSeqs(C!Behind(Worker)) :
                C!Begin("get", [lb \in C!Lbs |-> IF lb = Cp THEN c ELSE w],
                        [cox EXCEPT !.finalizer = TRUE])
        BY <1>4 DEF C!StartNormal
  <2>2. c \in CP!SetToSeqs(CP!Behind(Cp)) /\ w \in CP!SetToSeqs(CP!Behind(Worker))
        BY <1>1, SameLists
  <2>3. CP!Begin("get", [lb \in CP!Lbs |-> IF lb = Cp THEN c ELSE w],
                 [cox EXCEPT !.finalizer = TRUE])
        BY <1>2, <2>1 DEF C!Lbs, CP!Lbs
  <2>4. QED
        BY <1>4, <2>2, <2>3 DEF C!StartNormal, CP!StartNormal
<1>5. QED
      BY <1>3, <1>4 DEF C!Start, CP!Start

LEMMA SameClusterCalls == C!Call => CP!Call
<1>1. \A lb : C!Matches(lb) = CP!Matches(lb)
      BY DEF C!Matches, CP!Matches
<1>2. \A result :
          /\ C!Answered(result, C!Compare) => CP!Answered(result, CP!Compare)
          /\ C!Answered(result, C!Deleted) => CP!Answered(result, CP!Deleted)
      BY SameRest DEF C!Answered, CP!Answered
<1>3. C!GetLoadBalancer => CP!GetLoadBalancer
  <2>1. C!Failure("missing") = CP!Failure("missing")
        BY DEF C!Failure, CP!Failure
  <2>2. QED
        BY <1>1, <1>2, <2>1 DEF C!GetLoadBalancer, CP!GetLoadBalancer, C!cloudVars,
                                CP!cloudVars, C!k8sVars, CP!k8sVars
<1>4. C!CreateLoadBalancer \/ C!CreateRefused => CP!CreateLoadBalancer \/ CP!CreateRefused
      BY DEF C!CreateLoadBalancer, C!CreateRefused, C!Created, C!CreateWorkload,
             C!cloudVars, C!k8sVars, CP!CreateLoadBalancer, CP!CreateRefused, CP!Created,
             CP!CreateWorkload, CP!cloudVars, CP!k8sVars
<1>5. C!UpdateLoadBalancer \/ C!UpdateMissing => CP!UpdateLoadBalancer \/ CP!UpdateMissing
  <2>1. \A w, s : C!UpdateWorkload(w, C!Sorted(s)) => CP!UpdateWorkload(w, CP!Sorted(s))
        BY SameLists DEF C!UpdateWorkload, CP!UpdateWorkload
  <2>2. C!UpdateMissing => CP!UpdateMissing
        BY <1>1 DEF C!UpdateMissing, CP!UpdateMissing, C!cloudVars, CP!cloudVars,
                    C!k8sVars, CP!k8sVars
  <2>3. C!UpdateLoadBalancer => CP!UpdateLoadBalancer
        BY <1>1, <2>1, SameRest
        DEF C!UpdateLoadBalancer, CP!UpdateLoadBalancer, C!Spend, CP!Spend, C!k8sVars,
            CP!k8sVars
  <2>4. QED
        BY <2>2, <2>3
<1>6. C!DeleteLoadBalancer \/ C!DeleteMissing => CP!DeleteLoadBalancer \/ CP!DeleteMissing
  <2>1. \A status : C!Failure(status) = CP!Failure(status)
        BY DEF C!Failure, CP!Failure
  <2>2. C!DeleteMissing => CP!DeleteMissing
        BY <1>1, <1>2, <2>1 DEF C!DeleteMissing, CP!DeleteMissing, C!cloudVars,
                                CP!cloudVars, C!k8sVars, CP!k8sVars
  <2>3. C!DeleteLoadBalancer => CP!DeleteLoadBalancer
        BY <1>1, <1>2, <2>1
        DEF C!DeleteLoadBalancer, CP!DeleteLoadBalancer, C!DeleteWorkload, C!Exists,
            CP!DeleteWorkload, CP!Exists, C!Spend, CP!Spend, C!k8sVars, CP!k8sVars
  <2>4. QED
        BY <2>2, <2>3
<1>7. C!Close => CP!Close
      BY DEF C!Close, C!Write, C!Parts, C!Patched, C!Settled, C!Gone, C!Fresh, C!Idle,
             C!cloudVars, CP!Close, CP!Write, CP!Parts, CP!Patched, CP!Settled, CP!Gone,
             CP!Fresh, CP!Idle, CP!cloudVars
<1>8. QED
      BY <1>3, <1>4, <1>5, <1>6, <1>7 DEF C!Call, CP!Call

LEMMA SameClusterActions ==
    /\ C!DeleteCluster => CP!DeleteCluster
    /\ C!DeleteCoxCluster => CP!DeleteCoxCluster
    /\ \A w \in Workloads : CloudStep(w) => CP!CloudStep(w)
<1>1. ASSUME NEW w \in Workloads, CloudStep(w)
      PROVE  CP!CloudStep(w)
  <2>1. UNCHANGED MachineAddresses
        BY <1>1 DEF CloudStep, M!CloudStep, M!k8sVars, MachineAddresses
  <2>2. QED
        BY <1>1, <2>1 DEF CloudStep, clusterVars, M!CloudStep, M!Appear, M!Provision,
             M!Boot, M!Vanish, M!Exists, CP!CloudStep, CP!Appear, CP!Provision, CP!Boot,
             CP!Vanish, CP!Exists, CP!k8sVars
<1>2. QED
      BY <1>1 DEF C!DeleteCluster, C!DeleteCoxCluster, C!Settled, C!Gone, C!Fresh,
             C!cloudVars, CP!DeleteCluster, CP!DeleteCoxCluster, CP!Settled, CP!Gone,
             CP!Fresh, CP!cloudVars

-----------------------------------------------------------------------------
(* What each controller does to the environment that they share.           *)

\* A call of the cluster's reconcile creates a load balancer, or deletes one
\* because the Cluster is deleted, and leaves all other workloads alone.
LEMMA ClusterCallsOnOwn ==
    ASSUME MP!CloudTypeOK, CP!Shape, CP!PairInv, C!Call
    PROVE  /\ MP!CloudTypeOK' /\ UNCHANGED clusterDeleting
           /\ \A w \in Workloads :
                \/ /\ wlState'[w] = wlState[w] /\ wlName'[w] = wlName[w]
                   /\ task'[w] = task[w]
                \/ /\ wlState[w] = "unborn" /\ wlState'[w] = "hidden"
                   /\ wlName'[w] \in {Cp, Worker} /\ task'[w] = "PENDING"
                \/ /\ clusterDeleting /\ wlState'[w] = "deleting"
                   /\ wlName[w] \in {Cp, Worker} /\ wlName'[w] = wlName[w]
                   /\ task'[w] = task[w]
<1>1. crec # CP!Idle => CP!JobTyped(crec) /\ CP!Knows
      BY DEF CP!Shape, CP!PairInv
<1>2. CASE C!GetLoadBalancer \/ C!CreateRefused \/ C!UpdateMissing \/ C!DeleteMissing
           \/ C!Close
      BY <1>2 DEF C!GetLoadBalancer, C!CreateRefused, C!UpdateMissing, C!DeleteMissing,
             C!Close, C!Write, C!cloudVars, C!k8sVars, MP!CloudTypeOK
<1>3. CASE C!UpdateLoadBalancer
  <2>1. PICK w \in C!Matches(crec.lb) : \E b : C!UpdateWorkload(w, b)
        BY <1>3 DEF C!UpdateLoadBalancer
  <2>2. vm' \in [Workloads -> MP!VmStates]
        BY <2>1 DEF C!UpdateWorkload, MP!CloudTypeOK, MP!VmStates
  <2>3. UNCHANGED <<wlState, wlName, task, clusterDeleting>>
        BY <1>3, <2>1 DEF C!UpdateLoadBalancer, C!UpdateWorkload, C!k8sVars
  <2>4. QED
        BY <2>2, <2>3 DEF MP!CloudTypeOK
<1>4. CASE C!CreateLoadBalancer
  <2>1. PICK w \in Workloads : C!CreateWorkload(w, crec.lb)
        BY <1>4 DEF C!CreateLoadBalancer
  <2>2. crec.lb \in {Cp, Worker} /\ crec.lb \in Names
        BY <1>1, <1>4, ClusterAssumptions
        DEF C!CreateLoadBalancer, CP!Idle, CP!JobTyped, CP!Lbs
  <2>3. UNCHANGED clusterDeleting
        BY <1>4 DEF C!CreateLoadBalancer, C!k8sVars
  <2>4. MP!CloudTypeOK'
        BY <2>1, <2>2 DEF C!CreateWorkload, MP!CloudTypeOK, MP!WorkloadStates,
                          MP!TaskStates
  <2>5. QED
        BY <2>1, <2>2, <2>3, <2>4 DEF C!CreateWorkload, MP!CloudTypeOK
<1>5. CASE C!DeleteLoadBalancer
  <2>1. PICK w \in C!Matches(crec.lb) : C!DeleteWorkload(w)
        BY <1>5 DEF C!DeleteLoadBalancer
  <2>2. /\ crec.lb \in {Cp, Worker} /\ clusterDeleting /\ UNCHANGED clusterDeleting
        BY <1>1, <1>5 DEF C!DeleteLoadBalancer, C!k8sVars, CP!Idle, CP!JobTyped, CP!Lbs,
                          CP!Knows
  <2>3. w \in Workloads /\ wlName[w] = crec.lb
        BY <2>1 DEF C!Matches
  <2>4. MP!CloudTypeOK'
        BY <2>1 DEF C!DeleteWorkload, MP!CloudTypeOK, MP!WorkloadStates
  <2>5. QED
        BY <2>1, <2>2, <2>3, <2>4 DEF C!DeleteWorkload, MP!CloudTypeOK
<1>6. QED
      BY <1>2, <1>3, <1>4, <1>5 DEF C!Call

-----------------------------------------------------------------------------
(* The invariant of the two together.                                      *)

ProviderInv == MP!BestInv /\ CP!Shape /\ CP!PairInv /\ TogetherInv

\* The faults and the copies of the cache that this module leaves out.
LEMMA LeftOut ==
    /\ UNCHANGED NoFaults({"crash", "api", "lost", "patch", "cli", "die", "fail"})
    /\ UNCHANGED NoFaults({"crash", "api", "lost", "patch", "cli", "fail"})
    /\ UNCHANGED <<[m \in Machines |-> NoCopy], [w \in Workloads |-> "absent"]>>
OBVIOUS

LEMMA MachineStep ==
    ASSUME Apart, MP!BestInv, MP!Next
    PROVE  MP!BestInv'
BY MachineAssumptions, AtTheirBest, MP!BestStep

\* What the environment is, from both sides.
LEMMA Environment ==
    ASSUME ProviderInv
    PROVE  /\ MP!CloudTypeOK
           /\ wlState \in [Workloads -> CP!WorkloadStates]
           /\ wlName \in [Workloads -> Names \cup {None}]
           /\ \A w \in Workloads :
                 /\ wlState[w] = "unborn" => wlName[w] = None
                 /\ wlState[w] = "hidden" => task[w] # "SUCCESS"
           /\ None \notin {ApiName[m] : m \in Machines} \cup {Cp, Worker}
BY ProviderAssumption
DEF ProviderInv, MP!BestInv, MP!TypeOK, MP!CloudTypeOK, MP!OwnInv, MP!ReleaseInv,
    CP!Shape

\* A call of a machine's reconcile.
LEMMA TogetherMachineCall ==
    ASSUME Apart, ProviderInv, MachineCall
    PROVE  ProviderInv'
<1>1. (MP!Call \/ MP!CallFails) /\ UNCHANGED <<cox, clusterDeleting, crec>>
      BY SameCalls DEF MachineCall, clusterVars
<1>2. MP!BestInv /\ CP!Shape /\ CP!PairInv /\ TogetherInv
      BY DEF ProviderInv
<1>3. MP!BestInv'
      BY <1>1, <1>2, MachineStep DEF MP!Next
<1>4. \A w \in Workloads :
          \/ wlState'[w] = wlState[w] /\ wlName'[w] = wlName[w]
          \/ /\ mrec.at = "create" /\ mrec # MP!Idle /\ mrec.m \in Machines
             /\ ~mrec.old.deleting
             /\ wlName[w] = None /\ wlName'[w] = ApiName[mrec.m]
          \/ /\ wlName'[w] = wlName[w]
             /\ \E m \in Machines : wlName[w] = ApiName[m]
      BY <1>1, <1>2, MachineAssumptions, MP!CallsOnOwn
<1>5. /\ UNCHANGED <<bootstrap, infraReady>>
      /\ \/ mrec' = MP!Idle
         \/ /\ mrec # MP!Idle /\ mrec.at # "close"
            /\ mrec'.m = mrec.m /\ mrec'.old = mrec.old
      BY <1>1, <1>2, MachineAssumptions, MP!CallsGoOn
<1>6. CP!ForeignStep
  <2>1. /\ wlState' \in [Workloads -> CP!WorkloadStates]
        /\ wlName' \in [Workloads -> Names \cup {None}]
        /\ \A w \in Workloads : wlState'[w] = "unborn" => wlName'[w] = None
        BY <1>3 DEF MP!BestInv, MP!TypeOK, MP!CloudTypeOK, MP!OwnInv, MP!WorkloadStates,
                    CP!WorkloadStates
  <2>2. \A w \in Workloads :
            /\ \A lb \in {Cp, Worker} : wlName'[w] = lb <=> wlName[w] = lb
            /\ wlName[w] \in {Cp, Worker} => wlState'[w] = wlState[w]
        BY <1>4, Environment DEF Apart
  <2>3. QED
        BY <1>1, <2>1, <2>2, LeftOut DEF CP!ForeignStep, CP!Lbs, CP!Ours
<1>7. CP!Shape' /\ CP!PairInv'
      BY <1>2, <1>6, ClusterAssumptions, CP!PairBeside
<1>8. TogetherInv'
  <2>1. mrec # MP!Idle /\ ~mrec.old.deleting /\ mrec.at # "close" => bootstrap[mrec.m]
        BY <1>2 DEF TogetherInv, M!Idle, MP!Idle
  <2>2. \A w \in Workloads :
            \/ wlState'[w] = "unborn"
            \/ wlName'[w] \in {ApiName[m] : m \in Machines} \cup {Cp, Worker}
        BY <1>2, <1>4 DEF TogetherInv
  <2>3. \A m \in Machines, w \in Workloads : wlName'[w] = ApiName[m] => bootstrap[m]
        BY <1>2, <1>4, <2>1 DEF TogetherInv, Apart
  <2>4. mrec' # M!Idle /\ ~mrec'.old.deleting /\ mrec'.at # "close" => bootstrap[mrec'.m]
        BY <1>5, <2>1 DEF M!Idle, MP!Idle
  <2>5. \A w \in Workloads :
            wlName'[w] \in {Cp, Worker} =>
                wlName[w] = wlName'[w] /\ wlState'[w] = wlState[w]
        BY <1>4, Environment DEF Apart
  <2>6. QED
        BY <1>1, <1>2, <1>5, <2>2, <2>3, <2>4, <2>5 DEF TogetherInv, M!Live
<1>9. QED
      BY <1>3, <1>7, <1>8 DEF ProviderInv

\* A call of the cluster's reconcile.
LEMMA TogetherClusterCall ==
    ASSUME Apart, ProviderInv, ClusterCall
    PROVE  ProviderInv'
<1>1. C!Call /\ UNCHANGED <<obj, infraReady, bootstrap, mrec>>
      BY DEF ClusterCall, machineVars
<1>2. MP!BestInv /\ CP!Shape /\ CP!PairInv /\ TogetherInv
      BY DEF ProviderInv
<1>3. CP!Calls
      BY <1>1, <1>2, SameClusterCalls, ClusterAssumptions, CP!CallsOf
<1>4. CP!Shape' /\ CP!PairInv'
      BY <1>2, <1>3, ClusterAssumptions, CP!PairCalls
<1>5. /\ MP!CloudTypeOK' /\ UNCHANGED clusterDeleting
      /\ \A w \in Workloads :
            \/ /\ wlState'[w] = wlState[w] /\ wlName'[w] = wlName[w]
               /\ task'[w] = task[w]
            \/ /\ wlState[w] = "unborn" /\ wlState'[w] = "hidden"
               /\ wlName'[w] \in {Cp, Worker} /\ task'[w] = "PENDING"
            \/ /\ clusterDeleting /\ wlState'[w] = "deleting"
               /\ wlName[w] \in {Cp, Worker} /\ wlName'[w] = wlName[w]
               /\ task'[w] = task[w]
      BY <1>1, <1>2, Environment, ClusterCallsOnOwn
<1>6. MP!ForeignStep
  <2>1. \A w \in Workloads :
            /\ wlState'[w] = "unborn" => wlName'[w] = None
            /\ wlState'[w] = "hidden" => task'[w] # "SUCCESS"
        BY <1>5, Environment
  <2>2. \A w \in Workloads, m \in Machines :
            /\ wlName'[w] = ApiName[m] <=> wlName[w] = ApiName[m]
            /\ wlName[w] = ApiName[m] => wlState'[w] = wlState[w] /\ task'[w] = task[w]
        BY <1>5, Environment DEF Apart
  <2>3. QED
        BY <1>1, <1>5, <2>1, <2>2, LeftOut DEF MP!ForeignStep
<1>7. MP!BestInv'
      BY <1>2, <1>6, MachineAssumptions, MP!BestBeside
<1>8. TogetherInv'
  <2>1. \A w \in Workloads :
            /\ \/ wlState'[w] = "unborn"
               \/ wlName'[w] \in {ApiName[m] : m \in Machines} \cup {Cp, Worker}
            /\ \A m \in Machines : wlName'[w] = ApiName[m] => bootstrap[m]
        BY <1>2, <1>5 DEF TogetherInv, Apart
  <2>2. ASSUME ~clusterDeleting
        PROVE  /\ \A m \in Machines : bootstrap[m] => cox'.endpoint # None
               /\ \A w \in Workloads : wlName'[w] \in {Cp, Worker} => M!Live(w)'
    <3>1. cox.endpoint # None => cox'.endpoint # None
          BY <1>2, <1>3, <2>2, ClusterAssumptions, CP!EndpointLasts
    <3>2. QED
          BY <1>2, <1>5, <2>2, <3>1 DEF TogetherInv, M!Live
  <2>3. QED
        BY <1>1, <1>2, <1>5, <2>1, <2>2 DEF TogetherInv, M!Idle
<1>9. QED
      BY <1>4, <1>7, <1>8 DEF ProviderInv

\* One starts to reconcile a machine: only with bootstrap data does it look for
\* a workload.
LEMMA TogetherStartMachine ==
    ASSUME Apart, ProviderInv, NEW m \in Machines, StartMachine(m)
    PROVE  ProviderInv'
<1>1. MP!Start(m) /\ UNCHANGED <<cox, clusterDeleting, crec>>
      BY SameMachineActions DEF StartMachine, clusterVars
<1>2. MP!BestInv /\ CP!Shape /\ CP!PairInv /\ TogetherInv
      BY DEF ProviderInv
<1>3. MP!BestInv'
      BY <1>1, <1>2, MachineStep DEF MP!Next
<1>4. /\ UNCHANGED <<wlState, wlName, task, vm, bootstrap, infraReady, obj>>
      /\ mrec'.m = m
      /\ ~mrec'.old.deleting /\ mrec'.at # "close" => bootstrap[m]
      BY <1>1, <1>2, MachineAssumptions, MP!StartsBooted
<1>5. CP!ForeignStep
      BY <1>1, <1>4, Environment, LeftOut DEF CP!ForeignStep
<1>6. CP!Shape' /\ CP!PairInv'
      BY <1>2, <1>5, ClusterAssumptions, CP!PairBeside
<1>7. TogetherInv'
      BY <1>1, <1>2, <1>4 DEF TogetherInv, M!Live
<1>8. QED
      BY <1>3, <1>6, <1>7 DEF ProviderInv

LEMMA TogetherStartCluster ==
    ASSUME Apart, ProviderInv, StartCluster
    PROVE  ProviderInv'
<1>1. C!Start /\ UNCHANGED <<obj, infraReady, bootstrap, mrec>>
      BY DEF StartCluster, machineVars
<1>2. MP!BestInv /\ CP!Shape /\ CP!PairInv /\ TogetherInv
      BY DEF ProviderInv
<1>3. CP!Begins
      BY <1>1, SameClusterStart, ClusterAssumptions, CP!StartBegins
<1>4. CP!Shape' /\ CP!PairInv'
      BY <1>2, <1>3, ClusterAssumptions, AtTheirBest, CP!PairStart
<1>5. UNCHANGED <<wlState, wlName, task, vm, cox, clusterDeleting>>
      BY <1>3 DEF CP!Begins, CP!Begin, CP!cloudVars, CP!k8sVars
<1>6. MP!ForeignStep
      BY <1>1, <1>5, Environment, LeftOut DEF MP!ForeignStep, MP!CloudTypeOK
<1>7. MP!BestInv'
      BY <1>2, <1>6, MachineAssumptions, MP!BestBeside
<1>8. TogetherInv'
      BY <1>1, <1>2, <1>5 DEF TogetherInv, M!Live
<1>9. QED
      BY <1>4, <1>7, <1>8 DEF ProviderInv

\* Cluster API and the users act on the machines: bootstrap data come after the
\* endpoint.
LEMMA TogetherMachineOthers ==
    ASSUME Apart, ProviderInv,
           \/ InfrastructureReady
           \/ \E m \in Machines : BootstrapReady(m) \/ DeleteMachine(m)
    PROVE  ProviderInv'
<1>1. MP!BestInv /\ CP!Shape /\ CP!PairInv /\ TogetherInv
      BY DEF ProviderInv
<1>2. /\ \/ MP!InfrastructureReady
         \/ \E m \in Machines : MP!BootstrapReady(m) \/ MP!RequestDeletion(m)
      /\ UNCHANGED <<wlState, wlName, mrec, cox, clusterDeleting, crec>>
      BY SameMachineActions
      DEF InfrastructureReady, BootstrapReady, DeleteMachine, clusterVars,
          M!InfrastructureReady, M!BootstrapReady, M!RequestDeletion, M!cloudVars
<1>3. MP!BestInv'
      BY <1>1, <1>2, MachineStep DEF MP!Next
<1>4. CP!ForeignStep
      BY <1>2, Environment, LeftOut DEF CP!ForeignStep
<1>5. CP!Shape' /\ CP!PairInv'
      BY <1>1, <1>4, ClusterAssumptions, CP!PairBeside
<1>6. /\ \A m \in Machines : bootstrap[m] => bootstrap'[m]
      /\ cox.endpoint = None => \A m \in Machines : bootstrap'[m] => bootstrap[m]
  <2>1. CASE UNCHANGED bootstrap
        BY <2>1
  <2>2. ASSUME NEW m \in Machines, BootstrapReady(m)
        PROVE  /\ bootstrap' = [bootstrap EXCEPT ![m] = TRUE] /\ cox.endpoint # None
               /\ bootstrap \in [Machines -> BOOLEAN]
        BY <1>1, <2>2 DEF BootstrapReady, M!BootstrapReady, MP!BestInv, MP!TypeOK
  <2>3. UNCHANGED bootstrap \/ \E m \in Machines : BootstrapReady(m)
        BY DEF InfrastructureReady, DeleteMachine, M!InfrastructureReady,
               M!RequestDeletion
  <2>4. QED
        BY <2>1, <2>2, <2>3
<1>7. mrec # M!Idle /\ ~mrec.old.deleting /\ mrec.at # "close" => bootstrap'[mrec.m]
      BY <1>1, <1>6, MachineAssumptions
      DEF TogetherInv, MP!BestInv, MP!TypeOK, MP!Job, M!Idle, MP!Idle
<1>8. TogetherInv'
      BY <1>1, <1>2, <1>6, <1>7 DEF TogetherInv, M!Live, M!Idle
<1>9. QED
      BY <1>3, <1>5, <1>8 DEF ProviderInv

\* Cluster API and the users act on the Cluster and its CoxCluster.
LEMMA TogetherClusterOthers ==
    ASSUME Apart, ProviderInv, DeleteCluster \/ DeleteCoxCluster \/ DeleteCoxClusterByHand
    PROVE  ProviderInv'
<1>1. MP!BestInv /\ CP!Shape /\ CP!PairInv /\ TogetherInv
      BY DEF ProviderInv
<1>2. /\ UNCHANGED <<wlState, wlName, task, vm, obj, infraReady, bootstrap, mrec, crec>>
      /\ clusterDeleting => clusterDeleting'
      /\ ~clusterDeleting' => cox'.endpoint = cox.endpoint
  <2>1. cox \in CP!Object
        BY <1>1 DEF CP!Shape
  <2>2. QED
        BY <2>1
        DEF DeleteCluster, DeleteCoxCluster, DeleteCoxClusterByHand, C!DeleteCluster,
            C!DeleteCoxCluster, machineVars, cloudVars, C!cloudVars, CP!Object
<1>3. CP!Shape' /\ CP!PairInv'
  <2>1. CASE DeleteCluster \/ DeleteCoxCluster
        BY <1>1, <2>1, ClusterAssumptions, AtTheirBest, SameClusterActions, CP!PairStep
        DEF DeleteCluster, DeleteCoxCluster, CP!Next
  <2>2. CASE DeleteCoxClusterByHand
        BY <1>1, <2>2, ClusterAssumptions, LeftOut, CP!PairMarked
        DEF DeleteCoxClusterByHand, cloudVars
  <2>3. QED
        BY <2>1, <2>2
<1>4. MP!ForeignStep
      BY <1>2, Environment, LeftOut DEF MP!ForeignStep, MP!CloudTypeOK
<1>5. MP!BestInv'
      BY <1>1, <1>4, MachineAssumptions, MP!BestBeside
<1>6. TogetherInv'
      BY <1>1, <1>2 DEF TogetherInv, M!Live
<1>7. QED
      BY <1>3, <1>5, <1>6 DEF ProviderInv

\* The service gets on with what was accepted.
LEMMA TogetherService ==
    ASSUME Apart, ProviderInv, NEW w \in Workloads, CloudStep(w)
    PROVE  ProviderInv'
<1>1. MP!BestInv /\ CP!Shape /\ CP!PairInv /\ TogetherInv
      BY DEF ProviderInv
<1>2. MP!CloudStep(w) /\ CP!CloudStep(w)
      BY SameMachineActions, SameClusterActions DEF CloudStep
<1>3. MP!BestInv' /\ CP!Shape' /\ CP!PairInv'
      BY <1>1, <1>2, MachineStep, ClusterAssumptions, AtTheirBest, CP!PairStep
      DEF MP!Next, CP!Next
<1>4. /\ UNCHANGED <<wlName, bootstrap, mrec, cox, clusterDeleting>>
      /\ \A v \in Workloads :
            /\ wlState[v] = "unborn" => wlState'[v] = "unborn"
            /\ M!Live(v) => M!Live(v)'
      BY <1>2, Environment
      DEF CP!CloudStep, CP!Appear, CP!Provision, CP!Boot, CP!Vanish, CP!k8sVars,
          MP!CloudStep, MP!k8sVars, M!Live
<1>5. TogetherInv'
      BY <1>1, <1>4 DEF TogetherInv, M!Live, M!Idle
<1>6. QED
      BY <1>3, <1>5 DEF ProviderInv

LEMMA TogetherNothing ==
    ASSUME ProviderInv, UNCHANGED vars
    PROVE  ProviderInv'
<1>1. MP!BestInv /\ CP!Shape /\ CP!PairInv /\ TogetherInv
      BY DEF ProviderInv
<1>2. UNCHANGED <<wlState, wlName, task, vm, obj, infraReady, bootstrap, mrec, cox,
                  clusterDeleting, backends, crec>>
      BY DEF vars, cloudVars, machineVars, clusterVars
<1>3. MP!ForeignStep /\ CP!ForeignStep
      BY <1>2, Environment, LeftOut DEF MP!ForeignStep, CP!ForeignStep, MP!CloudTypeOK
<1>4. MP!BestInv' /\ CP!Shape' /\ CP!PairInv'
      BY <1>1, <1>3, MachineAssumptions, MP!BestBeside, ClusterAssumptions, CP!PairBeside
<1>5. TogetherInv'
      BY <1>1, <1>2 DEF TogetherInv, M!Live
<1>6. QED
      BY <1>4, <1>5 DEF ProviderInv

LEMMA TogetherInit ==
    ASSUME Apart, Init
    PROVE  ProviderInv
<1>1. MP!BestInv
      BY SameMachineInit, MachineAssumptions, AtTheirBest, MP!BestInit
<1>2. TogetherInv
      BY ProviderAssumption DEF Init, M!CloudInit, TogetherInv
<1>3. QED
      BY <1>1, <1>2, SameClusterInit DEF ProviderInv

-----------------------------------------------------------------------------

\* Each controller is right about what is its own although the other works in the
\* same environment, in every order of their calls (coxmachine_controller.go and
\* coxcluster_controller.go look for workloads by name only), and what Cluster API
\* does in between keeps the machines behind the endpoint.
THEOREM TogetherCorrect ==
    ASSUME Apart
    PROVE  Spec => []ProviderInv
<1>1. Init => ProviderInv
      BY TogetherInit
<1>2. ProviderInv /\ [Next]_vars => ProviderInv'
      BY TogetherMachineCall, TogetherClusterCall, TogetherStartMachine,
         TogetherStartCluster, TogetherMachineOthers, TogetherClusterOthers,
         TogetherService, TogetherNothing
      DEF Next, ClusterApi, Service, Users
<1>3. QED
      BY <1>1, <1>2, PTL DEF Spec

\* Whatever the order in which users and Cluster API delete the objects, no
\* workload is left running without the object whose finalizer is to delete it
\* (coxmachine_controller.go:221-241, coxcluster_controller.go:400-438).
THEOREM NothingUnownedCorrect ==
    ASSUME Apart
    PROVE  Spec => []NothingUnowned
<1>1. ASSUME ProviderInv, NEW w \in Workloads, M!Live(w)
      PROVE  \/ \E m \in Machines : obj[m].exists /\ wlName[w] = ApiName[m]
             \/ cox.exists /\ wlName[w] \in {Cp, Worker}
  <2>1. wlName[w] \in {ApiName[m] : m \in Machines} \cup {Cp, Worker}
        BY <1>1 DEF ProviderInv, TogetherInv, M!Live
  <2>2. ASSUME NEW m \in Machines, wlName[w] = ApiName[m]
        PROVE  obj[m].exists
        BY <1>1, <2>2
        DEF ProviderInv, MP!BestInv, MP!SoleInv, MP!Named, MP!Live, M!Live
  <2>3. ASSUME wlName[w] \in {Cp, Worker}
        PROVE  cox.exists
        BY <1>1, <2>3
        DEF ProviderInv, CP!PairInv, CP!Gone, CP!Fresh, CP!Ended, CP!NoneLive, CP!Ours,
            CP!Lbs, CP!Live, M!Live
  <2>4. QED
        BY <2>1, <2>2, <2>3
<1>2. ProviderInv => NothingUnowned
      BY <1>1 DEF NothingUnowned
<1>3. QED
      BY <1>2, TogetherCorrect, PTL

\* A machine boots with the endpoint as part of its bootstrap data
\* (coxmachine_controller.go:196-204): until the Cluster is deleted, there is a
\* load balancer alive that answers there, whoever deletes other objects.
THEOREM EndpointKeptCorrect ==
    ASSUME Apart
    PROVE  Spec => []EndpointKept
<1>1. ASSUME ProviderInv, NEW m \in Machines, NEW w \in Workloads,
             wlName[w] = ApiName[m], ~clusterDeleting
      PROVE  cox.endpoint # None /\ M!Live(cox.endpoint)
  <2>1. cox.endpoint # None
        BY <1>1 DEF ProviderInv, TogetherInv
  <2>2. cox.endpoint \in Workloads /\ wlName[cox.endpoint] = Cp
        BY <1>1, <2>1
        DEF ProviderInv, CP!Shape, CP!Object, CP!Ref, CP!PairInv, CP!IsControlPlane
  <2>3. QED
        BY <1>1, <2>1, <2>2 DEF ProviderInv, TogetherInv
<1>2. ProviderInv => EndpointKept
      BY <1>1 DEF EndpointKept
<1>3. QED
      BY <1>2, TogetherCorrect, PTL

-----------------------------------------------------------------------------
(* The types of the two together, which do not depend on names, and so not *)
(* on ProviderInv.                                                         *)

\* The types of what the cluster's controller alone writes.
ClusterTyped ==
    /\ cox \in CP!Object /\ clusterDeleting \in BOOLEAN
    /\ backends \in [Workloads -> CP!Backends]
    /\ crec \in CP!Job \cup {CP!Idle}

\* With those of the machines they are all its types: the addresses that it reads
\* are in the machines' objects.
LEMMA ClusterTypes ==
    ASSUME MP!TypeOK
    PROVE  CP!TypeInv <=> ClusterTyped
<1>1. CP!CloudTypeOK
      BY DEF MP!TypeOK, MP!CloudTypeOK, CP!CloudTypeOK, MP!WorkloadStates, MP!TaskStates,
             MP!VmStates, CP!WorkloadStates, CP!TaskStates, CP!VmStates
<1>2. \A m \in Machines : obj[m].addr \in Workloads \cup {None}
      BY DEF MP!TypeOK, MP!Object, MP!Ref
<1>3. MachineAddresses \in [CP!Lbs -> SUBSET Workloads]
      BY <1>2 DEF MachineAddresses, CP!Lbs
<1>4. CP!AddrsTyped
      BY <1>3 DEF CP!AddrsTyped, CP!Addresses, CP!Lbs
<1>5. NoFaults({"crash", "api", "lost", "patch", "cli", "fail"}) \in [CP!FaultKinds -> Nat]
      BY ClusterAssumptions
<1>6. QED
      BY <1>1, <1>4, <1>5 DEF CP!TypeInv, CP!TypeOK, CP!AddrsTyped, ClusterTyped

TypedInv == MP!TypeOK /\ ClusterTyped

\* The service has a quota.
LEMMA FewWorkloads ==
    ASSUME IsFiniteSet(Workloads)
    PROVE  CP!FewAddresses
BY DEF CP!FewAddresses, CP!IsFiniteSet, IsFiniteSet, CP!Lbs

LEMMA TypedInit ==
    ASSUME Init
    PROVE  TypedInv
<1>1. MP!TypeOK
      BY SameMachineInit, MachineAssumptions, MP!TypeInit
<1>2. ClusterTyped
  <2>1. <<>> \in CP!Backends
        BY ClusterAssumptions, CP!NoBackends
  <2>2. QED
        BY <2>1 DEF Init, ClusterTyped, C!Fresh, C!Idle, CP!Idle, CP!Object, CP!Ref
<1>3. QED
      BY <1>1, <1>2 DEF TypedInv

\* The machines' controller, Cluster API and the users on machines, the service.
LEMMA TypedMachines ==
    ASSUME TypedInv,
           \/ MachineCall \/ InfrastructureReady \/ Service
           \/ \E m \in Machines : StartMachine(m) \/ BootstrapReady(m) \/ DeleteMachine(m)
    PROVE  TypedInv'
<1>1. MP!Next /\ UNCHANGED clusterVars
      BY SameCalls, SameMachineActions
      DEF MachineCall, InfrastructureReady, Service, StartMachine, BootstrapReady,
          DeleteMachine, CloudStep, MP!Next
<1>2. MP!TypeOK'
      BY <1>1, MachineAssumptions, MP!TypeStep DEF TypedInv
<1>3. QED
      BY <1>1, <1>2 DEF TypedInv, ClusterTyped, clusterVars

\* The machines keep their types beside a step that keeps those of the service.
LEMMA MachinesBeside ==
    ASSUME MP!TypeOK, CP!CloudTypeOK', UNCHANGED machineVars
    PROVE  MP!TypeOK'
BY LeftOut
DEF MP!TypeOK, MP!CloudTypeOK, CP!CloudTypeOK, MP!WorkloadStates, MP!TaskStates,
    MP!VmStates, CP!WorkloadStates, CP!TaskStates, CP!VmStates, machineVars

LEMMA TypedCluster ==
    ASSUME IsFiniteSet(Workloads), TypedInv, StartCluster \/ ClusterCall
    PROVE  TypedInv'
<1>1. CP!FewAddresses /\ CP!TypeInv
      BY FewWorkloads, ClusterTypes DEF TypedInv
<1>2. CP!Next /\ UNCHANGED machineVars
      BY SameClusterStart, SameClusterCalls DEF StartCluster, ClusterCall, CP!Next
<1>3. CP!TypeInv'
      BY <1>1, <1>2, ClusterAssumptions, CP!TypeStep
<1>4. MP!TypeOK'
      BY <1>2, <1>3, MachinesBeside DEF TypedInv, CP!TypeInv, CP!TypeOK
<1>5. ClusterTyped'
      BY <1>3 DEF CP!TypeInv, CP!TypeOK, ClusterTyped
<1>6. QED
      BY <1>4, <1>5 DEF TypedInv

\* Cluster API and the users on the Cluster and its CoxCluster.
LEMMA TypedClusterOthers ==
    ASSUME TypedInv, DeleteCluster \/ DeleteCoxCluster \/ DeleteCoxClusterByHand
    PROVE  TypedInv'
<1>1. /\ UNCHANGED <<cloudVars, machineVars, backends, crec>>
      /\ clusterDeleting' \in BOOLEAN
      BY DEF DeleteCluster, DeleteCoxCluster, DeleteCoxClusterByHand, C!DeleteCluster,
             C!DeleteCoxCluster, C!cloudVars, cloudVars, TypedInv, ClusterTyped
<1>2. MP!TypeOK'
      BY <1>1, LeftOut
      DEF TypedInv, MP!TypeOK, MP!CloudTypeOK, cloudVars, machineVars
<1>3. cox' \in CP!Object
  <2>1. cox \in CP!Object
        BY DEF TypedInv, ClusterTyped
  <2>2. [cox EXCEPT !.deleting = TRUE] \in CP!Object
        BY <2>1 DEF CP!Object
  <2>3. C!Gone \in CP!Object
        BY DEF C!Gone, C!Fresh, CP!Object, CP!Ref
  <2>4. QED
        BY <2>1, <2>2, <2>3
        DEF DeleteCluster, DeleteCoxCluster, DeleteCoxClusterByHand, C!DeleteCluster,
            C!DeleteCoxCluster, C!Settled
<1>4. QED
      BY <1>1, <1>2, <1>3 DEF TypedInv, ClusterTyped

LEMMA TypedNothing ==
    ASSUME TypedInv, UNCHANGED vars
    PROVE  TypedInv'
BY LeftOut
DEF TypedInv, ClusterTyped, MP!TypeOK, MP!CloudTypeOK, vars, cloudVars, machineVars,
    clusterVars

\* The addresses that the machines' controller reports are what the cluster's
\* controller may put behind a load balancer, and the two never leave each other a
\* state of another type, for any names and order of calls; the service has a quota.
THEOREM ProviderTypeCorrect ==
    ASSUME IsFiniteSet(Workloads)
    PROVE  Spec => []TypeOK
<1>1. Init => TypedInv
      BY TypedInit
<1>2. TypedInv /\ [Next]_vars => TypedInv'
      BY TypedMachines, TypedCluster, TypedClusterOthers, TypedNothing
      DEF Next, ClusterApi, Users
<1>3. ASSUME TypedInv
      PROVE  TypeOK
  <2>1. M!CloudTypeOK
        BY <1>3 DEF TypedInv, MP!TypeOK, MP!CloudTypeOK, M!CloudTypeOK, MP!WorkloadStates,
             MP!TaskStates, MP!VmStates, M!WorkloadStates, M!TaskStates, M!VmStates
  <2>2. /\ obj \in [Machines -> M!Object] /\ mrec \in M!Job \cup {M!Idle}
        /\ infraReady \in BOOLEAN
        BY <1>3 DEF TypedInv, MP!TypeOK, MP!Object, MP!Job, MP!Idle, MP!Phases, MP!Ref,
             M!Object, M!Job, M!Idle, M!Phases, M!Ref
  <2>3. /\ C!Object = CP!Object /\ C!Idle = CP!Idle /\ C!Job = CP!Job
        BY SameLists DEF C!Object, CP!Object, C!Idle, CP!Idle, C!Job, CP!Job, C!Phases,
             CP!Phases, C!Lbs, CP!Lbs, C!Result, CP!Result, C!Ref, CP!Ref
  <2>4. QED
        BY <1>3, <2>1, <2>2, <2>3, SameLists DEF TypedInv, ClusterTyped, TypeOK
<1>4. QED
      BY <1>1, <1>2, <1>3, PTL DEF Spec

=============================================================================
