------------------------ MODULE CoxClusterTypeProofs ------------------------
(***************************************************************************)
(* The types of CoxCluster, and what depends on the lists of backends: a   *)
(* load balancer is restarted only for other backends.  The theorems are   *)
(* for any quota, any finite sets of addresses and any number of faults.   *)
(***************************************************************************)
EXTENDS CoxClusterContractProofs, FiniteSetTheorems

-----------------------------------------------------------------------------
(* Sorting: what Sorted picks exists.  Induction over the size of a set is *)
(* replaced by a smallest counterexample, of which the well-founded order  *)
(* on finite sets has one.                                                 *)

\* In a family of finite sets one has no smaller one below it.
Family(S, F) == IsFiniteSet(S) /\ F \subseteq SUBSET S /\ F # {}
Smallest(F, X) == X \in F /\ \A Y \in F : Y \subseteq X => Y = X

LEMMA SmallestSet ==
    ASSUME NEW S, NEW F, Family(S, F)
    PROVE  \E X : Smallest(F, X)
<1>1. IsFiniteSet(S) /\ F \subseteq SUBSET S /\ F # {}
      BY DEF Family
<1>2. FiniteSubsetsOf(S) = SUBSET S
      BY <1>1, FS_FiniteSubsetsOfFinite
<1>3. IsWellFoundedOn(StrictSubsetOrdering(S), SUBSET S)
      BY <1>2, FS_StrictSubsetOrderingWellFounded
<1>4. PICK X \in F : \A Y \in F : ~(<<Y, X>> \in StrictSubsetOrdering(S))
      BY <1>1, <1>3, WFMin
<1>5. QED
      BY <1>1, <1>4 DEF StrictSubsetOrdering, Smallest

\* A finite set of numbers has a least one.
LEMMA LeastNumber ==
    ASSUME NEW S, S \subseteq Nat, IsFiniteSet(S), S # {}
    PROVE  \E m \in S : \A n \in S : m <= n
<1> DEFINE below(n) == {k \in S : k <= n}
           F == {below(n) : n \in S}
<1>1. Family(S, F)
      BY DEF Family
<1>2. PICK X : Smallest(F, X)
  <2> HIDE DEF F
  <2>1. QED
        BY <1>1, SmallestSet
<1>3. PICK m \in S : X = below(m)
      BY <1>2 DEF Smallest
<1>4. ASSUME NEW n \in S, ~(m <= n)
      PROVE  FALSE
  <2>1. \A k \in S : k <= n => k <= m
        BY <1>4
  <2>2. m \in below(m) /\ m \notin below(n)
        BY <1>4
  <2>3. below(n) \subseteq below(m)
        BY <2>1
  <2>4. QED
        BY <1>2, <1>3, <2>2, <2>3, below(n) \in F DEF Smallest
<1>5. QED
      BY <1>4

\* The least number before the ascending rest.
LEMMA Prepended ==
    ASSUME NEW S \in SUBSET Nat, IsFiniteSet(S), NEW m \in S, \A n \in S : m <= n,
           NEW t \in SetToSeqs(S \ {m}), Ascending(t)
    PROVE  \E u \in SetToSeqs(S) : Ascending(u)
<1> DEFINE N == Cardinality(S)
           u == [i \in 1..N |-> IF i = 1 THEN m ELSE t[i - 1]]
<1>1. N \in Nat /\ Cardinality(S \ {m}) = N - 1 /\ N # 0
      BY FS_CardinalityType, FS_RemoveElement, FS_EmptySet
<1> HIDE DEF N
<1>2. t \in [1..(N - 1) -> S \ {m}] /\ \A i, j \in 1..(N - 1) : i # j => t[i] # t[j]
      BY <1>1 DEF SetToSeqs
<1>3. \A i \in 1..N : i = 1 \/ i - 1 \in 1..(N - 1)
      BY <1>1
<1>4. u \in [1..N -> S]
      BY <1>2, <1>3
<1>5. ASSUME NEW i \in 1..N, NEW j \in 1..N, i < j
      PROVE  u[i] < u[j]
  <2>1. j # 1 /\ j - 1 \in 1..(N - 1)
        BY <1>1, <1>3, <1>5
  <2>2. u[j] = t[j - 1] /\ t[j - 1] \in S \ {m}
        BY <1>2, <2>1
  <2>3. CASE i = 1
    <3>1. u[i] = m
          BY <2>3
    <3>2. m \in Nat /\ t[j - 1] \in Nat /\ m <= t[j - 1] /\ t[j - 1] # m
          BY <2>2
    <3> HIDE DEF u
    <3>3. QED
          BY <2>2, <3>1, <3>2
  <2>4. CASE i # 1
    <3>1. i - 1 \in 1..(N - 1) /\ u[i] = t[i - 1] /\ i - 1 < j - 1
          BY <1>1, <1>5, <2>4
    <3>2. \A k, l \in 1..(N - 1) : k < l => t[k] < t[l]
          BY <1>2 DEF Ascending
    <3>3. t[i - 1] < t[j - 1]
          BY <2>1, <3>1, <3>2
    <3>4. QED
          BY <2>2, <3>1, <3>3
  <2>5. QED
        BY <2>3, <2>4
<1>6. DOMAIN u = 1..N /\ \A i \in 1..N : u[i] \in Nat
      BY <1>4
<1> HIDE DEF u
<1>7. Ascending(u)
      BY <1>5, <1>6 DEF Ascending
<1>8. \A i, j \in 1..N : i # j => u[i] # u[j]
      BY <1>1, <1>5, <1>6
<1>9. u \in SetToSeqs(S)
      BY <1>4, <1>8 DEF SetToSeqs, N
<1>10. QED
      BY <1>7, <1>9

\* Every finite set of numbers can be listed in ascending order.
LEMMA CanBeSorted ==
    ASSUME NEW S \in SUBSET Nat, IsFiniteSet(S)
    PROVE  \E t \in SetToSeqs(S) : Ascending(t)
<1> DEFINE sortable(X) == \E t \in SetToSeqs(X) : Ascending(t)
           F == {X \in SUBSET S : ~sortable(X)}
<1>1. SUFFICES ASSUME F # {} PROVE FALSE
      OBVIOUS
<1>2. PICK X : Smallest(F, X)
  <2>1. Family(S, F)
        BY <1>1 DEF Family
  <2> HIDE DEF F
  <2>2. QED
        BY <2>1, SmallestSet
<1>3. X \in F /\ X \in SUBSET S /\ X \in SUBSET Nat /\ IsFiniteSet(X)
      BY <1>2, FS_Subset DEF Smallest
<1>4. CASE X = {}
  <2>1. Cardinality(X) = 0
        BY <1>4, FS_EmptySet
  <2>2. <<>> \in SetToSeqs(X)
        BY <2>1 DEF SetToSeqs
  <2>3. Ascending(<<>>)
        BY DEF Ascending
  <2>4. QED
        BY <1>3, <2>2, <2>3
<1>5. CASE X # {}
  <2>1. PICK m \in X : \A n \in X : m <= n
        BY <1>3, <1>5, LeastNumber
  <2>2. X \ {m} \notin F
        BY <1>2, <2>1 DEF Smallest
  <2>3. sortable(X \ {m})
        BY <1>3, <2>2
  <2>4. sortable(X)
        BY <1>3, <2>1, <2>3, Prepended
  <2>5. QED
        BY <1>3, <2>4
<1>6. QED
      BY <1>4, <1>5

\* A list of a finite set of addresses names each of them.
LEMMA Listed ==
    ASSUME NEW S, IsFiniteSet(S), NEW t \in SetToSeqs(S)
    PROVE  ToSet(t) = S
<1> DEFINE N == Cardinality(S)
<1>1. N \in Nat
      BY FS_CardinalityType
<1>2. t \in [1..N -> S] /\ \A i, j \in 1..N : i # j => t[i] # t[j]
      BY DEF SetToSeqs
<1>3. t \in Injection(1..N, S)
      BY <1>2 DEF Injection, IsInjective
<1>4. Cardinality(1..N) = N
      BY <1>1, FS_Interval
<1>5. t \in Surjection(1..N, S)
      BY <1>3, <1>4, FS_Injection
<1>6. QED
      BY <1>2, <1>5 DEF Surjection, ToSet

\* To sort a list leaves what it lists.
LEMMA SortedLists ==
    ASSUME NEW s, ToSet(s) \in SUBSET Nat, IsFiniteSet(ToSet(s))
    PROVE  Sorted(s) \in SetToSeqs(ToSet(s)) /\ ToSet(Sorted(s)) = ToSet(s)
<1>1. \E t \in SetToSeqs(ToSet(s)) : Ascending(t)
      BY CanBeSorted
<1>2. Sorted(s) \in SetToSeqs(ToSet(s))
      BY <1>1 DEF Sorted
<1>3. QED
      BY <1>2, Listed

-----------------------------------------------------------------------------
(* The lists of backends.                                                  *)

FewAddresses == \A lb \in Lbs : IsFiniteSet(AddrOf[lb])

\* The machines behind a load balancer have no other address than they may have,
\* which the default is none of.
AddrsTyped ==
    /\ addrs \in [Lbs -> SUBSET Addresses]
    /\ \A lb \in Lbs : addrs[lb] \subseteq AddrOf[lb]

Listable == {{Default}} \cup SUBSET (Addresses \ {Default})

LEMMA FiniteAddresses ==
    ASSUME FewAddresses, NEW S \in Listable
    PROVE  IsFiniteSet(S) /\ S \in SUBSET Nat
<1>1. IsFiniteSet({Default}) /\ Default \in Nat
      BY FS_Singleton DEF Default
<1>2. IsFiniteSet(AddrOf[Cp] \cup AddrOf[Worker])
      BY FS_Union, NoneName DEF FewAddresses
<1>3. IsFiniteSet(Addresses)
      BY <1>1, <1>2, FS_Union DEF Addresses
<1>4. Addresses \in SUBSET Nat
  <2>1. AddrOf[Cp] \in SUBSET Nat /\ AddrOf[Worker] \in SUBSET Nat
        BY ClusterAssumption, NoneName
  <2>2. QED
        BY <1>1, <2>1 DEF Addresses
<1>5. S \subseteq Addresses
      BY DEF Listable, Addresses
<1>6. QED
      BY <1>3, <1>4, <1>5, FS_Subset

LEMMA BackendsListed ==
    ASSUME NEW s
    PROVE  s \in Backends <=> \E S \in Listable : s \in SetToSeqs(S)
BY DEF Backends, Listable

\* A sorted list of backends has the same backends.
LEMMA SortedBackends ==
    ASSUME FewAddresses, NEW s \in Backends
    PROVE  Sorted(s) \in Backends /\ ToSet(Sorted(s)) = ToSet(s)
<1>1. PICK S \in Listable : s \in SetToSeqs(S)
      BY BackendsListed
<1>2. IsFiniteSet(S) /\ S \in SUBSET Nat
      BY FiniteAddresses
<1>3. ToSet(s) = S
      BY <1>1, <1>2, Listed
<1>4. Sorted(s) \in SetToSeqs(S) /\ ToSet(Sorted(s)) = S
      BY <1>2, <1>3, SortedLists
<1>5. QED
      BY <1>3, <1>4, BackendsListed

\* Lists of the same backends are the same when they are sorted.
LEMMA SameWhenSorted ==
    ASSUME NEW s, NEW t, ToSet(s) = ToSet(t)
    PROVE  Sorted(s) = Sorted(t)
BY DEF Sorted

LEMMA NoBackends == <<>> \in Backends
<1>1. {} \in Listable
      BY DEF Listable
<1>2. <<>> \in SetToSeqs({})
  <2>1. Cardinality({}) = 0
        BY FS_EmptySet
  <2>2. QED
        BY <2>1 DEF SetToSeqs
<1>3. QED
      BY <1>1, <1>2, BackendsListed

LEMMA WantedBackends ==
    ASSUME AddrsTyped, NEW lb \in Lbs, NEW s \in SetToSeqs(Behind(lb))
    PROVE  s \in Backends
<1>1. AddrOf[lb] \subseteq Addresses \ {Default}
      BY ClusterAssumption, NoneName DEF Addresses, Lbs
<1>2. Behind(lb) \in Listable
      BY <1>1 DEF AddrsTyped, Behind, Listable
<1>3. QED
      BY <1>2, BackendsListed

-----------------------------------------------------------------------------
(* The code between the calls keeps the types, and says what comes next.   *)

\* What stays when a reconcile moves on.
Same(job, next) == next \in Job /\ next.want = job.want /\ next.got = job.got

LEMMA JobMoved ==
    ASSUME NEW job \in Job, NEW at \in Phases, NEW lb \in Lbs
    PROVE  /\ Same(job, [job EXCEPT !.at = at]) /\ [job EXCEPT !.at = at].at = at
           /\ [job EXCEPT !.at = at].lb = job.lb
           /\ Same(job, [job EXCEPT !.lb = lb]) /\ [job EXCEPT !.lb = lb].lb = lb
           /\ [job EXCEPT !.lb = lb].at = job.at
           /\ LET both == [job EXCEPT !.at = at, !.lb = lb]
              IN  Same(job, both) /\ both.at = at /\ both.lb = lb
BY DEF Job, Same

LEMMA JobAnswered ==
    ASSUME NEW job \in Job, NEW lb \in Lbs, NEW result \in Result
    PROVE  LET next == [job EXCEPT !.got[lb] = result]
           IN  /\ next \in Job /\ next.at = job.at /\ next.lb = job.lb
               /\ next.want = job.want
               /\ \A l \in Lbs : next.got[l] = IF l = lb THEN result ELSE job.got[l]
BY DEF Job

\* To forget the address of the control plane changes no answer but that.
LEMMA JobForgot ==
    ASSUME NEW job \in Job
    PROVE  LET next == [job EXCEPT !.got[Cp].ip = None]
           IN  /\ next \in Job /\ next.at = job.at /\ next.lb = job.lb
               /\ next.want = job.want
               /\ \A l \in Lbs : /\ next.got[l].status = job.got[l].status
                                 /\ next.got[l].backends = job.got[l].backends
<1>1. Cp \in Lbs /\ job.got[Cp] \in Result
      BY NoneName DEF Job
<1>2. [job.got[Cp] EXCEPT !.ip = None] \in Result
      BY <1>1 DEF Result, Ref
<1>3. [job EXCEPT !.got[Cp].ip = None]
         = [job EXCEPT !.got[Cp] = [job.got[Cp] EXCEPT !.ip = None]]
      BY DEF Job
<1>4. \A l \in Lbs : job.got[l] \in Result
      BY DEF Job
<1>5. /\ [job.got[Cp] EXCEPT !.ip = None].status = job.got[Cp].status
      /\ [job.got[Cp] EXCEPT !.ip = None].backends = job.got[Cp].backends
      BY <1>1 DEF Result
<1>6. QED
      BY <1>1, <1>2, <1>3, <1>5, JobAnswered

LEMMA FailureTyped ==
    ASSUME NEW status \in {"none", "ok", "missing", "error"}
    PROVE  /\ Failure(status) \in Result /\ Failure(status).status = status
           /\ Failure(status).backends = <<>>
BY NoBackends DEF Failure, Result, Ref

\* It is done; or updates a load balancer that it read and that differs; or
\* creates both when it knows of none.
Onward(job, next) ==
    /\ next \in Job
    /\ \/ next.at = "close"
       \/ /\ next.at = "update" /\ Same(job, next)
          /\ IsUp(job, next.lb) /\ Differs(job, next.lb)
       \/ /\ next.at = "create" /\ next.lb = Cp
          /\ \A lb \in Lbs : job.got[lb].status = "missing"

LEMMA OnwardFinish ==
    ASSUME NEW job \in Job
    PROVE  Finish(job) \in Job /\ Finish(job).at = "close"
<1> DEFINE ip == job.got[Cp].ip
           new == [job.new EXCEPT !.endpoint = ip, !.ready = TRUE, !.lbIP = ip]
           done == [job EXCEPT !.at = "close", !.new = new]
<1>1. ip \in Ref
      BY NoneName DEF Job, Result
<1>2. CASE ip = None
  <2>1. Finish(job) = [job EXCEPT !.at = "close"]
        BY <1>2 DEF Finish
  <2>2. QED
        BY <2>1 DEF Phases, Job
<1>3. CASE ip # None
  <2>1. Finish(job) = done
        BY <1>3 DEF Finish, Publish, Job, Object
  <2>2. new \in Object
        BY <1>1 DEF Job, Object
  <2> HIDE DEF new
  <2>3. QED
        BY <2>1, <2>2 DEF Job, Phases
<1>4. QED
      BY <1>2, <1>3

LEMMA OnwardCompareWorker ==
    ASSUME NEW job \in Job
    PROVE  LET next == CompareWorker(job)
           IN  Onward(job, next) /\ next.at # "create" /\ (next.at = "update" => next.lb = Worker)
<1>1. "close" \in Phases /\ "update" \in Phases /\ Worker \in Lbs /\ job.lb \in Lbs
      BY NoneName DEF Phases, Job
<1> DEFINE quits == [job EXCEPT !.at = "close"]
           updates == [job EXCEPT !.at = "update", !.lb = Worker]
<1>2. /\ Same(job, quits) /\ quits.at = "close"
      /\ Same(job, updates) /\ updates.at = "update" /\ updates.lb = Worker
      BY <1>1 DEF Job, Same
<1> HIDE DEF quits, updates
<1>3. CASE ~IsUp(job, Worker)
      BY <1>2, <1>3 DEF CompareWorker, Onward, Same, quits
<1>4. CASE IsUp(job, Worker) /\ Differs(job, Worker)
      BY <1>2, <1>4 DEF CompareWorker, Onward, Same, updates
<1>5. CASE IsUp(job, Worker) /\ ~Differs(job, Worker)
      BY <1>5, OnwardFinish DEF CompareWorker, Onward
<1>6. QED
      BY <1>3, <1>4, <1>5

LEMMA OnwardCompare ==
    ASSUME NEW job \in Job
    PROVE  Onward(job, Compare(job))
<1>1. /\ "close" \in Phases /\ "update" \in Phases /\ "create" \in Phases
      /\ Cp \in Lbs /\ job.lb \in Lbs
      BY NoneName DEF Phases, Job
<1> DEFINE quits == [job EXCEPT !.at = "close"]
           updates == [job EXCEPT !.at = "update", !.lb = Cp]
           creates == [job EXCEPT !.at = "create", !.lb = Cp]
<1>2. /\ Same(job, quits) /\ quits.at = "close"
      /\ Same(job, updates) /\ updates.at = "update" /\ updates.lb = Cp
      /\ Same(job, creates) /\ creates.at = "create" /\ creates.lb = Cp
      BY <1>1 DEF Job, Same
<1> HIDE DEF quits, updates, creates
<1>3. CASE ~IsUp(job, Cp)
      BY <1>2, <1>3 DEF Compare, Onward, Same, quits, creates
<1>4. CASE IsUp(job, Cp) /\ Differs(job, Cp)
      BY <1>2, <1>4 DEF Compare, Onward, Same, updates
<1>5. CASE IsUp(job, Cp) /\ ~Differs(job, Cp)
      BY <1>5, OnwardCompareWorker DEF Compare
<1>6. QED
      BY <1>3, <1>4, <1>5

LEMMA OnwardDeleted ==
    ASSUME NEW job \in Job
    PROVE  Deleted(job) \in Job /\ Deleted(job).at = "close"
<1> DEFINE both == \A lb \in Lbs : job.got[lb].status = "ok"
           new == [job.new EXCEPT !.finalizer = @ /\ ~both]
<1>1. Deleted(job) = [job EXCEPT !.at = "close", !.new = new]
      BY DEF Deleted
<1>2. job.new.finalizer \in BOOLEAN /\ both \in BOOLEAN
      BY DEF Job, Object
<1> HIDE DEF both
<1>3. (job.new.finalizer /\ ~both) \in BOOLEAN
      BY <1>2
<1>4. new \in Object
      BY <1>3 DEF Job, Object
<1> HIDE DEF new
<1>5. QED
      BY <1>1, <1>4 DEF Job, Phases

-----------------------------------------------------------------------------
(* The type invariant is inductive.                                        *)

TypeInv == TypeOK /\ AddrsTyped

LEMMA FaultsTyped ==
    ASSUME TypeOK, UNCHANGED faults \/ \E k \in FaultKinds : Spend(k)
    PROVE  faults' \in [FaultKinds -> Nat]
BY DEF TypeOK, Spend

LEMMA CloudTyped ==
    ASSUME CloudTypeOK,
           \/ UNCHANGED cloudVars
           \/ \E w \in Workloads :
                 \/ \E lb \in Lbs : CreateWorkload(w, lb)
                 \/ DeleteWorkload(w) \/ Appear(w) \/ Provision(w, ListLag)
                 \/ Boot(w) \/ Vanish(w) \/ FailProvisioning(w)
    PROVE  CloudTypeOK'
<1>1. CASE UNCHANGED cloudVars
      BY <1>1 DEF CloudTypeOK, cloudVars
<1>2. ASSUME NEW w \in Workloads, NEW lb \in Lbs, CreateWorkload(w, lb)
      PROVE  CloudTypeOK'
  <2>1. lb \in Names
        BY ClusterAssumption
  <2>2. QED
        BY <1>2, <2>1 DEF CreateWorkload, CloudTypeOK, WorkloadStates, TaskStates
<1>3. ASSUME NEW w \in Workloads,
             \/ DeleteWorkload(w) \/ Appear(w) \/ Provision(w, ListLag)
             \/ Boot(w) \/ Vanish(w) \/ FailProvisioning(w)
      PROVE  CloudTypeOK'
      BY <1>3 DEF DeleteWorkload, Appear, Provision, Boot, Vanish, FailProvisioning,
                  CloudTypeOK, WorkloadStates, TaskStates, VmStates
<1>4. QED
      BY <1>1, <1>2, <1>3

\* A step of a reconcile that is not about the machines keeps the types when it
\* keeps those of the backends and of the reconcile.
LEMMA TypedStep ==
    ASSUME TypeInv, CloudTypeOK', cox' \in Object, clusterDeleting' \in BOOLEAN,
           UNCHANGED <<addrs, changes>>, backends' \in [Workloads -> Backends],
           rec' \in Job \cup {Idle}, UNCHANGED faults \/ \E k \in FaultKinds : Spend(k)
    PROVE  TypeInv'
<1>1. faults' \in [FaultKinds -> Nat]
      BY FaultsTyped DEF TypeInv
<1>2. QED
      BY <1>1 DEF TypeInv, TypeOK, AddrsTyped

\* The same of a step that changes neither objects nor backends.
LEMMA TypedCall ==
    ASSUME TypeInv, CloudTypeOK', UNCHANGED <<k8sVars, backends>>, rec' \in Job \cup {Idle},
           UNCHANGED faults \/ \E k \in FaultKinds : Spend(k)
    PROVE  TypeInv'
<1>1. /\ cox' \in Object /\ clusterDeleting' \in BOOLEAN /\ UNCHANGED <<addrs, changes>>
      /\ backends' \in [Workloads -> Backends]
      BY DEF k8sVars, TypeInv, TypeOK
<1>2. QED
      BY <1>1, TypedStep

LEMMA InReconcile ==
    ASSUME TypeInv, rec.at \in Phases
    PROVE  rec \in Job /\ rec # Idle
BY DEF TypeInv, TypeOK, Idle, Phases

LEMMA AnswersTyped ==
    ASSUME rec \in Job, NEW result \in Result,
           Answered(result, Compare) \/ Answered(result, Deleted)
    PROVE  rec' \in Job
<1> DEFINE job == [rec EXCEPT !.got[rec.lb] = result]
<1>1. job \in Job
      BY JobAnswered DEF Job
<1> HIDE DEF job
<1>2. /\ [job EXCEPT !.lb = Worker] \in Job
      /\ Compare(job) \in Job /\ Deleted(job) \in Job
      BY <1>1, JobMoved, OnwardCompare, OnwardDeleted, NoneName DEF Onward, Same, Job
<1>3. QED
      BY <1>2 DEF Answered, job

LEMMA QuitTyped ==
    ASSUME rec \in Job
    PROVE  /\ [rec EXCEPT !.at = "close"] \in Job
           /\ [rec EXCEPT !.lb = Worker] \in Job
           /\ Created => rec' \in Job
<1>1. /\ [rec EXCEPT !.at = "close"] \in Job
      /\ [rec EXCEPT !.lb = Worker] \in Job
      BY NoneName DEF Job, Phases
<1>2. QED
      BY <1>1 DEF Created

LEMMA TypeStart ==
    ASSUME TypeInv, Start
    PROVE  TypeInv'
<1>1. cox \in Object /\ [cox EXCEPT !.finalizer = TRUE] \in Object
      BY DEF TypeInv, TypeOK, Object
<1>2. ASSUME NEW at \in Phases, NEW want \in [Lbs -> Backends], NEW new \in Object,
             Begin(at, want, new)
      PROVE  TypeInv'
  <2>1. [lb \in Lbs |-> Failure("none")] \in [Lbs -> Result]
        BY FailureTyped
  <2>2. rec' \in Job
        BY <1>1, <1>2, <2>1, NoneName DEF Begin, Job
  <2>3. CloudTypeOK'
        BY <1>2 DEF Begin, cloudVars, CloudTypeOK, TypeInv, TypeOK
  <2>4. QED
        BY <1>2, <2>2, <2>3, TypedCall DEF Begin
<1>3. CASE StartDelete
  <2>1. [lb \in Lbs |-> <<>>] \in [Lbs -> Backends]
        BY NoBackends
  <2>2. QED
        BY <1>1, <1>2, <1>3, <2>1 DEF StartDelete, Phases
<1>4. CASE StartNormal
  <2>1. PICK c \in SetToSeqs(Behind(Cp)), w \in SetToSeqs(Behind(Worker)) :
                Begin("get", [lb \in Lbs |-> IF lb = Cp THEN c ELSE w],
                      [cox EXCEPT !.finalizer = TRUE])
        BY <1>4 DEF StartNormal
  <2>2. c \in Backends /\ w \in Backends
        BY WantedBackends, NoneName DEF TypeInv
  <2>3. [lb \in Lbs |-> IF lb = Cp THEN c ELSE w] \in [Lbs -> Backends]
        BY <2>2
  <2>4. QED
        BY <1>1, <1>2, <2>1, <2>3 DEF Phases
<1>5. QED
      BY <1>3, <1>4 DEF Start

LEMMA TypeGet ==
    ASSUME TypeInv, GetLoadBalancer
    PROVE  TypeInv'
<1>1. rec \in Job /\ CloudTypeOK'
      BY InReconcile, CloudTyped DEF GetLoadBalancer, Phases, TypeInv, TypeOK
<1>2. rec' \in Job
  <2>1. CASE Answered(Failure("missing"), Compare)
        BY <1>1, <2>1, FailureTyped, AnswersTyped
  <2>2. ASSUME NEW w \in Matches(rec.lb), NEW ip \in {w, None},
               Answered([status |-> "ok", backends |-> backends[w], ip |-> ip], Compare)
        PROVE  rec' \in Job
    <3>1. [status |-> "ok", backends |-> backends[w], ip |-> ip] \in Result
          BY <2>2 DEF Matches, Result, Ref, TypeInv, TypeOK
    <3>2. QED
          BY <1>1, <2>2, <3>1, AnswersTyped
  <2>3. QED
        BY <2>1, <2>2 DEF GetLoadBalancer
<1>3. QED
      BY <1>1, <1>2, TypedCall DEF GetLoadBalancer

LEMMA TypeCreate ==
    ASSUME TypeInv, CreateLoadBalancer \/ CreateRefused
    PROVE  TypeInv'
<1>1. rec \in Job
      BY InReconcile DEF CreateLoadBalancer, CreateRefused, Phases
<1>2. rec.lb \in Lbs /\ rec.want[rec.lb] \in Backends /\ rec' \in Job
      BY <1>1, QuitTyped DEF Job, CreateLoadBalancer, CreateRefused
<1>3. CloudTypeOK'
      BY <1>2, CloudTyped DEF CreateLoadBalancer, CreateRefused, TypeInv, TypeOK
<1>4. backends' \in [Workloads -> Backends]
      BY <1>2 DEF CreateLoadBalancer, CreateRefused, TypeInv, TypeOK
<1>5. /\ cox' \in Object /\ clusterDeleting' \in BOOLEAN
      /\ UNCHANGED <<addrs, changes, faults>>
      BY DEF CreateLoadBalancer, CreateRefused, k8sVars, TypeInv, TypeOK
<1>6. QED
      BY <1>2, <1>3, <1>4, <1>5, TypedStep

LEMMA TypeUpdate ==
    ASSUME FewAddresses, TypeInv, UpdateLoadBalancer \/ UpdateMissing
    PROVE  TypeInv'
<1>1. rec \in Job
      BY InReconcile DEF UpdateLoadBalancer, UpdateMissing, Phases
<1> DEFINE forgot == [rec EXCEPT !.got[Cp].ip = None]
<1>2. forgot \in Job
      BY <1>1, JobForgot
<1>3. \/ rec' = [rec EXCEPT !.at = "close"] \/ rec' = Finish(rec)
      \/ rec' = CompareWorker(forgot)
      BY DEF UpdateLoadBalancer, UpdateMissing
<1> HIDE DEF forgot
<1>4. rec' \in Job
      BY <1>1, <1>2, <1>3, QuitTyped, OnwardFinish, OnwardCompareWorker DEF Onward
<1>5. Sorted(rec.want[rec.lb]) \in Backends
      BY <1>1, SortedBackends DEF Job
<1>6. backends' \in [Workloads -> Backends]
      BY <1>5 DEF UpdateLoadBalancer, UpdateMissing, UpdateWorkload, TypeInv, TypeOK
<1>7. CloudTypeOK'
      BY DEF UpdateLoadBalancer, UpdateMissing, UpdateWorkload, cloudVars, CloudTypeOK,
             VmStates, TypeInv, TypeOK
<1>8. /\ cox' \in Object /\ clusterDeleting' \in BOOLEAN /\ UNCHANGED <<addrs, changes>>
      /\ UNCHANGED faults \/ \E k \in FaultKinds : Spend(k)
      BY DEF UpdateLoadBalancer, UpdateMissing, k8sVars, TypeInv, TypeOK, FaultKinds
<1>9. QED
      BY <1>4, <1>6, <1>7, <1>8, TypedStep

LEMMA TypeDelete ==
    ASSUME TypeInv, DeleteLoadBalancer \/ DeleteMissing
    PROVE  TypeInv'
<1>1. rec \in Job
      BY InReconcile DEF DeleteLoadBalancer, DeleteMissing, Phases
<1>2. rec' \in Job
      BY <1>1, FailureTyped, AnswersTyped DEF DeleteLoadBalancer, DeleteMissing
<1>3. CloudTypeOK'
      BY CloudTyped DEF DeleteLoadBalancer, DeleteMissing, Matches, TypeInv, TypeOK
<1>4. QED
      BY <1>2, <1>3, TypedCall DEF DeleteLoadBalancer, DeleteMissing, FaultKinds

LEMMA TypeCallFails ==
    ASSUME TypeInv, CallFails
    PROVE  TypeInv'
<1>1. rec \in Job
      BY InReconcile DEF CallFails, Phases
<1>2. rec' \in Job
      BY <1>1, FailureTyped, AnswersTyped, QuitTyped DEF CallFails
<1>3. CloudTypeOK'
      BY CloudTyped DEF CallFails, TypeInv, TypeOK
<1>4. QED
      BY <1>2, <1>3, TypedCall DEF CallFails, FaultKinds

LEMMA TypeClose ==
    ASSUME TypeInv, Close \/ ClosePartly \/ Crash
    PROVE  TypeInv'
<1>1. UNCHANGED faults \/ \E k \in FaultKinds : Spend(k)
      BY DEF Close, ClosePartly, Crash, FaultKinds
<1>2. ASSUME NEW parts, Write(parts)
      PROVE  TypeInv'
  <2>1. rec \in Job /\ cox \in Object
        BY <1>2, InReconcile DEF Write, Phases, TypeInv, TypeOK
  <2>2. Patched(parts) \in Object
        BY <2>1 DEF Patched, Object, Job
  <2>3. cox' \in Object
        BY <1>2, <2>2 DEF Write, Settled, Gone, Fresh, Object, Ref
  <2>4. CloudTypeOK'
        BY <1>2 DEF Write, cloudVars, CloudTypeOK, TypeInv, TypeOK
  <2>5. QED
        BY <1>1, <1>2, <2>3, <2>4, TypedStep DEF Write, TypeInv, TypeOK
<1>3. CASE rec' = Idle /\ UNCHANGED <<cloudVars, backends, k8sVars>>
  <2>1. CloudTypeOK'
        BY <1>3 DEF cloudVars, CloudTypeOK, TypeInv, TypeOK
  <2>2. QED
        BY <1>1, <1>3, <2>1, TypedCall
<1>4. QED
      BY <1>2, <1>3 DEF Close, ClosePartly, Crash

LEMMA TypeOthers ==
    ASSUME TypeInv,
           \/ DeleteCluster \/ DeleteCoxCluster
           \/ \E w \in Workloads : CliDelete(w) \/ CloudStep(w) \/ CloudFault(w)
    PROVE  TypeInv'
<1>1. CloudTypeOK'
  <2>1. \/ UNCHANGED cloudVars
        \/ \E w \in Workloads :
              \/ DeleteWorkload(w) \/ Appear(w) \/ Provision(w, ListLag)
              \/ Boot(w) \/ Vanish(w) \/ FailProvisioning(w)
        BY DEF DeleteCluster, DeleteCoxCluster, CliDelete, CloudStep, CloudFault
  <2>2. QED
        BY <2>1, CloudTyped DEF TypeInv, TypeOK
<1>2. cox' \in Object
  <2>1. cox \in Object
        BY DEF TypeInv, TypeOK
  <2>2. Settled([cox EXCEPT !.deleting = TRUE]) \in Object
        BY <2>1 DEF Settled, Gone, Fresh, Object, Ref
  <2>3. QED
        BY <2>1, <2>2 DEF DeleteCluster, DeleteCoxCluster, CliDelete, CloudStep, CloudFault,
                          k8sVars
<1>3. /\ clusterDeleting' \in BOOLEAN /\ backends' \in [Workloads -> Backends]
      /\ UNCHANGED <<addrs, changes>> /\ rec' \in Job \cup {Idle}
      BY DEF DeleteCluster, DeleteCoxCluster, CliDelete, CloudStep, CloudFault, k8sVars,
             TypeInv, TypeOK
<1>4. UNCHANGED faults \/ \E k \in FaultKinds : Spend(k)
      BY DEF DeleteCluster, DeleteCoxCluster, CliDelete, CloudStep, CloudFault, FaultKinds
<1>5. QED
      BY <1>1, <1>2, <1>3, <1>4, TypedStep

LEMMA TypeMachines ==
    ASSUME TypeInv, NEW lb \in Lbs, MachinesChange(lb)
    PROVE  TypeInv'
<1>1. AddrOf[lb] \subseteq Addresses
      BY NoneName DEF Addresses, Lbs
<1>2. AddrsTyped'
      BY <1>1 DEF MachinesChange, TypeInv, AddrsTyped
<1>3. changes' \in Nat
      BY DEF MachinesChange, TypeInv, TypeOK
<1>4. UNCHANGED <<cloudVars, backends, cox, clusterDeleting, rec, faults>>
      BY DEF MachinesChange
<1>5. QED
      BY <1>2, <1>3, <1>4 DEF TypeInv, TypeOK, AddrsTyped, CloudTypeOK, cloudVars

LEMMA TypeStep ==
    ASSUME FewAddresses, TypeInv, [Next]_vars
    PROVE  TypeInv'
<1>1. CASE UNCHANGED vars
      BY <1>1 DEF vars, TypeInv, TypeOK, AddrsTyped, CloudTypeOK
<1>2. CASE Next
      BY <1>2, TypeStart, TypeGet, TypeCreate, TypeUpdate, TypeDelete, TypeCallFails,
         TypeClose, TypeOthers, TypeMachines
      DEF Next, Call
<1>3. QED
      BY <1>1, <1>2

LEMMA TypeInit ==
    ASSUME Init
    PROVE  TypeInv
<1>1. CloudTypeOK
      BY DEF Init, CloudInit, CloudTypeOK, WorkloadStates, TaskStates, VmStates
<1>2. cox \in Object /\ clusterDeleting \in BOOLEAN /\ rec \in Job \cup {Idle}
      BY DEF Init, Fresh, Object, Ref
<1>3. AddrsTyped /\ backends \in [Workloads -> Backends]
      BY NoBackends DEF Init, AddrsTyped
<1>4. changes \in Nat /\ faults \in [FaultKinds -> Nat]
      BY ClusterAssumption DEF Init
<1>5. QED
      BY <1>1, <1>2, <1>3, <1>4 DEF TypeInv, TypeOK, AddrsTyped

\* The variables of the cluster's controller keep their types: every list of backends
\* that is wanted, read or written lists addresses once each, and the default only
\* alone (coxcluster_controller.go:154-212), for finitely many machines.
THEOREM ClusterTypeCorrect ==
    ASSUME FewAddresses
    PROVE  Spec => []TypeOK
<1>1. Init => TypeInv
      BY TypeInit
<1>2. TypeInv /\ [Next]_vars => TypeInv'
      BY TypeStep
<1>3. TypeInv => TypeOK
      BY DEF TypeInv
<1>4. QED
      BY <1>1, <1>2, <1>3, PTL DEF Spec

-----------------------------------------------------------------------------
(* A reconcile updates what it has read.                                   *)

LEMMA ShapeOfTypes ==
    ASSUME TypeOK
    PROVE  Shape
<1>1. ASSUME rec \in Job
      PROVE  JobTyped(rec)
  <2>1. \A lb \in Lbs : Answer(rec.got[lb])
        BY <1>1 DEF Job, Result, Answer
  <2>2. rec.got \in [Lbs -> {rec.got[lb] : lb \in Lbs}]
        BY <1>1 DEF Job
  <2>3. QED
        BY <1>1, <2>1, <2>2 DEF Job, JobTyped
<1>2. QED
      BY <1>1 DEF TypeOK, CloudTypeOK, Shape

LEMMA RestartParts ==
    RestartInv <=> Distinct /\ (rec # Idle => HasRead)
BY DEF RestartInv, Distinct

\* Around a reconcile workloads age, and their backends stay.
LEMMA RestartAround ==
    ASSUME RestartInv, Ages, UNCHANGED <<backends, rec>>
    PROVE  RestartInv'
<1>1. Distinct' /\ (AllShown => AllShown') /\ \A name : NoneNamed(name) => NoneNamed(name)'
      BY RestartParts, DistinctOfAging, KnownOfAging
<1>2. \A lb \in Lbs : AsRead(lb) => AsRead(lb)'
      BY DEF Ages, AsRead
<1>3. HasRead => HasRead'
      BY <1>1, <1>2, NoneName DEF HasRead, Unchanged, IsUp, Differs
<1>4. QED
      BY <1>1, <1>3 DEF RestartInv, Distinct

\* A reconcile that deletes, closes or is over needs nothing that it read.
LEMMA RestartElsewhere ==
    ASSUME RestartInv, Ages, rec' = Idle \/ rec'.at \in {"delete", "close"}
    PROVE  RestartInv'
<1>1. Distinct'
      BY RestartParts, DistinctOfAging
<1>2. rec' # Idle => HasRead'
      BY DEF HasRead, Unchanged
<1>3. QED
      BY <1>1, <1>2 DEF RestartInv, Distinct

\* What follows from the answers to the GETs.
LEMMA RestartOnward ==
    ASSUME RestartInv, Ages, AllShown, NEW job \in Job, Onward(job, rec'),
           rec'.at = "update" =>
              \A lb \in {rec'.lb, Worker} : IsUp(job, lb) =>
                 \A w \in Workloads : Exists(w) /\ wlName[w] = lb
                                         => backends'[w] = job.got[lb].backends,
           rec'.at = "create" => NoneNamed(Cp) /\ NoneNamed(Worker)
    PROVE  RestartInv'
<1>1. /\ Distinct' /\ AllShown'
      /\ \A name : NoneNamed(name) => NoneNamed(name)'
      BY RestartParts, DistinctOfAging, KnownOfAging
<1>2. CASE rec'.at = "close"
      BY <1>2, RestartElsewhere
<1>3. CASE rec'.at = "update"
  <2>1. /\ rec'.got = job.got /\ rec'.want = job.want
        /\ IsUp(job, rec'.lb) /\ Differs(job, rec'.lb)
        BY <1>3 DEF Onward, Same
  <2>2. ASSUME NEW lb \in Lbs, Unchanged(lb)', IsUp(rec, lb)'
        PROVE  AsRead(lb)'
    <3>1. lb \in {rec'.lb, Worker} /\ IsUp(job, lb)
          BY <1>3, <2>1, <2>2 DEF Unchanged, IsUp
    <3>2. \A w \in Workloads : Exists(w)' => Exists(w)
          BY DEF Ages
    <3>3. QED
          BY <1>3, <2>1, <3>1, <3>2 DEF AsRead, Ages
  <2>3. IsUp(rec, rec.lb)' /\ Differs(rec, rec.lb)'
        BY <2>1 DEF IsUp, Differs
  <2>4. HasRead'
        BY <1>1, <1>3, <2>2, <2>3 DEF HasRead
  <2>5. QED
        BY <1>1, <2>4 DEF RestartInv, Distinct
<1>4. CASE rec'.at = "create"
  <2>1. NoneNamed(Cp)' /\ NoneNamed(Worker)'
        BY <1>1, <1>4
  <2>2. HasRead'
        BY <1>4, <2>1 DEF HasRead, Unchanged
  <2>3. QED
        BY <1>1, <2>2 DEF RestartInv, Distinct
<1>5. QED
      BY <1>2, <1>3, <1>4 DEF Onward

\* An answer to a GET.
LEMMA RestartAnswer ==
    ASSUME TypeInv, RestartInv, Ages, UNCHANGED backends, rec.at = "get",
           NEW result \in Result, Answered(result, Compare),
           result.status = "ok" =>
              \A w \in Workloads : Exists(w) /\ wlName[w] = rec.lb
                                      => backends[w] = result.backends,
           result.status = "missing" => NoneNamed(rec.lb)
    PROVE  RestartInv'
<1> DEFINE job == [rec EXCEPT !.got[rec.lb] = result]
           next == [job EXCEPT !.lb = Worker]
<1>1. rec \in Job /\ rec # Idle /\ rec.lb \in Lbs /\ HasRead
      BY InReconcile, RestartParts DEF Phases, Job
<1>2. /\ job \in Job /\ job.at = "get"
      /\ \A l \in Lbs : job.got[l] = IF l = rec.lb THEN result ELSE rec.got[l]
      BY <1>1, JobAnswered
<1>3. IF rec.lb = Cp THEN rec' = next ELSE rec' = Compare(job)
      BY DEF Answered
<1> HIDE DEF job
<1>4. Onward(job, Compare(job))
      BY <1>2, OnwardCompare
<1>5. next.at = "get" /\ next.lb = Worker /\ next.got = job.got
      BY <1>2 DEF Job
<1> HIDE DEF next
<1>6. ASSUME NEW lb \in Lbs, IsUp(job, lb), NEW w \in Workloads, Exists(w), wlName[w] = lb
      PROVE  backends[w] = job.got[lb].backends
      BY <1>1, <1>2, <1>6 DEF IsUp, HasRead, Unchanged, AsRead
<1>7. AllShown
      BY <1>1 DEF HasRead
<1>8. CASE rec.lb = Cp
  <2>1. rec' = next
        BY <1>3, <1>8
  <2>2. /\ Distinct' /\ AllShown'
        /\ \A name : NoneNamed(name) => NoneNamed(name)'
        BY <1>7, RestartParts, DistinctOfAging, KnownOfAging
  <2>3. ASSUME NEW lb \in Lbs, IsUp(rec, lb)'
        PROVE  AsRead(lb)'
    <3>1. IsUp(job, lb)
          BY <1>5, <2>1, <2>3 DEF IsUp
    <3>2. rec'.got[lb].backends = job.got[lb].backends
          BY <1>5, <2>1
    <3>3. \A w \in Workloads : Exists(w)' => Exists(w)
          BY DEF Ages
    <3>4. QED
          BY <1>6, <3>1, <3>2, <3>3 DEF AsRead, Ages
  <2>4. rec'.got[Cp].status = "missing" => NoneNamed(Cp)'
        BY <1>2, <1>5, <1>8, <2>1, <2>2, NoneName
  <2>5. HasRead'
        BY <1>5, <2>1, <2>2, <2>3, <2>4 DEF HasRead
  <2>6. QED
        BY <2>2, <2>5 DEF RestartInv, Distinct
<1>9. CASE rec.lb # Cp
  <2>1. rec.lb = Worker /\ Onward(job, rec')
        BY <1>1, <1>3, <1>4, <1>9 DEF Lbs
  <2>2. rec'.at = "update" => rec'.lb \in Lbs /\ Worker \in Lbs
        BY <2>1, NoneName DEF Onward, Same, Job
  <2>3. rec'.at = "create" => NoneNamed(Cp) /\ NoneNamed(Worker)
    <3>1. rec'.at = "create" => job.got[Cp].status = "missing"
                                /\ job.got[Worker].status = "missing"
          BY <2>1, NoneName DEF Onward
    <3>2. job.got[Cp] = rec.got[Cp] /\ job.got[Worker] = result
          BY <1>2, <2>1, NoneName, ClusterAssumption
    <3>3. QED
          BY <1>1, <2>1, <3>1, <3>2 DEF HasRead
  <2>4. QED
        BY <1>2, <1>6, <1>7, <2>1, <2>2, <2>3, RestartOnward
<1>10. QED
      BY <1>8, <1>9

LEMMA RestartStart ==
    ASSUME ListLag = FALSE, TypeInv, RestartInv, Start
    PROVE  RestartInv'
<1>1. /\ UNCHANGED <<wlState, wlName, backends>> /\ AllShown
      /\ rec'.at = "delete" \/ (/\ rec'.at = "get" /\ rec'.lb = Cp
                                /\ rec'.got = [lb \in Lbs |-> Failure("none")])
      BY DEF Start, StartDelete, StartNormal, Begin, CaughtUp, AllShown, cloudVars
<1>2. Ages
      BY <1>1, ShapeOfTypes, OnlyCreationDoesNotAge DEF TypeInv
<1>3. CASE rec'.at = "delete"
      BY <1>2, <1>3, RestartElsewhere
<1>4. CASE /\ rec'.at = "get" /\ rec'.lb = Cp
           /\ rec'.got = [lb \in Lbs |-> Failure("none")]
  <2>1. \A lb \in Lbs : ~IsUp(rec, lb)'
        BY <1>4, FailureTyped DEF IsUp
  <2>2. AllShown' /\ Distinct'
        BY <1>1, <1>2, RestartParts, DistinctOfAging, KnownOfAging
  <2>3. HasRead'
        BY <1>4, <2>1, <2>2, ClusterAssumption DEF HasRead
  <2>4. QED
        BY <2>2, <2>3 DEF RestartInv, Distinct
<1>5. QED
      BY <1>1, <1>3, <1>4

\* The list shows every load balancer, and one of each name.
LEMMA OnlyMatch ==
    ASSUME TypeInv, RestartInv, rec.at \in {"get", "update"}
    PROVE  /\ rec.lb \in Lbs
           /\ Matches(rec.lb) = {} => NoneNamed(rec.lb)
           /\ \A v \in Matches(rec.lb) :
                 /\ v \in Workloads /\ Exists(v) /\ wlName[v] = rec.lb
                 /\ \A w \in Workloads : Exists(w) /\ wlName[w] = rec.lb => w = v
<1>1. rec \in Job /\ rec # Idle /\ Distinct /\ AllShown
      BY InReconcile, RestartParts DEF Phases, HasRead
<1>2. rec.lb \in Lbs
      BY <1>1 DEF Job
<1>3. \A w : w \in Matches(rec.lb) <=> w \in Workloads /\ Exists(w) /\ wlName[w] = rec.lb
      BY <1>1, <1>2, ShapeOfTypes, LiveExists DEF TypeInv
<1>4. \A v \in Matches(rec.lb) : Alone(v)
      BY <1>1, <1>2, ListedIsFound
<1>5. QED
      BY <1>2, <1>3, <1>4 DEF NoneNamed, Alone

LEMMA RestartGet ==
    ASSUME TypeInv, RestartInv, GetLoadBalancer
    PROVE  RestartInv'
<1>1. rec.at = "get" /\ UNCHANGED <<wlState, wlName, backends>>
      BY DEF GetLoadBalancer, cloudVars
<1>2. Ages
      BY <1>1, ShapeOfTypes, OnlyCreationDoesNotAge DEF TypeInv
<1>3. CASE Matches(rec.lb) = {} /\ Answered(Failure("missing"), Compare)
      BY <1>1, <1>2, <1>3, OnlyMatch, FailureTyped, RestartAnswer
<1>4. ASSUME NEW v \in Matches(rec.lb), NEW ip \in {v, None},
             Answered([status |-> "ok", backends |-> backends[v], ip |-> ip], Compare)
      PROVE  RestartInv'
  <2>1. PICK result : result = [status |-> "ok", backends |-> backends[v], ip |-> ip]
        OBVIOUS
  <2>2. result \in Result /\ result.status = "ok" /\ result.backends = backends[v]
        BY <1>4, <2>1 DEF Matches, Result, Ref, TypeInv, TypeOK
  <2>3. \A w \in Workloads : Exists(w) /\ wlName[w] = rec.lb
                                => backends[w] = result.backends
        BY <1>1, <1>4, <2>2, OnlyMatch
  <2>4. Answered(result, Compare)
        BY <1>4, <2>1
  <2>5. QED
        BY <1>1, <1>2, <2>2, <2>3, <2>4, RestartAnswer
<1>5. QED
      BY <1>3, <1>4 DEF GetLoadBalancer

\* A load balancer is created when there is none of its name.
LEMMA RestartCreate ==
    ASSUME TypeInv, RestartInv, CreateLoadBalancer
    PROVE  RestartInv'
<1>1. rec \in Job /\ rec # Idle /\ rec.at = "create" /\ HasRead
      BY InReconcile, RestartParts DEF CreateLoadBalancer, Phases
<1>2. PICK w \in Workloads : CreateWorkload(w, rec.lb)
      BY DEF CreateLoadBalancer
<1>3. /\ rec.lb \in Lbs /\ NoneNamed(rec.lb) /\ NoneNamed(Worker)
      BY <1>1 DEF Job, HasRead, Lbs
<1>4. /\ \A v \in Workloads : v # w => wlState'[v] = wlState[v] /\ wlName'[v] = wlName[v]
      /\ wlState'[w] = "hidden" /\ wlName'[w] = rec.lb
      BY <1>2 DEF CreateWorkload, TypeInv, TypeOK, CloudTypeOK
<1>5. \A v \in Workloads \ {w} : Exists(v)' <=> Exists(v)
      BY <1>4 DEF Exists
<1>6. Distinct'
  <2>1. \A v \in Workloads : wlState'[v] = "unborn" => wlName'[v] = None
        BY <1>4 DEF RestartInv
  <2>2. ASSUME NEW v \in Workloads, Exists(v)', Ours(v)'
        PROVE  Alone(v)'
        BY <1>3, <1>4, <1>5, <2>2 DEF Alone, NoneNamed, RestartInv, Ours
  <2>3. QED
        BY <2>1, <2>2 DEF Distinct
<1>7. \/ rec'.at = "create" /\ rec'.lb = Worker /\ rec.lb = Cp
      \/ rec'.at = "close"
      BY <1>1 DEF CreateLoadBalancer, Created, Job
<1>8. rec.lb = Cp => NoneNamed(Worker)'
      BY <1>3, <1>4, <1>5, ClusterAssumption DEF NoneNamed
<1>9. HasRead'
      BY <1>7, <1>8, ClusterAssumption DEF HasRead, Unchanged
<1>10. QED
      BY <1>6, <1>9 DEF RestartInv, Distinct

\* A creation that comes to nothing.
LEMMA RestartNoPost ==
    ASSUME TypeInv, RestartInv, Ages, rec.at = "create", Created
    PROVE  RestartInv'
<1>1. rec \in Job /\ rec # Idle /\ HasRead
      BY InReconcile, RestartParts DEF Phases
<1>2. \/ rec'.at = "create" /\ rec'.lb = Worker
      \/ rec'.at = "close"
      BY <1>1 DEF Created, Job
<1>3. NoneNamed(Worker)' /\ Distinct'
      BY <1>1, RestartParts, DistinctOfAging, KnownOfAging DEF HasRead
<1>4. rec'.at = "create" => HasRead'
      BY <1>2, <1>3, ClusterAssumption DEF HasRead, Unchanged
<1>5. QED
      BY <1>2, <1>3, <1>4, RestartElsewhere DEF RestartInv, Distinct

LEMMA RestartUpdate ==
    ASSUME TypeInv, RestartInv, UpdateLoadBalancer \/ UpdateMissing
    PROVE  RestartInv'
<1>1. /\ rec \in Job /\ rec # Idle /\ rec.at = "update" /\ HasRead
      /\ UNCHANGED <<wlState, wlName>>
      BY InReconcile, RestartParts
      DEF UpdateLoadBalancer, UpdateMissing, UpdateWorkload, Phases, cloudVars
<1>2. Ages
      BY <1>1, ShapeOfTypes, OnlyCreationDoesNotAge DEF TypeInv
<1> DEFINE forgot == [rec EXCEPT !.got[Cp].ip = None]
<1>3. /\ forgot \in Job
      /\ \A lb \in Lbs : /\ forgot.got[lb].status = rec.got[lb].status
                         /\ forgot.got[lb].backends = rec.got[lb].backends
      BY <1>1, JobForgot
<1>4. \/ rec' = [rec EXCEPT !.at = "close"] \/ rec' = Finish(rec)
      \/ /\ rec.lb = Cp /\ rec' = CompareWorker(forgot)
         /\ \E w \in Matches(rec.lb) : UpdateWorkload(w, Sorted(rec.want[rec.lb]))
      BY DEF UpdateLoadBalancer, UpdateMissing
<1> HIDE DEF forgot
<1>5. CASE rec' = [rec EXCEPT !.at = "close"] \/ rec' = Finish(rec)
  <2>1. rec'.at = "close"
        BY <1>1, <1>5, OnwardFinish DEF Job
  <2>2. QED
        BY <1>2, <2>1, RestartElsewhere
<1>6. CASE /\ rec.lb = Cp /\ rec' = CompareWorker(forgot)
           /\ \E w \in Matches(rec.lb) : UpdateWorkload(w, Sorted(rec.want[rec.lb]))
  <2>1. PICK v \in Matches(rec.lb) : UpdateWorkload(v, Sorted(rec.want[rec.lb]))
        BY <1>6
  <2>2. Onward(forgot, rec') /\ rec'.at # "create" /\ (rec'.at = "update" => rec'.lb = Worker)
        BY <1>3, <1>6, OnwardCompareWorker
  <2>3. ASSUME IsUp(forgot, Worker), NEW w \in Workloads, Exists(w), wlName[w] = Worker
        PROVE  backends'[w] = forgot.got[Worker].backends
    <3>1. w # v
          BY <1>1, <1>6, <2>3, OnlyMatch, ClusterAssumption
    <3>2. backends'[w] = backends[w]
          BY <2>1, <3>1 DEF UpdateWorkload, TypeInv, TypeOK
    <3>3. backends[w] = rec.got[Worker].backends
          BY <1>1, <1>3, <2>3, NoneName DEF HasRead, Unchanged, IsUp, AsRead
    <3>4. QED
          BY <1>3, <3>2, <3>3, NoneName
  <2>4. AllShown
        BY <1>1 DEF HasRead
  <2>5. QED
        BY <1>2, <1>3, <2>2, <2>3, <2>4, RestartOnward
<1>7. QED
      BY <1>4, <1>5, <1>6

LEMMA RestartDelete ==
    ASSUME TypeInv, RestartInv, rec.at = "delete", Ages,
           NEW result \in Result, Answered(result, Deleted)
    PROVE  RestartInv'
<1> DEFINE job == [rec EXCEPT !.got[rec.lb] = result]
<1>1. rec \in Job /\ rec.lb \in Lbs
      BY InReconcile DEF Phases, Job
<1>2. job \in Job /\ job.at = "delete"
      BY <1>1, JobAnswered
<1> HIDE DEF job
<1>3. /\ [job EXCEPT !.lb = Worker].at = "delete"
      /\ Deleted(job).at = "close"
      BY <1>2, OnwardDeleted DEF Job
<1>4. rec' = [job EXCEPT !.lb = Worker] \/ rec' = Deleted(job)
      BY DEF Answered, job
<1>5. QED
      BY <1>3, <1>4, RestartElsewhere

LEMMA RestartOthers ==
    ASSUME TypeInv, RestartInv,
           \/ CreateRefused \/ DeleteLoadBalancer \/ DeleteMissing \/ CallFails
           \/ Close \/ ClosePartly \/ Crash
           \/ DeleteCluster \/ DeleteCoxCluster \/ \E lb \in Lbs : MachinesChange(lb)
           \/ \E w \in Workloads : CliDelete(w) \/ CloudStep(w) \/ CloudFault(w)
           \/ UNCHANGED vars
    PROVE  RestartInv'
<1>1. /\ UNCHANGED backends
      /\ \/ UNCHANGED <<wlState, wlName>>
         \/ \E w \in Workloads :
               \/ DeleteWorkload(w) \/ Appear(w) \/ Provision(w, ListLag)
               \/ Boot(w) \/ Vanish(w) \/ FailProvisioning(w)
      BY DEF CreateRefused, DeleteLoadBalancer, DeleteMissing, CallFails, Close,
             ClosePartly, Crash, Write, DeleteCluster, DeleteCoxCluster, MachinesChange,
             CliDelete, CloudStep, CloudFault, vars, cloudVars, Matches
<1>2. Ages
      BY <1>1, ShapeOfTypes, OnlyCreationDoesNotAge DEF TypeInv
<1>3. CASE CreateRefused
      BY <1>2, <1>3, RestartNoPost DEF CreateRefused
<1>4. CASE DeleteLoadBalancer \/ DeleteMissing
      BY <1>2, <1>4, FailureTyped, RestartDelete DEF DeleteLoadBalancer, DeleteMissing
<1>5. CASE CallFails
  <2>1. CASE rec.at = "get" /\ Answered(Failure("error"), Compare)
        BY <1>1, <1>2, <2>1, FailureTyped, RestartAnswer
  <2>2. CASE rec.at = "create" /\ Created
        BY <1>2, <2>2, RestartNoPost
  <2>3. CASE rec.at = "update" /\ rec' = [rec EXCEPT !.at = "close"]
    <3>1. rec'.at = "close"
          BY <2>3, InReconcile, JobMoved DEF Phases, Job
    <3>2. QED
          BY <1>2, <3>1, RestartElsewhere
  <2>4. CASE rec.at = "delete" /\ Answered(Failure("error"), Deleted)
        BY <1>2, <2>4, FailureTyped, RestartDelete
  <2>5. QED
        BY <1>5, <2>1, <2>2, <2>3, <2>4 DEF CallFails
<1>6. CASE Close \/ ClosePartly \/ Crash
      BY <1>2, <1>6, RestartElsewhere DEF Close, ClosePartly, Crash, Write
<1>7. CASE UNCHANGED rec
      BY <1>1, <1>2, <1>7, RestartAround
<1>8. QED
      BY <1>3, <1>4, <1>5, <1>6, <1>7
      DEF DeleteCluster, DeleteCoxCluster, MachinesChange, CliDelete, CloudStep,
          CloudFault, vars

LEMMA RestartStep ==
    ASSUME ListLag = FALSE, TypeInv, RestartInv, [Next]_vars
    PROVE  RestartInv'
BY RestartStart, RestartGet, RestartCreate, RestartUpdate, RestartOthers DEF Next, Call

\* Only an update makes an instance that runs start again.
LEMMA OnlyUpdatesRestart ==
    ASSUME TypeInv, [Next]_vars, NEW w \in Workloads,
           vm[w] = "RUNNING", vm'[w] = "SCHEDULING"
    PROVE  UpdateLoadBalancer
<1>1. vm \in [Workloads -> VmStates] /\ vm' # vm
      BY DEF TypeInv, TypeOK, CloudTypeOK
<1>2. ASSUME NEW v \in Workloads,
             \/ \E lb \in Lbs : CreateWorkload(v, lb)
             \/ DeleteWorkload(v) \/ Appear(v) \/ Provision(v, ListLag)
             \/ Boot(v) \/ Vanish(v) \/ FailProvisioning(v)
      PROVE  FALSE
      BY <1>1, <1>2
      DEF CreateWorkload, DeleteWorkload, Appear, Provision, Boot, Vanish, FailProvisioning
<1>3. CASE CreateLoadBalancer
  <2>1. rec.lb \in Lbs
        BY <1>3, InReconcile DEF CreateLoadBalancer, Phases, Job
  <2>2. QED
        BY <1>2, <1>3, <2>1 DEF CreateLoadBalancer
<1>4. ~(DeleteLoadBalancer \/ \E v \in Workloads : CliDelete(v) \/ CloudStep(v) \/ CloudFault(v))
      BY <1>2 DEF DeleteLoadBalancer, CliDelete, CloudStep, CloudFault, Matches
<1>5. ~(\/ Start \/ GetLoadBalancer \/ CreateRefused \/ UpdateMissing \/ DeleteMissing
        \/ Close \/ CallFails \/ ClosePartly \/ Crash \/ DeleteCluster \/ DeleteCoxCluster
        \/ (\E lb \in Lbs : MachinesChange(lb)) \/ UNCHANGED vars)
      BY <1>1
      DEF Start, StartDelete, StartNormal, Begin, GetLoadBalancer, CreateRefused,
          UpdateMissing, DeleteMissing, Close, CallFails, ClosePartly, Crash, Write,
          DeleteCluster, DeleteCoxCluster, MachinesChange, vars, cloudVars
<1>6. QED
      BY <1>3, <1>4, <1>5 DEF Next, Call

\* What an update writes is not what there was.
LEMMA UpdateChanges ==
    ASSUME FewAddresses, TypeInv, RestartInv, UpdateLoadBalancer,
           NEW w \in Workloads, vm[w] = "RUNNING", vm'[w] = "SCHEDULING"
    PROVE  ToSet(backends'[w]) # ToSet(backends[w])
<1>1. rec \in Job /\ rec # Idle /\ rec.at = "update" /\ HasRead /\ rec.lb \in Lbs
      BY InReconcile, RestartParts DEF UpdateLoadBalancer, Phases, Job
<1>2. PICK v \in Matches(rec.lb) : UpdateWorkload(v, Sorted(rec.want[rec.lb]))
      BY DEF UpdateLoadBalancer
<1>3. v = w
      BY <1>2 DEF UpdateWorkload, TypeInv, TypeOK, CloudTypeOK
<1>4. backends[w] = rec.got[rec.lb].backends
      BY <1>1, <1>2, <1>3, OnlyMatch DEF HasRead, Unchanged, AsRead
<1>5. backends'[w] = Sorted(rec.want[rec.lb]) /\ rec.want[rec.lb] \in Backends
      BY <1>1, <1>2, <1>3 DEF UpdateWorkload, TypeInv, TypeOK, Job
<1>6. ToSet(rec.got[rec.lb].backends) # ToSet(rec.want[rec.lb])
      BY <1>1, SameWhenSorted DEF HasRead, Differs
<1>7. QED
      BY <1>4, <1>5, <1>6, SortedBackends

LEMMA RestartInit ==
    ASSUME Init
    PROVE  RestartInv
BY DEF Init, CloudInit, RestartInv, Exists

\* The order in which a cache lists the machines restarts no load balancer
\* (sort.Strings before reflect.DeepEqual, coxcluster_controller.go:292-316): whatever
\* fails, is lost or crashes, when the list keeps up with the POSTs.
THEOREM RestartCorrect ==
    ASSUME FewAddresses, ListLag = FALSE
    PROVE  Spec => RestartOnlyOnChange
<1>1. Init => TypeInv /\ RestartInv
      BY TypeInit, RestartInit
<1>2. TypeInv /\ RestartInv /\ [Next]_vars => TypeInv' /\ RestartInv'
      BY TypeStep, RestartStep
<1>3. TypeInv /\ RestartInv /\ [Next]_vars =>
         [\A w \in Workloads : vm[w] = "RUNNING" /\ vm'[w] = "SCHEDULING"
             => ToSet(backends'[w]) # ToSet(backends[w])]_vars
      BY OnlyUpdatesRestart, UpdateChanges
<1>4. QED
      BY <1>1, <1>2, <1>3, PTL DEF Spec, RestartOnlyOnChange

=============================================================================
