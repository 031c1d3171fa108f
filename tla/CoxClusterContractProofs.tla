---------------------- MODULE CoxClusterContractProofs ----------------------
(***************************************************************************)
(* The two load balancers of a cluster: theorems about CoxCluster for any  *)
(* quota, any addresses and any number of faults of every kind, when the   *)
(* list keeps up with the POSTs and no one deletes the cluster before its  *)
(* finalizer is persisted.                                                 *)
(***************************************************************************)
EXTENDS CoxClusterProofs

\* What the runs show that the theorems cannot do without.
KeepsUp == ListLag = FALSE /\ EarlyDeletion = FALSE

-----------------------------------------------------------------------------
(* The code between the calls: where a reconcile may be after them.        *)

\* A reconcile that moves on has read the same object.
Moves(job, next) == JobTyped(next) /\ next.old = job.old

\* It is done, with nothing new or with the address of the control plane; or
\* updates; or creates both, because neither was found.
Outcome(job, next) ==
    /\ Moves(job, next)
    /\ \/ next.at = "close" /\ next.new = job.new
       \/ /\ next.at = "close" /\ job.got[Cp].ip # None
          /\ next.new.endpoint = job.got[Cp].ip
          /\ next.new.finalizer = job.new.finalizer
       \/ next.at = "update" /\ next.new = job.new /\ next.got = job.got
       \/ /\ next.at = "create" /\ next.lb = Cp /\ next.new = job.new
          /\ \A lb \in Lbs : job.got[lb].status = "missing"

\* Another call, or another load balancer: the rest stays.
Redirected(job, next, at, lb) ==
    /\ Moves(job, next)
    /\ next.at = at /\ next.lb = lb /\ next.new = job.new /\ next.got = job.got

LEMMA MovedOn ==
    ASSUME NEW job, JobTyped(job), NEW at, NEW lb \in Lbs
    PROVE  /\ Redirected(job, [job EXCEPT !.at = at], at, job.lb)
           /\ Redirected(job, [job EXCEPT !.lb = lb], job.at, lb)
           /\ Redirected(job, [job EXCEPT !.at = at, !.lb = lb], at, lb)
<1>1. ASSUME NEW next, NEW newAt, NEW newLb \in Lbs,
             next.at = newAt, next.lb = newLb, next.want = job.want,
             next.got = job.got, next.old = job.old, next.new = job.new,
             next \in [at: {newAt}, lb: Lbs, want: {job.want}, got: {job.got},
                       old: Object, new: Object]
      PROVE  Redirected(job, next, newAt, newLb)
      BY <1>1 DEF Redirected, Moves, JobTyped
<1> DEFINE a == [job EXCEPT !.at = at]
           b == [job EXCEPT !.lb = lb]
           c == [job EXCEPT !.at = at, !.lb = lb]
<1>2. /\ a.at = at /\ a.lb = job.lb /\ a.want = job.want /\ a.got = job.got
      /\ a.old = job.old /\ a.new = job.new /\ job.lb \in Lbs
      /\ a \in [at: {at}, lb: Lbs, want: {job.want}, got: {job.got},
                old: Object, new: Object]
      BY DEF JobTyped
<1>3. /\ b.at = job.at /\ b.lb = lb /\ b.want = job.want /\ b.got = job.got
      /\ b.old = job.old /\ b.new = job.new
      /\ b \in [at: {job.at}, lb: Lbs, want: {job.want}, got: {job.got},
                old: Object, new: Object]
      BY DEF JobTyped
<1>4. /\ c.at = at /\ c.lb = lb /\ c.want = job.want /\ c.got = job.got
      /\ c.old = job.old /\ c.new = job.new
      /\ c \in [at: {at}, lb: Lbs, want: {job.want}, got: {job.got},
                old: Object, new: Object]
      BY DEF JobTyped
<1> HIDE DEF a, b, c
<1>5. /\ Redirected(job, a, at, job.lb) /\ Redirected(job, b, job.at, lb)
      /\ Redirected(job, c, at, lb)
      BY <1>1, <1>2, <1>3, <1>4
<1>6. QED
      BY <1>5 DEF a, b, c

\* An answer about one load balancer leaves the other's.
LEMMA AnswerNoted ==
    ASSUME NEW job, JobTyped(job), NEW lb \in Lbs, NEW result, Answer(result)
    PROVE  LET next == [job EXCEPT !.got[lb] = result] IN
           /\ Moves(job, next) /\ next.at = job.at /\ next.lb = job.lb
           /\ next.new = job.new
           /\ \A l \in Lbs : next.got[l] = IF l = lb THEN result ELSE job.got[l]
<1> DEFINE got == [job.got EXCEPT ![lb] = result]
           next == [job EXCEPT !.got[lb] = result]
<1>1. /\ next.at = job.at /\ next.lb = job.lb /\ next.want = job.want /\ next.got = got
      /\ next.old = job.old /\ next.new = job.new
      /\ next \in [at: {job.at}, lb: Lbs, want: {job.want}, got: {got},
                   old: Object, new: Object]
      BY DEF JobTyped
<1>2. /\ \A l \in Lbs : got[l] = IF l = lb THEN result ELSE job.got[l]
      /\ got \in [Lbs -> {got[l] : l \in Lbs}]
      BY DEF JobTyped
<1> HIDE DEF got
<1>3. QED
      BY <1>1, <1>2 DEF Moves, JobTyped

\* The known address of the control plane is forgotten.
LEMMA AddressForgotten ==
    ASSUME NEW job, JobTyped(job)
    PROVE  LET next == [job EXCEPT !.got[Cp].ip = None] IN
           /\ Moves(job, next) /\ next.at = job.at /\ next.new = job.new
           /\ next.got[Cp].ip = None /\ next.got[Cp].status = job.got[Cp].status
<1> DEFINE result == [job.got[Cp] EXCEPT !.ip = None]
<1>1. Answer(result) /\ result.ip = None /\ result.status = job.got[Cp].status
      BY NoneName DEF JobTyped, Answer, Ref
<1>2. [job EXCEPT !.got[Cp].ip = None] = [job EXCEPT !.got[Cp] = result]
      BY NoneName DEF JobTyped
<1> HIDE DEF result
<1>3. Cp \in Lbs
      BY NoneName
<1>4. /\ Moves(job, [job EXCEPT !.got[Cp] = result])
      /\ [job EXCEPT !.got[Cp] = result].at = job.at
      /\ [job EXCEPT !.got[Cp] = result].new = job.new
      /\ [job EXCEPT !.got[Cp] = result].got[Cp] = result
      BY <1>1, <1>3, AnswerNoted
<1>5. QED
      BY <1>1, <1>2, <1>4

\* The same, except that nothing is created.
WhenUp(job, next) == Outcome(job, next) /\ next.at # "create"

LEMMA RedirectedOutcome ==
    ASSUME NEW job, NEW next, NEW lb
    PROVE  /\ Redirected(job, next, "close", lb) => WhenUp(job, next)
           /\ Redirected(job, next, "update", lb) => WhenUp(job, next)
           /\ Redirected(job, next, "create", Cp)
                 /\ (\A l \in Lbs : job.got[l].status = "missing") => Outcome(job, next)
BY DEF Redirected, Outcome, WhenUp

LEMMA FinishOutcome ==
    ASSUME NEW job, JobTyped(job)
    PROVE  WhenUp(job, Finish(job))
<1> DEFINE ip == job.got[Cp].ip
           new == [job.new EXCEPT !.endpoint = ip, !.ready = TRUE, !.lbIP = ip]
           done == [job EXCEPT !.at = "close", !.new = new]
<1>1. ip \in Ref
      BY NoneName DEF JobTyped, Answer
<1>2. CASE ip = None
  <2>1. Finish(job) = [job EXCEPT !.at = "close"] /\ job.lb \in Lbs
        BY <1>2 DEF Finish, JobTyped
  <2>2. Redirected(job, [job EXCEPT !.at = "close"], "close", job.lb)
        BY <2>1, MovedOn
  <2>3. QED
        BY <2>1, <2>2, RedirectedOutcome
<1>3. CASE ip # None
  <2>1. Finish(job) = done
        BY <1>3 DEF Finish, Publish, JobTyped, Object
  <2>2. new \in Object /\ new.endpoint = ip /\ new.finalizer = job.new.finalizer
        BY <1>1 DEF JobTyped, Object
  <2>3. /\ done.at = "close" /\ done.lb = job.lb /\ done.want = job.want
        /\ done.got = job.got /\ done.old = job.old /\ done.new = new
        /\ done \in [at: {done.at}, lb: Lbs, want: {job.want}, got: {job.got},
                     old: Object, new: Object]
        BY <2>2 DEF JobTyped
  <2> HIDE DEF new, done
  <2>4. JobTyped(done)
        BY <2>3 DEF JobTyped
  <2>5. QED
        BY <1>3, <2>1, <2>2, <2>3, <2>4 DEF WhenUp, Outcome, Moves
<1>4. QED
      BY <1>2, <1>3

LEMMA CompareWorkerOutcome ==
    ASSUME NEW job, JobTyped(job)
    PROVE  WhenUp(job, CompareWorker(job))
<1>1. \/ CompareWorker(job) = [job EXCEPT !.at = "close"]
      \/ CompareWorker(job) = [job EXCEPT !.at = "update", !.lb = Worker]
      \/ CompareWorker(job) = Finish(job)
      BY DEF CompareWorker
<1>2. WhenUp(job, [job EXCEPT !.at = "close"])
      BY MovedOn, RedirectedOutcome DEF JobTyped
<1>3. WhenUp(job, [job EXCEPT !.at = "update", !.lb = Worker])
      BY MovedOn, NoneName, RedirectedOutcome
<1>4. QED
      BY <1>1, <1>2, <1>3, FinishOutcome

LEMMA CompareOutcome ==
    ASSUME NEW job, JobTyped(job)
    PROVE  Outcome(job, Compare(job))
<1>1. \/ Compare(job) = [job EXCEPT !.at = "close"]
      \/ /\ Compare(job) = [job EXCEPT !.at = "create", !.lb = Cp]
         /\ \A lb \in Lbs : job.got[lb].status = "missing"
      \/ Compare(job) = [job EXCEPT !.at = "update", !.lb = Cp]
      \/ Compare(job) = CompareWorker(job)
      BY DEF Compare
<1>2. Outcome(job, [job EXCEPT !.at = "close"])
      BY MovedOn, RedirectedOutcome DEF JobTyped, WhenUp
<1>3. Outcome(job, [job EXCEPT !.at = "update", !.lb = Cp])
      BY MovedOn, NoneName, RedirectedOutcome DEF WhenUp
<1>4. CASE /\ Compare(job) = [job EXCEPT !.at = "create", !.lb = Cp]
           /\ \A lb \in Lbs : job.got[lb].status = "missing"
  <2>1. Redirected(job, [job EXCEPT !.at = "create", !.lb = Cp], "create", Cp)
        BY MovedOn, NoneName
  <2>2. QED
        BY <1>4, <2>1, RedirectedOutcome
<1>5. QED
      BY <1>1, <1>2, <1>3, <1>4, CompareWorkerOutcome DEF WhenUp

\* After the deletions at most the finalizer has changed.
LEMMA DeletedOutcome ==
    ASSUME NEW job, JobTyped(job)
    PROVE  LET next == Deleted(job)
           IN  /\ Moves(job, next) /\ next.at = "close"
               /\ next.new.endpoint = job.new.endpoint
               /\ ~next.new.finalizer =>
                     ~job.new.finalizer \/ \A lb \in Lbs : job.got[lb].status = "ok"
<1> DEFINE both == \A lb \in Lbs : job.got[lb].status = "ok"
           new == [job.new EXCEPT !.finalizer = @ /\ ~both]
           done == [job EXCEPT !.at = "close", !.new = new]
<1>1. Deleted(job) = done
      BY DEF Deleted
<1>2. job.new.finalizer \in BOOLEAN /\ both \in BOOLEAN
      BY DEF JobTyped, Object
<1> HIDE DEF both
<1>3. (job.new.finalizer /\ ~both) \in BOOLEAN
      BY <1>2
<1>4. /\ new \in Object /\ new.endpoint = job.new.endpoint
      /\ new.finalizer = (job.new.finalizer /\ ~both)
      BY <1>3 DEF JobTyped, Object
<1>5. /\ done.at = "close" /\ done.lb = job.lb /\ done.want = job.want
      /\ done.got = job.got /\ done.old = job.old /\ done.new = new
      /\ done \in [at: {done.at}, lb: Lbs, want: {job.want}, got: {job.got},
                   old: Object, new: Object]
      BY <1>4 DEF JobTyped
<1> HIDE DEF new, done
<1>6. JobTyped(done)
      BY <1>5 DEF JobTyped
<1>7. ~done.new.finalizer => ~job.new.finalizer \/ both
      BY <1>4, <1>5
<1>8. QED
      BY <1>1, <1>4, <1>5, <1>6, <1>7 DEF Moves, both

-----------------------------------------------------------------------------
(* The fields of the state: what Shape says holds whatever happens.        *)

\* A step that moves a reconcile on, or starts or ends one, keeps the fields.
LEMMA StepShape ==
    ASSUME Shape, wlState' \in [Workloads -> WorkloadStates],
           wlName' \in [Workloads -> Names \cup {None}], cox' \in Object,
           UNCHANGED faults \/ \E k \in FaultKinds : Spend(k),
           rec' = Idle \/ JobTyped(rec')
    PROVE  Shape'
<1>1. faults' \in [FaultKinds -> Nat]
      BY DEF Shape, Spend
<1>2. QED
      BY <1>1 DEF Shape

\* The name of a workload is given once, and it only grows older: no step of
\* the service, nor a deletion, makes one appear that was not there.
Ages ==
    /\ wlState' \in [Workloads -> WorkloadStates]
    /\ wlName' = wlName
    /\ \A w \in Workloads :
          /\ Exists(w)' => Exists(w)
          /\ Live(w)' => Live(w)
          /\ wlState'[w] = "hidden" => wlState[w] = "hidden"
          /\ wlState'[w] = "unborn" => wlState[w] = "unborn"

LEMMA OnlyCreationDoesNotAge ==
    ASSUME Shape,
           \/ UNCHANGED <<wlState, wlName>>
           \/ \E w \in Workloads :
                 \/ DeleteWorkload(w) \/ Appear(w) \/ Provision(w, ListLag)
                 \/ Boot(w) \/ Vanish(w) \/ FailProvisioning(w)
    PROVE  Ages
<1>1. CASE UNCHANGED <<wlState, wlName>>
      BY <1>1 DEF Shape, Ages, Exists, Live
<1>2. ASSUME NEW w \in Workloads, DeleteWorkload(w)
      PROVE  Ages
      BY <1>2 DEF DeleteWorkload, Shape, Ages, Exists, Live, WorkloadStates
<1>3. ASSUME NEW w \in Workloads, Appear(w) \/ Vanish(w) \/ FailProvisioning(w)
      PROVE  Ages
      BY <1>3 DEF Appear, Vanish, FailProvisioning, Shape, Ages, Exists, Live,
                  WorkloadStates
<1>4. ASSUME NEW w \in Workloads, Provision(w, ListLag) \/ Boot(w)
      PROVE  UNCHANGED <<wlState, wlName>>
      BY <1>4 DEF Provision, Boot
<1>5. QED
      BY <1>1, <1>2, <1>3, <1>4

\* What is known of workloads stays true as they age.
LEMMA KnownOfAging ==
    ASSUME Ages
    PROVE  /\ NoneLive => NoneLive'
           /\ AllShown => AllShown'
           /\ \A name : NoneNamed(name) => NoneNamed(name)'
           /\ \A w : Found(w) => Found(w)'
<1>1. \A w \in Workloads : Alone(w) => Alone(w)'
      BY DEF Ages, Alone
<1>2. \A name : NoneNamed(name) => NoneNamed(name)'
      BY DEF Ages, NoneNamed
<1>3. \A w : Found(w) => Found(w)'
      BY <1>1 DEF Ages, Found
<1>4. QED
      BY <1>2, <1>3 DEF Ages, NoneLive, AllShown, Ours

\* The part of PairInv that is about the workloads.
Distinct ==
    /\ \A w \in Workloads : wlState[w] = "unborn" => wlName[w] = None
    /\ \A w \in Workloads : Exists(w) /\ Ours(w) => Alone(w)

LEMMA DistinctOfAging ==
    ASSUME Distinct, Ages
    PROVE  Distinct'
<1>1. \A w \in Workloads : Alone(w) => Alone(w)'
      BY DEF Ages, Alone
<1>2. QED
      BY <1>1 DEF Ages, Distinct, Ours

\* What is live exists, and what exists and is not hidden is in the list.
LEMMA LiveExists ==
    ASSUME Shape
    PROVE  /\ \A w \in Workloads : Live(w) => Exists(w)
           /\ AllShown => \A lb \in Lbs : \A w : w \in Matches(lb)
                             <=> w \in Workloads /\ Exists(w) /\ wlName[w] = lb
BY DEF Shape, Live, Exists, Matches, AllShown, Ours, WorkloadStates

\* A load balancer that the list shows is the only one of its name.
LEMMA ListedIsFound ==
    ASSUME Distinct
    PROVE  /\ \A w \in Matches(Cp) : Found(w)
           /\ \A lb \in Lbs : \A w \in Matches(lb) : Alone(w)
BY NoneName DEF Distinct, Ours, Matches, Found, Exists

-----------------------------------------------------------------------------
(* Steps around a reconcile.                                               *)

LEMMA PairParts ==
    PairInv <=>
        /\ Distinct
        /\ IsControlPlane(wlName, cox.endpoint)
        /\ cox.deleting => clusterDeleting \/ cox.finalizer
        /\ ~cox.exists => cox = Gone /\ clusterDeleting
        /\ Ended => NoneLive
        /\ rec # Idle => Knows
BY DEF PairInv, Distinct

LEMMA PairAround ==
    ASSUME Shape, PairInv, Ages, rec' = rec,
           \/ UNCHANGED <<cox, clusterDeleting>>
           \/ /\ UNCHANGED cox /\ cox.finalizer /\ clusterDeleting'
           \/ /\ clusterDeleting \/ cox.finalizer
              /\ UNCHANGED clusterDeleting
              /\ cox' = Settled([cox EXCEPT !.deleting = TRUE])
    PROVE  PairInv'
<1>1. /\ Distinct /\ IsControlPlane(wlName, cox.endpoint)
      /\ cox.deleting => clusterDeleting \/ cox.finalizer
      /\ ~cox.exists => cox = Gone /\ clusterDeleting
      /\ Ended => NoneLive
      /\ rec # Idle => Knows
      BY PairParts
<1>2. cox \in Object /\ Gone \in Object /\ Gone.endpoint = None /\ ~Gone.exists
      /\ ~Gone.finalizer /\ ~Gone.deleting
      BY DEF Shape, Gone, Fresh, Object, Ref
<1>3. clusterDeleting => clusterDeleting'
      OBVIOUS
<1>4. \/ /\ cox'.exists = cox.exists /\ cox'.endpoint = cox.endpoint
         /\ cox'.finalizer = cox.finalizer
         /\ cox' = cox \/ (cox.exists /\ (clusterDeleting \/ cox.finalizer))
      \/ /\ cox' = Gone /\ clusterDeleting /\ (~cox.exists \/ ~cox.finalizer)
      BY <1>1, <1>2 DEF Settled, Object
<1>5. Ended' => Ended
      BY <1>1, <1>2, <1>4 DEF Ended
<1>6. IsControlPlane(wlName', cox'.endpoint)
      BY <1>1, <1>2, <1>4 DEF IsControlPlane, Ages
<1>7. /\ cox'.deleting => clusterDeleting' \/ cox'.finalizer
      /\ ~cox'.exists => cox' = Gone /\ clusterDeleting'
      BY <1>1, <1>2, <1>3, <1>4
<1>8. /\ Distinct' /\ (NoneLive => NoneLive')
      BY <1>1, DistinctOfAging, KnownOfAging
<1>9. ASSUME Knows
      PROVE  Knows'
  <2>1. cox'.exists => cox'.endpoint = rec'.old.endpoint
                       /\ cox'.finalizer = rec'.old.finalizer
        BY <1>2, <1>4, <1>9 DEF Knows
  <2>2. rec'.new.endpoint # rec'.old.endpoint
            => rec'.at = "close" /\ Found(rec.new.endpoint)
        BY <1>9 DEF Knows
  <2>3. \A w : Found(w) => Found(w)'
        BY KnownOfAging
  <2>4. rec'.new.endpoint # rec'.old.endpoint
            => rec'.at = "close" /\ Found(rec.new.endpoint)'
        BY <2>2, <2>3 DEF Found, Alone, Exists
  <2>5. QED
        BY <1>3, <1>5, <1>9, <2>1, <2>4, KnownOfAging DEF Knows, Ages
<1>10. QED
      BY <1>1, <1>5, <1>6, <1>7, <1>8, <1>9 DEF PairInv, Distinct

-----------------------------------------------------------------------------
(* Steps of a reconcile.                                                   *)

LEMMA PairOfCall ==
    ASSUME Shape, PairInv, Ages, UNCHANGED <<cox, clusterDeleting>>, rec # Idle, Knows'
    PROVE  PairInv'
<1>1. Distinct' /\ (NoneLive => NoneLive')
      BY PairParts, DistinctOfAging, KnownOfAging
<1>2. IsControlPlane(wlName', cox'.endpoint)
      BY PairParts DEF Ages
<1>3. QED
      BY <1>1, <1>2 DEF PairInv, Distinct, Ended

\* After the answers to the GETs, or after an update.
LEMMA StepOutcome ==
    ASSUME Shape, PairInv, Ages, UNCHANGED <<cox, clusterDeleting>>,
           rec # Idle, rec.at \in {"get", "update"},
           NEW job, JobTyped(job), job.old = rec.old, job.new = rec.new,
           job.got[Cp].ip # None => Found(job.got[Cp].ip),
           rec'.at = "create" /\ (\A lb \in Lbs : job.got[lb].status = "missing")
               => NoneNamed(Cp) /\ NoneNamed(Worker),
           Outcome(job, rec')
    PROVE  PairInv' /\ JobTyped(rec')
<1>1. Knows
      BY PairParts
<1>2. /\ cox.exists => cox.endpoint = rec.old.endpoint
                       /\ cox.finalizer = rec.old.finalizer
      /\ rec.new.endpoint = rec.old.endpoint
      /\ rec.new.finalizer /\ ~Ended /\ AllShown
      BY <1>1 DEF Knows
<1>3. rec'.old = rec.old /\ JobTyped(rec')
      BY DEF Outcome, Moves
<1>4. PICK ip : ip = job.got[Cp].ip
      OBVIOUS
<1>5. ip # None => Found(ip)'
      BY <1>4, KnownOfAging
<1>6. AllShown' /\ ~Ended'
      BY <1>2, KnownOfAging DEF Ended
<1>7. ASSUME rec'.at = "close", rec'.new = job.new
      PROVE  Knows'
      BY <1>2, <1>3, <1>7 DEF Knows
<1>8. ASSUME rec'.at = "close", ip # None, rec'.new.endpoint = ip,
             rec'.new.finalizer = job.new.finalizer
      PROVE  Knows'
  <2>1. Found(rec.new.endpoint)'
        BY <1>5, <1>8 DEF Found, Alone, Exists
  <2>2. QED
        BY <1>2, <1>3, <1>8, <2>1 DEF Knows
<1>9. ASSUME rec'.at = "update", rec'.new = job.new, rec'.got = job.got
      PROVE  Knows'
  <2>1. rec'.got[Cp].ip # None => Found(rec.got[Cp].ip)'
        BY <1>4, <1>5, <1>9 DEF Found, Alone, Exists
  <2>2. QED
        BY <1>2, <1>3, <1>6, <1>9, <2>1 DEF Knows
<1>10. ASSUME rec'.at = "create", rec'.lb = Cp, rec'.new = job.new,
              \A lb \in Lbs : job.got[lb].status = "missing"
       PROVE  Knows'
  <2>1. NoneNamed(Cp)' /\ NoneNamed(Worker)'
        BY <1>10, KnownOfAging
  <2>2. QED
        BY <1>2, <1>3, <1>6, <1>10, <2>1 DEF Knows
<1>11. Knows'
      BY <1>4, <1>7, <1>8, <1>9, <1>10 DEF Outcome
<1>12. QED
      BY <1>3, <1>11, PairOfCall

\* With an answer to a GET a reconcile goes on to the other load balancer, or to
\* what follows from both.
Learns(result) ==
    LET job == [rec EXCEPT !.got[rec.lb] = result]
    IN /\ rec.lb = Cp => rec' = [job EXCEPT !.lb = Worker]
       /\ rec.lb # Cp => Outcome(job, rec')

LEMMA AnswerLearned ==
    ASSUME Shape, rec # Idle, NEW result, Answer(result), Answered(result, Compare)
    PROVE  Learns(result)
<1> DEFINE job == [rec EXCEPT !.got[rec.lb] = result]
<1>1. JobTyped(rec) /\ rec.lb \in Lbs
      BY DEF Shape, JobTyped
<1>2. JobTyped(job)
      BY <1>1, AnswerNoted DEF Moves
<1>3. Outcome(job, Compare(job))
      BY <1>2, CompareOutcome
<1>4. QED
      BY <1>3 DEF Answered, Learns

\* The answer to a GET.
LEMMA StepAnswer ==
    ASSUME Shape, PairInv, Ages, UNCHANGED <<cox, clusterDeleting>>, rec.at = "get",
           rec # Idle, NEW result, Answer(result), Learns(result),
           rec.lb = Cp /\ result.ip # None => Found(result.ip),
           result.status = "missing" => NoneNamed(rec.lb)
    PROVE  PairInv' /\ JobTyped(rec')
<1> DEFINE job == [rec EXCEPT !.got[rec.lb] = result]
<1>1. JobTyped(rec) /\ rec.lb \in Lbs /\ Knows
      BY PairParts DEF Shape, JobTyped
<1>2. /\ Moves(rec, job) /\ job.at = rec.at /\ job.lb = rec.lb /\ job.new = rec.new
      /\ \A l \in Lbs : job.got[l] = IF l = rec.lb THEN result ELSE rec.got[l]
      BY <1>1, AnswerNoted
<1>3. /\ rec.lb = Cp => rec' = [job EXCEPT !.lb = Worker]
      /\ rec.lb # Cp => Outcome(job, rec')
      BY DEF Learns
<1> HIDE DEF job
<1>4. JobTyped(job) /\ job.old = rec.old
      BY <1>2 DEF Moves
<1>5. CASE rec.lb = Cp
  <2> DEFINE next == [job EXCEPT !.lb = Worker]
  <2>0. rec' = next /\ Redirected(job, next, job.at, Worker)
        BY <1>3, <1>4, <1>5, MovedOn, NoneName
  <2> HIDE DEF next
  <2>1. Redirected(job, rec', "get", Worker)
        BY <1>2, <2>0
  <2>2. /\ JobTyped(rec') /\ rec'.old = rec.old /\ rec'.new = rec.new
        /\ rec'.at = "get" /\ rec'.lb = Worker /\ rec'.got[Cp] = result
        BY <1>2, <1>4, <1>5, <2>1, NoneName DEF Redirected, Moves
  <2>3. PICK ip : ip = result.ip
        OBVIOUS
  <2>4. ip # None => Found(ip)'
        BY <1>5, <2>3, KnownOfAging
  <2>5. rec'.got[Cp].ip # None => Found(rec.got[Cp].ip)'
        BY <2>2, <2>3, <2>4 DEF Found, Alone, Exists
  <2>6. result.status = "missing" => NoneNamed(Cp)'
        BY <1>5, KnownOfAging
  <2>7. Knows'
        BY <1>1, <2>2, <2>5, <2>6, KnownOfAging DEF Knows, Ended
  <2>8. QED
        BY <2>2, <2>7, PairOfCall
<1>6. CASE rec.lb # Cp
  <2>1. rec.lb = Worker /\ job.got[Cp] = rec.got[Cp] /\ job.got[Worker] = result
        BY <1>1, <1>2, <1>6, NoneName DEF Lbs
  <2>2. job.got[Cp].ip # None => Found(job.got[Cp].ip)
        BY <1>1, <2>1 DEF Knows
  <2>3. (\A lb \in Lbs : job.got[lb].status = "missing")
            => NoneNamed(Cp) /\ NoneNamed(Worker)
        BY <1>1, <2>1, NoneName DEF Knows
  <2>4. Outcome(job, rec')
        BY <1>3, <1>6
  <2>5. QED
        BY <1>2, <1>4, <2>2, <2>3, <2>4, StepOutcome
<1>7. QED
      BY <1>5, <1>6

\* The answer to a deletion.
LEMMA StepDeleted ==
    ASSUME Shape, PairInv, Ages, UNCHANGED <<cox, clusterDeleting>>, rec.at = "delete",
           rec # Idle, NEW result, Answer(result), Answered(result, Deleted),
           result.status = "ok" => \A w \in Workloads : wlName[w] = rec.lb => ~Live(w)'
    PROVE  PairInv' /\ JobTyped(rec')
<1> DEFINE job == [rec EXCEPT !.got[rec.lb] = result]
<1>1. JobTyped(rec) /\ rec.lb \in Lbs /\ Knows
      BY PairParts DEF Shape, JobTyped
<1>2. /\ Moves(rec, job) /\ job.at = rec.at /\ job.lb = rec.lb /\ job.new = rec.new
      /\ \A l \in Lbs : job.got[l] = IF l = rec.lb THEN result ELSE rec.got[l]
      BY <1>1, AnswerNoted
<1>3. rec' = IF rec.lb = Cp THEN [job EXCEPT !.lb = Worker] ELSE Deleted(job)
      BY DEF Answered
<1> HIDE DEF job
<1>4. JobTyped(job) /\ job.old = rec.old
      BY <1>2 DEF Moves
<1>5. \A lb \in Lbs, w \in Workloads :
          job.got[lb].status = "ok" /\ wlName[w] = lb => ~Live(w)'
      BY <1>1, <1>2 DEF Knows, Ages
<1>6. /\ clusterDeleting /\ AllShown /\ rec.new.endpoint = rec.old.endpoint
      /\ ~rec.new.finalizer => NoneLive'
      /\ cox.exists => cox.endpoint = rec.old.endpoint
                       /\ cox.finalizer = rec.old.finalizer
      /\ AllShown'
      BY <1>1, KnownOfAging DEF Knows
<1>7. CASE rec.lb = Cp
  <2>1. Redirected(job, rec', "delete", Worker)
        BY <1>2, <1>3, <1>4, <1>7, MovedOn, NoneName
  <2>2. /\ JobTyped(rec') /\ rec'.old = rec.old /\ rec'.new = rec.new
        /\ rec'.at = "delete" /\ rec'.got = job.got
        BY <1>2, <1>4, <2>1 DEF Redirected, Moves
  <2>3. Knows'
        BY <1>5, <1>6, <2>2 DEF Knows, Ages
  <2>4. QED
        BY <2>2, <2>3, PairOfCall
<1>8. CASE rec.lb # Cp
  <2>1. /\ JobTyped(rec') /\ rec'.old = rec.old /\ rec'.at = "close"
        /\ rec'.new.endpoint = rec.new.endpoint
        /\ ~rec'.new.finalizer =>
              ~rec.new.finalizer \/ \A lb \in Lbs : job.got[lb].status = "ok"
        BY <1>2, <1>3, <1>4, <1>8, DeletedOutcome DEF Moves
  <2>2. ASSUME \A lb \in Lbs : job.got[lb].status = "ok"
        PROVE  NoneLive'
    <3>1. \A w \in Workloads : Ours(w)' => wlName[w] \in Lbs
          BY DEF Ages, Ours
    <3>2. QED
          BY <1>5, <2>2, <3>1 DEF NoneLive
  <2>3. Knows'
        BY <1>6, <2>1, <2>2 DEF Knows
  <2>4. QED
        BY <2>1, <2>3, PairOfCall
<1>9. QED
      BY <1>7, <1>8

\* A reconcile that gives up has learned nothing that it persists.
LEMMA StepGivesUp ==
    ASSUME Shape, PairInv, Ages, UNCHANGED <<cox, clusterDeleting>>,
           rec # Idle, rec.at # "close", rec' = [rec EXCEPT !.at = "close"]
    PROVE  PairInv' /\ JobTyped(rec')
<1>1. JobTyped(rec) /\ rec.lb \in Lbs /\ Knows
      BY PairParts DEF Shape, JobTyped
<1>2. Redirected(rec, rec', "close", rec.lb)
      BY <1>1, MovedOn
<1>3. JobTyped(rec') /\ rec'.old = rec.old /\ rec'.new = rec.new /\ rec'.at = "close"
      BY <1>2 DEF Redirected, Moves
<1>4. Knows'
      BY <1>1, <1>3, KnownOfAging DEF Knows
<1>5. QED
      BY <1>3, <1>4, PairOfCall

\* A load balancer is created when there is none of its name.
LEMMA StepPost ==
    ASSUME Shape, PairInv, CreateLoadBalancer
    PROVE  PairInv' /\ JobTyped(rec')
<1>1. JobTyped(rec) /\ rec.lb \in Lbs /\ rec # Idle
      BY DEF Shape, JobTyped, CreateLoadBalancer, Idle
<1>2. /\ Distinct /\ Knows /\ IsControlPlane(wlName, cox.endpoint)
      /\ (cox.deleting => clusterDeleting \/ cox.finalizer)
      /\ (~cox.exists => cox = Gone /\ clusterDeleting) /\ (Ended => NoneLive)
      BY <1>1, PairParts
<1>3. /\ rec.new.finalizer /\ ~Ended /\ NoneNamed(rec.lb)
      /\ NoneNamed(Worker)
      /\ cox.exists => cox.endpoint = rec.old.endpoint
                       /\ cox.finalizer = rec.old.finalizer
      /\ rec.new.endpoint = rec.old.endpoint
      BY <1>1, <1>2 DEF CreateLoadBalancer, Knows, Lbs
<1>4. PICK w \in Workloads : CreateWorkload(w, rec.lb)
      BY DEF CreateLoadBalancer
<1>5. UNCHANGED <<cox, clusterDeleting>> /\ Created
      BY DEF CreateLoadBalancer, k8sVars
<1>6. /\ wlState[w] = "unborn" /\ wlState' = [wlState EXCEPT ![w] = "hidden"]
      /\ wlName' = [wlName EXCEPT ![w] = rec.lb] /\ wlName[w] = None
      BY <1>2, <1>4 DEF CreateWorkload, Distinct
<1>7. \A v \in Workloads :
          /\ Exists(v)' <=> Exists(v) \/ v = w
          /\ wlName'[v] = IF v = w THEN rec.lb ELSE wlName[v]
          /\ wlState'[v] = "unborn" => wlState[v] = "unborn" /\ v # w
      BY <1>6 DEF Shape, Exists
<1>8. Distinct'
  <2>1. \A v \in Workloads : Exists(v) => wlName[v] # rec.lb
        BY <1>3 DEF NoneNamed
  <2>2. ASSUME NEW u \in Workloads, NEW v \in Workloads, Exists(u)', Exists(v)',
               wlName'[u] \in Lbs, wlName'[u] = wlName'[v]
        PROVE  u = v
        BY <1>2, <1>7, <2>1, <2>2 DEF Distinct, Ours, Alone
  <2>3. \A v \in Workloads : wlState'[v] = "unborn" => wlName'[v] = None
        BY <1>2, <1>7 DEF Distinct
  <2>4. QED
        BY <2>2, <2>3 DEF Distinct, Ours, Alone
<1>9. IsControlPlane(wlName', cox'.endpoint)
  <2>1. cox.endpoint \in Ref /\ None # Cp
        BY NoneName DEF Shape, Object
  <2>2. cox.endpoint # w
        BY <1>2, <1>4, <1>6, <2>1, NoneName DEF IsControlPlane
  <2>3. QED
        BY <1>2, <1>5, <1>7, <2>1, <2>2 DEF IsControlPlane, Ref
<1>10. CASE rec.lb = Cp
  <2>1. Redirected(rec, rec', rec.at, Worker)
        BY <1>1, <1>5, <1>10, MovedOn, NoneName DEF Created
  <2>2. /\ JobTyped(rec') /\ rec'.old = rec.old /\ rec'.new = rec.new
        /\ rec'.at = "create" /\ rec'.lb = Worker
        BY <2>1 DEF Redirected, Moves, CreateLoadBalancer
  <2>3. NoneNamed(Worker)'
        BY <1>3, <1>7, <1>10, ClusterAssumption DEF NoneNamed
  <2>4. Knows'
        BY <1>3, <1>5, <2>2, <2>3, ClusterAssumption DEF Knows, Ended
  <2>5. QED
        BY <1>2, <1>3, <1>5, <1>8, <1>9, <2>2, <2>4 DEF PairInv, Distinct, Ended
<1>11. CASE rec.lb # Cp
  <2>1. Redirected(rec, rec', "close", rec.lb)
        BY <1>1, <1>5, <1>11, MovedOn DEF Created
  <2>2. JobTyped(rec') /\ rec'.old = rec.old /\ rec'.new = rec.new /\ rec'.at = "close"
        BY <2>1 DEF Redirected, Moves
  <2>3. Knows'
        BY <1>3, <1>5, <2>2 DEF Knows
  <2>4. QED
        BY <1>2, <1>3, <1>5, <1>8, <1>9, <2>2, <2>3 DEF PairInv, Distinct, Ended
<1>12. QED
      BY <1>10, <1>11

\* The POST is refused, or fails.
LEMMA StepNoPost ==
    ASSUME Shape, PairInv, Ages, UNCHANGED <<cox, clusterDeleting>>,
           rec.at = "create", rec # Idle, Created
    PROVE  PairInv' /\ JobTyped(rec')
<1>1. JobTyped(rec) /\ rec.lb \in Lbs /\ Knows
      BY PairParts DEF Shape, JobTyped
<1>2. CASE rec.lb = Cp
  <2>1. Redirected(rec, rec', "create", Worker)
        BY <1>1, <1>2, MovedOn, NoneName DEF Created
  <2>2. /\ JobTyped(rec') /\ rec'.old = rec.old /\ rec'.new = rec.new
        /\ rec'.at = "create" /\ rec'.lb = Worker
        BY <2>1 DEF Redirected, Moves
  <2>3. Knows'
        BY <1>1, <2>2, KnownOfAging, ClusterAssumption DEF Knows, Ended
  <2>4. QED
        BY <2>2, <2>3, PairOfCall
<1>3. CASE rec.lb # Cp
      BY <1>3, StepGivesUp DEF Created
<1>4. QED
      BY <1>2, <1>3

\* A reconcile starts once the list has caught up.
LEMMA StepReads ==
    ASSUME KeepsUp, Shape, PairInv, NEW at, NEW want, NEW new \in Object,
           Begin(at, want, new), new.endpoint = cox.endpoint,
           \/ at = "get" /\ new.finalizer /\ ~clusterDeleting
           \/ at = "delete" /\ new = cox /\ clusterDeleting
    PROVE  PairInv' /\ JobTyped(rec')
<1> DEFINE none == Failure("none")
           got == [lb \in Lbs |-> none]
           job == [at |-> at, lb |-> Cp, want |-> want, old |-> cox, new |-> new,
                   got |-> got]
<1>1. rec' = job /\ UNCHANGED <<wlState, wlName, cox, clusterDeleting>>
      BY DEF Begin, k8sVars, cloudVars
<1>2. Answer(none) /\ none.ip = None /\ none.status = "none"
      BY DEF Failure, Answer, Ref
<1> HIDE DEF none
<1>3. /\ \A lb \in Lbs : got[lb] = none /\ Answer(got[lb])
      /\ got \in [Lbs -> {got[lb] : lb \in Lbs}] /\ Cp \in Lbs
      BY <1>2, NoneName
<1> HIDE DEF got
<1>4. /\ job.at = at /\ job.lb = Cp /\ job.want = want /\ job.got = got
      /\ job.old = cox /\ job.new = new
      /\ job \in [at: {at}, lb: Lbs, want: {want}, got: {got}, old: Object, new: Object]
      BY NoneName DEF Shape
<1> HIDE DEF job
<1>5. JobTyped(rec')
      BY <1>1, <1>3, <1>4 DEF JobTyped
<1>6. Ages /\ AllShown
      BY <1>1, OnlyCreationDoesNotAge DEF Begin, CaughtUp, AllShown, KeepsUp
<1>7. Distinct' /\ AllShown' /\ (NoneLive => NoneLive') /\ (Ended => NoneLive)
      BY <1>6, DistinctOfAging, KnownOfAging, PairParts
<1>8. /\ rec'.at = at /\ rec'.old = cox /\ rec'.new = new /\ rec'.lb = Cp
      /\ \A lb \in Lbs : rec'.got[lb].ip = None /\ rec'.got[lb].status = "none"
      BY <1>1, <1>2, <1>3, <1>4
<1>9. ~rec'.new.finalizer => clusterDeleting' /\ NoneLive'
      BY <1>1, <1>7, <1>8 DEF Ended
<1>10. Knows'
      BY <1>1, <1>3, <1>7, <1>8, <1>9, ClusterAssumption DEF Knows, Ended
<1>11. QED
      BY <1>1, <1>5, <1>7, <1>10, PairParts DEF PairInv, Distinct, Ended

\* What is written, of the whole or of a part: the endpoint that was found, and
\* the finalizer is removed only when nothing is left.
LEMMA StepWrites ==
    ASSUME Shape, PairInv, NEW parts, Write(parts)
    PROVE  PairInv' /\ rec' = Idle /\ cox' \in Object
<1>1. rec # Idle /\ rec.at = "close" /\ rec' = Idle
      /\ UNCHANGED <<wlState, wlName, clusterDeleting>>
      BY DEF Write, Idle, cloudVars
<1>2. rec.old \in Object /\ rec.new \in Object /\ cox \in Object /\ Knows
      BY <1>1, PairParts DEF Shape, JobTyped
<1>3. /\ Gone \in Object /\ Gone.endpoint = None /\ ~Gone.exists
      /\ ~Gone.finalizer /\ ~Gone.deleting
      BY DEF Gone, Fresh, Object, Ref
<1>4. PICK o : o = Patched(parts)
      OBVIOUS
<1>5. /\ o \in Object /\ o.exists = cox.exists /\ o.deleting = cox.deleting
      /\ o.endpoint = cox.endpoint
         \/ (o.endpoint = rec.new.endpoint /\ rec.new.endpoint # rec.old.endpoint)
      /\ o.finalizer = cox.finalizer
         \/ (o.finalizer = rec.new.finalizer /\ rec.new.finalizer # rec.old.finalizer)
      BY <1>2, <1>4 DEF Patched, Object
<1>6. /\ cox' = Gone \/ cox' = o
      /\ ~o.exists => cox' = Gone
      /\ cox' = Gone => ~o.exists \/ (o.deleting /\ ~o.finalizer) \/ o = Gone
      BY <1>4 DEF Write, Settled
<1>7. cox' \in Object
      BY <1>3, <1>5, <1>6
<1>8. Distinct' /\ (NoneLive => NoneLive')
      BY <1>1, PairParts, OnlyCreationDoesNotAge, DistinctOfAging, KnownOfAging
<1>9. IsControlPlane(wlName', cox'.endpoint)
      BY <1>1, <1>2, <1>3, <1>5, <1>6, PairParts DEF IsControlPlane, Knows, Found
<1>10. /\ cox'.deleting => clusterDeleting' \/ cox'.finalizer
       /\ ~cox'.exists => cox' = Gone /\ clusterDeleting'
  <2>1. clusterDeleting \/ o.finalizer \/ ~o.deleting
        BY <1>2, <1>5, PairParts DEF Knows, Object
  <2>2. o.exists \/ (cox = Gone /\ clusterDeleting)
        BY <1>5, PairParts
  <2>3. QED
        BY <1>1, <1>3, <1>6, <2>1, <2>2, PairParts
<1>11. Ended' => NoneLive
  <2>1. clusterDeleting /\ ~o.finalizer => NoneLive
        BY <1>2, <1>5, PairParts DEF Knows, Ended, Object
  <2>2. clusterDeleting /\ ~o.exists => NoneLive
        BY <1>3, <1>5, PairParts DEF Ended
  <2>3. clusterDeleting /\ o = Gone => NoneLive
        BY <1>3, <2>1
  <2>4. QED
        BY <1>1, <1>6, <2>1, <2>2, <2>3 DEF Ended
<1>12. QED
      BY <1>1, <1>7, <1>8, <1>9, <1>10, <1>11 DEF PairInv, Distinct

-----------------------------------------------------------------------------
(* One lemma for each kind of action.                                      *)

\* What a step of a reconcile shows of the fields and of the two load balancers.
LEMMA StepInReconcile ==
    ASSUME Shape, Ages, cox' \in Object, rec' = Idle \/ JobTyped(rec'), PairInv',
           UNCHANGED faults \/ \E k \in FaultKinds : Spend(k)
    PROVE  Shape' /\ PairInv'
<1>1. /\ wlState' \in [Workloads -> WorkloadStates]
      /\ wlName' \in [Workloads -> Names \cup {None}]
      BY DEF Shape, Ages
<1>2. QED
      BY <1>1, StepShape

\* A reconcile begins one of its two ways.
Begins ==
    \E want :
        \/ clusterDeleting /\ Begin("delete", want, cox)
        \/ ~clusterDeleting /\ Begin("get", want, [cox EXCEPT !.finalizer = TRUE])

LEMMA StartBegins ==
    ASSUME Start
    PROVE  Begins
BY DEF Start, StartDelete, StartNormal, Begins

LEMMA PairStart ==
    ASSUME KeepsUp, Shape, PairInv, Begins
    PROVE  Shape' /\ PairInv'
<1>1. cox \in Object
      BY DEF Shape
<1>2. /\ UNCHANGED <<wlState, wlName, cox, faults>>
      /\ PairInv' /\ JobTyped(rec')
  <2>1. ASSUME NEW want, Begin("delete", want, cox), clusterDeleting
        PROVE  /\ UNCHANGED <<wlState, wlName, cox, faults>>
               /\ PairInv' /\ JobTyped(rec')
        BY <1>1, <2>1, StepReads DEF Begin, cloudVars, k8sVars
  <2>2. ASSUME NEW want, Begin("get", want, [cox EXCEPT !.finalizer = TRUE]),
               ~clusterDeleting
        PROVE  /\ UNCHANGED <<wlState, wlName, cox, faults>>
               /\ PairInv' /\ JobTyped(rec')
    <3> DEFINE new == [cox EXCEPT !.finalizer = TRUE]
    <3>1. new \in Object /\ new.endpoint = cox.endpoint /\ new.finalizer
          BY <1>1 DEF Object
    <3>2. Begin("get", want, new)
          BY <2>2
    <3> HIDE DEF new
    <3>3. QED
          BY <2>2, <3>1, <3>2, StepReads DEF Begin, cloudVars, k8sVars
  <2>3. QED
        BY <2>1, <2>2 DEF Begins
<1>3. Ages
      BY <1>2, OnlyCreationDoesNotAge
<1>4. QED
      BY <1>1, <1>2, <1>3, StepInReconcile

\* The answer to a GET is a load balancer of that name, or that there is none.
Gets ==
    /\ rec.at = "get" /\ UNCHANGED <<wlState, wlName, cox, clusterDeleting, faults>>
    /\ \/ \E w \in Matches(rec.lb) : \E ip \in {w, None} : \E b :
             Learns([status |-> "ok", backends |-> b, ip |-> ip])
       \/ Matches(rec.lb) = {} /\ Learns(Failure("missing"))

LEMMA Missing ==
    ASSUME NEW status
    PROVE  /\ Answer(Failure(status)) /\ Failure(status).ip = None
           /\ Failure(status).status = status
BY DEF Failure, Answer, Ref

LEMMA Read ==
    ASSUME NEW w \in Workloads, NEW ip \in {w, None}, NEW b
    PROVE  LET result == [status |-> "ok", backends |-> b, ip |-> ip]
           IN  Answer(result) /\ result.ip = ip /\ result.status = "ok"
BY DEF Answer, Ref

LEMMA GetLearns ==
    ASSUME Shape, GetLoadBalancer
    PROVE  Gets
<1>1. /\ UNCHANGED <<wlState, wlName, cox, clusterDeleting, faults>>
      /\ rec # Idle /\ rec.at = "get"
      BY DEF GetLoadBalancer, Idle, k8sVars, cloudVars
<1>2. CASE Matches(rec.lb) = {} /\ Answered(Failure("missing"), Compare)
      BY <1>1, <1>2, Missing, AnswerLearned DEF Gets
<1>3. ASSUME NEW w \in Matches(rec.lb), NEW ip, ip = IF vm[w] = "RUNNING" THEN w ELSE None,
             Answered([status |-> "ok", backends |-> backends[w], ip |-> ip], Compare)
      PROVE  Gets
  <2>1. w \in Workloads /\ ip \in {w, None}
        BY <1>3 DEF Matches
  <2>2. Learns([status |-> "ok", backends |-> backends[w], ip |-> ip])
        BY <1>1, <1>3, <2>1, Read, AnswerLearned
  <2>3. QED
        BY <1>1, <2>1, <2>2 DEF Gets
<1>4. QED
      BY <1>2, <1>3 DEF GetLoadBalancer

LEMMA PairGet ==
    ASSUME Shape, PairInv, Gets
    PROVE  Shape' /\ PairInv'
<1>1. /\ UNCHANGED <<wlState, wlName, cox, clusterDeleting, faults>>
      /\ rec # Idle /\ rec.at = "get"
      BY DEF Gets, Idle
<1>2. /\ Ages /\ cox \in Object /\ rec.lb \in Lbs /\ Distinct /\ AllShown
      BY <1>1, PairParts, OnlyCreationDoesNotAge DEF Shape, JobTyped, Knows
<1>3. ASSUME Matches(rec.lb) = {}, Learns(Failure("missing"))
      PROVE  PairInv' /\ JobTyped(rec')
  <2>1. NoneNamed(rec.lb)
        BY <1>2, <1>3, LiveExists DEF NoneNamed
  <2>2. QED
        BY <1>1, <1>2, <1>3, <2>1, Missing, StepAnswer
<1>4. ASSUME NEW w \in Matches(rec.lb), NEW ip \in {w, None}, NEW b,
             Learns([status |-> "ok", backends |-> b, ip |-> ip])
      PROVE  PairInv' /\ JobTyped(rec')
  <2>1. PICK result : result = [status |-> "ok", backends |-> b, ip |-> ip]
        OBVIOUS
  <2>2. Answer(result) /\ result.ip = ip /\ result.status = "ok" /\ Learns(result)
        BY <1>4, <2>1, Read DEF Matches
  <2>3. rec.lb = Cp /\ ip # None => Found(ip)
        BY <1>2, <1>4, ListedIsFound
  <2>4. QED
        BY <1>1, <1>2, <2>2, <2>3, StepAnswer
<1>5. PairInv' /\ JobTyped(rec')
      BY <1>3, <1>4 DEF Gets
<1>6. QED
      BY <1>1, <1>2, <1>5, StepInReconcile

LEMMA PairCreate ==
    ASSUME Shape, PairInv, CreateLoadBalancer
    PROVE  Shape' /\ PairInv'
<1>1. rec.lb \in Names /\ cox' \in Object /\ UNCHANGED faults
      BY ClusterAssumption
      DEF CreateLoadBalancer, Idle, Shape, JobTyped, k8sVars
<1>2. /\ wlState' \in [Workloads -> WorkloadStates]
      /\ wlName' \in [Workloads -> Names \cup {None}]
      BY <1>1 DEF CreateLoadBalancer, CreateWorkload, Shape, WorkloadStates
<1>3. QED
      BY <1>1, <1>2, StepPost, StepShape

LEMMA PairRefused ==
    ASSUME Shape, PairInv, CreateRefused
    PROVE  Shape' /\ PairInv'
<1>1. /\ UNCHANGED <<wlState, wlName, cox, clusterDeleting, faults>>
      /\ rec # Idle /\ rec.at = "create" /\ Created
      BY DEF CreateRefused, Idle, k8sVars, cloudVars
<1>2. Ages /\ cox \in Object
      BY <1>1, OnlyCreationDoesNotAge DEF Shape
<1>3. QED
      BY <1>1, <1>2, StepNoPost, StepInReconcile

\* After an update a reconcile gives up, or goes on: when it has updated the
\* control plane's, without its address.
Updates ==
    /\ rec.at = "update" /\ UNCHANGED <<wlState, wlName, cox, clusterDeleting>>
    /\ UNCHANGED faults \/ Spend("lost")
    /\ \/ rec' = [rec EXCEPT !.at = "close"]
       \/ WhenUp(rec, rec')
       \/ WhenUp([rec EXCEPT !.got[Cp].ip = None], rec')

LEMMA UpdateGoesOn ==
    ASSUME Shape, UpdateLoadBalancer \/ UpdateMissing
    PROVE  Updates
<1>1. /\ UNCHANGED <<wlState, wlName, cox, clusterDeleting>>
      /\ rec # Idle /\ rec.at = "update"
      /\ UNCHANGED faults \/ Spend("lost")
      BY DEF UpdateLoadBalancer, UpdateMissing, UpdateWorkload, Idle, k8sVars, cloudVars
<1>2. JobTyped(rec) /\ JobTyped([rec EXCEPT !.got[Cp].ip = None])
      BY <1>1, AddressForgotten DEF Shape, Moves
<1>3. /\ WhenUp(rec, Finish(rec))
      /\ WhenUp([rec EXCEPT !.got[Cp].ip = None],
                CompareWorker([rec EXCEPT !.got[Cp].ip = None]))
      BY <1>2, FinishOutcome, CompareWorkerOutcome
<1>4. \/ rec' = [rec EXCEPT !.at = "close"] \/ rec' = Finish(rec)
      \/ rec' = CompareWorker([rec EXCEPT !.got[Cp].ip = None])
      BY DEF UpdateLoadBalancer, UpdateMissing
<1>5. QED
      BY <1>1, <1>3, <1>4 DEF Updates

LEMMA PairUpdate ==
    ASSUME Shape, PairInv, Updates
    PROVE  Shape' /\ PairInv'
<1>1. /\ UNCHANGED <<wlState, wlName, cox, clusterDeleting>>
      /\ rec # Idle /\ rec.at = "update"
      /\ UNCHANGED faults \/ Spend("lost")
      BY DEF Updates, Idle
<1>2. /\ Ages /\ cox \in Object /\ JobTyped(rec) /\ Knows
      BY <1>1, PairParts, OnlyCreationDoesNotAge DEF Shape
<1>3. rec.got[Cp].ip # None => Found(rec.got[Cp].ip)
      BY <1>1, <1>2 DEF Knows
<1>4. CASE rec' = [rec EXCEPT !.at = "close"]
      BY <1>1, <1>2, <1>4, StepGivesUp, StepInReconcile DEF FaultKinds
<1>5. CASE WhenUp(rec, rec')
  <2>1. PairInv' /\ JobTyped(rec')
        BY <1>1, <1>2, <1>3, <1>5, StepOutcome DEF WhenUp
  <2>2. QED
        BY <1>1, <1>2, <2>1, StepInReconcile DEF FaultKinds
<1>6. CASE WhenUp([rec EXCEPT !.got[Cp].ip = None], rec')
  <2> DEFINE job == [rec EXCEPT !.got[Cp].ip = None]
  <2>1. JobTyped(job) /\ job.old = rec.old /\ job.new = rec.new /\ job.got[Cp].ip = None
        BY <1>2, AddressForgotten DEF Moves
  <2>2. Outcome(job, rec') /\ rec'.at # "create"
        BY <1>6 DEF WhenUp
  <2> HIDE DEF job
  <2>3. PairInv' /\ JobTyped(rec')
        BY <1>1, <1>2, <2>1, <2>2, StepOutcome
  <2>4. QED
        BY <1>1, <1>2, <2>3, StepInReconcile DEF FaultKinds
<1>7. QED
      BY <1>4, <1>5, <1>6 DEF Updates

LEMMA PairDelete ==
    ASSUME Shape, PairInv, DeleteLoadBalancer \/ DeleteMissing
    PROVE  Shape' /\ PairInv'
<1>1. /\ UNCHANGED <<cox, clusterDeleting>> /\ rec # Idle /\ rec.at = "delete"
      /\ UNCHANGED faults \/ Spend("lost")
      BY DEF DeleteLoadBalancer, DeleteMissing, Idle, k8sVars
<1>2. cox \in Object /\ JobTyped(rec) /\ rec.lb \in Lbs /\ Distinct
      BY <1>1, PairParts DEF Shape, JobTyped
<1>3. ASSUME NEW status, status # "ok", Answered(Failure(status), Deleted), Ages
      PROVE  PairInv' /\ JobTyped(rec')
  <2>1. Answer(Failure(status)) /\ Failure(status).status = status
        BY DEF Failure, Answer, Ref
  <2>2. QED
        BY <1>1, <1>3, <2>1, StepDeleted
<1>4. CASE DeleteMissing
  <2>1. Ages
        BY <1>4, OnlyCreationDoesNotAge DEF DeleteMissing, cloudVars
  <2>2. QED
        BY <1>1, <1>2, <1>3, <1>4, <2>1, StepInReconcile DEF DeleteMissing, FaultKinds
<1>5. CASE DeleteLoadBalancer
  <2>1. PICK w \in Matches(rec.lb) : DeleteWorkload(w)
        BY <1>5 DEF DeleteLoadBalancer
  <2>2. w \in Workloads /\ Alone(w) /\ wlName[w] = rec.lb
        BY <1>2, <2>1, ListedIsFound DEF Matches
  <2>3. Ages
        BY <2>1, <2>2, OnlyCreationDoesNotAge
  <2>4. \A v \in Workloads : wlName[v] = rec.lb => ~Live(v)'
    <3>1. ~Live(w)'
          BY <2>1, <2>2 DEF DeleteWorkload, Live, Shape
    <3>2. \A v \in Workloads : Live(v)' => Exists(v)
          BY <2>3, LiveExists DEF Ages
    <3>3. QED
          BY <2>2, <3>1, <3>2 DEF Alone
  <2>5. /\ Answer(Failure("ok")) /\ Failure("ok").status = "ok"
        BY DEF Failure, Answer, Ref
  <2>6. ASSUME Answered(Failure("ok"), Deleted)
        PROVE  PairInv' /\ JobTyped(rec')
        BY <1>1, <2>3, <2>4, <2>5, <2>6, StepDeleted
  <2>7. PairInv' /\ JobTyped(rec')
        BY <1>3, <1>5, <2>3, <2>6 DEF DeleteLoadBalancer
  <2>8. QED
        BY <1>1, <1>2, <2>3, <2>7, StepInReconcile DEF FaultKinds
<1>6. QED
      BY <1>4, <1>5

LEMMA PairCallFails ==
    ASSUME Shape, PairInv, CallFails
    PROVE  Shape' /\ PairInv'
<1>1. /\ UNCHANGED <<wlState, wlName, cox, clusterDeleting>> /\ rec # Idle
      /\ \E k \in FaultKinds : Spend(k)
      BY DEF CallFails, Idle, k8sVars, cloudVars, FaultKinds
<1>2. Ages /\ cox \in Object
      BY <1>1, OnlyCreationDoesNotAge DEF Shape
<1>3. /\ Answer(Failure("error")) /\ Failure("error").status = "error"
      /\ Failure("error").ip = None
      BY DEF Failure, Answer, Ref
<1>4. CASE rec.at = "get" /\ Answered(Failure("error"), Compare)
      BY <1>1, <1>2, <1>3, <1>4, AnswerLearned, StepAnswer, StepInReconcile
<1>5. CASE rec.at = "create" /\ Created
      BY <1>1, <1>2, <1>5, StepNoPost, StepInReconcile
<1>6. CASE rec.at = "update" /\ rec' = [rec EXCEPT !.at = "close"]
      BY <1>1, <1>2, <1>6, StepGivesUp, StepInReconcile
<1>7. CASE rec.at = "delete" /\ Answered(Failure("error"), Deleted)
      BY <1>1, <1>2, <1>3, <1>7, StepDeleted, StepInReconcile
<1>8. QED
      BY <1>4, <1>5, <1>6, <1>7 DEF CallFails

LEMMA PairClose ==
    ASSUME Shape, PairInv, Close \/ ClosePartly \/ Crash
    PROVE  Shape' /\ PairInv'
<1>1. UNCHANGED faults \/ \E k \in FaultKinds : Spend(k)
      BY DEF Close, ClosePartly, Crash, FaultKinds
<1>2. ASSUME NEW parts, Write(parts)
      PROVE  Shape' /\ PairInv'
  <2>1. Ages
        BY <1>2, OnlyCreationDoesNotAge DEF Write, cloudVars
  <2>2. QED
        BY <1>1, <1>2, <2>1, StepWrites, StepInReconcile
<1>3. CASE rec' = Idle /\ UNCHANGED <<cloudVars, backends, k8sVars>>
  <2>1. UNCHANGED <<wlState, wlName, cox, clusterDeleting>> /\ cox \in Object
        BY <1>3 DEF cloudVars, k8sVars, Shape
  <2>2. Ages
        BY <2>1, OnlyCreationDoesNotAge
  <2>3. Distinct' /\ (NoneLive => NoneLive')
        BY <2>2, PairParts, DistinctOfAging, KnownOfAging
  <2>4. PairInv'
        BY <1>3, <2>1, <2>3, PairParts DEF PairInv, Distinct, Ended
  <2>5. QED
        BY <1>1, <1>3, <2>1, <2>2, <2>4, StepInReconcile
<1>4. QED
      BY <1>2, <1>3 DEF Close, ClosePartly, Crash

LEMMA PairOthers ==
    ASSUME KeepsUp, Shape, PairInv,
           \/ DeleteCluster \/ DeleteCoxCluster \/ \E lb \in Lbs : MachinesChange(lb)
           \/ \E w \in Workloads : CliDelete(w) \/ CloudStep(w) \/ CloudFault(w)
           \/ UNCHANGED vars
    PROVE  Shape' /\ PairInv'
<1>1. cox \in Object /\ (rec # Idle => JobTyped(rec))
      BY DEF Shape
<1>2. /\ rec' = rec /\ (UNCHANGED faults \/ \E k \in FaultKinds : Spend(k))
      /\ \/ UNCHANGED <<wlState, wlName>>
         \/ \E w \in Workloads :
               \/ DeleteWorkload(w) \/ Appear(w) \/ Provision(w, ListLag)
               \/ Boot(w) \/ Vanish(w) \/ FailProvisioning(w)
      BY DEF DeleteCluster, DeleteCoxCluster, MachinesChange, CliDelete, CloudStep,
             CloudFault, FaultKinds, vars, cloudVars
<1>3. Ages
      BY <1>2, OnlyCreationDoesNotAge
<1>4. \/ UNCHANGED <<cox, clusterDeleting>>
      \/ /\ UNCHANGED cox /\ cox.finalizer /\ clusterDeleting'
      \/ /\ clusterDeleting /\ UNCHANGED clusterDeleting
         /\ cox' = Settled([cox EXCEPT !.deleting = TRUE])
      BY DEF DeleteCluster, DeleteCoxCluster, MachinesChange, CliDelete, CloudStep,
             CloudFault, vars, k8sVars, KeepsUp
<1>5. cox' \in Object
      BY <1>1, <1>4 DEF Settled, Gone, Fresh, Object, Ref
<1>6. PairInv'
      BY <1>2, <1>3, <1>4, PairAround
<1>7. QED
      BY <1>1, <1>2, <1>3, <1>5, <1>6, StepInReconcile

-----------------------------------------------------------------------------

\* The calls, as far as the two load balancers are concerned.
Calls ==
    \/ Gets \/ CreateLoadBalancer \/ CreateRefused \/ Updates
    \/ DeleteLoadBalancer \/ DeleteMissing \/ Close

LEMMA CallsOf ==
    ASSUME Shape, Call
    PROVE  Calls
BY GetLearns, UpdateGoesOn DEF Call, Calls

LEMMA PairCalls ==
    ASSUME Shape, PairInv, Calls
    PROVE  Shape' /\ PairInv'
BY PairGet, PairCreate, PairRefused, PairUpdate, PairDelete, PairClose DEF Calls

LEMMA PairStep ==
    ASSUME KeepsUp, Shape, PairInv, [Next]_vars
    PROVE  Shape' /\ PairInv'
BY StartBegins, PairStart, CallsOf, PairCalls, PairCallFails, PairClose, PairOthers
DEF Next

LEMMA PairInit ==
    ASSUME Init
    PROVE  Shape /\ PairInv
<1>1. Shape
      BY ClusterAssumption
      DEF Init, CloudInit, Fresh, Shape, WorkloadStates, Object, Ref
<1>2. PairInv
      BY DEF Init, CloudInit, Fresh, PairInv, IsControlPlane, Exists, Ended
<1>3. QED
      BY <1>1, <1>2

\* At any time every load balancer that is there was created by this controller
\* and is the only one of its name, and a reconcile is right in what it knows:
\* that there is none before it creates one, that there is no other than the one
\* whose address it publishes, that none is left before the finalizer goes
\* (coxcluster_controller.go:240-345 and 400-438, loadbalancer.go:78-203).
THEOREM PairCorrect ==
    ASSUME KeepsUp
    PROVE  Spec => [](Shape /\ PairInv)
<1>1. Init => Shape /\ PairInv
      BY PairInit
<1>2. Shape /\ PairInv /\ [Next]_vars => Shape' /\ PairInv'
      BY PairStep
<1>3. QED
      BY <1>1, <1>2, PTL DEF Spec

-----------------------------------------------------------------------------
(* What follows from it.                                                   *)

LEMMA LiveAreDistinct ==
    ASSUME Shape, PairInv
    PROVE  AtMostOneOfEach
BY PairParts, LiveExists DEF Distinct, Alone, AtMostOneOfEach

\* Never two control planes' load balancers alive, nor two of the workers'
\* (coxcluster_controller.go:256-295, which creates both or none, and only when
\* the list shows neither).
THEOREM AtMostOneOfEachCorrect ==
    ASSUME KeepsUp
    PROVE  Spec => []AtMostOneOfEach
BY PairCorrect, LiveAreDistinct, PTL

\* When the CoxCluster is gone from the API server no load balancer of it is left
\* (coxcluster_controller.go:400-438): the finalizer stays until both deletions
\* were accepted in one reconcile.
THEOREM NoLeakCorrect ==
    ASSUME KeepsUp
    PROVE  Spec => []NoLeak
<1>1. Shape /\ PairInv => NoLeak
      BY DEF PairInv, Ended, Gone, Fresh, NoneLive, NoLeak
<1>2. QED
      BY <1>1, PairCorrect, PTL

\* What a patch makes of the endpoint: it stays, or is found anew, or leaves
\* with the object.
LEMMA EndpointWritten ==
    ASSUME Shape, PairInv, NEW parts, Write(parts)
    PROVE  /\ rec.new \in Object
           /\ \/ cox'.exists = cox.exists /\ cox'.endpoint = cox.endpoint
              \/ /\ cox'.exists = cox.exists /\ cox'.endpoint = rec.new.endpoint
                 /\ Found(rec.new.endpoint)
              \/ cox' = Gone
<1>1. rec # Idle /\ rec.at = "close"
      BY DEF Write, Idle
<1>2. rec.old \in Object /\ rec.new \in Object /\ cox \in Object /\ Knows
      BY <1>1, PairParts DEF Shape, JobTyped
<1>3. PICK o : o = Patched(parts)
      OBVIOUS
<1>4. /\ o.exists = cox.exists
      /\ o.endpoint = cox.endpoint
         \/ (o.endpoint = rec.new.endpoint /\ rec.new.endpoint # rec.old.endpoint)
      BY <1>2, <1>3 DEF Patched, Object
<1>5. cox' = Gone \/ cox' = o
      BY <1>3 DEF Write, Settled
<1>6. QED
      BY <1>2, <1>4, <1>5 DEF Knows

\* Only a patch touches the endpoint, apart from the deletion of the object.
LEMMA EndpointSteps ==
    ASSUME [Next]_vars
    PROVE  \/ UNCHANGED cox
           \/ cox.exists /\ cox' = Settled([cox EXCEPT !.deleting = TRUE])
                /\ UNCHANGED <<wlState, wlName>>
           \/ \E parts : Write(parts)
<1>1. CASE Call
      BY <1>1 DEF Call, GetLoadBalancer, CreateLoadBalancer, CreateRefused,
                  UpdateLoadBalancer, UpdateMissing, DeleteLoadBalancer, DeleteMissing,
                  Close, k8sVars
<1>2. CASE Start \/ CallFails \/ ClosePartly \/ Crash
      BY <1>2 DEF Start, StartDelete, StartNormal, Begin, CallFails, ClosePartly, Crash,
                  k8sVars
<1>3. CASE \/ DeleteCluster \/ DeleteCoxCluster \/ \E lb \in Lbs : MachinesChange(lb)
           \/ \E w \in Workloads : CliDelete(w) \/ CloudStep(w) \/ CloudFault(w)
           \/ UNCHANGED vars
      BY <1>3 DEF DeleteCluster, DeleteCoxCluster, MachinesChange, CliDelete, CloudStep,
                  CloudFault, k8sVars, cloudVars, vars
<1>4. QED
      BY <1>1, <1>2, <1>3 DEF Next

\* Clients are never moved between two load balancers that are both alive
\* (coxcluster_controller.go:319-345): the endpoint changes only when the one that
\* it named is being deleted or gone.
THEOREM EndpointMovesCorrect ==
    ASSUME KeepsUp
    PROVE  Spec => EndpointMovesOnlyFromDead
<1>1. ASSUME Shape, PairInv, [Next]_vars,
             cox.endpoint # None, cox'.exists, cox'.endpoint # cox.endpoint
      PROVE  ~Live(cox.endpoint)
  <2>1. cox \in Object /\ ~Gone.exists
        BY <1>1 DEF Shape, Gone, Fresh
  <2>2. CASE cox' = Settled([cox EXCEPT !.deleting = TRUE])
        BY <1>1, <2>1, <2>2 DEF Settled, Object
  <2>3. CASE \E parts : Write(parts)
    <3>1. PICK w : w = rec.new.endpoint
          OBVIOUS
    <3>2. Found(w) /\ w # cox.endpoint
          BY <1>1, <2>1, <2>3, <3>1, EndpointWritten
    <3>3. cox.endpoint \in Workloads /\ wlName[cox.endpoint] = Cp
          BY <1>1, <2>1, PairParts DEF Object, Ref, IsControlPlane
    <3>4. QED
          BY <1>1, <3>2, <3>3, LiveExists DEF Found, Alone
  <2>4. QED
        BY <1>1, <2>2, <2>3, EndpointSteps
<1>2. Shape /\ PairInv /\ [Next]_vars
          => [cox.endpoint # None /\ cox'.exists /\ cox'.endpoint # cox.endpoint
                => ~Live(cox.endpoint)]_vars
      BY <1>1
<1>3. QED
      BY <1>2, PairCorrect, PTL DEF Spec, EndpointMovesOnlyFromDead

-----------------------------------------------------------------------------
(* Every step of the controller and of what is around it is one of the     *)
(* contract, or none that it sees.                                         *)

LEMMA ContractStutters ==
    ASSUME UNCHANGED wlName, \A w \in Workloads : Live(w)' <=> Live(w),
           cox'.exists = cox.exists, cox'.endpoint = cox.endpoint
    PROVE  UNCHANGED Contract!contractVars
BY DEF Contract!contractVars

LEMMA ContractStops ==
    ASSUME NEW w \in Workloads, UNCHANGED <<wlName, cox>>,
           \A v \in Workloads : Live(v)' <=> Live(v) /\ v # w
    PROVE  Contract!Next
<1>1. {v \in Workloads : Live(v)}' = {v \in Workloads : Live(v)} \ {w}
      OBVIOUS
<1>2. Contract!Stop(w)
      BY <1>1 DEF Contract!Stop
<1>3. QED
      BY <1>2 DEF Contract!Next

LEMMA ContractRuns ==
    ASSUME Shape, PairInv, CreateLoadBalancer
    PROVE  Contract!Next
<1>1. rec # Idle /\ rec.lb \in Lbs /\ rec.at = "create" /\ Knows /\ UNCHANGED cox
      BY PairParts DEF CreateLoadBalancer, Shape, JobTyped, Idle, k8sVars
<1>2. cox.exists /\ NoneNamed(rec.lb)
      BY <1>1, PairParts DEF Knows, Lbs, Ended, Gone, Fresh
<1>3. PICK w \in Workloads : CreateWorkload(w, rec.lb)
      BY DEF CreateLoadBalancer
<1>4. /\ wlName[w] = None /\ wlName' = [wlName EXCEPT ![w] = rec.lb]
      /\ Live(w)' /\ \A v \in Workloads : v # w => (Live(v)' <=> Live(v))
      BY <1>3, PairParts DEF CreateWorkload, Shape, Live, Distinct
<1>5. \A v \in Workloads : Live(v) => wlName[v] # rec.lb
      BY <1>2, LiveExists DEF NoneNamed
<1>6. Contract!Idle(rec.lb)
      BY <1>5 DEF Contract!Idle
<1>7. {v \in Workloads : Live(v)}' = {v \in Workloads : Live(v)} \cup {w}
      BY <1>4
<1>8. Contract!Run(rec.lb, w)
      BY <1>1, <1>2, <1>4, <1>6, <1>7 DEF Contract!Run
<1>9. QED
      BY <1>1, <1>8 DEF Contract!Next

\* The CoxCluster leaves as the owner of both, when neither runs.
LEMMA ContractLeaves ==
    ASSUME Shape, PairInv, PairInv', UNCHANGED <<wlState, wlName>>, cox.exists, cox' = Gone
    PROVE  Contract!Next
<1>1. ~cox'.exists /\ cox'.endpoint = None
      BY DEF Gone, Fresh
<1>2. NoneLive'
      BY <1>1 DEF PairInv, Ended, Gone, Fresh
<1>3. \A w \in Workloads : (wlName[w] \in Lbs => ~Live(w)) /\ (Live(w)' <=> Live(w))
      BY <1>2 DEF NoneLive, Ours, Live
<1>4. Contract!Leave(Lbs)
      BY <1>1, <1>3 DEF Contract!Leave, Contract!Idle
<1>5. QED
      BY <1>4 DEF Contract!Next

LEMMA ContractWrites ==
    ASSUME Shape, PairInv, PairInv', NEW parts, Write(parts)
    PROVE  Contract!Next \/ UNCHANGED Contract!contractVars
<1>1. UNCHANGED <<wlState, wlName>> /\ \A w \in Workloads : Live(w)' <=> Live(w)
      BY DEF Write, cloudVars, Live
<1>2. cox \in Object /\ Gone.endpoint = None /\ ~Gone.exists
      BY DEF Shape, Gone, Fresh
<1>3. CASE cox'.exists = cox.exists /\ cox'.endpoint = cox.endpoint
      BY <1>1, <1>3, ContractStutters
<1>4. CASE cox' = Gone
  <2>1. CASE cox.exists
        BY <1>1, <1>4, <2>1, ContractLeaves
  <2>2. CASE ~cox.exists
        BY <1>1, <1>4, <2>2, PairParts, ContractStutters
  <2>3. QED
        BY <2>1, <2>2
<1>5. ASSUME cox'.exists = cox.exists, cox'.endpoint = rec.new.endpoint,
             Found(rec.new.endpoint), cox'.endpoint # cox.endpoint, cox' # Gone
      PROVE  Contract!Next
  <2>1. PICK w \in Workloads : w = rec.new.endpoint /\ Found(w) /\ wlName[w] = Cp
        BY <1>5 DEF Found
  <2>2. cox.exists
        BY <1>5 DEF PairInv
  <2>3. cox.endpoint \notin {v \in Workloads : Live(v)}
    <3>1. ASSUME cox.endpoint \in Workloads, Live(cox.endpoint)
          PROVE  FALSE
      <4>1. Exists(cox.endpoint) /\ wlName[cox.endpoint] = Cp
            BY <3>1, PairParts, LiveExists, NoneName DEF IsControlPlane
      <4>2. QED
            BY <1>5, <2>1, <3>1, <4>1 DEF Found, Alone
    <3>2. QED
          BY <3>1
  <2>4. [lb \in Lbs |-> IF lb = Cp THEN cox.endpoint ELSE None]'
          = [[lb \in Lbs |-> IF lb = Cp THEN cox.endpoint ELSE None] EXCEPT ![Cp] = w]
        BY <1>5, <2>1
  <2>5. Contract!Refer(Cp, w)
        BY <1>1, <1>5, <2>1, <2>2, <2>3, <2>4, NoneName DEF Contract!Refer
  <2>6. QED
        BY <2>1, <2>5, NoneName DEF Contract!Next
<1>6. QED
      BY <1>3, <1>4, <1>5, EndpointWritten

LEMMA ContractServes ==
    ASSUME Shape, UNCHANGED cox,
           \/ UNCHANGED <<wlState, wlName>>
           \/ \E w \in Workloads :
                 \/ DeleteWorkload(w) \/ Appear(w) \/ Provision(w, ListLag)
                 \/ Boot(w) \/ Vanish(w) \/ FailProvisioning(w)
    PROVE  Contract!Next \/ UNCHANGED Contract!contractVars
<1>1. CASE UNCHANGED <<wlState, wlName>>
      BY <1>1, ContractStutters DEF Live
<1>2. ASSUME NEW w \in Workloads, Appear(w) \/ Vanish(w)
      PROVE  UNCHANGED Contract!contractVars
  <2>1. UNCHANGED wlName /\ \A v \in Workloads : Live(v)' <=> Live(v)
        BY <1>2 DEF Appear, Vanish, Live, Shape
  <2>2. QED
        BY <2>1, ContractStutters
<1>3. ASSUME NEW w \in Workloads, DeleteWorkload(w) \/ FailProvisioning(w)
      PROVE  Contract!Next
  <2>1. UNCHANGED wlName /\ \A v \in Workloads : Live(v)' <=> Live(v) /\ v # w
        BY <1>3 DEF DeleteWorkload, FailProvisioning, Live, Shape
  <2>2. QED
        BY <2>1, ContractStops
<1>4. QED
      BY <1>1, <1>2, <1>3 DEF Provision, Boot

\* The controller keeps the contract of module ResourceContract for its two load
\* balancers: every step runs, stops or refers to one of them, lets the CoxCluster
\* leave, or is none that the contract sees.
THEOREM ClusterContractCorrect ==
    ASSUME KeepsUp
    PROVE  Spec => ImplementsContract
<1>1. Init => Contract!Init
      BY DEF Init, CloudInit, Contract!Init, Fresh, Live
<1>2. Shape /\ PairInv /\ PairInv' /\ [Next]_vars
          => [Contract!Next]_(Contract!contractVars)
  <2> SUFFICES ASSUME Shape, PairInv, PairInv', [Next]_vars
               PROVE  Contract!Next \/ UNCHANGED Contract!contractVars
      OBVIOUS
  <2>1. CASE CreateLoadBalancer
        BY <2>1, ContractRuns
  <2>2. CASE \E parts : Write(parts)
        BY <2>2, ContractWrites
  <2>3. CASE DeleteCoxCluster
    <3>1. /\ UNCHANGED <<wlState, wlName>> /\ cox \in Object /\ cox.exists
          /\ cox' = Settled([cox EXCEPT !.deleting = TRUE])
          BY <2>3 DEF DeleteCoxCluster, cloudVars, Shape
    <3>2. \/ cox' = Gone
          \/ cox'.exists = cox.exists /\ cox'.endpoint = cox.endpoint
          BY <3>1 DEF Settled, Object
    <3>3. QED
          BY <3>1, <3>2, ContractLeaves, ContractStutters DEF Live
  <2>4. CASE /\ UNCHANGED cox
             /\ \/ UNCHANGED <<wlState, wlName>>
                \/ \E w \in Workloads :
                      \/ DeleteWorkload(w) \/ Appear(w) \/ Provision(w, ListLag)
                      \/ Boot(w) \/ Vanish(w) \/ FailProvisioning(w)
        BY <2>4, ContractServes
  <2>5. CASE Call
    <3>1. CASE DeleteLoadBalancer
          BY <2>4, <3>1 DEF DeleteLoadBalancer, Matches, k8sVars
    <3>2. QED
          BY <2>1, <2>2, <2>4, <2>5, <3>1
          DEF Call, GetLoadBalancer, CreateRefused, UpdateLoadBalancer, UpdateMissing,
              UpdateWorkload, DeleteMissing, Close, k8sVars, cloudVars
  <2>6. CASE Start \/ CallFails \/ ClosePartly \/ Crash
        BY <2>2, <2>4, <2>6
        DEF Start, StartDelete, StartNormal, Begin, CallFails, ClosePartly, Crash,
            k8sVars, cloudVars
  <2>7. CASE \/ DeleteCluster \/ \E lb \in Lbs : MachinesChange(lb)
             \/ \E w \in Workloads : CliDelete(w) \/ CloudStep(w) \/ CloudFault(w)
             \/ UNCHANGED vars
        BY <2>4, <2>7 DEF DeleteCluster, MachinesChange, CliDelete, CloudStep, CloudFault,
                          k8sVars, cloudVars, vars
  <2>8. QED
        BY <2>3, <2>5, <2>6, <2>7 DEF Next
<1>3. QED
      BY <1>1, <1>2, PairCorrect, PTL DEF Spec, ImplementsContract, Contract!Spec

-----------------------------------------------------------------------------
(* Beside other users of the environment.                                  *)

\* A step of somebody else in the same environment: the cluster and its two
\* load balancers stay as they are, and nobody takes one of their names.
ForeignStep ==
    /\ wlState' \in [Workloads -> WorkloadStates]
    /\ wlName' \in [Workloads -> Names \cup {None}]
    /\ UNCHANGED <<cox, clusterDeleting, rec, faults>>
    /\ \A w \in Workloads :
          /\ wlState'[w] = "unborn" => wlName'[w] = None
          /\ \A lb \in Lbs : wlName'[w] = lb <=> wlName[w] = lb
          /\ Ours(w) => wlState'[w] = wlState[w]

LEMMA PairBeside ==
    ASSUME Shape, PairInv, ForeignStep
    PROVE  Shape' /\ PairInv'
<1>1. Shape'
      BY DEF Shape, ForeignStep
<1>2. \A w \in Workloads :
          /\ Ours(w)' <=> Ours(w)
          /\ Ours(w) =>
                /\ wlName'[w] = wlName[w] /\ wlState'[w] = wlState[w]
                /\ (Exists(w)' <=> Exists(w)) /\ (Live(w)' <=> Live(w))
      BY DEF ForeignStep, Ours, Exists, Live
<1>3. /\ NoneLive' <=> NoneLive
      /\ AllShown' <=> AllShown
      /\ \A lb \in Lbs : NoneNamed(lb)' <=> NoneNamed(lb)
      BY <1>2 DEF NoneLive, AllShown, NoneNamed, Ours
<1>4. \A w \in Workloads : Ours(w) => (Alone(w)' <=> Alone(w))
      BY <1>2 DEF Alone, Ours
<1>5. \A w : Found(w)' <=> Found(w)
      BY <1>2, <1>4, NoneName DEF Found, Ours
<1>6. Distinct'
      BY <1>2, <1>4, PairParts DEF Distinct, ForeignStep
<1>7. IsControlPlane(wlName', cox'.endpoint)
  <2>1. cox.endpoint # None => cox.endpoint \in Workloads /\ wlName[cox.endpoint] = Cp
        BY PairParts DEF IsControlPlane, Shape, Object, Ref
  <2>2. QED
        BY <2>1, NoneName DEF ForeignStep, IsControlPlane
<1>8. rec # Idle => Knows'
  <2> SUFFICES ASSUME rec # Idle
               PROVE  Knows'
      OBVIOUS
  <2>1. Knows /\ UNCHANGED <<cox, clusterDeleting, rec>>
        BY PairParts DEF ForeignStep
  <2>2. /\ rec.new.endpoint # rec.old.endpoint => Found(rec.new.endpoint)'
        /\ rec.at \in {"get", "update"} /\ rec.got[Cp].ip # None => Found(rec.got[Cp].ip)'
        BY <1>5, <2>1 DEF Knows, Found, Alone, Exists
  <2>3. \A lb \in Lbs, w \in Workloads : wlName'[w] = lb /\ Live(w)' => wlName[w] = lb /\ Live(w)
        BY <1>2 DEF Ours
  <2>4. QED
        BY <1>3, <2>1, <2>2, <2>3, NoneName DEF Knows, Ended
<1>9. QED
      BY <1>1, <1>3, <1>6, <1>7, <1>8, PairParts DEF PairInv, Distinct, Ended, ForeignStep

\* The CoxCluster is marked for deletion while its finalizer holds it.
LEMMA PairMarked ==
    ASSUME Shape, PairInv, cox.finalizer, cox' = [cox EXCEPT !.deleting = TRUE],
           UNCHANGED <<wlState, wlName, clusterDeleting, rec, faults>>
    PROVE  Shape' /\ PairInv'
<1>1. Ages
      BY OnlyCreationDoesNotAge
<1>2. cox \in Object /\ cox' \in Object
      BY DEF Shape, Object
<1>3. cox.exists
      BY PairParts DEF Gone, Fresh
<1>4. cox' = Settled([cox EXCEPT !.deleting = TRUE])
      BY <1>2, <1>3 DEF Settled, Object
<1>5. PairInv'
      BY <1>1, <1>4, PairAround
<1>6. rec' = Idle \/ JobTyped(rec')
      BY DEF Shape
<1>7. QED
      BY <1>1, <1>2, <1>5, <1>6, StepInReconcile

\* An endpoint that was published stays, as long as the Cluster is not deleted.
LEMMA EndpointLasts ==
    ASSUME Shape, PairInv, Calls, ~clusterDeleting, cox.endpoint # None
    PROVE  cox'.endpoint # None
<1>1. CASE ~Close
      BY <1>1 DEF Calls, Gets, CreateLoadBalancer, CreateRefused, Updates,
                  DeleteLoadBalancer, DeleteMissing, k8sVars
<1>2. CASE Close
  <2>1. PairInv' /\ UNCHANGED clusterDeleting
        BY <1>2, PairClose DEF Close, Write
  <2>2. cox' # Gone
        BY <2>1 DEF PairInv, Gone, Fresh
  <2>3. PICK parts : Write(parts)
        BY <1>2 DEF Close
  <2>4. rec # Idle /\ Knows /\ JobTyped(rec) /\ cox \in Object
        BY <2>3, PairParts DEF Write, Idle, Shape
  <2>5. cox' = Patched(parts)
        BY <2>2, <2>3 DEF Write, Settled
  <2>6. \/ cox'.endpoint = cox.endpoint
        \/ cox'.endpoint = rec.new.endpoint /\ rec.new.endpoint # rec.old.endpoint
        BY <2>4, <2>5 DEF Patched, Object
  <2>7. QED
        BY <2>4, <2>6, NoneName DEF Knows, Found
<1>3. QED
      BY <1>1, <1>2

=============================================================================
