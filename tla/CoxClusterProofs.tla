-------------------------- MODULE CoxClusterProofs --------------------------
(***************************************************************************)
(* The endpoint of a cluster is its control plane's: a theorem about       *)
(* CoxCluster for any quota, addresses and faults but the loss of a part   *)
(* of a patch.                                                             *)
(***************************************************************************)
EXTENDS CoxCluster, TLAPS

(* The theorem needs no more of the types than that the fields are there   *)
(* and refer to workloads: what the lists of backends hold is left open.   *)

Answer(r) == r \in [status: {r.status}, backends: {r.backends}, ip: Ref]

JobTyped(job) ==
    /\ job \in [at: {job.at}, lb: Lbs, want: {job.want}, got: {job.got},
                old: Object, new: Object]
    /\ job.got \in [Lbs -> {job.got[lb] : lb \in Lbs}]
    /\ \A lb \in Lbs : Answer(job.got[lb])

Shape ==
    /\ wlState \in [Workloads -> WorkloadStates]
    /\ wlName \in [Workloads -> Names \cup {None}]
    /\ cox \in Object
    /\ faults \in [FaultKinds -> Nat]
    /\ rec # Idle => JobTyped(rec)

IInv == Shape /\ EndpointInv

LEMMA NoneName == None # Cp /\ None \notin Workloads /\ Cp \in Lbs /\ Worker \in Lbs
BY NoneAssumption, ClusterAssumption DEF Lbs

-----------------------------------------------------------------------------
(* The code between the calls: what follows a good state of a reconcile is *)
(* good, and remembers the object that was read.                           *)

Good(names, job) == JobTyped(job) /\ Sound(names, job)
Follows(names, job, next) == Good(names, next) /\ next.old = job.old

\* Another call, and another load balancer, change nothing else.
LEMMA Moved ==
    ASSUME NEW names, NEW job, Good(names, job), NEW at, NEW lb \in Lbs
    PROVE  /\ Follows(names, job, [job EXCEPT !.at = at])
           /\ Follows(names, job, [job EXCEPT !.lb = lb])
           /\ Follows(names, job, [job EXCEPT !.at = at, !.lb = lb])
<1> DEFINE a == [job EXCEPT !.at = at]
           b == [job EXCEPT !.lb = lb]
           c == [job EXCEPT !.at = at, !.lb = lb]
<1>1. /\ a.at = at /\ a.lb = job.lb /\ a.want = job.want /\ a.got = job.got
      /\ a.old = job.old /\ a.new = job.new
      /\ a \in [at: {at}, lb: Lbs, want: {job.want}, got: {job.got},
                old: Object, new: Object]
      BY DEF JobTyped, Good
<1>2. /\ b.at = job.at /\ b.lb = lb /\ b.want = job.want /\ b.got = job.got
      /\ b.old = job.old /\ b.new = job.new
      /\ b \in [at: {job.at}, lb: Lbs, want: {job.want}, got: {job.got},
                old: Object, new: Object]
      BY DEF JobTyped, Good
<1>3. /\ c.at = at /\ c.lb = lb /\ c.want = job.want /\ c.got = job.got
      /\ c.old = job.old /\ c.new = job.new
      /\ c \in [at: {at}, lb: Lbs, want: {job.want}, got: {job.got},
                old: Object, new: Object]
      BY DEF JobTyped, Good
<1> HIDE DEF a, b, c
<1>4. JobTyped(a) /\ JobTyped(b) /\ JobTyped(c)
      BY <1>1, <1>2, <1>3 DEF JobTyped, Good
<1>5. Sound(names, a) /\ Sound(names, b) /\ Sound(names, c)
      BY <1>1, <1>2, <1>3 DEF Sound, Good
<1>6. QED
      BY <1>1, <1>2, <1>3, <1>4, <1>5 DEF a, b, c, Follows, Good

\* An answer about the control plane names no other workload.
LEMMA Noted ==
    ASSUME NEW names, NEW job, Good(names, job), NEW lb \in Lbs,
           NEW result, Answer(result), lb = Cp => IsControlPlane(names, result.ip)
    PROVE  /\ Follows(names, job, [job EXCEPT !.got[lb] = result])
           /\ [job EXCEPT !.got[lb] = result].lb = job.lb
<1> DEFINE got == [job.got EXCEPT ![lb] = result]
           a == [job EXCEPT !.got[lb] = result]
<1>1. /\ a.at = job.at /\ a.lb = job.lb /\ a.want = job.want /\ a.got = got
      /\ a.old = job.old /\ a.new = job.new
      /\ a \in [at: {job.at}, lb: Lbs, want: {job.want}, got: {got},
                old: Object, new: Object]
      BY DEF JobTyped, Good
<1>2. /\ \A l \in Lbs : got[l] = IF l = lb THEN result ELSE job.got[l]
      /\ got \in [Lbs -> {got[l] : l \in Lbs}]
      BY DEF JobTyped, Good
<1>3. Cp \in Lbs
      BY NoneName
<1> HIDE DEF a, got
<1>4. JobTyped(a)
      BY <1>1, <1>2 DEF JobTyped, Good
<1>5. IsControlPlane(names, got[Cp].ip)
      BY <1>2, <1>3 DEF Sound, Good
<1>6. Sound(names, a)
      BY <1>1, <1>5 DEF Sound, Good
<1>7. QED
      BY <1>1, <1>4, <1>6 DEF a, Follows, Good

\* The known address may be forgotten.
LEMMA Forgotten ==
    ASSUME NEW names, NEW job, Good(names, job)
    PROVE  Follows(names, job, [job EXCEPT !.got[Cp].ip = None])
<1> DEFINE result == [job.got[Cp] EXCEPT !.ip = None]
<1>1. Cp \in Lbs
      BY NoneName
<1>2. Answer(result) /\ result.ip = None
      BY <1>1 DEF JobTyped, Answer, Ref, Good
<1>3. [job EXCEPT !.got[Cp].ip = None] = [job EXCEPT !.got[Cp] = result]
      BY <1>1 DEF JobTyped, Good
<1> HIDE DEF result
<1>4. QED
      BY <1>1, <1>2, <1>3, Noted DEF IsControlPlane

\* Only the address of the control plane is published.
LEMMA Finished ==
    ASSUME NEW names, NEW job, Good(names, job)
    PROVE  Follows(names, job, Finish(job))
<1> DEFINE ip == job.got[Cp].ip
           new == [job.new EXCEPT !.endpoint = ip, !.ready = TRUE, !.lbIP = ip]
           done == [job EXCEPT !.at = "close", !.new = new]
<1>1. ip \in Ref /\ IsControlPlane(names, ip)
      BY NoneName DEF JobTyped, Answer, Sound, Good
<1>2. CASE ip = None
      BY <1>2, Moved, NoneName DEF Finish
<1>3. CASE ip # None
  <2>1. Finish(job) = done
        BY <1>3 DEF Finish, Publish, JobTyped, Object, Good
  <2>2. new \in Object /\ new.endpoint = ip /\ new.ready
        BY <1>1 DEF JobTyped, Object, Good
  <2>3. /\ done.at = "close" /\ done.lb = job.lb /\ done.want = job.want
        /\ done.got = job.got /\ done.old = job.old /\ done.new = new
        /\ done \in [at: {done.at}, lb: Lbs, want: {job.want}, got: {job.got},
                     old: Object, new: Object]
        BY <2>2 DEF JobTyped, Good
  <2> HIDE DEF new, done
  <2>4. JobTyped(done)
        BY <2>3 DEF JobTyped, Good
  <2>5. Sound(names, done)
        BY <1>1, <1>3, <2>2, <2>3 DEF Sound, Pointed, Good
  <2>6. QED
        BY <2>1, <2>3, <2>4, <2>5 DEF Follows, Good
<1>4. QED
      BY <1>2, <1>3

LEMMA ComparedWorker ==
    ASSUME NEW names, NEW job, Good(names, job)
    PROVE  Follows(names, job, CompareWorker(job))
<1>1. \/ CompareWorker(job) = [job EXCEPT !.at = "close"]
      \/ CompareWorker(job) = [job EXCEPT !.at = "update", !.lb = Worker]
      \/ CompareWorker(job) = Finish(job)
      BY DEF CompareWorker
<1>2. /\ Follows(names, job, [job EXCEPT !.at = "close"])
      /\ Follows(names, job, [job EXCEPT !.at = "update", !.lb = Worker])
      BY Moved, NoneName
<1>3. Follows(names, job, Finish(job))
      BY Finished
<1>4. QED
      BY <1>1, <1>2, <1>3

LEMMA Compared ==
    ASSUME NEW names, NEW job, Good(names, job)
    PROVE  Follows(names, job, Compare(job))
<1>1. \/ Compare(job) = [job EXCEPT !.at = "close"]
      \/ Compare(job) = [job EXCEPT !.at = "create", !.lb = Cp]
      \/ Compare(job) = [job EXCEPT !.at = "update", !.lb = Cp]
      \/ Compare(job) = CompareWorker(job)
      BY DEF Compare
<1>2. /\ Follows(names, job, [job EXCEPT !.at = "close"])
      /\ Follows(names, job, [job EXCEPT !.at = "create", !.lb = Cp])
      /\ Follows(names, job, [job EXCEPT !.at = "update", !.lb = Cp])
      BY Moved, NoneName
<1>3. Follows(names, job, CompareWorker(job))
      BY ComparedWorker
<1>4. QED
      BY <1>1, <1>2, <1>3

\* A deletion changes no more than the finalizer of the copy.
LEMMA Removed ==
    ASSUME NEW names, NEW job, Good(names, job)
    PROVE  Follows(names, job, Deleted(job))
<1> DEFINE both == \A lb \in Lbs : job.got[lb].status = "ok"
           new == [job.new EXCEPT !.finalizer = @ /\ ~both]
           done == [job EXCEPT !.at = "close", !.new = new]
<1>1. Deleted(job) = done
      BY DEF Deleted
<1>2. job.new.finalizer \in BOOLEAN
      BY DEF JobTyped, Object, Good
<1> HIDE DEF both
<1>3. (job.new.finalizer /\ ~both) \in BOOLEAN
      OBVIOUS
<1>4. new \in Object /\ new.endpoint = job.new.endpoint /\ new.ready = job.new.ready
      BY <1>3 DEF JobTyped, Object, Good
<1>5. /\ done.at = "close" /\ done.lb = job.lb /\ done.want = job.want
      /\ done.got = job.got /\ done.old = job.old /\ done.new = new
      /\ done \in [at: {done.at}, lb: Lbs, want: {job.want}, got: {job.got},
                   old: Object, new: Object]
      BY <1>4 DEF JobTyped, Good
<1> HIDE DEF new, done
<1>6. JobTyped(done)
      BY <1>5 DEF JobTyped, Good
<1>7. Sound(names, done)
      BY <1>4, <1>5 DEF Sound, Pointed, Good
<1>8. QED
      BY <1>1, <1>5, <1>6, <1>7 DEF Follows, Good

\* On with an answer, to the other load balancer or to what comes after both.
LEMMA AnsweredCompare ==
    ASSUME NEW names, Good(names, rec), NEW result, Answer(result),
           rec.lb = Cp => IsControlPlane(names, result.ip), Answered(result, Compare)
    PROVE  Follows(names, rec, rec')
<1> DEFINE job == [rec EXCEPT !.got[rec.lb] = result]
<1>1. Follows(names, rec, job)
      BY Noted DEF Good, JobTyped
<1> HIDE DEF job
<1>2. /\ Follows(names, job, [job EXCEPT !.lb = Worker])
      /\ Follows(names, job, Compare(job))
      BY <1>1, Moved, Compared, NoneName DEF Follows
<1>3. rec' = [job EXCEPT !.lb = Worker] \/ rec' = Compare(job)
      BY DEF Answered, job
<1>4. QED
      BY <1>1, <1>2, <1>3 DEF Follows

LEMMA AnsweredDeleted ==
    ASSUME NEW names, Good(names, rec), NEW result, Answer(result),
           rec.lb = Cp => IsControlPlane(names, result.ip), Answered(result, Deleted)
    PROVE  Follows(names, rec, rec')
<1> DEFINE job == [rec EXCEPT !.got[rec.lb] = result]
<1>1. Follows(names, rec, job)
      BY Noted DEF Good, JobTyped
<1> HIDE DEF job
<1>2. /\ Follows(names, job, [job EXCEPT !.lb = Worker])
      /\ Follows(names, job, Deleted(job))
      BY <1>1, Moved, Removed, NoneName DEF Follows
<1>3. rec' = [job EXCEPT !.lb = Worker] \/ rec' = Deleted(job)
      BY DEF Answered, job
<1>4. QED
      BY <1>1, <1>2, <1>3 DEF Follows

-----------------------------------------------------------------------------
(* Names are given once.                                                   *)

\* A workload keeps the name that it was created under.
Kept ==
    /\ wlState' \in [Workloads -> WorkloadStates]
    /\ wlName' \in [Workloads -> Names \cup {None}]
    /\ \A w \in Workloads : wlState'[w] = "unborn" => wlName'[w] = None
    /\ \A w \in Workloads : wlName[w] # None => wlName'[w] = wlName[w]

LEMMA NamesKept ==
    ASSUME IInv,
           \/ UNCHANGED <<wlState, wlName>>
           \/ \E w \in Workloads :
                 \/ \E lb \in Lbs : CreateWorkload(w, lb)
                 \/ DeleteWorkload(w) \/ Appear(w) \/ Provision(w, ListLag)
                 \/ Boot(w) \/ Vanish(w) \/ FailProvisioning(w)
    PROVE  Kept
<1>1. CASE UNCHANGED <<wlState, wlName>>
      BY <1>1 DEF IInv, Shape, EndpointInv, Kept
<1>2. ASSUME NEW w \in Workloads, NEW lb \in Lbs, CreateWorkload(w, lb)
      PROVE  Kept
      BY <1>2, ClusterAssumption
      DEF CreateWorkload, IInv, Shape, EndpointInv, Kept, WorkloadStates
<1>3. ASSUME NEW w \in Workloads,
             \/ DeleteWorkload(w) \/ Appear(w) \/ Provision(w, ListLag)
             \/ Boot(w) \/ Vanish(w) \/ FailProvisioning(w)
      PROVE  Kept
  <2>1. /\ wlName' = wlName
        /\ \/ wlState' = wlState
           \/ \E s \in WorkloadStates \ {"unborn"} : wlState' = [wlState EXCEPT ![w] = s]
        BY <1>3 DEF DeleteWorkload, Appear, Provision, Boot, Vanish, FailProvisioning,
                    WorkloadStates
  <2>2. QED
        BY <2>1 DEF IInv, Shape, EndpointInv, Kept, WorkloadStates
<1>4. QED
      BY <1>1, <1>2, <1>3

\* So that what was the control plane's stays the control plane's.
LEMMA Carried ==
    ASSUME Kept
    PROVE  /\ \A o \in Object : Pointed(wlName, o) => Pointed(wlName', o)
           /\ \A job : Good(wlName, job) => Good(wlName', job)
<1>1. \A w \in Ref : IsControlPlane(wlName, w) => IsControlPlane(wlName', w)
      BY NoneName DEF Kept, Ref, IsControlPlane
<1>2. \A o \in Object : Pointed(wlName, o) => Pointed(wlName', o)
      BY <1>1 DEF Pointed, Object
<1>3. ASSUME NEW job, Good(wlName, job)
      PROVE  Good(wlName', job)
  <2>1. job.got[Cp].ip \in Ref /\ job.old \in Object /\ job.new \in Object
        BY <1>3, NoneName DEF Good, JobTyped, Answer
  <2>2. QED
        BY <1>1, <1>2, <1>3, <2>1 DEF Good, Sound
<1>4. QED
      BY <1>2, <1>3

-----------------------------------------------------------------------------
(* The invariant is inductive.                                             *)

\* No fault is a lost part of a patch.
NoPatchLost == faults' \in [FaultKinds -> Nat] /\ faults'["patch"] = 0

LEMMA FaultsLeft ==
    ASSUME IInv, UNCHANGED faults \/ \E k \in FaultKinds \ {"patch"} : Spend(k)
    PROVE  NoPatchLost
BY DEF IInv, Shape, EndpointInv, NoPatchLost, Spend, FaultKinds

\* A call leaves the object alone.
LEMMA StepCall ==
    ASSUME IInv, Kept, NoPatchLost, cox' = cox, rec # Idle, Follows(wlName', rec, rec')
    PROVE  IInv'
<1>1. Shape'
      BY DEF IInv, Shape, Kept, NoPatchLost, Follows, Good
<1>2. Pointed(wlName', cox')
      BY Carried DEF IInv, Shape, EndpointInv
<1>3. EndpointInv'
      BY <1>2 DEF IInv, EndpointInv, Kept, NoPatchLost, Follows, Good
<1>4. QED
      BY <1>1, <1>3 DEF IInv

\* What goes on around a reconcile.
LEMMA StepAround ==
    ASSUME IInv, Kept, NoPatchLost, rec' = rec, cox' \in Object,
           cox' = Gone \/ (/\ cox'.exists = cox.exists
                           /\ cox'.endpoint = cox.endpoint
                           /\ cox'.ready = cox.ready)
    PROVE  IInv'
<1>1. Gone.endpoint = None /\ ~Gone.ready /\ ~Gone.exists
      BY DEF Gone, Fresh
<1>2. Pointed(wlName', cox')
      BY <1>1, Carried DEF IInv, Shape, EndpointInv, Pointed, IsControlPlane, Object
<1>3. rec # Idle => Good(wlName', rec)
      BY Carried DEF IInv, Shape, EndpointInv, Good
<1>4. Shape'
      BY <1>3 DEF IInv, Shape, Kept, NoPatchLost, Good
<1>5. EndpointInv'
      BY <1>1, <1>2, <1>3 DEF IInv, EndpointInv, Kept, NoPatchLost, Good
<1>6. QED
      BY <1>4, <1>5 DEF IInv

\* A reconcile starts with what it reads.
LEMMA StepBegin ==
    ASSUME IInv, NEW at, NEW want, NEW new \in Object, Begin(at, want, new),
           new.endpoint = cox.endpoint, new.ready = cox.ready
    PROVE  IInv'
<1> DEFINE none == Failure("none")
           got == [lb \in Lbs |-> none]
           job == [at |-> at, lb |-> Cp, want |-> want, old |-> cox, new |-> new,
                   got |-> got]
<1>1. rec' = job /\ cox' = cox /\ NoPatchLost /\ Kept
      BY FaultsLeft, NamesKept DEF Begin, k8sVars, cloudVars
<1>2. Answer(none) /\ none.ip = None
      BY DEF Failure, Answer, Ref
<1> HIDE DEF none
<1>3. got[Cp] = none /\ got \in [Lbs -> {got[lb] : lb \in Lbs}]
      /\ \A lb \in Lbs : Answer(got[lb])
      BY <1>2, NoneName
<1> HIDE DEF got
<1>4. /\ job.at = at /\ job.want = want /\ job.got = got /\ job.old = cox /\ job.new = new
      /\ job \in [at: {at}, lb: Lbs, want: {want}, got: {got}, old: Object, new: Object]
      BY NoneName DEF IInv, Shape
<1> HIDE DEF job
<1>5. JobTyped(job)
      BY <1>3, <1>4 DEF JobTyped
<1>6. Pointed(wlName', cox)
      BY <1>1, Carried DEF IInv, Shape, EndpointInv
<1>7. Sound(wlName', job)
      BY <1>2, <1>3, <1>4, <1>6 DEF Sound, Pointed, IsControlPlane
<1>8. Shape'
      BY <1>1, <1>5 DEF IInv, Shape, Kept, NoPatchLost
<1>9. EndpointInv'
      BY <1>1, <1>4, <1>6, <1>7 DEF EndpointInv, Kept, NoPatchLost
<1>10. QED
      BY <1>8, <1>9 DEF IInv

\* A patch that reaches at least the object (the endpoint) leaves no readiness
\* without it, whether or not it gets to the status.
LEMMA StepWrite ==
    ASSUME IInv, NoPatchLost, NEW parts, "object" \in parts, Write(parts)
    PROVE  IInv'
<1>1. Kept
      BY NamesKept DEF Write, cloudVars
<1>2. rec # Idle
      BY DEF Write, Idle
<1>3. rec.old \in Object /\ rec.new \in Object /\ cox \in Object
      BY <1>2 DEF IInv, Shape, JobTyped
<1>4. Patched(parts) \in Object
      BY <1>3 DEF Patched, Object
<1>5. cox' \in Object
      BY <1>4 DEF Write, Settled, Gone, Fresh, Object, Ref
<1>6. Pointed(wlName, cox')
  <2>1. CASE cox' = Gone
        BY <2>1 DEF Gone, Fresh, Pointed, IsControlPlane
  <2>2. CASE cox' # Gone
    <3>1. cox' = Patched(parts) /\ cox.exists
          BY <1>3, <2>2 DEF Write, Settled, Patched, Object
    <3>2. cox.endpoint = rec.old.endpoint /\ cox.ready = rec.old.ready
          BY <1>2, <3>1 DEF IInv, EndpointInv
    <3>3. /\ cox'.endpoint = rec.new.endpoint
          /\ cox'.ready = rec.new.ready \/ cox'.ready = rec.old.ready
          BY <1>3, <3>1, <3>2 DEF Patched, Object
    <3>4. QED
          BY <1>2, <3>3 DEF IInv, EndpointInv, Sound, Pointed
  <2>3. QED
        BY <2>1, <2>2
<1>7. Pointed(wlName', cox') /\ rec' = Idle
      BY <1>1, <1>5, <1>6, Carried DEF Write, Kept
<1>8. Shape'
      BY <1>1, <1>5, <1>7 DEF Shape, Kept, NoPatchLost
<1>9. EndpointInv'
      BY <1>1, <1>7 DEF EndpointInv, Kept, NoPatchLost
<1>10. QED
      BY <1>8, <1>9 DEF IInv

-----------------------------------------------------------------------------
(* One step for each action.                                               *)

LEMMA StepStart ==
    ASSUME IInv, Start
    PROVE  IInv'
<1>1. cox \in Object
      BY DEF IInv, Shape
<1>2. CASE StartDelete
      BY <1>1, <1>2, StepBegin DEF StartDelete
<1>3. CASE StartNormal
  <2> DEFINE new == [cox EXCEPT !.finalizer = TRUE]
  <2>1. new \in Object /\ new.endpoint = cox.endpoint /\ new.ready = cox.ready
        BY <1>1 DEF Object
  <2> HIDE DEF new
  <2>2. \E want : Begin("get", want, new)
        BY <1>3 DEF StartNormal, new
  <2>3. QED
        BY <2>1, <2>2, StepBegin
<1>4. QED
      BY <1>2, <1>3 DEF Start

\* An answer that is not a found load balancer names no workload.
LEMMA Failures ==
    ASSUME NEW status
    PROVE  Answer(Failure(status)) /\ Failure(status).ip = None
BY DEF Failure, Answer, Ref

LEMMA StepGet ==
    ASSUME IInv, GetLoadBalancer
    PROVE  IInv'
<1>1. rec # Idle /\ cox' = cox /\ Good(wlName, rec)
      BY DEF GetLoadBalancer, Idle, k8sVars, IInv, Shape, EndpointInv, Good
<1>2. Kept /\ NoPatchLost /\ wlName' = wlName
      BY NamesKept, FaultsLeft DEF GetLoadBalancer, cloudVars
<1>3. CASE Answered(Failure("missing"), Compare)
      BY <1>1, <1>2, <1>3, Failures, AnsweredCompare, StepCall DEF IsControlPlane
<1>4. ASSUME NEW w \in Matches(rec.lb), NEW ip, ip = IF vm[w] = "RUNNING" THEN w ELSE None,
             Answered([status |-> "ok", backends |-> backends[w], ip |-> ip], Compare)
      PROVE  IInv'
  <2> DEFINE result == [status |-> "ok", backends |-> backends[w], ip |-> ip]
  <2>1. ip \in Ref /\ (rec.lb = Cp => IsControlPlane(wlName, ip))
        BY <1>4 DEF Matches, Ref, IsControlPlane
  <2>2. Answer(result) /\ result.ip = ip
        BY <2>1 DEF Answer
  <2>3. Answered(result, Compare)
        BY <1>4
  <2> HIDE DEF result
  <2>4. Follows(wlName, rec, rec')
        BY <1>1, <2>1, <2>2, <2>3, AnsweredCompare
  <2>5. QED
        BY <1>1, <1>2, <2>4, StepCall
<1>5. QED
      BY <1>3, <1>4 DEF GetLoadBalancer

\* Whatever comes of the two POSTs, the copy stays as it was.
LEMMA AfterCreated ==
    ASSUME NEW names, Good(names, rec), Created
    PROVE  Follows(names, rec, rec')
<1>1. /\ Follows(names, rec, [rec EXCEPT !.lb = Worker])
      /\ Follows(names, rec, [rec EXCEPT !.at = "close"])
      BY Moved, NoneName
<1>2. QED
      BY <1>1 DEF Created

LEMMA StepCreate ==
    ASSUME IInv, CreateLoadBalancer \/ CreateRefused
    PROVE  IInv'
<1>1. rec # Idle /\ cox' = cox /\ Good(wlName, rec) /\ rec.lb \in Lbs
      BY DEF CreateLoadBalancer, CreateRefused, Idle, k8sVars, IInv, Shape, EndpointInv,
             Good, JobTyped
<1>2. Kept /\ NoPatchLost
      BY <1>1, NamesKept, FaultsLeft DEF CreateLoadBalancer, CreateRefused, cloudVars
<1>3. Good(wlName', rec)
      BY <1>1, <1>2, Carried
<1>4. Follows(wlName', rec, rec')
      BY <1>3, AfterCreated DEF CreateLoadBalancer, CreateRefused
<1>5. QED
      BY <1>1, <1>2, <1>4, StepCall

LEMMA StepUpdate ==
    ASSUME IInv, UpdateLoadBalancer \/ UpdateMissing
    PROVE  IInv'
<1>1. rec # Idle /\ cox' = cox /\ Good(wlName, rec)
      BY DEF UpdateLoadBalancer, UpdateMissing, Idle, k8sVars, IInv, Shape, EndpointInv, Good
<1>2. Kept /\ NoPatchLost /\ wlName' = wlName
  <2>1. UNCHANGED <<wlState, wlName>>
        BY DEF UpdateLoadBalancer, UpdateMissing, UpdateWorkload, cloudVars
  <2>2. UNCHANGED faults \/ Spend("lost")
        BY DEF UpdateLoadBalancer, UpdateMissing
  <2>3. QED
        BY <2>1, <2>2, NamesKept, FaultsLeft DEF FaultKinds
<1> DEFINE forgot == [rec EXCEPT !.got[Cp].ip = None]
<1>3. /\ Follows(wlName, rec, [rec EXCEPT !.at = "close"])
      /\ Follows(wlName, rec, Finish(rec))
      /\ Follows(wlName, rec, forgot)
      BY <1>1, Moved, Finished, Forgotten, NoneName
<1>4. \/ rec' = [rec EXCEPT !.at = "close"] \/ rec' = Finish(rec)
      \/ rec' = CompareWorker(forgot)
      BY DEF UpdateLoadBalancer, UpdateMissing
<1> HIDE DEF forgot
<1>5. Follows(wlName, rec, CompareWorker(forgot))
      BY <1>3, ComparedWorker DEF Follows
<1>6. QED
      BY <1>1, <1>2, <1>3, <1>4, <1>5, StepCall

LEMMA StepDelete ==
    ASSUME IInv, DeleteLoadBalancer \/ DeleteMissing
    PROVE  IInv'
<1>1. rec # Idle /\ cox' = cox /\ Good(wlName, rec)
      BY DEF DeleteLoadBalancer, DeleteMissing, Idle, k8sVars, IInv, Shape, EndpointInv, Good
<1>2. Kept /\ NoPatchLost /\ wlName' = wlName
  <2>1. \/ UNCHANGED <<wlState, wlName>>
        \/ \E w \in Workloads : DeleteWorkload(w)
        BY DEF DeleteLoadBalancer, DeleteMissing, Matches, cloudVars
  <2>2. UNCHANGED faults \/ Spend("lost")
        BY DEF DeleteLoadBalancer, DeleteMissing
  <2>3. wlName' = wlName
        BY <2>1 DEF DeleteWorkload
  <2>4. QED
        BY <2>1, <2>2, <2>3, NamesKept, FaultsLeft DEF FaultKinds
<1>3. \E status : Answered(Failure(status), Deleted)
      BY DEF DeleteLoadBalancer, DeleteMissing
<1>4. Follows(wlName, rec, rec')
      BY <1>1, <1>3, Failures, AnsweredDeleted DEF IsControlPlane
<1>5. QED
      BY <1>1, <1>2, <1>4, StepCall

LEMMA StepCallFails ==
    ASSUME IInv, CallFails
    PROVE  IInv'
<1>1. rec # Idle /\ cox' = cox /\ Good(wlName, rec)
      BY DEF CallFails, Idle, k8sVars, IInv, Shape, EndpointInv, Good
<1>2. Kept /\ NoPatchLost /\ wlName' = wlName
      BY NamesKept, FaultsLeft DEF CallFails, cloudVars, FaultKinds
<1>3. CASE Answered(Failure("error"), Compare)
      BY <1>1, <1>2, <1>3, Failures, AnsweredCompare, StepCall DEF IsControlPlane
<1>4. CASE Answered(Failure("error"), Deleted)
      BY <1>1, <1>2, <1>4, Failures, AnsweredDeleted, StepCall DEF IsControlPlane
<1>5. CASE Created \/ rec' = [rec EXCEPT !.at = "close"]
  <2>1. Follows(wlName, rec, [rec EXCEPT !.at = "close"])
        BY <1>1, Moved, NoneName
  <2>2. Follows(wlName, rec, rec')
        BY <1>1, <1>5, <2>1, AfterCreated
  <2>3. QED
        BY <1>1, <1>2, <2>2, StepCall
<1>6. QED
      BY <1>3, <1>4, <1>5 DEF CallFails

\* No part of a patch is lost, except by a crash after the object's.
LEMMA StepClose ==
    ASSUME IInv, Close \/ ClosePartly \/ Crash
    PROVE  IInv'
<1>1. CASE Close
      BY <1>1, FaultsLeft, StepWrite DEF Close, Parts
<1>2. ~ClosePartly
      BY DEF ClosePartly, Spend, IInv, EndpointInv
<1>3. CASE Crash
  <2>1. NoPatchLost
        BY <1>3, FaultsLeft DEF Crash, FaultKinds
  <2>2. CASE Write({"object"})
        BY <2>1, <2>2, StepWrite
  <2>3. CASE rec' = Idle /\ UNCHANGED <<cloudVars, backends, k8sVars>>
    <3>1. Kept /\ cox' = cox
          BY <2>3, NamesKept DEF cloudVars, k8sVars
    <3>2. Pointed(wlName', cox')
          BY <3>1, Carried DEF IInv, Shape, EndpointInv
    <3>3. QED
          BY <2>1, <2>3, <3>1, <3>2 DEF IInv, Shape, EndpointInv, Kept, NoPatchLost
  <2>4. QED
        BY <1>3, <2>2, <2>3 DEF Crash
<1>4. QED
      BY <1>1, <1>2, <1>3

LEMMA StepOthers ==
    ASSUME IInv,
           \/ DeleteCluster \/ DeleteCoxCluster \/ \E lb \in Lbs : MachinesChange(lb)
           \/ \E w \in Workloads : CliDelete(w) \/ CloudStep(w) \/ CloudFault(w)
    PROVE  IInv'
<1>1. cox \in Object
      BY DEF IInv, Shape
<1>2. CASE DeleteCluster \/ \E lb \in Lbs : MachinesChange(lb)
  <2>1. UNCHANGED <<wlState, wlName, cox, rec, faults>>
        BY <1>2 DEF DeleteCluster, MachinesChange, cloudVars
  <2>2. QED
        BY <1>1, <2>1, NamesKept, FaultsLeft, StepAround
<1>3. CASE DeleteCoxCluster
  <2>1. /\ UNCHANGED <<wlState, wlName, rec, faults>>
        /\ cox' = Settled([cox EXCEPT !.deleting = TRUE])
        BY <1>3 DEF DeleteCoxCluster, cloudVars
  <2>2. /\ cox' \in Object
        /\ cox' = Gone \/ (/\ cox'.exists = cox.exists
                          /\ cox'.endpoint = cox.endpoint
                          /\ cox'.ready = cox.ready)
        BY <1>1, <2>1 DEF Settled, Gone, Fresh, Object, Ref
  <2>3. QED
        BY <2>1, <2>2, NamesKept, FaultsLeft, StepAround
<1>4. ASSUME NEW w \in Workloads, CliDelete(w) \/ CloudStep(w) \/ CloudFault(w)
      PROVE  IInv'
  <2>1. /\ UNCHANGED <<cox, rec>>
        /\ \/ DeleteWorkload(w) \/ Appear(w) \/ Provision(w, ListLag)
           \/ Boot(w) \/ Vanish(w) \/ FailProvisioning(w)
        BY <1>4 DEF CliDelete, CloudStep, CloudFault, k8sVars
  <2>2. UNCHANGED faults \/ Spend("cli") \/ Spend("fail")
        BY <1>4 DEF CliDelete, CloudStep, CloudFault
  <2>3. Kept
        BY <2>1, NamesKept
  <2>4. NoPatchLost
        BY <2>2, FaultsLeft DEF FaultKinds
  <2>5. QED
        BY <1>1, <2>1, <2>3, <2>4, StepAround
<1>5. QED
      BY <1>2, <1>3, <1>4

LEMMA StepStutter ==
    ASSUME IInv, UNCHANGED vars
    PROVE  IInv'
<1>1. UNCHANGED <<wlState, wlName, cox, rec, faults>>
      BY DEF vars
<1>2. QED
      BY <1>1 DEF IInv, Shape, EndpointInv

-----------------------------------------------------------------------------

LEMMA IInvStep ==
    ASSUME IInv, [Next]_vars
    PROVE  IInv'
BY StepStart, StepGet, StepCreate, StepUpdate, StepDelete, StepCallFails, StepClose,
   StepOthers, StepStutter
DEF Next, Call

LEMMA IInvInit ==
    ASSUME MaxFaults["patch"] = 0, Init
    PROVE  IInv
<1>1. Shape
      BY ClusterAssumption
      DEF Init, CloudInit, Fresh, Shape, WorkloadStates, Object, Ref
<1>2. EndpointInv
      BY DEF Init, CloudInit, Fresh, EndpointInv, Pointed, IsControlPlane
<1>3. QED
      BY <1>1, <1>2 DEF IInv

\* The endpoint that clients are sent to is the address of a load balancer that was
\* created for the control plane, and the cluster is ready only with one
\* (loadbalancer.go, coxcluster_controller.go:319-345): whatever calls fail, answers
\* are lost, lists lag, load balancers vanish and processes crash, if no part
\* of a patch fails on its own.
THEOREM EndpointCorrect ==
    ASSUME MaxFaults["patch"] = 0
    PROVE  Spec => []EndpointIsControlPlane
<1>1. Init => IInv
      BY IInvInit
<1>2. IInv /\ [Next]_vars => IInv'
      BY IInvStep
<1>3. IInv => EndpointIsControlPlane
      BY DEF IInv, EndpointInv, Pointed, IsControlPlane, EndpointIsControlPlane
<1>4. QED
      BY <1>1, <1>2, <1>3, PTL DEF Spec

=============================================================================
