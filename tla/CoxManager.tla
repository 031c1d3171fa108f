------------------------------ MODULE CoxManager ------------------------------
(***************************************************************************)
(* When the CoxMachine controller reconciles: SetupWithManager and the     *)
(* results that Reconcile returns, around the reconciles of CoxMachine.    *)
(*                                                                         *)
(* A reconcile starts only for a key on the controller's queue.  A key     *)
(* comes there from an event of a watched object, from a result that asks  *)
(* for it, or from an error; there is one worker.  An event that was       *)
(* filtered out, and a result that asks for nothing, leave it to the next  *)
(* event.  Module CoxMachine has its reconciles start at any time: this    *)
(* one shows that the watches and the results make them start in time.     *)
(*                                                                         *)
(* Events come from changes of the informers' copies, so StaleReads holds. *)
(* A delay (RequeueAfter, backoff) is left out: a key whose timer runs is  *)
(* on the queue.                                                           *)
(***************************************************************************)
EXTENDS CoxMachine

CONSTANT MaxPauses   \* how often CoxMachines are paused and resumed

ASSUME ManagerAssumption == MaxPauses \in Nat /\ StaleReads

VARIABLES
    queue,       \* the keys waiting, that of the reconcile in progress included
    requeue,     \* the reconcile in progress is going to ask for its key again
    owned,       \* owned[m] : Cluster API has set m's owner reference
    paused,      \* paused[m] : m is annotated as paused
    pauses       \* how often that may still change

queueVars == <<queue, requeue, owned, paused, pauses>>
managerVars == <<vars, queueVars>>

ManagerTypeOK ==
    /\ TypeOK
    /\ queue \subseteq Machines
    /\ requeue \in BOOLEAN
    /\ owned \in [Machines -> BOOLEAN]
    /\ paused \in [Machines -> BOOLEAN]
    /\ pauses \in 0..MaxPauses

\* When the manager starts, every object that exists is an event: each Machine
\* brings its CoxMachine, whether that is paused or not.
ManagerInit ==
    /\ Init
    /\ queue = Machines
    /\ requeue = FALSE
    /\ owned = [m \in Machines |-> FALSE]
    /\ paused = [m \in Machines |-> FALSE]
    /\ pauses = MaxPauses

-----------------------------------------------------------------------------
(* The worker.                                                             *)

\* Mutant: a deletion does not ask for its key while the task is pending.
EmptyResultWhilePending ==
    /\ rec'.at = "close"
    /\ \/ rec = Idle
       \/ rec'.new.taskID # rec.new.taskID
       \/ rec'.new.finalizer # rec.new.finalizer
       \/ rec.at = "task" /\ Deleting /\ task[rec.new.taskID] = "PENDING"

\* Mutant: a machine that is ready is done.
EmptyResultWhenReady ==
    /\ rec'.at = "close"
    /\ \/ rec = Idle
       \/ rec'.new.taskID # rec.new.taskID
       \/ rec'.new.finalizer # rec.new.finalizer
       \/ rec.at = "node"

\* The step ends the reconcile with neither an error nor a RequeueAfter: it is
\* too early for a workload, one has been created, or the finalizer is off.
EmptyResult ==
    /\ rec'.at = "close"
    /\ \/ rec = Idle
       \/ rec'.new.taskID # rec.new.taskID
       \/ rec'.new.finalizer # rec.new.finalizer

\* The worker takes a key, and reconciles its object.
Serve(m) ==
    /\ m \in queue /\ owned[m]
    /\ Start(m)
    /\ queue' = queue \ {m}
    /\ requeue' = ~EmptyResult
    /\ UNCHANGED <<owned, paused, pauses>>

\* There is no such object, or its owner is not known yet: an empty result.
Skip(m) ==
    /\ m \in queue /\ rec = Idle
    /\ ~(owned[m] /\ Observed(m).exists)
    /\ queue' = queue \ {m}
    /\ UNCHANGED <<vars, requeue, owned, paused, pauses>>

Proceed ==
    /\ rec.at # "close"
    /\ Call \/ CallFails
    /\ requeue' = ~EmptyResult
    /\ UNCHANGED <<queue, owned, paused, pauses>>

\* A Close that fails is an error of the reconcile.
Finish ==
    /\ \/ Close /\ queue' = IF requeue THEN queue \cup {rec.m} ELSE queue
       \/ ClosePartly /\ queue' = queue \cup {rec.m}
    /\ requeue' = FALSE
    /\ UNCHANGED <<owned, paused, pauses>>

\* The queue and its timers go with the process: the next one starts again.
Restart ==
    /\ Crash
    /\ queue' = Machines
    /\ requeue' = FALSE
    /\ UNCHANGED <<owned, paused, pauses>>

-----------------------------------------------------------------------------
(* The watches.                                                            *)

\* For(CoxMachine): the event filter drops the events of paused objects.
Notice(m) ==
    /\ CacheSync(m)
    /\ queue' = IF paused[m] THEN queue ELSE queue \cup {m}
    /\ UNCHANGED <<requeue, owned, paused, pauses>>

\* The owner reference is a change of the CoxMachine.
SetOwner(m) ==
    /\ obj[m].exists /\ ~owned[m]
    /\ owned' = [owned EXCEPT ![m] = TRUE]
    /\ queue' = IF paused[m] THEN queue ELSE queue \cup {m}
    /\ UNCHANGED <<vars, requeue, paused, pauses>>

\* A user annotates the CoxMachine, or takes the annotation away, which is the
\* first event that is not dropped.
TogglePause(m) ==
    /\ obj[m].exists /\ pauses > 0
    /\ pauses' = pauses - 1
    /\ paused' = [paused EXCEPT ![m] = ~@]
    /\ queue' = IF paused[m] THEN queue \cup {m} ELSE queue
    /\ UNCHANGED <<vars, requeue, owned>>

\* Mutant: there is no watch of Clusters.
ClusterReadyUnwatched ==
    /\ InfrastructureReady
    /\ UNCHANGED queueVars

\* Watch(Cluster): once its infrastructure is ready all its CoxMachines follow.
\* This watch has a filter of its own, about the Cluster.
ClusterReady ==
    /\ InfrastructureReady
    /\ queue' = queue \cup {m \in Machines : cache[m].exists}
    /\ UNCHANGED <<requeue, owned, paused, pauses>>

\* Watches(Machine): the bootstrap data appear in the Machine.
MachineBootstrapped(m) ==
    /\ BootstrapReady(m)
    /\ queue' = queue \cup {m}
    /\ UNCHANGED <<requeue, owned, paused, pauses>>

\* Watches(Machine), for every other change of the Machine and every resync.
MachineChanges(m) ==
    /\ queue' = queue \cup {m}
    /\ UNCHANGED <<vars, requeue, owned, paused, pauses>>

\* Watches(CoxCluster): the CoxMachines that the cluster's Machines refer to.
CoxClusterToCoxMachines ==
    /\ queue' = Machines
    /\ UNCHANGED <<vars, requeue, owned, paused, pauses>>

-----------------------------------------------------------------------------

\* What brings no event to this controller.
Elsewhere ==
    /\ \/ \E m \in Machines : RequestDeletion(m)
       \/ \E w \in Workloads : NodeJoins(w) \/ CliDelete(w) \/ CloudStep(w) \/ CloudFault(w)
    /\ UNCHANGED queueVars

ManagerNext ==
    \/ Proceed \/ Finish \/ Restart \/ ClusterReady \/ CoxClusterToCoxMachines \/ Elsewhere
    \/ \E m \in Machines :
          Serve(m) \/ Skip(m) \/ Notice(m) \/ SetOwner(m) \/ TogglePause(m)
          \/ MachineBootstrapped(m) \/ MachineChanges(m)

\* The queue is served in order, and calls return; the informers catch up, and
\* Cluster API and the service get on.  Nothing is assumed of the resync, of
\* other changes of Machines and CoxClusters, or of the users.
ManagerFairness ==
    /\ WF_managerVars(Proceed) /\ WF_managerVars(Finish) /\ WF_managerVars(ClusterReady)
    /\ \A m \in Machines :
          /\ SF_managerVars(Serve(m)) /\ SF_managerVars(Skip(m))
          /\ WF_managerVars(Notice(m)) /\ WF_managerVars(SetOwner(m))
          /\ WF_managerVars(MachineBootstrapped(m))
    /\ \A w \in Workloads :
          WF_managerVars((CloudStep(w) \/ NodeJoins(w)) /\ UNCHANGED queueVars)

ManagerSpec == ManagerInit /\ [][ManagerNext]_managerVars /\ ManagerFairness

-----------------------------------------------------------------------------
(* No wake-up is lost: what CoxMachine shows for reconciles that start     *)
(* again and again holds when only the queue starts them.                  *)

\* There is something to do for the CoxMachine, and nobody is to wait.
Pending(m) ==
    /\ obj[m].exists /\ owned[m] /\ ~paused[m]
    /\ obj[m].deleting \/ (infraReady /\ bootstrap[m])

\* As long as there is something to do for a CoxMachine its key is on the
\* queue, or is being reconciled, or an event will bring it: no result that
\* asks for nothing, and no event that a filter drops, leaves it asleep.
NoLostWakeup ==
    \A m \in Machines :
        Pending(m) => m \in queue \/ WorksOn(m) \/ cache[m] # obj[m]

\* A machine becomes ready, although no result asks for its key while the
\* infrastructure or the bootstrap data are missing, nor after its workload
\* was created, and although events are dropped while it is paused.
ComesUp ==
    \A m \in Machines :
        obj[m].exists /\ ~paused[m]
          ~> \/ obj[m].ready \/ obj[m].deleting \/ ~obj[m].exists \/ paused[m]
             \/ \E w \in Workloads : vm[w] = "DEAD"

\* A machine that is deleted goes away, also when the request arrives while
\* its workload is provisioned, or in the middle of a reconcile.
GoesAway ==
    \A m \in Machines :
        obj[m].deleting /\ ~paused[m] ~> ~obj[m].exists \/ paused[m]

-----------------------------------------------------------------------------
(* Why NoLostWakeup holds (an inductive invariant).                        *)

\* An event that wakes m is not dropped, and there is none yet.
Unwoken(m) == obj[m].exists /\ owned[m] /\ ~paused[m] /\ m \notin queue

\* Nothing to do before the next event of the infrastructure or the Machine.
TooEarly(m) == ~(infraReady /\ bootstrap[m])

\* The result may be empty: what the reconcile is about to write is an event
\* of its own, or ends the object, or there is nothing to do.
MayRest(m) ==
    \/ ~rec.old.deleting /\ ~cache[m].deleting /\ TooEarly(m)
    \/ rec.new.taskID \notin {rec.old.taskID, obj[m].taskID, cache[m].taskID}
    \/ rec.old.deleting /\ rec.old.finalizer /\ ~rec.new.finalizer

\* The informer's copy is never ahead of the object.
CacheBehind ==
    \A m \in Machines :
        obj[m].exists => cache[m].exists /\ (cache[m].deleting => obj[m].deleting)

\* Whoever sleeps has nothing to do.
Asleep ==
    \A m \in Machines :
        Unwoken(m) /\ ~WorksOn(m) /\ cache[m] = obj[m] => ~obj[m].deleting /\ TooEarly(m)

\* What the reconcile in progress will leave behind if its result is empty.
AtWork ==
    rec # Idle =>
        /\ rec.old.deleting /\ obj[rec.m].exists => obj[rec.m].deleting
        /\ rec.old.deleting /\ rec.at # "close" => rec.new.finalizer = rec.old.finalizer
        /\ rec.at \in {"get", "delete"} => rec.old.deleting
        /\ rec.at # "close" => requeue
        /\ Unwoken(rec.m) /\ ~requeue => MayRest(rec.m)

WakeInv == CacheBehind /\ Asleep /\ AtWork

=============================================================================
