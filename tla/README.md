# Verification of the Cluster API provider for Cox Edge

This directory holds TLA+ models of the provider's controllers, the TLC runs that
check them on small instances, and proofs, checked by TLAPS, of properties for all
instances. Line numbers are of the files under `src/`.

## 1. Inventory

The provider runs two controllers in one process (`main.go`). They read and write
Kubernetes objects, and create, update and delete workloads of the Cox Edge service
over HTTP. Cluster API creates and deletes the objects. Nobody else holds state:
what a controller knows after a restart is in the objects and in the service.

| Component | State | Operations | Interacts with |
|---|---|---|---|
| CoxMachine controller (`controllers/coxmachine_controller.go`, `scope/machine.go`) | `CoxMachine`: finalizer, `Spec.ProviderID`, `Status.TaskID`, `Ready`, condition, addresses; in a reconcile, a copy of it | `reconcileNormal`, `reconcileDelete`, `reconcileWorkload`, `SetNodeProviderID`, `Close` | client, API server, workload cluster (Nodes) |
| CoxCluster controller (`controllers/coxcluster_controller.go`, `scope/cluster.go`) | `CoxCluster`: finalizer, endpoint, `Ready`, public IP; in a reconcile, a copy | `reconcileNormal`, `reconcileDelete`, `Close` | load balancer helper, API server; reads the addresses of the CoxMachines |
| Load balancer helper (`loadbalancer.go`) | none | get, create, update, delete a load balancer: a workload whose backends are an environment variable | client |
| Client (`client.go`) | none | list, get, create, update, delete workloads; instances; tasks; `shortenName` | service |
| Service (external) | workloads, tasks, instances | provisioning, scheduling, deletion, all asynchronous | |
| `cox` command line (`cmd/cox`) | none | list, delete workloads | client |
| Manager (`main.go`) | queues and caches | one worker per controller, resync every two minutes, restart after a panic | |
| Credentials (`scope/common.go`) | secret or environment | read before each reconcile | |
| API types, templates, generated code (`api/v1beta1`) | | declarations | |

What is hard about it:

* every reconcile is a sequence of calls, and everybody else acts in between;
* a POST can take effect although its answer is lost, or the process dies before
  what it answered is persisted; there is no idempotency key, only the name;
* what a reconcile changed is persisted at its end, in three patches of which any
  can fail; the finalizer is part of them;
* the object a reconcile reads comes from a cache; the list of workloads may not
  have a new workload yet;
* names are shortened to 18 characters, and are the only way back to a workload;
* a panic takes the process with it, and repeats.

What makes each component correct: a machine never takes another's workload, is
ready only with the rest recorded, gets ready, is released only when its workload
is on its way out, and then leaves nothing running; no wake-up of its controller is lost; a cluster has one load balancer
of each kind, its endpoint is the control plane's, their backends follow the
machines, they are not restarted for nothing, and they go away with the cluster; an
object's full and shortened name lead to the same workload, and never to that of an object
whose name ends differently.

`PROJECT.json` lists the hazards line by line.

## 2. Modules

* `CoxEdge` is the service and the client's calls: `wlState`, `wlName`, `task`, `vm`.
  The list (`Matches`) has the workloads that are "listed" or "deleting"; a GET by id
  has the "hidden" ones too. The name lookup returns any match, as the order of the
  list is the service's.
* `CoxMachine` EXTENDS it with the machine controller. `obj` is in the API server,
  `cache` in the informer, `rec` is the one reconcile in progress with the copy that it
  read (`rec.old`) and the copy that it changes (`rec.new`).
  `rec.at` is the call it makes next. `Start` is `Reconcile` up to the first
  call; the actions below it are the calls, each with the code up to the next one;
  `Close` is the deferred `Close()`.
* `CoxCluster` EXTENDS `CoxEdge` with the cluster controller in the same way. `Compare`,
  `CompareWorker` and `Finish` are the code between the calls, as functions of
  the answers so far. A method of the load balancer helper is one step. `CaughtUp`
  looks only at the workloads with the load balancers' names, so that others may use the environment.
* `ResourceContract` is what both controllers promise, without calls, copies or retries: an
  owner has at most one resource running (`Run` needs it idle), refers only to one that was
  started for it, is pointed to another only when the one before does not run (`Refer`),
  and leaves only when nothing of it runs (`Leave`). `CoxMachine` and
  `CoxCluster` each instantiate it as `Contract` with a refinement mapping: an owner is
  a CoxMachine, a resource its workload, the reference its ProviderID; or the owners
  are the two load balancers, which leave together with the CoxCluster, and the reference is
  the endpoint. `ImplementsContract` says that every step is a step of it or a stutter.
* `CoxManager` EXTENDS `CoxMachine` with what starts its reconciles: the `queue`, which
  key a result asks for again (`requeue`, from `EmptyResult`), the owner reference, without
  which `Reconcile` returns early, and the annotation that pauses. `Notice`, `ClusterReady`,
  `MachineBootstrapped`, `MachineChanges` and `CoxClusterToCoxMachines` are the
  watches of `SetupWithManager`, with their filters. A step of `CoxMachine` happens in it
  only together with its effect on the queue.
* `CoxProvider` composes `CoxMachine` (`M`) and `CoxCluster` (`C`), one reconcile of each at a time,
  over one Cox Edge environment. The addresses that `C` reads are those in `M`'s objects; the
  infrastructure is ready for `M` when the CoxCluster is; the bootstrap data need its endpoint;
  `MachineHasCredentials` needs the CoxCluster or the manager's own credentials; and
  `SetNodeProviderID` gets through exactly while the workload cluster answers (`ApiReachable`: the load balancer of
  the endpoint runs, and so does a machine behind it), fails otherwise, and leaves what the reconcile
  has found to the deferred `Close`. In `CoxMachine` the constant `Unreachable` lets it fail at any time.
  Cluster API deletes the machines of a deleted Cluster first, then the CoxCluster; users
  delete machines, the CoxCluster and the Cluster whenever they like.
* `WorkloadNames` is `shortenName` character by character, as the names' collisions
  are about it, and the client's lookup, creation and update by name. Looking for a workload
  (`LookUp`) and creating one that was not found (`CreateWorkload`) are separate calls, and
  the list lags (`Appear`), so that a name may get several workloads: neither the service nor
  the client forbids it. Deletions, which are by id, are left to the other modules. In
  `CoxMachine` the shortened name is the constant `ApiName`.
* `MCCoxMachine`, `MCCoxCluster`, `MCCoxManager`, `MCCoxProvider`, `MCWorkloadNames` give the constants values for TLC.
* The theorems are in modules of their own, each of which EXTENDS the one before it:
  `CoxMachineProofs` (types, ownership, readiness, release) and `CoxMachineContractProofs`
  (one workload, none left behind, the contract); `CoxClusterProofs` (the endpoint),
  `CoxClusterContractProofs` (one pair of load balancers, none left behind, the contract) and
  `CoxClusterTypeProofs` (types, sorting, restarts); `CoxManagerProofs` (the queue);
  `CoxProviderProofs` (both controllers together); `WorkloadNamesProofs`. The inductive
  invariants stand at the end of the modules that they are about, so that TLC can check them.

An operator that is commented "Mutant:" is a wrong version of the definition after it.
It is used by no specification; replacing the definition by it must break the
property that `PROJECT.json` pairs it with, which shows that the property depends
on the code.

### Abstractions

* The data of a request (image, ports, storage, bootstrap data) is left out. A failure to
  read the bootstrap secret is `CallFails` at "create". An instance's addresses
  are the workload they belong to; the autoscaled instances of a load balancer are one.
* `Status.TaskStatus` and the conditions of the CoxCluster are written and never read,
  and left out. `Status.ErrorMessage` is never set, so its branch is too.
  `machineScope.Cluster == nil` (`coxmachine_controller.go:184-196`) cannot happen, since
  `NewMachineScope` refuses it.
* The delays in a result are left out. In `CoxMachine` and `CoxCluster` every outcome is
  retried, by the queue or the resync; in `CoxManager` only a result that asks for it, an
  error or an event brings a key back, and one whose timer runs is on the queue.
  Errors before the scope exists change nothing, and are stutters. `StartTooEarly`
  is both early returns, for infrastructure and for bootstrap data.
* A panic is the end of the reconcile: the deferred `Close` persists the copy, and the
  process restarts, which changes nothing else in a module with one reconcile.
* Cluster API's patch helper (v1.1.5) writes conditions, then the object (spec and
  finalizers), then the status, all three even when one fails, and only the fields
  that the reconcile changed. `Patched` is that; a crash cuts the order short.
* Everything the service does to a workload on its own (`Appear`, `Provision`, ...)
  is inferred from what the code handles. It accepts two workloads of one name, and
  refuses a workload over quota. A PUT restarts the instance
  (`coxcluster_controller.go:292`).
* CoxMachines only are read from a cache that lags (`StaleReads`).
* `CoxManager` pauses CoxMachines only. The filter of `SetupWithManager` drops the events of
  paused Machines and CoxClusters too: the bootstrap data of a Machine that is
  paused would not be noticed before its pause ends. Other changes of a Machine, and
  those of a CoxCluster, happen or not as the model likes.
* `CoxProvider` numbers workloads in the order of creation (`InOrder`), as their ids make no
  difference, and leaves Nodes and all other faults to the modules of its parts. The API of the
  workload cluster answers as soon as an instance of the control plane runs behind the load balancer.

## 3. Runs

A property holds under the troubles that its run allows, and several properties are
false under others: the constants say which. `MaxFaults` gives the number of faults of
each kind (all are 0 or 1, but for two CLI deletions in `cluster_best`). `ListLag`,
`StaleReads`, `EarlyBootstrap`, `EarlyDeletion` and `Unreachable` turn parts of the environment on.

| Run | Instance and troubles | Checks |
|---|---|---|
| `machine_safety` | 2 machines, 2 workloads; crash, failed call, CLI deletion, workload cluster out of reach | `TypeOK`, `OwnWorkload`, `NoSharing`, `ReadyIsComplete`, `ReleaseOnlyWhenDead` |
| `machine_best` | 2 machines, 3 workloads; failed call, failed task, dead instance, workload cluster out of reach | `AtMostOneWorkload`, `NoLeak`, `ImplementsContract` |
| `machine_live` | 1 machine, 1 workload; lagging cache, crash, failed call, lost answer, partial patch | `EventuallyReady`, `DeletionCompletes` |
| `manager_live` | 1 machine, 1 workload, 2 pauses; lagging cache, lagging list, dead instance, crash; no resync | `ManagerTypeOK`, `NoLostWakeup`, `ComesUp`, `GoesAway`, `DeadVmNoticed`, `NodeTagged` |
| `cluster_safety` | 2 workloads, machines change twice; failed call, lost answer, failed task, crash, early deletion | `TypeOK`, `EndpointIsControlPlane`, `RestartOnlyOnChange` |
| `cluster_best` | 4 workloads, machines change once; crash, partial patch, 2 CLI deletions | `AtMostOneOfEach`, `NoLeak`, `ImplementsContract`, `EndpointMovesOnlyFromDead` |
| `provider` | 1 machine of the control plane, 3 workloads, a secret and credentials of the manager; deletions by users in any order, workload cluster out of reach until the load balancer runs | `TypeOK`, `NothingUnowned`, `EndpointKept`, `ComesUp`, `BackendsFollow`, `TearsDown` |
| `names` | 2 objects, names of 2 to 5 characters out of 3, limit 3; 2 workloads, which may have one name, in a list that lags | `TypeOK`, `FoundByEitherName`, `PartsKeepApart` |
| `machine_leak` | 1 machine; CLI deletion | `NoLeak` is violated |
| `cluster_drift` | one failed call | `DriftReconciled` is violated |
| `cluster_stuck` | one lost answer | `DeletionCompletes` is violated |
| `provider_secret` | `provider` with the secret only | `ClusterNotNeededInDeletion` is violated |

Why the bounds are enough. Machines meet only through names, so two of them have all
that can go wrong between machines. A second workload is what a duplicate or
a replacement needs; the third (fourth) lets another machine (the other load
balancer) replace its own. One fault of a kind is what a property has to survive; two of one
kind are two such moments, between which the controllers are where they were.
`cluster_best` has two CLI deletions since one alone leaves the process panicking
for good, and only two give the endpoint somewhere to move. Two
addresses behind the control plane are the fewest that can come in two orders. In `manager_live` two pauses are one that ends and one more that begins. There and in `machine_live` one
workload is what one machine needs: where a reconcile with an old copy or after a lost answer wants a
second, the service refuses it as over quota. With two workloads the second is created, and TLC finds
`EventuallyReady` and `DeletionCompletes` to hold as well, for a fresh cache with the four
faults (867 210 states) and for a lagging one without (448 106). In `provider` three workloads are one for each of
the three names: the machine's address comes, moves to the load balancer and goes, while
the workers' load balancer keeps the default backend. In
`names` the names are shorter than the limit, at the limit, longer, and with a last part
longer than the limit; two workloads are one for each object, or two of one name, of which the list shows
either first.

`CHECK_DEADLOCK` is off everywhere: when every object is gone and every workload
too, the system rightly stops; so does `names` when there is no room.

Workloads (and in the runs with two machines the machines with their names) are
symmetric: nothing orders them. Liveness runs use no symmetry.

### Fairness

`FairSpec` assumes that `Start` happens again and again for an object that exists,
since the manager's resync puts every object on the queue every two minutes
(`main.go:84`, `:113`) and the queue is served in order: strong fairness per machine, as
`Start(m)` is disabled while another reconcile runs. Calls return, and the code up
to the next call runs, with weak fairness. The cache catches up; the service gets on
with what it accepted; Cluster API makes infrastructure and bootstrap data ready, and
deletes the CoxCluster of a deleted Cluster; Nodes of running instances
join. No user and no fault is obliged to act. That a hidden workload appears is
part of the service's progress.

`ManagerFairness` assumes less of what starts a reconcile: nothing of the resync. The
worker takes keys from the queue (strong fairness, as it is one worker for all),
informers bring the changes of a CoxMachine, and Cluster API sets the owner reference and makes
the Cluster and the Machine ready once, each of which is one event. Other
changes of a Machine or a CoxCluster, and the end of a pause, may never come; the
properties then say nothing of a machine that stays paused.

`Fairness` of `CoxProvider` has the calls of each controller, Cluster API and the
service get on, the cluster's controller start again and again (weak: there is one
CoxCluster), and the machine's (strong, as a scope needs credentials).

### What the composition shows

* `ComesUp` (of `CoxProvider`): the circle of endpoint, bootstrap data and first
  machine is broken by the default backend, and the machine ends up behind
  the load balancer. A wait for a first address would be a deadlock. A second circle is broken by
  the deferred `Close`: the machine is ready only once the workload cluster answers
  (`scope/machine.go:189-198`), which it does only with the machine's address behind the load balancer, and
  the address is persisted by a reconcile that fails for this very reason.
* `NothingUnowned`: whatever the order in which the objects are deleted,
  no workload is left without an object that stands for it.
* `TearsDown`: both finalizers go, and all workloads with them, in every order of deletions. It
  rests on credentials in the manager's environment (`DefaultCredentials = TRUE`), and is false
  where the secret that the CoxCluster names has the only ones (`provider_secret`, below). The other properties of
  `provider` hold there too.
* `EndpointKept`: a CoxCluster that is deleted by hand keeps its load balancers, since
  `reconcileDelete` is chosen by the Cluster's deletion timestamp
  (`coxcluster_controller.go:140`).

### What the violations show

* `machine_leak`: `reconcileWorkload` trusts a ProviderID whose workload is no longer
  listed to mean "no workload" (`coxmachine_controller.go:491`), also when a later task is
  recorded. After a workload was deleted behind the controller's back and created
  again, a deletion releases the CoxMachine and leaves the new workload running.
* `cluster_drift`: load balancers are created only when both are missing; with one
  missing, its nil pointer is dereferenced on every reconcile
  (`coxcluster_controller.go:291`, `:305`). One failed call during creation is enough.
* `cluster_stuck`: deletion of a load balancer that is gone already is an error for ever,
  as `ErrWorkloadNotFound` is not what `apierrors.IsNotFound` recognises
  (`loadbalancer.go:147`).
* `provider_secret`: `Allow the cluster to be empty, because it is not needed in the deletion
  logic' (`coxmachine_controller.go:138`) is not true where the secret that the CoxCluster names has the only
  credentials. That is the setup of `README.md:38` and `examples/coxcluster.yaml`, and
  `config/manager/manager.yaml` sets no credentials in the manager's environment. A machine whose CoxCluster is gone
  is never released, as `NewMachineScope` is an error (`scope/machine.go:89`). It takes a CoxCluster that is
  deleted by hand while the Cluster is being deleted; when Cluster API keeps to its order, the
  machines go first.

### What the model also shows, without a run of its own

Each is found by TLC when the constants of a run are changed as described.

* A failed provisioning task blocks a machine for ever, alive or deleted
  (`coxmachine_controller.go:509`): `machine_live` with one "fail".
* Two workloads for one machine after a lost answer or a crash between POST and patch
  (`machine_best` with "lost" or "crash"), after a stale read (`StaleReads`), or after a
  CLI deletion: then the ProviderID keeps the task from being asked, and every reconcile
  creates another workload until one is listed ("cli", three workloads).
* A CoxMachine (`machine_best` with `EarlyBootstrap`) or CoxCluster (`cluster_best`
  with `EarlyDeletion`) that is deleted during its first creating reconcile has no persisted
  finalizer yet and leaves its workloads running.
* A second pair of load balancers when the list lags after creation
  (`cluster_best` with `ListLag`).
* A dead instance is noticed in the condition only; `Status.Ready` stays true
  (`coxmachine_controller.go:329-334`).
* A ready machine without ProviderID when only the object patch fails (`machine_safety`
  with "patch").
* Two machines with one shortened name share one workload (`machine_safety` with a
  constant `ApiName`). `lb-production-east-cluster` and
  `lb-production-west-cluster` are both `lb-product-cluster`.
* With credentials of another Cox Edge environment in the manager's (`scope/machine.go:86`) a machine whose
  CoxCluster is gone would be released and its workload left running (not modelled).
* A paused CoxMachine is reconciled all the same: the filter of `SetupWithManager` looks at
  the object of an event (`coxmachine_controller.go:411`), so that events of its Machine, the
  CoxCluster and the Cluster, `RequeueAfter` and the first events after a restart put its key on the queue
  (in `CoxManager`, `MachineChanges(m)` with `paused[m]`), and `Reconcile` does not ask, as the CoxCluster
  controller does (`coxcluster_controller.go:117`).

## 4. Proofs

All theorems are for every set of machines, workloads and names, every number of
faults, and every setting that their hypotheses leave open. A hypothesis is a setting of a
constant that a run has too; where it is dropped, the property is false (section 3 says how)
unless noted. `PROJECT.json` lists the theorems.

### CoxMachine

* `TypeCorrect`: the type invariant is inductive. It rests on
  `NoneAssumption` and `MachineAssumption`.
* `OwnWorkloadCorrect`: `OwnWorkload` is not inductive, since a close copies `rec.new` into
  the object and a start copies the cache into `rec`. `OwnInv` says the same of all
  four copies, and that a workload that is not created has no name, so that a
  creation takes no name away. `NoSharingCorrect` follows, from the assumption
  that `ApiName` is injective: two machines with one ProviderID would be two names of one workload.
  `PartsKeepApartCorrect` is what that assumption rests on.
* `ReadyCorrect` assumes `MaxFaults["patch"] = 0`. `ReadyInv` adds that what is set is
  never emptied (`Grows`): a reconcile that works on an old copy writes only what it
  changed, so ready, written last, meets a ProviderID that is there.
  The theorem shows that the order of the patches, and not luck, protects against crashes.
* `ReleaseCorrect` assumes `ListLag = FALSE`. `ReleaseInv` adds that
  a recorded ProviderID's workload has been listed (`Found`), so that a list without
  it means that it is gone, and that a copy whose finalizer the reconcile took off is about to
  be closed, with its workload on the way out.
* `AtMostOneWorkloadCorrect`, `NoLeakCorrect` and `ContractCorrect` assume `AtItsBest`: fresh
  reads, a list that keeps up, bootstrap data after the finalizer, no lost answer, crash, partial patch
  or foreign deletion, and injective names. Failed calls, failed tasks and dead instances may be
  many. Neither property is inductive: that a reconcile is about to create is safe only because its
  copy is still true and what it did not find does not exist.
  `CopyInv` is the first half: since the copy was read nothing but a mark for
  deletion came to the object, what has the finalizer keeps it until a deletion is through, and what is
  asked next has been learnt. `SoleInv` is the second: all workloads of a machine's name
  (`Named`) are one; it is the task that the object has or that the reconcile at "close" is about
  to write; at "create" there is none; as long as nobody deletes the machine its workload
  is not deleted and its ProviderID is listed; a ProviderID that vanished from the list does
  so only in a deletion. Both need each other and `ReleaseInv`. `machine_leak` and the list in section 3
  show what each hypothesis is for.
* `ContractCorrect` is the refinement of `ResourceContract` step by step: a creation is
  `Run`, an accepted deletion or its end a stop, a close with another ProviderID `Refer`, a
  close without finalizer `Leave`, the rest stutters. `SoleInv` gives the guards: that the owner is idle
  when something runs, and that nothing of it runs when it leaves.

### CoxCluster

* `EndpointCorrect` assumes `MaxFaults["patch"] = 0`, and no type
  invariant: `Shape` leaves open what the lists of backends hold. `EndpointInv` adds
  that the copy, what was read and the answer about the control
  plane's load balancer name only workloads of that name (`Sound`), that an endpoint
  which was read is never emptied, and that nobody else changes the endpoint during
  a reconcile. Without the last, a patch of the changed fields alone could
  leave the cluster ready without an endpoint. Names are given once (`Kept`).
* `AtMostOneOfEachCorrect`, `NoLeakCorrect`, `EndpointMovesCorrect` and `ClusterContractCorrect`
  assume only `KeepsUp`: the list has the POSTs of the last reconcile, and the finalizer
  is there before a deletion. Every fault may happen any number of times. `PairInv` says that what
  is there is the only one of its name (`Alone`), that a CoxCluster which ended leaves
  none live, and what a reconcile may rely on (`Knows`): at "create" the load balancers
  that are still to come are missing, in a deletion those that were accepted are not live, and the
  finalizer comes off only after both. The cluster does so well under faults where the machine does
  not, since it creates only when both are missing and remembers no task.
* `ClusterTypeCorrect` assumes that the addresses are finitely many (`FewAddresses`). Most
  of it is that the update's sorted list is a list of backends, so that what `Sorted` chooses
  exists. The theorem of induction over finite sets takes an operator as parameter, which the provers
  cannot instantiate; `SmallestSet` takes a smallest counterexample instead, which the
  well-founded order on finite sets has: `LeastNumber`, `Prepended` and
  `CanBeSorted` then sort a set by its least element and the rest. `SortedBackends` and `SameWhenSorted`
  say what sorting does: same set, and equal sets give equal lists.
* `RestartCorrect` assumes `FewAddresses` and `ListLag = FALSE`, no more: faults and early deletion may
  be any. The comparison is of what was read, the update of what is there. `RestartInv` says that
  between the two nobody changes the backends (`AsRead`), that an update is
  sent only where the sorted lists differ, and that a load balancer that was read is the only one of
  its name, so that a PUT by name reaches it.

### CoxManager

* `ManagerImplements`: the machine controller with queue, watches and pauses implements `CoxMachine`,
  where reconciles start at any time. Every safety theorem of `CoxMachine` holds for it
  therefore, and fewer starts cannot break them.
* `ManagerTypeCorrect` follows, with the types of the queue.
* `NoLostWakeupCorrect` assumes nothing: any faults, pauses, stale reads, crashes. `WakeInv` is
  `CacheBehind` (the cache says nothing of a deletion that the object does not know),
  `Asleep` (whoever is neither queued nor worked on, with no event to come, has nothing to do) and `AtWork`
  (a reconcile whose result asks for nothing, `~requeue`, leaves an event of its own patch, ends
  the object, or has nothing to wait for, `MayRest`). The last is what the code gets by without
  `Requeue` after a creation (`coxmachine_controller.go:299`): the status patch is the event.

### CoxProvider

* `TogetherCorrect` assumes `Apart`: the names of machines and load balancers stay distinct after
  shortening. Each module's invariant is kept beside the other's: `ForeignStep`, in both contract
  proofs, is what a stranger may do in the environment, which is everything but touch workloads
  of one's own names, and each controller's calls are shown to be that to the other
  (`ClusterCallsOnOwn`, `CallsOnOwn`). The proofs are instantiated beside the modules
  (`MP`, `CP`), and so `Same...` lemmas bridge the two instances action by action; what the modules assume is
  proved of the constants here (`MachineAssumptions`, `ClusterAssumptions`).
  `TogetherInv` has what the controllers owe each other: a machine's workload exists only with
  bootstrap data, these come after the endpoint, and load balancers live until the Cluster is deleted.
* `NothingUnownedCorrect` and `EndpointKeptCorrect` follow.
* `ProviderTypeCorrect` assumes finitely many workloads (the service has a quota) and not `Apart`. It joins
  the types of the two: the addresses in the machines' objects are what
  the cluster's controller may put into lists.

### WorkloadNames

* `TypeCorrect` bounds every name that is sent. `NamesInv` says that a found workload has the shortened name
  of its object, whatever other workloads have it too, and that only names which can be shortened are looked for. `CutProperties` and `Pieces`
  say where a shortened name's last part is, `Idempotent` that shortening a
  shortened name changes nothing, `PostfixKept` that the last part survives. From these
  come `FoundByEitherNameCorrect` and `PartsKeepApartCorrect`. The first rests on a list that only grows: the first
  workload under a name may change, but for both names alike (`FirstProperties`). That a name has one
  workload is no theorem, since it is not so (section 3).

### Only model-checked

Every invariant that a passing run checks is a theorem, and so are `ImplementsContract`,
`EndpointMovesOnlyFromDead` and `RestartOnlyOnChange`. What stays with TLC is liveness
(`EventuallyReady`, `DeletionCompletes`, `ComesUp`, `GoesAway`, `DeadVmNoticed`, `NodeTagged`,
`BackendsFollow`, `TearsDown`), as fairness and ENABLED are out of
the prover's reach. The inductive invariants were checked by TLC on the runs' instances before
they were proved. The models' proofs say nothing of what the models leave out (section 2, Abstractions).

## 5. Plan

The order is by what fails worst: workloads that run on unnoticed and are paid for,
then clusters that never come up or never go away.

1. `CoxEdge`, `CoxMachine` and its runs; its type, ownership, readiness and release
   proofs. Done.
2. `CoxCluster` and its runs; its endpoint proof. Done.
3. `WorkloadNames`, runs and proofs. Done.
4. `ResourceContract`, and the refinement of both controllers. Done.
5. `CoxManager`: the queue, the watches and the results. Done.
6. `CoxProvider`: both controllers, Cluster API and the credentials. Done.
7. Proofs of every invariant that the runs check, of the refinement of `ResourceContract` by
   both controllers, of `CoxMachine` by `CoxManager`, of `RestartOnlyOnChange`. Done.
   Left: the contracts and `ReleaseOnlyWhenDead`, `ReadyIsComplete`, `RestartOnlyOnChange` in `CoxProvider`, where
   the lemmas `...Beside` already keep most of their invariants; `AtMostOneWorkload` with crashes
   but without creation in flight; a rank that shows why a deletion needs finitely many
   successful reconciles, as the safety half of `DeletionCompletes`.
8. Later: load balancers with several instances, of which the last RUNNING one gives the
   address (`loadbalancer.go:177-191`); a panic of one controller as a crash of the
   other; pauses and the watches of the CoxCluster controller; credentials of another environment.

Not modelled, and why: flags, probes and leader election are set up by libraries; the list
commands of `cox` only print; generated code, templates and the data of a workload's
specification (image, ports, sizes, storage) decide nothing that the properties tell
apart; the HTTP layer is its outcomes. `GetInstance` and `WaitForWorkload` of the client are
called by nothing in `src/`.
