---------------------------- MODULE MCCoxMachine ----------------------------
(***************************************************************************)
(* Instances of CoxMachine for TLC: the names, and the faults of each run. *)
(***************************************************************************)
EXTENDS CoxMachine, TLC

\* At most one fault of each of these kinds.
Once(kinds) == [k \in FaultKinds |-> IF k \in kinds THEN 1 ELSE 0]

SafetyFaults == Once({"crash", "api", "cli"})
CallFaults == Once({"crash", "api", "lost", "patch"})
CloudFaults == Once({"api", "fail", "die"})
CliDeletion == Once({"cli"})

\* Every machine keeps a name of its own: the names are the machines.
OwnNames == [m \in Machines |-> m]

WorkloadSymmetry == Permutations(Workloads)

\* The names are the machines: they are exchanged together.
Symmetry == WorkloadSymmetry \cup Permutations(Machines)

=============================================================================
