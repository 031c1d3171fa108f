---------------------------- MODULE MCCoxCluster ----------------------------
(***************************************************************************)
(* Instances of CoxCluster for TLC: the addresses, and the faults of each  *)
(* run.                                                                    *)
(***************************************************************************)
EXTENDS CoxCluster

\* At most one fault of each of these kinds.
Once(kinds) == [k \in FaultKinds |-> IF k \in kinds THEN 1 ELSE 0]

Trouble == Once({"api", "lost", "fail", "crash"})
Mishaps == [Once({"patch", "crash"}) EXCEPT !["cli"] = 2]
LostAnswer == Once({"lost"})
OneError == Once({"api"})

\* Two machines of the control plane, and one worker.
Addrs == [lb \in Lbs |-> IF lb = Cp THEN {1, 2} ELSE {3}]

WorkloadSymmetry == Permutations(Workloads)

=============================================================================
