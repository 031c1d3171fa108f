---------------------------- MODULE MCCoxManager ----------------------------
(* Instances of CoxManager for TLC.                                         *)
EXTENDS CoxManager

\* At most one fault of each of these kinds.
Once(kinds) == [k \in FaultKinds |-> IF k \in kinds THEN 1 ELSE 0]

Some == Once({"crash", "die"})

\* Every machine keeps a name of its own: the names are the machines.
OwnNames == [m \in Machines |-> m]

=============================================================================
