---------------------------- MODULE MCCoxProvider ----------------------------
(* Instances of CoxProvider for TLC.                                        *)
EXTENDS CoxProvider

OwnNames == [m \in Machines |-> m]

=============================================================================
