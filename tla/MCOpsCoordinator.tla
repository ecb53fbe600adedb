-------------------------- MODULE MCOpsCoordinator --------------------------
(***************************************************************************)
(* Instances of OpsCoordinator for TLC: at most two client commands run at *)
(* a time, as interchangeable tasks.                                       *)
(***************************************************************************)
EXTENDS OpsCoordinator, TLC

CONSTANTS d1, d2

MCValues == SUBSET Members
MCAbsolute == [f \in Fields |-> "absolute"]
MCDiff == [f \in Fields |-> "diff"]
Symmetry == Permutations(Drivers)
=============================================================================
