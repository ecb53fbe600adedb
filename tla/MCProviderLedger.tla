-------------------------- MODULE MCProviderLedger --------------------------
(***************************************************************************)
(* ProviderLedger for TLC: a workspace with a pull request and an issue,   *)
(* one field, two interchangeable values.                                  *)
(***************************************************************************)
EXTENDS ProviderLedger, TLC

CONSTANTS pr, issue, u, v

MCValues == {u, v}
Symmetry == Permutations({u, v})
=============================================================================
