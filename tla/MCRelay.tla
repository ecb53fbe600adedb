------------------------------- MODULE MCRelay -------------------------------
(* Instances of Relay for TLC.                                             *)
EXTENDS Relay

\* Every control connection is of the same box.
MCOneBox == [c \in Conns |-> CHOOSE b \in BoxIds : TRUE]
=============================================================================
