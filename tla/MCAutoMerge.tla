----------------------------- MODULE MCAutoMerge -----------------------------
(* Instances of AutoMerge for TLC.                                         *)
EXTENDS AutoMerge
=============================================================================
