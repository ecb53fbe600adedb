--------------------------- MODULE MCWorkingClaims ---------------------------
(* Instances of WorkingClaims for TLC.                                     *)
EXTENDS WorkingClaims, TLC

CONSTANTS a1, b1, BoxA, BoxB

\* One agent on each of two boxes.
MCHost == [h \in Holders |-> IF h = a1 THEN BoxA ELSE BoxB]
=============================================================================
