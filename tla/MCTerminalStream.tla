-------------------------- MODULE MCTerminalStream --------------------------
(* Instances of TerminalStream for TLC.                                    *)
EXTENDS TerminalStream
=============================================================================
