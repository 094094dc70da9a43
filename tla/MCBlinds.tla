------------------------------- MODULE MCBlinds -------------------------------
(* A blind with one level between open and closed, two overlapping calls.  *)
EXTENDS Blinds, TLC
CONSTANTS c1, c2
=============================================================================
