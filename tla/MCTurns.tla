------------------------------- MODULE MCTurns -------------------------------
(* Every driver in one run; the run states liveness.                        *)
EXTENDS Turns

CONSTANTS a1, a2
=============================================================================
