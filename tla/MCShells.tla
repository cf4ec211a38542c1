------------------------------ MODULE MCShells ------------------------------
(* Shells with model values; the run states liveness, so no symmetry.       *)
EXTENDS Shells
=============================================================================
