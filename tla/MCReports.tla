------------------------------ MODULE MCReports ------------------------------
(***************************************************************************)
(* Reports and wakes of one parent, for TLC.                               *)
(***************************************************************************)
EXTENDS Reports, TLC

Symmetry == Permutations(Child)
=============================================================================
