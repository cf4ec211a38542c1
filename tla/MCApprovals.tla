----------------------------- MODULE MCApprovals -----------------------------
(* Approvals with model values; the run states liveness, so no symmetry.    *)
EXTENDS Approvals
=============================================================================
