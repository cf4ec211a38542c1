--------------------------- MODULE MCOrchestrator ---------------------------
(* Orchestrator on small instances: the configurations name the calls and *)
(* the faults of each run.                                                *)
EXTENDS Orchestrator, TLC

\* Run ids, callers and unborn sessions are interchangeable.
Symmetry == Permutations(RunId) \cup Permutations(Caller)
=============================================================================
