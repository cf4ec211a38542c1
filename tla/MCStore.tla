-------------------------------- MODULE MCStore --------------------------------
(* Store with model values for the processes and the calls. A history has     *)
(* enough calls of two or three kinds for what can go wrong between them.      *)
EXTENDS Store, TLC

Mix(a, r, e, l) == [kind \in Kind |->
  CASE kind = "append" -> a [] kind = "read" -> r [] kind = "edit" -> e [] kind = "list" -> l]

SmallMixes ==
  {Mix(2, 1, 0, 0), Mix(1, 3, 0, 0), Mix(1, 1, 1, 0), Mix(2, 0, 1, 0),
   Mix(1, 0, 2, 0), Mix(1, 0, 1, 1), Mix(0, 0, 2, 2)}

Symmetry == Permutations(Process) \cup Permutations(Call)
================================================================================
