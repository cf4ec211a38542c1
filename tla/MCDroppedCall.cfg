CONSTANTS
  Session = {s1}
  Existing = {}
  RunId = {r1, r2, r3}
  Caller = {c1}
  Pump = pump
  None = None
  MaxLive = 1
  QueueWhenBusy = TRUE
  MaxTurns = 2
  Ops = {"child"}
  Outcomes = {}
  Faults = {"drop"}
  MaxOps = 1
  MaxCrashes = 0

SPECIFICATION Spec
CHECK_DEADLOCK FALSE
SYMMETRY Symmetry
INVARIANTS
  SlotHasOwner
