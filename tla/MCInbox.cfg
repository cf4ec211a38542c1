CONSTANTS
  Session = {s1}
  Existing = {s1}
  RunId = {r1, r2, r3}
  Caller = {c1}
  Pump = pump
  None = None
  MaxLive = 1
  QueueWhenBusy = TRUE
  MaxTurns = 2
  Ops = {"message"}
  Outcomes = {"interrupted", "closed", "paused", "failed"}
  Faults = {}
  MaxOps = 4
  MaxCrashes = 0

SPECIFICATION Spec
CHECK_DEADLOCK FALSE
SYMMETRY Symmetry
INVARIANTS
  InOrder
  PromisedIsRead
