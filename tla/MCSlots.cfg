CONSTANTS
  Session = {s1, s2, s3}
  Existing = {s1}
  RunId = {r1, r2, r3}
  Caller = {c1}
  Pump = pump
  None = None
  MaxLive = 1
  QueueWhenBusy = TRUE
  MaxTurns = 2
  Ops = {"child", "kill", "send"}
  Outcomes = {}
  Faults = {"drop"}
  MaxOps = 3
  MaxCrashes = 0

SPECIFICATION Spec
CHECK_DEADLOCK FALSE
SYMMETRY Symmetry
INVARIANTS

  OvershootBounded
PROPERTIES
  KeepsSlots
