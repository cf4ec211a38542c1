CONSTANTS
  Session = {s1, s2}
  Existing = {}
  RunId = {r1, r2}
  Caller = {c1}
  Pump = pump
  None = None
  MaxLive = 1
  QueueWhenBusy = TRUE
  MaxTurns = 2
  Ops = {"spawn", "kill"}
  Outcomes = {}
  Faults = {"crash", "run_dies"}
  MaxOps = 2
  MaxCrashes = 1

SPECIFICATION LiveSpec
CHECK_DEADLOCK FALSE
INVARIANTS
  QueuedIsNotStuck
PROPERTIES
  QueuedIsTakenUp
  SlotsAreFreed
