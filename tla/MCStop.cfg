CONSTANTS
  Session = {s1, s2}
  Existing = {s1}
  RunId = {r1, r2, r3}
  Caller = {c1}
  Pump = pump
  None = None
  MaxLive = 1
  QueueWhenBusy = FALSE
  MaxTurns = 2
  Ops = {"message", "send", "compact", "kill", "child"}
  Outcomes = {"closed", "interrupted", "paused"}
  Faults = {"abort", "budget", "launch_fails"}
  MaxOps = 2
  MaxCrashes = 0

SPECIFICATION Spec
CHECK_DEADLOCK FALSE
SYMMETRY Symmetry
INVARIANTS
  StaysKilled
  SlotIsHeld
  SlotHasOwner
  ActiveIsNotStuck
