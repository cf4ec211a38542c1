CONSTANTS
  Child = {c1, c2}
  None = None
  WakesPerHour = 1
  Faults = {"busy", "fails"}
  MaxCalls = 2
  MaxSends = 1
  MaxStops = 1
  MaxHours = 1

SPECIFICATION Spec
CHECK_DEADLOCK FALSE
SYMMETRY Symmetry
INVARIANTS
  PendingHasTimer
  DueIsInHand
  PromiseIsInHand
