SPECIFICATION LiveSpec
CONSTANTS
  Process = {p1, p2}
  Run = {r1, r2}
  Session = {s1}
  Folder = {f1, f2}
  LiveMax = 1
  Kinds <- Parkers
  MaxParks = 2
  None = None
  p1 = p1
  p2 = p2
  r1 = r1
  r2 = r2
  s1 = s1
  f1 = f1
  f2 = f2
CHECK_DEADLOCK FALSE
INVARIANTS
  TurnHasTools
  Remembers
PROPERTIES
  TimersSpare
  ProcessesGo
