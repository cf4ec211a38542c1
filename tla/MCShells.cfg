CONSTANTS
  Registry = {g1}
  Shell = {h1, h2}
  Command = {f1, f2}
  None = None
  Limit = 1
  FgKeep = 1
  MaxOut = 2
  MaxCalls = 2
  Faults = {"spawn", "wait"}

SPECIFICATION LiveSpec
CHECK_DEADLOCK FALSE
INVARIANTS
  LimitKept
  NothingUnowned
  SweptStaysDown
  ForegroundIsTrue
PROPERTIES
  EverythingEnds
