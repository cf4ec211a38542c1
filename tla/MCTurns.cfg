CONSTANTS
  Driver = {"acp", "codex", "claude"}
  Subagent = {a1, a2}
  a1 = a1
  a2 = a2
  MaxWire = 5
  MaxSay = 1

SPECIFICATION LiveSpec
CHECK_DEADLOCK FALSE
INVARIANTS
  StaysForAgents
PROPERTIES
  KeepsContract
  TurnsEnd
  AsksEnd
