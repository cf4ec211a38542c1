CONSTANTS
  Call = {c1, c2}
  Client = {k1, k2}
  None = None

SPECIFICATION LiveSpec
CHECK_DEADLOCK FALSE
INVARIANTS
  RunsWithLeave
  OneAnswer
  NoGhosts
PROPERTIES
  QuestionsEnd
