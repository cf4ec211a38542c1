CONSTANTS
  Device = {d1, d2}
  Hub = hub
  Writers = {d1, d2}
  Note = {n1}
  None = None
  Big = {}
  MaxEdits = 3
  Frail = {d1}
  MaxFails = 1

SPECIFICATION LiveSpec
CHECK_DEADLOCK FALSE
INVARIANTS
  NothingLost
  OnlyGivenUpIsDeleted
  ConflictsAreRealUnlessFailed
PROPERTIES
  InStepAtLast
