CONSTANTS
  Process = {p1, p2}
  Call = {c1, c2, c3, c4}
  None = None
  Tries = 2
  Mixes <- SmallMixes
  MaxClock = 2
  MaxFailures = 2

SPECIFICATION Spec
CHECK_DEADLOCK FALSE
SYMMETRY Symmetry
INVARIANTS
  CacheIsTheFile
  ReadsAreWhole
  EditsAreKept
  ActivityIsKept
  ListSeesOwnEdits
