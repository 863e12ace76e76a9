CONSTANTS
  Slugs = {s1, s2}
  Writers = {w1, w2}
  Clients = {c1}
  PageSizes = {1, 2, 3}
  MaxPageSize = 2
  None = None
  MaxTime = 1
  MaxRows = 6
SYMMETRY Symmetry
SPECIFICATION Spec
CHECK_DEADLOCK FALSE
INVARIANTS
  TypeOK
  WalkMissesNothing
  TotalsHonoured
