SPECIFICATION Spec
CONSTANTS
  MaxTime = 2
  Id = {1, 2, 3}
  mine = mine
  other = other
  Kind <- MCKind
  Query <- MCQuery
  Limits <- MCLimits
  Reader = {p}
CHECK_DEADLOCK FALSE
INVARIANTS
  PagesDescend
  NothingSkipped
PROPERTIES
  ReadingEnds
