SPECIFICATION Spec
CONSTANTS
  MaxRows = 1
  User = {u1}
  Sweep = {s1}
  BatchSize = 1
  MaxBatches = 1
  Stuck = {}
  MaxCrashes = 0
CHECK_DEADLOCK FALSE
INVARIANT
  NoResultWithoutRow
