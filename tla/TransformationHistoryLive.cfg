SPECIFICATION Spec
CONSTANTS
  MaxRows = 3
  User = {u1}
  Sweep = {s1}
  BatchSize = 2
  MaxBatches = 1
  Stuck = {1}
  MaxCrashes = 1
CHECK_DEADLOCK FALSE
PROPERTIES
  ExpiredRowsGo
