SPECIFICATION Spec
CONSTANTS
  PoolSize = 1
  MaxJobs = 3
  MaxCrashes = 1
  Worker = {1, 2, 3, 4, 5}
  NoWorker = NoWorker
CONSTRAINT BornInOrder
CHECK_DEADLOCK FALSE
INVARIANTS
  NoOvertaking
PROPERTIES
  ImplementsRunner
  DeadWorkerReplaced
  DestroyCompletes
