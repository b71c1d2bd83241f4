SPECIFICATION Safety
CONSTANTS
  PoolSize = 2
  MaxJobs = 3
  MaxCrashes = 1
  Worker = {w1, w2, w3, w4, w5, w6}
  NoWorker = NoWorker
SYMMETRY WorkerSymmetry
CHECK_DEADLOCK FALSE
INVARIANTS
  PoolFull
  NoCapacityLeak
  WorkConserving
  AnswersMatch
  PendingIsTimed
  IndInv
