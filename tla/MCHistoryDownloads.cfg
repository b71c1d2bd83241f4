SPECIFICATION DownloadsSpec
CONSTANTS
  MaxRows = 2
  User = {u1, u2}
  Sweep = {s1, s2}
  BatchSize = 1
  MaxBatches = 2
  Stuck = {}
  MaxCrashes = 1
  Reader = {d1}
  MaxDownloads = 1
  None = None
SYMMETRY DownloadSymmetry
CHECK_DEADLOCK FALSE
INVARIANTS
  SavedIsDownloadable
  AuditedSaveIsStored
  OnlyExpiryBreaksDownloads
  SentIsAudited
PROPERTIES
  RemovedTogether
  ImplementsResults
