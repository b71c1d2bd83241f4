SPECIFICATION Spec
CONSTANTS
  Request = {r1, r2}
  MaxJobs = 2
CHECK_DEADLOCK FALSE
INVARIANTS
  FilesOutliveReaders
  FilesHaveOwners
  HistoryAgreesWithReply
PROPERTIES
  EveryRequestEnds
  ReturnedFilesGo
