SPECIFICATION Spec
CONSTANTS
  Request = {r1}
  MaxJobs = 1
CHECK_DEADLOCK FALSE
INVARIANT
  ConvertedIsReturned
