SPECIFICATION Spec
CONSTANTS
  Email = {e1, e2}
  User = {u1, u2}
  Code = {k1, k2}
  Caller = {c1, c2}
  MaxAttempts = 2
  MaxRequests = 6
  MaxInserts = 3
  None = None
SYMMETRY AccountSymmetry
CHECK_DEADLOCK FALSE
INVARIANTS
  TokensFollowLogouts
  QuietCodesAreExact
  ActivationIsEarned
  RegisteredIsComplete
PROPERTIES
  ImplementsSessions
