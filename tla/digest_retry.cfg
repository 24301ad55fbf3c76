SPECIFICATION Spec
CONSTANTS
  Replica = {r1}
  User = {u1, u2}
  NoOne = NoOne
  Batch = 1
  MaxFaults = 1
INVARIANT FailedCanRetry
CHECK_DEADLOCK FALSE
