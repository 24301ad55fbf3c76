SPECIFICATION Spec
CONSTANTS
  User = {u1, u2, u3}
  Request = {r1, r2}
  Cap = 2
  MaxBlocks = 0
  MaxRequests = 4
PROPERTY PrivacyOneWay
CHECK_DEADLOCK FALSE
