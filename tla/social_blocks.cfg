SPECIFICATION Spec
CONSTANTS
  User = {u1, u2}
  Handle = {h1, h2}
  Request = {r1, r2}
  MaxRequests = 4
  MaxFaults = 0
INVARIANT BlockSevers
