SPECIFICATION Spec
CONSTANTS
  Request = {r1}
  Job = {j1}
  None = None
  MaxFaults = 0
INVARIANT PollingIsHonest
