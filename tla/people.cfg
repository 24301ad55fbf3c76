SPECIFICATION PeopleSpec
CONSTANTS
  User = {u1, u2, u3}
  Request = {r1, r2}
  Cap = 2
  MaxBlocks = 1
  MaxRequests = 4
  Episode = {e1, e2}
  EntryCap = 1
  CollaboratorCap = 1
  MaxListRequests = 4
  MaxFaults = 1
  MaxChanges = 3
  MaxUpdates = 1
  Client = {c1, c2}
  ReportsPerDay = 1
  Day = 2
  Limit = 2
  Window = 2
  PerMinute = 1
  EvictAfter = 2
  SweepThreshold = 1
  MaxClock = 4
  MaxTries = 5
SYMMETRY Symmetry
INVARIANTS TypesOK GroupIsWhole ErasedLeavesNothing ReadsRespectPrivacy LimitsHold
PROPERTY BanNotOverwritten
