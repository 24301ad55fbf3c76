SPECIFICATION JobsSpec
CONSTANTS
  User = {u1, u2}
  Feed = {f1, f2}
  Worker = {w1, w2}
  NoFeed = NoFeed
  QueueSize = 1
  Burst = 2
  MaxUsers = 1
  Replica = {p1, p2}
  Batch = 1
  Uploader = {a1, a2}
  MaxKeys = 2
  None = None
  MaxFaults = 1
INVARIANTS TypesOK OneIngestionPerFeed LimiterExact
INVARIANTS DigestOnce ObjectsAccounted
PROPERTY WorkCompletes
