SPECIFICATION FeedsSpec
CONSTANTS
  Crawler = {c1, c2}
  MaxEpisodes = 3
  MaxFaults = 1
  Request = {r1}
  Job = {j1, j2}
  None = None
INVARIANTS TypesOK EtagNamesCatalog NewsDelivered CompletedIsTrue
PROPERTY CatchesUp
