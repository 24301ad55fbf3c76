SPECIFICATION DevicesSpec
CONSTANTS
  Device = {d1, d2}
  Episodes = {e1, e2, e3}
  Stamp = {1, 2}
  Clock = {0, 2}
  MaxToken = 2
  MaxChanges = 2
  MaxReplace = 2
  Cap = 1
SYMMETRY Symmetry
INVARIANTS TokensNameLists NewestChangeKept
PROPERTY QueueFollowsChanges
