SPECIFICATION AccountsSpec
CONSTANTS
  Podcasts = {p1}
  Episodes = {e1}
  Bookmarks = {b1}
  Folders = {}
  Playlists = {}
  StatDevices = {}
  Feeds = {}
  Val = {0, 1}
  Stamp = {0, 1, 3}
  SettingKeys = {"skipForward"}
  PodcastProps = {}
  SentFields = {"playedUpTo", "deselectedChapters"}
  Excerpts = {x1, x2}
  NoPodcast = NoPodcast
  NoFeed = NoFeed
  NoExcerpt = NoExcerpt
  NoStamp = NoStamp
  NoData = NoData
  Tokens = {2}
  MaxCommits = 3
  Request = {r1, r2}
  Device = {d1, d2}
  MaxChallenges = 2
  MaxCounter = 2
  MaxDeliveries = 4
  Account = {a1, a2}
  Phone = {"phone"}
  MaxTokens = 2
  MaxRegistrations = 2
  MaxSends = 1
  MaxAttempts = 2
SYMMETRY Symmetry
INVARIANTS NewestWins EchoRebuildsRow
INVARIANTS TypesOK RestoreConverges AttestedOnce PhonesStayReachable
