SPECIFICATION Spec
CONSTANTS
  Podcasts = {p1}
  Episodes = {e1}
  Bookmarks = {}
  Folders = {}
  Playlists = {}
  StatDevices = {}
  Feeds = {u1}
  Val = {0, 1}
  Stamp = {1}
  SettingKeys = {"skipForward"}
  PodcastProps = {}
  SentFields = {"playedUpTo"}
  Excerpts = {}
  NoPodcast = NoPodcast
  NoFeed = NoFeed
  NoExcerpt = NoExcerpt
  NoStamp = NoStamp
  NoData = NoData
  Device = {d1, d2}
  Clock = {0, 2}
  MaxToken = 3
  MaxRecords = 1
  Tiers = {}
  HourLen = 1
SYMMETRY Symmetry
INVARIANTS TypeOK NoMissedWrite HooksAfterCommit
PROPERTIES WritesAdvanceCursor ImplementsReplica
