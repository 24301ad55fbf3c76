SPECIFICATION Spec
CONSTANTS
  Podcasts = {p1}
  Episodes = {e1}
  Bookmarks = {}
  Folders = {}
  Playlists = {}
  StatDevices = {}
  Feeds = {}
  Val = {0, 1, 3}
  Stamp = {1, 2}
  SettingKeys = {}
  PodcastProps = {}
  SentFields = {"playingStatus"}
  Excerpts = {}
  NoPodcast = NoPodcast
  NoFeed = NoFeed
  NoExcerpt = NoExcerpt
  NoStamp = NoStamp
  NoData = NoData
  Device = {d1}
  Clock = {0}
  MaxToken = 3
  MaxRecords = 1
  Tiers = {1, 2}
  HourLen = 1
PROPERTY LaterCrossingsAreNews
