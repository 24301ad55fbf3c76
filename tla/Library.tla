------------------------------- MODULE Library -------------------------------
(***************************************************************************)
(* The full-sync reads of an account (syncsvc/library.go), with a device   *)
(* that restores itself from them while other devices go on committing.    *)
(*                                                                         *)
(* No request reads in a transaction, and the podcast list and the         *)
(* episodes of a podcast are several statements.  The device asks for      *)
(* last_sync_at first and for the lists in any order; from then on it      *)
(* syncs incrementally from that cursor.  A commit here is one of          *)
(* SyncEngine: rows are written with a token above every earlier one.      *)
(***************************************************************************)
EXTENDS Naturals, FiniteSets

CONSTANTS
  Podcast, Folder, Playlist, Episode, Bookmark,     \* uuids, by table
  NoFolder,
  Content,          \* what a folder or playlist says besides live
  MaxCommits        \* bound: commits of the other devices

VARIABLES
  rows,             \* the stored rows of the account
  syncLastModified, \* users.sync_last_modified
  todo,             \* lists the device still has to ask for
  wanted,           \* podcasts whose episodes it still has to ask for
  half,             \* the episodes request under way, between its statements
  cursor, copy,     \* what the device holds
  commits

server == <<rows, syncLastModified, commits>>
vars == <<server, todo, wanted, half, cursor, copy>>

Key == [t : {"podcast"}, id : Podcast] \cup [t : {"folder"}, id : Folder]
         \cup [t : {"playlist"}, id : Playlist] \cup [t : {"episode"}, id : Episode]
         \cup [t : {"bookmark"}, id : Bookmark]
Keys(t) == {k \in Key : k.t = t}

(* The rows.  live is NOT is_deleted, for a podcast subscribed as well; what
   else a folder or playlist says is val. *)
UserPodcast == [live : BOOLEAN, folder : Folder \cup {NoFolder}]
UserEpisode == [podcast : Podcast, starred : BOOLEAN, chapters : {0, 1}]
FolderRow   == [live : BOOLEAN, val : Content]
PlaylistRow == [live : BOOLEAN, val : Content]
BookmarkRow == [live : BOOLEAN, episode : Episode]
RowOf(t) ==
  CASE t = "podcast" -> UserPodcast [] t = "episode" -> UserEpisode [] t = "bookmark" -> BookmarkRow
    [] t = "folder" -> FolderRow [] OTHER -> PlaylistRow

NoRow  == [mod |-> 0]
Absent == [none |-> TRUE]
Stored(k) == rows[k] # NoRow
Holds(c, k) == c[k] # Absent

----------------------------------------------------------------------------
(* The statements: which rows each returns. *)
GetSubscribedPodcastsWithCatalog == {k \in Keys("podcast") : Stored(k) /\ rows[k].data.live}
GetFoldersAll == {k \in Keys("folder") : Stored(k)}          \* mutant: deleted folders too
GetFolders    == {k \in Keys("folder") : Stored(k) /\ rows[k].data.live}
GetPlaylists  == {k \in Keys("playlist") : Stored(k) /\ rows[k].data.live}
GetBookmarks  == {k \in Keys("bookmark") : Stored(k) /\ rows[k].data.live}
GetStarredEpisodes == {k \in Keys("episode") : Stored(k) /\ rows[k].data.starred}
GetUserEpisodesForPodcast(p) == {k \in Keys("episode") : Stored(k) /\ rows[k].data.podcast = p}
GetBookmarksForEpisodes(E) ==
  {k \in Keys("bookmark") : Stored(k) /\ rows[k].data.live /\ rows[k].data.episode \in E}

(* The responses.  Lists carry live rows only and do not say so; a starred
   episode comes without its deselected chapters. *)
UserPodcastResponse(k)  == [live |-> TRUE, folder |-> rows[k].data.folder]
PodcastFolder(k)        == [live |-> TRUE, val |-> rows[k].data.val]
PlaylistSyncResponse(k) == [live |-> TRUE, val |-> rows[k].data.val]
BookmarkResponse(k)     == [live |-> TRUE, episode |-> rows[k].data.episode]
EpisodeSyncResponse(k)  == rows[k].data
StarredEpisode(k) ==
  [rows[k].data EXCEPT !.chapters = IF Holds(copy, k) THEN copy[k].chapters ELSE 0]

UserLastSyncAtResponse   == syncLastModified
UserPodcastListResponse  == [k \in GetSubscribedPodcastsWithCatalog |-> UserPodcastResponse(k)]
PodcastListFolders       == [k \in GetFolders |-> PodcastFolder(k)]
SyncEpisodesResponse(p)  == [k \in GetUserEpisodesForPodcast(p) |-> EpisodeSyncResponse(k)]
EpisodeBookmarks(E)      == [k \in GetBookmarksForEpisodes(E) |-> BookmarkResponse(k)]
UserPlaylistListResponse == [k \in GetPlaylists |-> PlaylistSyncResponse(k)]
BookmarksResponse        == [k \in GetBookmarks |-> BookmarkResponse(k)]
StarredEpisodesResponse  == [k \in GetStarredEpisodes |-> StarredEpisode(k)]
SyncUpdateResponse(since) ==
  [k \in {x \in Key : Stored(x) /\ rows[x].mod > since} |-> rows[k].data]

Import(resp) == [k \in Key |-> IF k \in DOMAIN resp THEN resp[k] ELSE copy[k]]

(* The podcasts that are new to the device: it asks for their episodes. *)
UuidRequest == Podcast
New(c) == {k.id : k \in {x \in Keys("podcast") : Holds(c, x) /\ c[x].live /\ ~(Holds(copy, x) /\ copy[x].live)}}
ListRequest == {"podcast/list", "podcast/folders", "playlist/list", "bookmark/list", "starred/list"}

Init ==
  /\ rows = [k \in Key |-> NoRow] /\ syncLastModified = 0 /\ commits = 0
  /\ todo = {"last_sync_at"} /\ wanted = {} /\ half = {} /\ cursor = 0 /\ copy = [k \in Key |-> Absent]

(* A transaction of another device writes some rows, each from a record of its
   own: nothing looks at whether the folder of a podcast, the podcast of an
   episode or the episode of a bookmark is stored or live.  What a bookmark is
   of does not change.  The app sends a folder with the subscribed podcasts that
   it moves into or out of it. *)
Write(new) ==
  /\ commits < MaxCommits /\ commits' = commits + 1
  /\ syncLastModified' = syncLastModified + 1
  /\ rows' = [k \in Key |-> IF k \in DOMAIN new
                             THEN [mod |-> syncLastModified', data |-> new[k]] ELSE rows[k]]
  /\ UNCHANGED <<todo, wanted, half, cursor, copy>>
CommitRow(k, d) ==
  /\ k.t = "bookmark" /\ Stored(k) => d.episode = rows[k].data.episode
  /\ Write([x \in {k} |-> d])
CommitFolder(k, d, moved) ==
  Write([x \in {k} \cup DOMAIN moved |-> IF x = k THEN d ELSE moved[x]])

----------------------------------------------------------------------------
(* The requests of the restoring device. *)
LastSyncAt ==
  /\ "last_sync_at" \in todo
  /\ cursor' = UserLastSyncAtResponse /\ todo' = ListRequest \ {"podcast/folders"}
  /\ UNCHANGED <<server, wanted, half, copy>>

(* Two statements: the folders are read after the podcasts. *)
PodcastList ==
  /\ "podcast/list" \in todo
  /\ copy' = Import(UserPodcastListResponse)
  /\ todo' = (todo \ {"podcast/list"}) \cup {"podcast/folders"} /\ wanted' = wanted \cup New(copy')
  /\ UNCHANGED <<server, half, cursor>>
ReadFolders ==
  /\ "podcast/folders" \in todo
  /\ copy' = Import(PodcastListFolders) /\ todo' = todo \ {"podcast/folders"}
  /\ UNCHANGED <<server, wanted, half, cursor>>

(* Three statements: the bookmarks of the episodes just read and the podcast's
   settings, which val stands for, follow. *)
PodcastEpisodes(p) ==
  /\ p \in wanted /\ half = {} /\ wanted' = wanted \ {p}
  /\ copy' = Import(SyncEpisodesResponse(p))
  /\ half' = {k.id : k \in DOMAIN SyncEpisodesResponse(p)}
  /\ UNCHANGED <<server, todo, cursor>>
ReadBookmarks ==
  /\ half # {} /\ half' = {}
  /\ copy' = Import(EpisodeBookmarks(half))
  /\ UNCHANGED <<server, todo, wanted, cursor>>

PlaylistList ==
  /\ "playlist/list" \in todo /\ todo' = todo \ {"playlist/list"}
  /\ copy' = Import(UserPlaylistListResponse)
  /\ UNCHANGED <<server, wanted, half, cursor>>
BookmarkList ==
  /\ "bookmark/list" \in todo /\ todo' = todo \ {"bookmark/list"}
  /\ copy' = Import(BookmarksResponse)
  /\ UNCHANGED <<server, wanted, half, cursor>>
StarredList ==
  /\ "starred/list" \in todo /\ todo' = todo \ {"starred/list"}
  /\ copy' = Import(StarredEpisodesResponse)
  /\ UNCHANGED <<server, wanted, half, cursor>>

Restored == todo = {} /\ wanted = {} /\ half = {}

(* ApplyUpdate without records, from the device's cursor: see SyncEngine.  It
   draws a token of its own, which is above every row. *)
IncrementalSync ==
  /\ Restored /\ cursor < syncLastModified
  /\ copy' = Import(SyncUpdateResponse(cursor))
  /\ cursor' = syncLastModified /\ wanted' = New(copy')
  /\ UNCHANGED <<server, todo, half>>

(* A request fails or the app ends: the device starts again from nothing. *)
RestoreFails ==
  /\ todo # {"last_sync_at"}
  /\ todo' = {"last_sync_at"} /\ wanted' = {} /\ half' = {} /\ cursor' = 0 /\ copy' = [k \in Key |-> Absent]
  /\ UNCHANGED server

Next ==
  \/ \E k \in Key : \E d \in RowOf(k.t) : CommitRow(k, d)
  \/ \E k \in Keys("folder"), d \in FolderRow, P \in SUBSET Keys("podcast") \ {{}} :
       \E moved \in [P -> {r \in UserPodcast : r.live}] : CommitFolder(k, d, moved)
  \/ LastSyncAt \/ PodcastList \/ ReadFolders
  \/ \E p \in UuidRequest : PodcastEpisodes(p)
  \/ ReadBookmarks \/ PlaylistList \/ BookmarkList \/ StarredList
  \/ IncrementalSync \/ RestoreFails

Spec == Init /\ [][Next]_vars

----------------------------------------------------------------------------
(* The state has its type. *)
TypeOK ==
  /\ \A k \in Key : Stored(k) => rows[k].data \in RowOf(k.t) /\ rows[k].mod <= syncLastModified
  /\ \A k \in Key : Holds(copy, k) => copy[k] \in RowOf(k.t)
  /\ todo \subseteq {"last_sync_at"} \cup ListRequest /\ wanted \subseteq UuidRequest
  /\ half \subseteq Episode /\ cursor <= syncLastModified

(* What a user sees: live rows, and the episodes of subscribed podcasts and
   the starred ones, the latter without their chapters. *)
Shown(data(_), has(_)) ==
  LET Sees(e) == LET p == [t |-> "podcast", id |-> data(e).podcast] IN has(p) /\ data(p).live
      held == {k \in Key : has(k)}
  IN {<<k, data(k)>> : k \in {x \in held : IF x.t = "episode" THEN Sees(x) ELSE data(x).live}}
     \cup {<<k, data(k).podcast>> : k \in {x \in held : x.t = "episode" /\ data(x).starred}}
OnServer == Shown(LAMBDA k : rows[k].data, LAMBDA k : Stored(k))
OnDevice == Shown(LAMBDA k : copy[k], LAMBDA k : Holds(copy, k))

(* A restore reads several lists at different times, and none of them with the
   cursor that it started from; the device still shows the account as it is as
   soon as it has synced past the last commit. *)
RestoreConverges ==
  Restored /\ cursor = syncLastModified => OnDevice = OnServer

(* A podcast in a folder that the device does not have is one of a torn read:
   the podcast or the folder has changed since the cursor, so the next sync
   repairs it; or the account itself keeps the podcast in a folder that is
   deleted or was never stored. *)
DanglingIsRepaired ==
  todo = {} => \A p \in Keys("podcast"), f \in Keys("folder") :
    Holds(copy, p) /\ copy[p].live /\ copy[p].folder = f.id /\ (Holds(copy, f) => ~copy[f].live)
      => \/ rows[f].mod > cursor \/ rows[p].mod > cursor
         \/ rows[p].data.folder = f.id /\ ~(Stored(f) /\ rows[f].data.live)
=============================================================================
