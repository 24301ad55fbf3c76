----------------------------- MODULE SyncRecords -----------------------------
(***************************************************************************)
(* What one sync record does to the row it names: the apply*Record         *)
(* functions of syncsvc/engine.go and the per-key settings merge of        *)
(* syncsvc/settings.go, as operators without state.  SyncEngine runs them  *)
(* inside the per-user transaction, SyncMerge delivers them to one row in  *)
(* every order.                                                            *)
(*                                                                         *)
(* Data abstraction.  A column that only ever travels is a member of Val   *)
(* (booleans of LWW columns are 0 and 1).  A wrapper the client left out   *)
(* is a name missing from the DOMAIN of a function; a column whose value   *)
(* or whose *Modified stamp is missing is not applied by the code either,  *)
(* so the two cases are the same absence.                                  *)
(***************************************************************************)
EXTENDS SyncToken, FiniteSets

CONSTANTS
  Podcasts, Episodes, Bookmarks, Folders, Playlists,  \* uuids, by table
  StatDevices,      \* device ids of the ride-along statistics records
  Feeds,            \* canonical feed urls
  Val,              \* column contents
  Stamp,            \* client modification times
  SettingKeys,      \* named settings
  PodcastProps,     \* the plain overwrite columns of a subscription
  SentFields,       \* which LWW columns the modelled clients send
  Excerpts,         \* highlight windows (excerpt and end time together)
  NoPodcast, NoFeed, NoExcerpt, NoStamp, NoData       \* absent values

ASSUME SyncRecordsAssumption ==
  /\ {0, 1} \subseteq Val /\ Val \subseteq Nat
  /\ Stamp \subseteq Nat
  /\ NoStamp \notin Nat
  /\ NoPodcast \notin Podcasts
  /\ NoFeed \notin Feeds
  /\ NoExcerpt \notin Excerpts

(* Functions defined on part of S; IsPartial is membership for any T. *)
Partial(S, T) == UNION {[D -> T] : D \in SUBSET S}
IsPartial(f, S, T) == DOMAIN f \subseteq S /\ f \in [DOMAIN f -> T]

EmptyFn == [x \in {} |-> x]

Override(old, new) ==
  [x \in DOMAIN old \cup DOMAIN new |-> IF x \in DOMAIN new THEN new[x] ELSE old[x]]

Stamped == [val : Val, mod : Nat]

----------------------------------------------------------------------------
(* Rows.  A key is a table and a primary key in it. *)

PodcastKey  == {"podcast"}  \X Podcasts
EpisodeKey  == {"episode"}  \X Episodes
BookmarkKey == {"bookmark"} \X Bookmarks
FolderKey   == {"folder"}   \X Folders
PlaylistKey == {"playlist"} \X Playlists
DeviceKey   == {"device"}   \X StatDevices

SyncedKey == PodcastKey \cup EpisodeKey \cup BookmarkKey \cup FolderKey \cup PlaylistKey
Key       == SyncedKey \cup DeviceKey

EpisodeField  == {"playingStatus", "playedUpTo", "starred", "isDeleted",
                  "duration", "deselectedChapters"}
BookmarkField == {"title", "isDeleted", "tags"}

PodcastSettings == Partial(SettingKeys, [val : Val, mod : Stamp])
PodcastData  == [subscribed : BOOLEAN, isDeleted : BOOLEAN,
                 feed : Feeds \cup {NoFeed},
                 props : Partial(PodcastProps, Val), settings : PodcastSettings]
EpisodeData  == [podcast : Podcasts, fields : [EpisodeField -> Stamped]]
BookmarkData == [home : Val, fields : [BookmarkField -> Stamped],
                 excerpt : Excerpts \cup {NoExcerpt}, trimModified : Nat]
ContentData  == [content : Val]            \* folders, playlists, device statistics

(* What stands for a missing row is not one. *)
ASSUME NoDataAssumption == NoData \notin PodcastData \cup EpisodeData \cup BookmarkData \cup ContentData

(* The column defaults of a row that does not exist yet. *)
NewPodcast == [subscribed |-> TRUE, isDeleted |-> FALSE, feed |-> NoFeed,
               props |-> EmptyFn, settings |-> EmptyFn]
NewEpisodeFields ==
  [f \in EpisodeField |-> [val |-> IF f = "playingStatus" THEN 1 ELSE 0, mod |-> 0]]
NewBookmark(home) == [home |-> home,
                      fields |-> [f \in BookmarkField |-> [val |-> 0, mod |-> 0]],
                      excerpt |-> NoExcerpt, trimModified |-> 0]

----------------------------------------------------------------------------
(* Records, as the modelled clients send them. *)

PodcastRecord ==
  [key : PodcastKey, flags : Partial({"subscribed", "isDeleted"}, BOOLEAN),
   feed : Feeds \cup {NoFeed}, props : Partial(PodcastProps, Val), settings : PodcastSettings]
EpisodeRecord ==
  [key : EpisodeKey, podcast : Podcasts \cup {NoPodcast},
   fields : Partial(EpisodeField \cap SentFields, [val : Val, mod : Stamp])]
BookmarkRecord ==
  [key : BookmarkKey, home : Val,
   fields : Partial(BookmarkField \cap SentFields, [val : Val, mod : Stamp]),
   excerpt : Excerpts \cup {NoExcerpt}, trim : Stamp \cup {NoStamp}]
ContentRecord == [key : FolderKey \cup PlaylistKey \cup DeviceKey, content : Val]

Record == PodcastRecord \cup EpisodeRecord \cup BookmarkRecord \cup ContentRecord

----------------------------------------------------------------------------
(* modifiedAfter *)
ModifiedAfter(incoming, existing) == incoming > existing

(* Per-column last writer wins on the client's stamps. *)
MergeFields(stored, incoming) ==
  [f \in DOMAIN stored |->
     IF f \in DOMAIN incoming /\ ModifiedAfter(incoming[f].mod, stored[f].mod)
     THEN incoming[f] ELSE stored[f]]

(* Per-key merge of named and of per-podcast settings; a key the server
   has never stored is taken whatever its stamp. *)
MergeSettings(stored, incoming) ==
  [k \in DOMAIN stored \cup DOMAIN incoming |->
     IF k \in DOMAIN incoming
        /\ (k \in DOMAIN stored => incoming[k].mod > stored[k].mod)
     THEN incoming[k] ELSE stored[k]]

(* Partial update: columns the record leaves out keep their stored value,
   and deleting also unsubscribes. *)
ApplyPodcastRecord(existing, rec) ==
  LET base == IF existing = NoData THEN NewPodcast ELSE existing
      deleted == IF "isDeleted" \in DOMAIN rec.flags
                 THEN rec.flags["isDeleted"] ELSE base.isDeleted
      wanted == IF "subscribed" \in DOMAIN rec.flags
                THEN rec.flags["subscribed"] ELSE base.subscribed
  IN [subscribed |-> wanted /\ ~("isDeleted" \in DOMAIN rec.flags /\ deleted),
      isDeleted |-> deleted,
      feed |-> IF rec.feed # NoFeed THEN rec.feed ELSE base.feed,
      props |-> Override(base.props, rec.props),
      settings |-> MergeSettings(base.settings, rec.settings)]

(* The feed urls the record hands to the ingestion hook; knownInCatalog is
   the outcome of the two catalog lookups. *)
UnknownFeeds(existing, rec, knownInCatalog) ==
  LET row == ApplyPodcastRecord(existing, rec)
  IN IF rec.feed # NoFeed /\ row.subscribed /\ ~row.isDeleted /\ ~knownInCatalog
     THEN {rec.feed} ELSE {}

(* A new row without a podcast is skipped, not stored: NoData. *)
StoreAnyway(podcast) == TRUE                    \* mutant: no skip
Storable(podcast) == podcast # NoPodcast
ApplyEpisodeRecord(existing, rec) ==
  LET podcast == IF rec.podcast # NoPodcast \/ existing = NoData
                 THEN rec.podcast ELSE existing.podcast
      fields == IF existing = NoData THEN NewEpisodeFields ELSE existing.fields
  IN IF Storable(podcast)
     THEN [podcast |-> podcast, fields |-> MergeFields(fields, rec.fields)]
     ELSE NoData

(* A user trim carries a stamp and replaces the window by last writer
   wins; machine enrichment carries none and only fills an empty, untrimmed
   window.  Where the bookmark points is fixed when the row is created. *)
FillsCleared(base, rec) ==                      \* mutant: fills a cleared trim
  rec.trim = NoStamp /\ base.excerpt = NoExcerpt /\ rec.excerpt # NoExcerpt
Fills(base, rec) ==
  /\ rec.trim = NoStamp /\ base.trimModified = 0
  /\ base.excerpt = NoExcerpt /\ rec.excerpt # NoExcerpt
ApplyBookmarkRecord(existing, rec) ==
  LET base == IF existing = NoData THEN NewBookmark(rec.home) ELSE existing
      trims == rec.trim # NoStamp /\ ModifiedAfter(rec.trim, base.trimModified)
  IN [home |-> base.home,
      fields |-> MergeFields(base.fields, rec.fields),
      excerpt |-> IF trims \/ Fills(base, rec) THEN rec.excerpt ELSE base.excerpt,
      trimModified |-> IF trims THEN rec.trim ELSE base.trimModified]

(* Playlists, folders and device statistics overwrite the whole row. *)
ApplyContentRecord(rec) == [content |-> rec.content]

ApplyRecord(existing, rec) ==
  CASE rec.key \in PodcastKey  -> ApplyPodcastRecord(existing, rec)
    [] rec.key \in EpisodeKey  -> ApplyEpisodeRecord(existing, rec)
    [] rec.key \in BookmarkKey -> ApplyBookmarkRecord(existing, rec)
    [] OTHER                   -> ApplyContentRecord(rec)

(* The real-time endpoints write their columns unconditionally, with the
   server token as the stamp.  Without a podcast nothing is stored. *)
WriteEpisodeFields(existing, podcast, vals, token) ==
  LET stamps == [f \in DOMAIN vals |-> [val |-> vals[f], mod |-> token]]
      base == ApplyEpisodeRecord(existing, [podcast |-> podcast, fields |-> EmptyFn])
  IN IF base = NoData THEN NoData
     ELSE [podcast |-> base.podcast, fields |-> Override(base.fields, stamps)]

(* ApplyLegacySettings: bare values, stamped with the token. *)
ApplyLegacySettings(stored, vals, token) ==
  Override(stored, [k \in DOMAIN vals |-> [val |-> vals[k], mod |-> token]])

----------------------------------------------------------------------------
(* convert.go: the record a stored row is echoed as.  The synced title and
   feed url of a subscription stay on the server; highlight and tag columns
   are emitted once they were set. *)
EchoPodcast(data) ==
  [subscribed |-> data.subscribed, isDeleted |-> data.isDeleted, feed |-> NoFeed,
   props |-> data.props, settings |-> data.settings]

EpisodeToProto(k, data) == [key |-> k, podcast |-> data.podcast, fields |-> data.fields]

BookmarkFields(data) ==
  [f \in BookmarkField \ (IF data.fields["tags"].mod = 0 THEN {"tags"} ELSE {})
     |-> data.fields[f]]
BookmarkToProtoFilled(k, data) ==               \* mutant: a cleared trim is not echoed
  [key |-> k, home |-> data.home, fields |-> BookmarkFields(data), excerpt |-> data.excerpt,
   trim |-> IF data.excerpt # NoExcerpt /\ data.trimModified # 0
            THEN data.trimModified ELSE NoStamp]
BookmarkToProto(k, data) ==
  [key |-> k, home |-> data.home, fields |-> BookmarkFields(data), excerpt |-> data.excerpt,
   trim |-> IF data.trimModified # 0 THEN data.trimModified ELSE NoStamp]

----------------------------------------------------------------------------
(* detectMilestones: the ladder rows implied by the playback totals.  All
   crossings of a detection that finds no row yet are backdated. *)
Milestone == [kind : {"hours", "episodes"}, tier : Nat, backdated : BOOLEAN]

DetectMilestones(existing, tiers, hours, finished) ==
  LET crossed == {[kind |-> "hours", tier |-> t, backdated |-> existing = {}] :
                    t \in {t \in tiers : hours >= t}}
                 \cup
                 {[kind |-> "episodes", tier |-> t, backdated |-> existing = {}] :
                    t \in {t \in tiers : finished >= t}}
  IN existing \cup
     {m \in crossed : \A e \in existing : <<e.kind, e.tier>> # <<m.kind, m.tier>>}
=============================================================================
