--------------------------- MODULE SyncEngineProofs ---------------------------
(***************************************************************************)
(* For any devices, clocks, libraries and requests of SyncEngine: the      *)
(* state has its type and hooks get committed feeds only; CursorInv is     *)
(* inductive, so no device ever vouches for a row it does not hold, every  *)
(* write moves the cursor, and incremental sync implements the replication *)
(* of snapshots (LibraryReplica).                                          *)
(***************************************************************************)
EXTENDS SyncEngine, TLAPS

(* NextToken (token.go) is past the previous token, whatever the clock. *)
LEMMA NextTokenGrows ==
  ASSUME NEW prev \in Nat, NEW now \in Nat
  PROVE  NextToken(prev, now) \in Nat /\ NextToken(prev, now) > prev
  BY DEF NextToken

(* Keys of different tables are different. *)
LEMMA KeysDisjoint ==
  /\ EpisodeKey \cap PodcastKey = {}
  /\ BookmarkKey \cap PodcastKey = {} /\ BookmarkKey \cap EpisodeKey = {}
  /\ (FolderKey \cup PlaylistKey \cup DeviceKey)
       \cap (PodcastKey \cup EpisodeKey \cup BookmarkKey) = {}
  /\ DeviceKey \cap SyncedKey = {}
  BY DEF PodcastKey, EpisodeKey, BookmarkKey, FolderKey, PlaylistKey, DeviceKey, SyncedKey

(* An echoed row is a row of its table with the same modified_at. *)
LEMMA EchoTyped ==
  ASSUME NEW k \in Key, NEW r \in Row, r.data \in DataOf(k)
  PROVE  /\ Echo(k, r) \in Row
         /\ Echo(k, r).data \in DataOf(k)
         /\ Echo(k, r).modifiedAt = r.modifiedAt
<1>1. CASE k \in PodcastKey /\ r.data # NoData
  <2>1. r.data \in PodcastData
    BY <1>1 DEF DataOf
  <2>2. EchoPodcast(r.data) \in PodcastData
    BY <2>1 DEF EchoPodcast, PodcastData
  <2>3. EchoPodcast(r.data) \in Data
    BY <2>2 DEF Data
  <2>4. EchoPodcast(r.data) \in DataOf(k)
    BY <1>1, <2>2, <2>3, KeysDisjoint DEF DataOf
  <2>5. Echo(k, r) = [data |-> EchoPodcast(r.data), modifiedAt |-> r.modifiedAt]
    BY <1>1 DEF Echo
  <2>6. QED
    BY <2>3, <2>4, <2>5 DEF Row
<1>2. CASE ~(k \in PodcastKey /\ r.data # NoData)
  BY <1>2 DEF Echo
<1>3. QED
  BY <1>1, <1>2

(* Merging by columns keeps the type of the columns. *)
LEMMA MergeFieldsTyped ==
  ASSUME NEW F, NEW stored \in [F -> Stamped],
         NEW incoming, \A f \in DOMAIN incoming : incoming[f] \in Stamped
  PROVE  MergeFields(stored, incoming) \in [F -> Stamped]
  BY DEF MergeFields

(* Settings merges keep the type of the stored settings. *)
LEMMA MergeSettingsTyped ==
  ASSUME NEW K, NEW T, NEW stored, NEW incoming,
         IsPartial(stored, K, T), IsPartial(incoming, K, T)
  PROVE  IsPartial(MergeSettings(stored, incoming), K, T)
<1> DEFINE D == DOMAIN stored \cup DOMAIN incoming
<1>1. MergeSettings(stored, incoming) \in [D -> T]
  BY DEF MergeSettings, IsPartial
<1>2. QED
  BY <1>1 DEF IsPartial

LEMMA OverrideTyped ==
  ASSUME NEW K, NEW T, NEW old, NEW new,
         IsPartial(old, K, T), IsPartial(new, K, T)
  PROVE  IsPartial(Override(old, new), K, T)
<1> DEFINE D == DOMAIN old \cup DOMAIN new
<1>1. Override(old, new) \in [D -> T]
  BY DEF Override, IsPartial
<1>2. QED
  BY <1>1 DEF IsPartial

LEMMA PartialIsPartial ==
  ASSUME NEW f, NEW S, NEW T
  PROVE  f \in Partial(S, T) <=> IsPartial(f, S, T)
<1>1. ASSUME f \in Partial(S, T) PROVE IsPartial(f, S, T)
  <2>1. PICK D \in SUBSET S : f \in [D -> T]
    BY <1>1 DEF Partial
  <2>2. QED
    BY <2>1 DEF IsPartial
<1>2. ASSUME IsPartial(f, S, T) PROVE f \in Partial(S, T)
  BY <1>2 DEF IsPartial, Partial
<1>3. QED
  BY <1>1, <1>2

LEMMA EmptyIsPartial ==
  ASSUME NEW S, NEW T
  PROVE  IsPartial(EmptyFn, S, T)
  BY DEF EmptyFn, IsPartial

----------------------------------------------------------------------------
(* Each apply*Record function yields a row of its table. *)

LEMMA ApplyPodcastTyped ==
  ASSUME NEW old \in PodcastData \cup {NoData}, NEW rec \in PodcastRecord
  PROVE  ApplyPodcastRecord(old, rec) \in PodcastData
<1> DEFINE base == IF old = NoData THEN NewPodcast ELSE old
           S == [val : Val, mod : Stamp]
<1>1. NewPodcast \in PodcastData
  BY EmptyIsPartial, PartialIsPartial DEF NewPodcast, PodcastData, PodcastSettings
<1>2. base \in PodcastData
  BY <1>1
<1>3. Override(base.props, rec.props) \in Partial(PodcastProps, Val)
  <2>1. IsPartial(base.props, PodcastProps, Val) /\ IsPartial(rec.props, PodcastProps, Val)
    BY <1>2, PartialIsPartial DEF PodcastData, PodcastRecord
  <2>2. QED
    BY <2>1, OverrideTyped, PartialIsPartial
<1>4. MergeSettings(base.settings, rec.settings) \in Partial(SettingKeys, S)
  <2>1. IsPartial(base.settings, SettingKeys, S) /\ IsPartial(rec.settings, SettingKeys, S)
    BY <1>2, PartialIsPartial DEF PodcastData, PodcastRecord, PodcastSettings
  <2>2. QED
    BY <2>1, MergeSettingsTyped, PartialIsPartial
<1>5. /\ base.subscribed \in BOOLEAN /\ base.isDeleted \in BOOLEAN
      /\ base.feed \in Feeds \cup {NoFeed} /\ rec.feed \in Feeds \cup {NoFeed}
  BY <1>2 DEF PodcastData, PodcastRecord
<1>6. IsPartial(rec.flags, {"subscribed", "isDeleted"}, BOOLEAN)
  BY PartialIsPartial DEF PodcastRecord
<1>7. \A f \in DOMAIN rec.flags : rec.flags[f] \in BOOLEAN
  BY <1>6 DEF IsPartial
<1>8. QED
  BY <1>3, <1>4, <1>5, <1>7 DEF ApplyPodcastRecord, PodcastData, PodcastSettings

LEMMA ApplyEpisodeTyped ==
  ASSUME NEW old \in EpisodeData \cup {NoData}, NEW rec,
         rec.podcast \in Podcasts \cup {NoPodcast},
         \A f \in DOMAIN rec.fields : rec.fields[f] \in Stamped
  PROVE  ApplyEpisodeRecord(old, rec) \in EpisodeData \cup {NoData}
<1> DEFINE podcast == IF rec.podcast # NoPodcast \/ old = NoData THEN rec.podcast ELSE old.podcast
           fields == IF old = NoData THEN NewEpisodeFields ELSE old.fields
<1>1. NewEpisodeFields \in [EpisodeField -> Stamped]
  BY SyncRecordsAssumption DEF NewEpisodeFields, Stamped
<1>2. old # NoData => old.podcast \in Podcasts /\ old.fields \in [EpisodeField -> Stamped]
  BY DEF EpisodeData
<1>3. fields \in [EpisodeField -> Stamped]
  BY <1>1, <1>2
<1>4. MergeFields(fields, rec.fields) \in [EpisodeField -> Stamped]
  BY <1>3, MergeFieldsTyped
<1>5. podcast \in Podcasts \cup {NoPodcast}
  BY <1>2
<1>6. QED
  BY <1>4, <1>5 DEF ApplyEpisodeRecord, Storable, EpisodeData

LEMMA ApplyBookmarkTyped ==
  ASSUME NEW old \in BookmarkData \cup {NoData}, NEW rec \in BookmarkRecord
  PROVE  ApplyBookmarkRecord(old, rec) \in BookmarkData
<1> DEFINE base == IF old = NoData THEN NewBookmark(rec.home) ELSE old
<1>1. NewBookmark(rec.home) \in BookmarkData
  BY SyncRecordsAssumption DEF NewBookmark, BookmarkData, BookmarkRecord, Stamped
<1>2. base \in BookmarkData
  BY <1>1
<1>3. \A f \in DOMAIN rec.fields : rec.fields[f] \in Stamped
  <2>1. IsPartial(rec.fields, BookmarkField \cap SentFields, [val : Val, mod : Stamp])
    BY PartialIsPartial DEF BookmarkRecord
  <2>2. [val : Val, mod : Stamp] \subseteq Stamped
    BY SyncRecordsAssumption DEF Stamped
  <2>3. QED
    BY <2>1, <2>2 DEF IsPartial
<1>4. MergeFields(base.fields, rec.fields) \in [BookmarkField -> Stamped]
  BY <1>2, <1>3, MergeFieldsTyped DEF BookmarkData
<1>5. /\ base.home \in Val /\ base.excerpt \in Excerpts \cup {NoExcerpt}
      /\ base.trimModified \in Nat
  BY <1>2 DEF BookmarkData
<1>6. rec.excerpt \in Excerpts \cup {NoExcerpt} /\ (rec.trim # NoStamp => rec.trim \in Nat)
  BY SyncRecordsAssumption DEF BookmarkRecord
<1>7. QED
  BY <1>4, <1>5, <1>6 DEF ApplyBookmarkRecord, BookmarkData

(* What applyRecord returns for a key is data of that key's table. *)
LEMMA ApplyRecordTyped ==
  ASSUME NEW rec \in Record, NEW old \in DataOf(rec.key)
  PROVE  rec.key \in Key /\ ApplyRecord(old, rec) \in DataOf(rec.key)
<1> DEFINE ContentKey == FolderKey \cup PlaylistKey \cup DeviceKey
<1>1. CASE rec \in PodcastRecord
  <2>1. rec.key \in PodcastKey /\ rec.key \notin EpisodeKey /\ rec.key \notin BookmarkKey
    BY <1>1, KeysDisjoint DEF PodcastRecord
  <2>2. ApplyRecord(old, rec) = ApplyPodcastRecord(old, rec)
    BY <2>1, Zenon DEF ApplyRecord
  <2>3. ApplyRecord(old, rec) \in PodcastData
    BY <1>1, <2>1, <2>2, ApplyPodcastTyped DEF DataOf
  <2>4. QED
    BY <2>1, <2>3, KeysDisjoint DEF DataOf, Data, Key, SyncedKey
<1>2. CASE rec \in EpisodeRecord
  <2>1. rec.key \in EpisodeKey /\ rec.key \notin PodcastKey /\ rec.key \notin BookmarkKey
    BY <1>2, KeysDisjoint DEF EpisodeRecord
  <2>2. ApplyRecord(old, rec) = ApplyEpisodeRecord(old, rec)
    BY <2>1, Zenon DEF ApplyRecord
  <2>3. IsPartial(rec.fields, EpisodeField \cap SentFields, [val : Val, mod : Stamp])
    BY <1>2, PartialIsPartial DEF EpisodeRecord
  <2>4. [val : Val, mod : Stamp] \subseteq Stamped
    BY SyncRecordsAssumption DEF Stamped
  <2>5. \A f \in DOMAIN rec.fields : rec.fields[f] \in Stamped
    BY <2>3, <2>4 DEF IsPartial
  <2>6. old \in EpisodeData \cup {NoData} /\ rec.podcast \in Podcasts \cup {NoPodcast}
    BY <1>2, <2>1 DEF DataOf, EpisodeRecord
  <2>7. ApplyRecord(old, rec) \in EpisodeData \cup {NoData}
    BY <2>2, <2>5, <2>6, ApplyEpisodeTyped
  <2>8. QED
    BY <2>1, <2>7, KeysDisjoint DEF DataOf, Data, Key, SyncedKey
<1>3. CASE rec \in BookmarkRecord
  <2>1. rec.key \in BookmarkKey /\ rec.key \notin PodcastKey /\ rec.key \notin EpisodeKey
    BY <1>3, KeysDisjoint DEF BookmarkRecord
  <2>2. ApplyRecord(old, rec) = ApplyBookmarkRecord(old, rec)
    BY <2>1, Zenon DEF ApplyRecord
  <2>3. ApplyRecord(old, rec) \in BookmarkData
    BY <1>3, <2>1, <2>2, ApplyBookmarkTyped DEF DataOf
  <2>4. QED
    BY <2>1, <2>3, KeysDisjoint DEF DataOf, Data, Key, SyncedKey
<1>4. CASE rec \in ContentRecord
  <2>1. rec.key \in ContentKey /\ rec.content \in Val
    BY <1>4 DEF ContentRecord
  <2>2. rec.key \notin PodcastKey /\ rec.key \notin EpisodeKey /\ rec.key \notin BookmarkKey
    BY <2>1, KeysDisjoint
  <2>3. ApplyRecord(old, rec) = ApplyContentRecord(rec)
    BY <2>2, Zenon DEF ApplyRecord
  <2>4. ApplyRecord(old, rec) \in ContentData
    BY <2>1, <2>3 DEF ApplyContentRecord, ContentData
  <2>5. QED
    BY <2>1, <2>2, <2>4 DEF DataOf, Data, Key, SyncedKey
<1>5. QED
  BY <1>1, <1>2, <1>3, <1>4 DEF Record

(* The real-time endpoints store an episode row or nothing. *)
LEMMA WriteEpisodeTyped ==
  ASSUME NEW old \in EpisodeData \cup {NoData}, NEW podcast \in Podcasts \cup {NoPodcast},
         NEW vals, IsPartial(vals, EpisodeField, Val), NEW t \in Nat
  PROVE  WriteEpisodeFields(old, podcast, vals, t) \in EpisodeData \cup {NoData}
<1> DEFINE rec == [podcast |-> podcast, fields |-> EmptyFn]
           base == ApplyEpisodeRecord(old, rec)
           stamps == [f \in DOMAIN vals |-> [val |-> vals[f], mod |-> t]]
<1>1. base \in EpisodeData \cup {NoData}
  <2>1. rec.podcast \in Podcasts \cup {NoPodcast}
        /\ \A f \in DOMAIN rec.fields : rec.fields[f] \in Stamped
    BY DEF EmptyFn
  <2>2. QED
    BY <2>1, ApplyEpisodeTyped
<1>2. CASE base = NoData
  BY <1>2 DEF WriteEpisodeFields
<1>3. CASE base # NoData
  <2>1. base.podcast \in Podcasts /\ base.fields \in [EpisodeField -> Stamped]
    BY <1>1, <1>3 DEF EpisodeData
  <2>2. DOMAIN stamps \subseteq EpisodeField /\ \A f \in DOMAIN stamps : stamps[f] \in Stamped
    BY DEF IsPartial, Stamped
  <2>3. Override(base.fields, stamps) \in [EpisodeField -> Stamped]
    BY <2>1, <2>2 DEF Override
  <2>4. WriteEpisodeFields(old, podcast, vals, t)
          = [podcast |-> base.podcast, fields |-> Override(base.fields, stamps)]
    BY <1>3 DEF WriteEpisodeFields
  <2>5. QED
    BY <2>1, <2>3, <2>4 DEF EpisodeData
<1>4. QED
  BY <1>2, <1>3

(* detectMilestones only adds ladder rows. *)
LEMMA DetectTyped ==
  ASSUME NEW t, milestones \subseteq Milestone
  PROVE  Detect(t) \subseteq Milestone
<1>1. ASSUME NEW hours, NEW finished
      PROVE  DetectMilestones(milestones, Tiers, hours, finished) \subseteq Milestone
  <2> DEFINE Rows(kind, n) == {[kind |-> kind, tier |-> x, backdated |-> milestones = {}] :
                                 x \in {y \in Tiers : n >= y}}
  <2>1. \A kind \in {"hours", "episodes"}, x \in Tiers :
          [kind |-> kind, tier |-> x, backdated |-> milestones = {}] \in Milestone
    BY SyncEngineAssumption DEF Milestone
  <2>2. Rows("hours", hours) \subseteq Milestone /\ Rows("episodes", finished) \subseteq Milestone
    BY <2>1
  <2>3. DetectMilestones(milestones, Tiers, hours, finished)
          \subseteq milestones \cup Rows("hours", hours) \cup Rows("episodes", finished)
    BY Zenon DEF DetectMilestones
  <2>4. QED
    BY <2>2, <2>3
<1>2. QED
  BY <1>1 DEF Detect

----------------------------------------------------------------------------
(* Tables. *)

LEMMA EmptyTableTyped == EmptyTable \in Table /\ \A k \in Key : EmptyTable[k] = NoRow
  BY DEF EmptyTable, Table, NoRow, Row, Data, DataOf

LEMMA TableRow ==
  ASSUME NEW t \in Table, NEW k \in Key
  PROVE  t[k] \in Row /\ t[k].data \in DataOf(k) /\ t[k].modifiedAt \in Nat
  BY DEF Table, Row

LEMMA TableUpdate ==
  ASSUME NEW t \in Table, NEW k \in Key, NEW x \in DataOf(k), NEW m \in Nat
  PROVE  [t EXCEPT ![k] = [data |-> x, modifiedAt |-> m]] \in Table
<1>1. [data |-> x, modifiedAt |-> m] \in Row
  BY DEF Row, DataOf
<1>2. QED
  BY <1>1 DEF Table

LEMMA VisibleTyped ==
  ASSUME TypeOK, NEW d \in Device
  PROVE  Visible(d) \in Table
<1>1. work[d] \in Table /\ tbl \in Table
  BY DEF TypeOK
<1>2. QED
  BY <1>1 DEF Visible, Table

LEMMA CollectTyped ==
  ASSUME NEW t \in Table, NEW since, NEW upTo
  PROVE  CollectChanged(t, since, upTo) \in Table
<1>1. \A k \in Key : Echo(k, t[k]) \in Row /\ Echo(k, t[k]).data \in DataOf(k)
  BY TableRow, EchoTyped
<1>2. NoRow \in Row /\ \A k \in Key : NoRow.data \in DataOf(k)
  BY DEF NoRow, Row, Data, DataOf
<1>3. QED
  BY <1>1, <1>2 DEF CollectChanged, Table

LEMMA OverlayTyped ==
  ASSUME NEW v \in Table, NEW r \in Table
  PROVE  Overlay(v, r) \in Table
  BY DEF Overlay, Table

----------------------------------------------------------------------------
(* Type correctness. *)

LEMMA TypeInit == Init => TypeOK
<1> SUFFICES ASSUME Init PROVE TypeOK
  OBVIOUS
<1>1. IsPartial(settings, SettingKeys, Stamped)
  BY EmptyIsPartial DEF Init
<1>2. /\ tbl \in Table /\ work \in [Device -> Table]
      /\ reply \in [Device -> Table] /\ view \in [Device -> Table]
  BY EmptyTableTyped DEF Init
<1>3. /\ phase \in [Device -> Phase] /\ token \in [Device -> Nat]
      /\ nrec \in [Device -> Nat] /\ cursor \in [Device -> Nat]
      /\ hasEpisodes \in [Device -> BOOLEAN]
  BY DEF Init, Phase
<1>4. QED
  BY <1>1, <1>2, <1>3 DEF Init, TypeOK

LEMMA RecordKey == \A rec \in Record : rec.key \in Key
<1>1. \A rec \in PodcastRecord : rec.key \in Key
  BY DEF PodcastRecord, Key, SyncedKey
<1>2. \A rec \in EpisodeRecord : rec.key \in Key
  BY DEF EpisodeRecord, Key, SyncedKey
<1>3. \A rec \in BookmarkRecord : rec.key \in Key
  BY DEF BookmarkRecord, Key, SyncedKey
<1>4. \A rec \in ContentRecord : rec.key \in Key
  BY DEF ContentRecord, Key, SyncedKey
<1>5. QED
  BY <1>1, <1>2, <1>3, <1>4 DEF Record

(* A record of the request keeps the types, whatever row it meets. *)
LEMMA SyncRecordTyped ==
  ASSUME TypeOK, NEW d \in Device, NEW rec \in Record, NEW known \in BOOLEAN,
         SyncRecord(d, rec, known)
  PROVE  TypeOK'
<1> DEFINE k == rec.key
           old == Visible(d)[k].data
           new == ApplyRecord(old, rec)
           stamp == IF k \in DeviceKey THEN 0 ELSE token[d]
           feeds == UnknownFeeds(old, rec, known)
<1>1. k \in Key
  BY RecordKey
<1>2. old \in DataOf(k)
  BY <1>1, VisibleTyped, TableRow
<1>3. new \in DataOf(k) /\ stamp \in Nat
  BY <1>2, ApplyRecordTyped DEF TypeOK
<1>4. [work[d] EXCEPT ![k] = [data |-> new, modifiedAt |-> stamp]] \in Table
  BY <1>1, <1>3, TableUpdate DEF TypeOK
<1>5. work' \in [Device -> Table]
  <2>1. work \in [Device -> Table]
    BY DEF TypeOK
  <2>2. work' = work \/ work' = [work EXCEPT ![d] =
                                  [work[d] EXCEPT ![k] = [data |-> new, modifiedAt |-> stamp]]]
    BY <2>1 DEF SyncRecord
  <2>3. QED
    BY <1>4, <2>1, <2>2
<1>6. dirty' \in [Device -> SUBSET Key]
  BY <1>1 DEF SyncRecord, TypeOK
<1>7. unknown' \in [Device -> SUBSET Feeds]
  <2>1. k \in PodcastKey => feeds \subseteq Feeds
    <3>1. SUFFICES ASSUME k \in PodcastKey PROVE feeds \subseteq Feeds
      OBVIOUS
    <3>2. rec.key \notin EpisodeKey \cup BookmarkKey \cup FolderKey \cup PlaylistKey \cup DeviceKey
      BY <3>1, KeysDisjoint
    <3>3. rec \in PodcastRecord
      BY <3>2 DEF Record, EpisodeRecord, BookmarkRecord, ContentRecord
    <3>4. rec.feed \in Feeds \cup {NoFeed}
      BY <3>3 DEF PodcastRecord
    <3>5. QED
      BY <3>4 DEF UnknownFeeds
  <2>2. unknown' = [unknown EXCEPT ![d] = IF k \in PodcastKey THEN unknown[d] \cup feeds
                                          ELSE unknown[d]]
    BY DEF SyncRecord, TypeOK
  <2>3. QED
    BY <2>1, <2>2 DEF TypeOK
<1>8. nrec' \in [Device -> Nat] /\ hasEpisodes' \in [Device -> BOOLEAN]
  BY DEF SyncRecord, TypeOK
<1>9. QED
  BY <1>5, <1>6, <1>7, <1>8 DEF SyncRecord, TypeOK, server, client

LEMMA CommitSyncTyped ==
  ASSUME TypeOK, NEW d \in Device, CommitSync(d)
  PROVE  TypeOK'
<1>1. Visible(d) \in Table /\ tbl' = Visible(d)
  BY VisibleTyped DEF CommitSync
<1>2. CollectChanged(Visible(d), cursor[d], token[d]) \in Table
  BY <1>1, CollectTyped
<1>3. reply' \in [Device -> Table]
  BY <1>2 DEF CommitSync, TypeOK
<1>4. milestones' \subseteq Milestone
  BY DetectTyped DEF CommitSync, TypeOK
<1>5. work' \in [Device -> Table]
  BY EmptyTableTyped DEF CommitSync, CloseTransaction, TypeOK
<1>6. QED
  BY <1>1, <1>3, <1>4, <1>5 DEF CommitSync, CloseTransaction, TypeOK, client, Phase

LEMMA WriteEpisodeRowTyped ==
  ASSUME TypeOK, NEW k \in EpisodeKey, NEW p \in Podcasts \cup {NoPodcast},
         NEW vals, IsPartial(vals, EpisodeField, Val), NEW now \in Clock,
         WriteEpisode(k, p, vals, now)
  PROVE  TypeOK'
<1> DEFINE t == NextToken(syncLastModified, now)
           new == WriteEpisodeFields(tbl[k].data, p, vals, t)
<1>1. t \in Nat
  BY NextTokenGrows, SyncEngineAssumption DEF TypeOK
<1>2. k \in Key
  BY DEF Key, SyncedKey
<1>3. tbl[k].data \in EpisodeData \cup {NoData}
  BY <1>2, TableRow DEF TypeOK, DataOf
<1>4. new \in EpisodeData \cup {NoData}
  BY <1>1, <1>3, WriteEpisodeTyped
<1>5. new \in DataOf(k)
  BY <1>4, KeysDisjoint DEF DataOf, Data
<1>6. tbl' \in Table
  BY <1>1, <1>2, <1>5, TableUpdate DEF WriteEpisode, TypeOK
<1>7. QED
  BY <1>1, <1>6 DEF WriteEpisode, TypeOK, txn, client

(* The partial updates of the real-time endpoints touch episode columns. *)
LEMMA RealtimeVals ==
  /\ \A vals \in UpdateEpisodeRequest : IsPartial(vals, EpisodeField, Val)
  /\ \A star \in UpdateEpisodeStarRequest : IsPartial([f \in {"starred"} |-> star], EpisodeField, Val)
<1>1. \A vals : IsPartial(vals, RealtimeFields, Val) => IsPartial(vals, EpisodeField, Val)
  BY DEF IsPartial, RealtimeFields, EpisodeField
<1>2. \A star \in UpdateEpisodeStarRequest : IsPartial([f \in {"starred"} |-> star], EpisodeField, Val)
  BY SyncRecordsAssumption DEF IsPartial, EpisodeField, UpdateEpisodeStarRequest
<1>3. QED
  BY <1>1, <1>2, PartialIsPartial DEF UpdateEpisodeRequest

LEMMA UpdateSettingsTyped ==
  ASSUME TypeOK, NEW changed \in ChangeableSettings,
         NEW legacy \in NamedSettings, NEW now \in Clock,
         UpdateSettings(changed, legacy, now)
  PROVE  TypeOK'
<1> DEFINE t == NextToken(syncLastModified, now)
           merged == MergeSettings(settings, changed)
           stamps == [k \in DOMAIN legacy |-> [val |-> legacy[k], mod |-> t]]
<1>1. t \in Nat
  BY NextTokenGrows, SyncEngineAssumption DEF TypeOK
<1>2. IsPartial(changed, SettingKeys, Stamped)
  <2>1. IsPartial(changed, SettingKeys, [val : Val, mod : Stamp])
    BY PartialIsPartial DEF ChangeableSettings
  <2>2. [val : Val, mod : Stamp] \subseteq Stamped
    BY SyncRecordsAssumption DEF Stamped
  <2>3. QED
    BY <2>1, <2>2 DEF IsPartial
<1>3. IsPartial(merged, SettingKeys, Stamped)
  BY <1>2, MergeSettingsTyped DEF TypeOK
<1>4. IsPartial(stamps, SettingKeys, Stamped)
  <2>1. IsPartial(legacy, SettingKeys, Val)
    BY PartialIsPartial DEF NamedSettings
  <2>2. QED
    BY <1>1, <2>1 DEF IsPartial, Stamped
<1>5. IsPartial(ApplyLegacySettings(merged, legacy, t), SettingKeys, Stamped)
  BY <1>3, <1>4, OverrideTyped DEF ApplyLegacySettings
<1>6. QED
  BY <1>1, <1>5 DEF UpdateSettings, TypeOK, txn, client

LEMMA TypeNext == TypeOK /\ [Next]_vars => TypeOK'
<1> SUFFICES ASSUME TypeOK, [Next]_vars PROVE TypeOK'
  OBVIOUS
<1>1. ASSUME NEW d \in Device, NEW now \in Clock, BeginSync(d, now) PROVE TypeOK'
  <2>1. NextToken(syncLastModified, now) \in Nat
    BY NextTokenGrows, SyncEngineAssumption DEF TypeOK
  <2>2. QED
    BY <1>1, <2>1 DEF BeginSync, TypeOK, server, client, Phase
<1>2. ASSUME NEW d \in Device, NEW rec \in Record, NEW known \in BOOLEAN,
             SyncRecord(d, rec, known)
      PROVE  TypeOK'
  BY <1>2, SyncRecordTyped
<1>3. ASSUME NEW d \in Device, CommitSync(d) PROVE TypeOK'
  BY <1>3, CommitSyncTyped
<1>4. ASSUME NEW d \in Device, RollbackSync(d) PROVE TypeOK'
  <2>1. work' \in [Device -> Table]
    BY <1>4, EmptyTableTyped DEF RollbackSync, CloseTransaction, TypeOK
  <2>2. QED
    BY <1>4, <2>1 DEF RollbackSync, CloseTransaction, TypeOK, server, client, Phase
<1>5. ASSUME NEW d \in Device, DispatchHooks(d) PROVE TypeOK'
  BY <1>5 DEF DispatchHooks, TypeOK, server, client, Phase
<1>6. ASSUME NEW d \in Device, DeliverReply(d) PROVE TypeOK'
  <2>1. Overlay(view[d], reply[d]) \in Table
    BY OverlayTyped DEF TypeOK
  <2>2. view' \in [Device -> Table] /\ reply' \in [Device -> Table]
    BY <1>6, <2>1, EmptyTableTyped DEF DeliverReply, EndRequest, TypeOK
  <2>3. QED
    BY <1>6, <2>2 DEF DeliverReply, EndRequest, TypeOK, server, Phase
<1>7. ASSUME NEW d \in Device, LoseReply(d) PROVE TypeOK'
  <2>1. reply' \in [Device -> Table]
    BY <1>7, EmptyTableTyped DEF LoseReply, EndRequest, TypeOK
  <2>2. QED
    BY <1>7, <2>1 DEF LoseReply, EndRequest, TypeOK, server, client, Phase
<1>8. ASSUME NEW d \in Device, ResetDevice(d) PROVE TypeOK'
  <2>1. view' \in [Device -> Table]
    BY <1>8, EmptyTableTyped DEF ResetDevice, TypeOK
  <2>2. QED
    BY <1>8, <2>1 DEF ResetDevice, TypeOK, server, txn
<1>9. ASSUME NEW k \in EpisodeKey, NEW p \in Podcasts \cup {NoPodcast}, NEW now \in Clock,
             NEW vals \in UpdateEpisodeRequest, UpdateEpisode(k, p, vals, now)
      PROVE  TypeOK'
  BY <1>9, RealtimeVals, WriteEpisodeRowTyped DEF UpdateEpisode
<1>10. ASSUME NEW k \in EpisodeKey, NEW p \in Podcasts \cup {NoPodcast}, NEW now \in Clock,
              NEW star \in UpdateEpisodeStarRequest, UpdateEpisodeStar(k, p, star, now)
       PROVE  TypeOK'
  BY <1>10, RealtimeVals, WriteEpisodeRowTyped DEF UpdateEpisodeStar
<1>11. ASSUME NEW changed \in ChangeableSettings,
              NEW legacy \in NamedSettings, NEW now \in Clock,
              UpdateSettings(changed, legacy, now)
       PROVE  TypeOK'
  BY <1>11, UpdateSettingsTyped
<1>12. CASE UNCHANGED vars
  BY <1>12 DEF vars, server, txn, client, TypeOK
<1>13. QED
  BY <1>1, <1>2, <1>3, <1>4, <1>5, <1>6, <1>7, <1>8, <1>9, <1>10, <1>11, <1>12 DEF Next

(* Every reachable state of the sync engine has its type: the merge rules
   never store a row of another table's shape, whatever the clients send. *)
THEOREM TypeCorrect == Spec => []TypeOK
  BY TypeInit, TypeNext, PTL DEF Spec

----------------------------------------------------------------------------
(* The feeds of a request whose hooks are about to run are committed. *)
HooksInv ==
  /\ HooksAfterCommit
  /\ \A d \in Device : phase[d] = "hooks" => unknown[d] \subseteq committedFeeds

LEMMA HooksNext == TypeOK /\ HooksInv /\ [Next]_vars => HooksInv'
<1> SUFFICES ASSUME TypeOK, HooksInv, [Next]_vars PROVE HooksInv'
  OBVIOUS
<1> USE DEF HooksInv, HooksAfterCommit
<1>1. phase \in [Device -> Phase] /\ unknown \in [Device -> SUBSET Feeds]
  BY DEF TypeOK
<1>2. ASSUME UNCHANGED <<ingested, committedFeeds>>,
             \A d \in Device : phase'[d] = "hooks" => phase[d] = "hooks" /\ unknown'[d] = unknown[d]
      PROVE  HooksInv'
  BY <1>2
<1>3. ASSUME NEW d \in Device, NEW now, BeginSync(d, now) PROVE HooksInv'
  BY <1>1, <1>2, <1>3 DEF BeginSync, server
<1>4. ASSUME NEW d \in Device, NEW rec, NEW known, SyncRecord(d, rec, known) PROVE HooksInv'
  BY <1>1, <1>2, <1>4 DEF SyncRecord, server
<1>5. ASSUME NEW d \in Device, CommitSync(d) PROVE HooksInv'
  BY <1>1, <1>5 DEF CommitSync
<1>6. ASSUME NEW d \in Device, RollbackSync(d) PROVE HooksInv'
  BY <1>1, <1>2, <1>6 DEF RollbackSync, server
<1>7. ASSUME NEW d \in Device, DispatchHooks(d) PROVE HooksInv'
  BY <1>1, <1>7 DEF DispatchHooks, server
<1>8. ASSUME NEW d \in Device, DeliverReply(d) \/ LoseReply(d) PROVE HooksInv'
  BY <1>1, <1>2, <1>8 DEF DeliverReply, LoseReply, EndRequest, server
<1>9. ASSUME NEW d \in Device, ResetDevice(d) PROVE HooksInv'
  BY <1>2, <1>9 DEF ResetDevice, server, txn
<1>10. ASSUME NEW k, NEW p, NEW vals, NEW now, WriteEpisode(k, p, vals, now) PROVE HooksInv'
  BY <1>2, <1>10 DEF WriteEpisode, txn
<1>11. ASSUME NEW changed, NEW legacy, NEW now, UpdateSettings(changed, legacy, now)
       PROVE  HooksInv'
  BY <1>2, <1>11 DEF UpdateSettings, txn
<1>12. CASE UNCHANGED vars
  BY <1>2, <1>12 DEF vars, server, txn
<1> QED
  BY <1>3, <1>4, <1>5, <1>6, <1>7, <1>8, <1>9, <1>10, <1>11, <1>12
     DEF Next, UpdateEpisode, UpdateEpisodeStar

(* OnUnknownPodcast is called for feeds of committed requests only, however
   requests of other devices, rollbacks and lost responses come between. *)
THEOREM HooksHold == Spec => []HooksAfterCommit
<1>1. Init => HooksInv
  BY DEF Init, HooksInv, HooksAfterCommit
<1>2. HooksInv => HooksAfterCommit
  BY DEF HooksInv
<1>3. QED
  BY <1>1, <1>2, TypeCorrect, HooksNext, PTL DEF Spec

----------------------------------------------------------------------------
(* An absent row is echoed as absent, a stamped row never is. *)
LEMMA EchoNoRow == \A k : Echo(k, NoRow) = NoRow
  BY DEF Echo, NoRow

LEMMA EchoStamp ==
  ASSUME NEW t \in Table, NEW k \in Key
  PROVE  /\ Echo(k, t[k]).modifiedAt = t[k].modifiedAt
         /\ t[k].modifiedAt # 0 => Echo(k, t[k]) # NoRow
<1>1. Echo(k, t[k]).modifiedAt = t[k].modifiedAt
  BY TableRow, EchoTyped
<1>2. QED
  BY <1>1 DEF NoRow

LEMMA SyncedInKey == SyncedKey \subseteq Key /\ Key \ SyncedKey = DeviceKey
  BY KeysDisjoint DEF Key

LEMMA CursorInit == Init => CursorInv
<1> SUFFICES ASSUME Init PROVE CursorInv
  OBVIOUS
<1>1. \A k \in Key : tbl[k] = NoRow /\ tbl[k].modifiedAt = 0
  BY EmptyTableTyped DEF Init, NoRow
<1>2. \A d \in Device, k \in Key : view[d][k] = NoRow
  BY EmptyTableTyped DEF Init
<1>3. NoMissedWrite
  BY <1>1, <1>2, EchoNoRow, SyncedInKey DEF NoMissedWrite
<1>4. OneWriter /\ WorkStamped /\ ReplyComplete
  BY DEF Init, OneWriter, WorkStamped, ReplyComplete
<1>5. CursorsBehind /\ RowsStamped
  BY <1>1, SyncedInKey DEF Init, CursorsBehind, RowsStamped
<1>6. QED
  BY <1>3, <1>4, <1>5 DEF CursorInv

----------------------------------------------------------------------------
(* One lemma per step that moves a token or a row. *)

LEMMA BeginSyncCursor ==
  ASSUME TypeOK, CursorInv, NEW d \in Device, NEW now \in Clock, BeginSync(d, now)
  PROVE  CursorInv'
<1>1. NextToken(syncLastModified, now) > syncLastModified
      /\ NextToken(syncLastModified, now) \in Nat
  BY NextTokenGrows, SyncEngineAssumption DEF TypeOK
<1>2. /\ phase' = [phase EXCEPT ![d] = "tx"]
      /\ token' = [token EXCEPT ![d] = NextToken(syncLastModified, now)]
      /\ UNCHANGED <<tbl, syncLastModified, work, dirty, reply, cursor, view>>
      /\ phase[d] = "idle" /\ \A e \in Device : phase[e] # "tx"
  BY DEF BeginSync, LockFree, server, client
<1>3. OneWriter'
  BY <1>2 DEF OneWriter, TypeOK
<1>4. CursorsBehind'
  BY <1>1, <1>2 DEF CursorInv, CursorsBehind, TypeOK
<1>5. WorkStamped'
  BY <1>2 DEF CursorInv, WorkStamped, TypeOK
<1>6. ReplyComplete'
  BY <1>2 DEF CursorInv, ReplyComplete, TypeOK
<1>7. NoMissedWrite' /\ RowsStamped'
  BY <1>2 DEF CursorInv, NoMissedWrite, RowsStamped
<1>8. QED
  BY <1>3, <1>4, <1>5, <1>6, <1>7 DEF CursorInv

LEMMA SyncRecordCursor ==
  ASSUME TypeOK, CursorInv, NEW d \in Device, NEW rec \in Record, NEW known \in BOOLEAN,
         SyncRecord(d, rec, known)
  PROVE  CursorInv'
<1>1. rec.key \in Key
  BY RecordKey
<1>2. UNCHANGED <<tbl, syncLastModified, phase, token, reply, cursor, view>>
      /\ phase[d] = "tx"
  BY DEF SyncRecord, server, client
<1>3. WorkStamped'
  <2>1. CASE UNCHANGED <<work, dirty>>
    BY <1>2, <2>1 DEF CursorInv, WorkStamped
  <2>2. CASE ~UNCHANGED <<work, dirty>>
    <3>1. PICK r : /\ r.modifiedAt = IF rec.key \in DeviceKey THEN 0 ELSE token[d]
                   /\ work' = [work EXCEPT ![d] = [work[d] EXCEPT ![rec.key] = r]]
                   /\ dirty' = [dirty EXCEPT ![d] = dirty[d] \cup {rec.key}]
      BY <2>2 DEF SyncRecord, TypeOK
    <3>2. \A k \in Key : work[d] \in Table =>
            [work[d] EXCEPT ![rec.key] = r][k] = IF k = rec.key THEN r ELSE work[d][k]
      BY DEF Table
    <3>3. ASSUME NEW e \in Device
          PROVE  /\ phase'[e] # "tx" => dirty'[e] = {}
                 /\ \A k \in dirty'[e] \cap SyncedKey : work'[e][k].modifiedAt = token'[e]
                 /\ \A k \in dirty'[e] \ SyncedKey : work'[e][k].modifiedAt = 0
      <4>1. CASE e = d
        BY <1>1, <1>2, <3>1, <3>2, <4>1, SyncedInKey DEF CursorInv, WorkStamped, TypeOK
      <4>2. CASE e # d
        BY <1>2, <3>1, <4>2 DEF CursorInv, WorkStamped, TypeOK
      <4>3. QED
        BY <4>1, <4>2
    <3>4. QED
      BY <3>3 DEF WorkStamped
  <2>3. QED
    BY <2>1, <2>2
<1>4. QED
  BY <1>2, <1>3 DEF CursorInv, OneWriter, CursorsBehind, RowsStamped, ReplyComplete,
                    NoMissedWrite

(* What the commit of d makes visible: its own synced rows carry its token,
   the other rows are the committed ones. *)
LEMMA CommittedRows ==
  ASSUME TypeOK, CursorInv, NEW d \in Device, phase[d] = "tx", NEW k \in SyncedKey
  PROVE  /\ Visible(d)[k].modifiedAt \in Nat
         /\ Visible(d)[k].modifiedAt <= token[d]
         /\ Visible(d)[k].modifiedAt <= syncLastModified => Visible(d)[k] = tbl[k]
         /\ Visible(d)[k].modifiedAt = 0 => Visible(d)[k] = tbl[k]
<1>1. k \in Key
  BY SyncedInKey
<1>2. tbl[k].modifiedAt \in Nat /\ Visible(d)[k].modifiedAt \in Nat
  BY <1>1, TableRow, VisibleTyped DEF TypeOK
<1>3. /\ token[d] \in Nat /\ syncLastModified \in Nat
      /\ syncLastModified < token[d] /\ tbl[k].modifiedAt <= syncLastModified
  BY <1>1 DEF CursorInv, CursorsBehind, TypeOK
<1>4. CASE k \in dirty[d]
  <2>1. Visible(d)[k] = work[d][k] /\ work[d][k].modifiedAt = token[d]
    BY <1>1, <1>4 DEF Visible, CursorInv, WorkStamped
  <2>2. QED
    BY <1>2, <1>3, <2>1
<1>5. CASE k \notin dirty[d]
  <2>1. Visible(d)[k] = tbl[k]
    BY <1>1, <1>5 DEF Visible
  <2>2. QED
    BY <1>2, <1>3, <2>1
<1>6. QED
  BY <1>4, <1>5

LEMMA CommitSyncCursor ==
  ASSUME TypeOK, CursorInv, NEW d \in Device, CommitSync(d)
  PROVE  CursorInv'
<1> DEFINE rows == Visible(d)
<1>1. /\ phase[d] = "tx" /\ phase' = [phase EXCEPT ![d] = "hooks"]
      /\ tbl' = rows /\ syncLastModified' = token[d]
      /\ dirty' = [dirty EXCEPT ![d] = {}]
      /\ reply' = [reply EXCEPT ![d] = CollectChanged(rows, cursor[d], token[d])]
      /\ work' = [work EXCEPT ![d] = EmptyTable]
      /\ UNCHANGED <<token, cursor, view>>
  BY DEF CommitSync, CloseTransaction, client
<1>2. /\ token[d] \in Nat /\ syncLastModified \in Nat /\ syncLastModified < token[d]
  BY <1>1 DEF CursorInv, CursorsBehind, TypeOK
<1>3. \A k \in SyncedKey : /\ rows[k].modifiedAt \in Nat
                           /\ rows[k].modifiedAt <= token[d]
                           /\ rows[k].modifiedAt <= syncLastModified => rows[k] = tbl[k]
                           /\ rows[k].modifiedAt = 0 => rows[k] = tbl[k]
  BY <1>1, CommittedRows
<1>4. \A k \in Key : rows[k].modifiedAt <= token[d]
  <2>1. SUFFICES ASSUME NEW k \in Key \ SyncedKey PROVE rows[k].modifiedAt <= token[d]
    BY <1>3
  <2>2. CASE k \in dirty[d]
    <3>1. rows[k].modifiedAt = 0
      BY <2>2 DEF Visible, CursorInv, WorkStamped
    <3>2. QED
      BY <1>2, <3>1
  <2>3. CASE k \notin dirty[d]
    <3>1. rows[k] = tbl[k] /\ tbl[k].modifiedAt <= syncLastModified
      BY <2>3 DEF Visible, CursorInv, CursorsBehind
    <3>2. tbl[k].modifiedAt \in Nat
      BY TableRow DEF TypeOK
    <3>3. QED
      BY <1>2, <3>1, <3>2
  <2>4. QED
    BY <2>2, <2>3
<1>5. \A e \in Device : phase'[e] # "tx"
  BY <1>1 DEF CursorInv, OneWriter, TypeOK
<1>6. OneWriter'
  BY <1>5 DEF OneWriter
<1>7. CursorsBehind'
  <2>1. \A e \in Device : cursor'[e] <= syncLastModified'
    BY <1>1, <1>2 DEF CursorInv, CursorsBehind, TypeOK
  <2>2. \A e \in Device : phase'[e] \in {"hooks", "reply"} => token'[e] <= syncLastModified'
    BY <1>1, <1>2 DEF CursorInv, CursorsBehind, TypeOK
  <2>3. QED
    BY <1>1, <1>4, <1>5, <2>1, <2>2 DEF CursorsBehind
<1>8. WorkStamped'
  BY <1>1, <1>5 DEF CursorInv, WorkStamped, TypeOK
<1>9. RowsStamped'
  BY <1>1, <1>3 DEF CursorInv, RowsStamped
<1>10. NoMissedWrite'
  <2>1. SUFFICES ASSUME NEW e \in Device, NEW k \in SyncedKey, rows[k].modifiedAt <= cursor[e]
                 PROVE  view[e][k] = Echo(k, rows[k])
    BY <1>1 DEF NoMissedWrite
  <2>2. cursor[e] \in Nat /\ cursor[e] <= syncLastModified
    BY DEF CursorInv, CursorsBehind, TypeOK
  <2>3. rows[k] = tbl[k]
    BY <1>2, <1>3, <2>1, <2>2
  <2>4. QED
    BY <2>1, <2>3 DEF CursorInv, NoMissedWrite
<1>11. ReplyComplete'
  <2>1. SUFFICES ASSUME NEW e \in Device, NEW k \in SyncedKey,
                        phase'[e] \in {"hooks", "reply"}, rows[k].modifiedAt <= token[e]
                 PROVE  Overlay(view[e], reply'[e])[k] = Echo(k, rows[k])
    BY <1>1 DEF ReplyComplete
  <2>2. k \in Key
    BY SyncedInKey
  <2>3. CASE e # d
    <3>1. phase[e] \in {"hooks", "reply"} /\ reply'[e] = reply[e]
      BY <1>1, <2>1, <2>3 DEF TypeOK
    <3>2. token[e] \in Nat /\ token[e] <= syncLastModified
      BY <3>1 DEF CursorInv, CursorsBehind, TypeOK
    <3>3. rows[k] = tbl[k]
      BY <1>2, <1>3, <2>1, <3>2
    <3>4. QED
      BY <2>1, <3>1, <3>3 DEF CursorInv, ReplyComplete
  <2>4. CASE e = d
    <3>1. reply'[d] = CollectChanged(rows, cursor[d], token[d])
      BY <1>1 DEF TypeOK
    <3>2. cursor[d] \in Nat /\ cursor[d] <= syncLastModified
      BY DEF CursorInv, CursorsBehind, TypeOK
    <3>3. CASE rows[k].modifiedAt > cursor[d]
      <4>1. reply'[d][k] = Echo(k, rows[k])
        BY <1>3, <2>2, <3>1, <3>3 DEF CollectChanged
      <4>2. Echo(k, rows[k]) # NoRow
        BY <1>3, <2>2, <3>2, <3>3, VisibleTyped, EchoStamp
      <4>3. QED
        BY <2>2, <2>4, <4>1, <4>2 DEF Overlay
    <3>4. CASE ~(rows[k].modifiedAt > cursor[d])
      <4>1. reply'[d][k] = NoRow
        BY <2>2, <3>1, <3>4 DEF CollectChanged
      <4>2. rows[k] = tbl[k] /\ tbl[k].modifiedAt <= cursor[d]
        BY <1>2, <1>3, <3>2, <3>4
      <4>3. view[d][k] = Echo(k, rows[k])
        BY <4>2 DEF CursorInv, NoMissedWrite
      <4>4. QED
        BY <2>2, <2>4, <4>1, <4>3 DEF Overlay
    <3>5. QED
      BY <3>3, <3>4
  <2>5. QED
    BY <2>3, <2>4
<1>12. QED
  BY <1>6, <1>7, <1>8, <1>9, <1>10, <1>11 DEF CursorInv

(* A real-time write stamps its row past every cursor and every response. *)
LEMMA WriteEpisodeCursor ==
  ASSUME TypeOK, CursorInv, NEW k0 \in EpisodeKey, NEW p, NEW vals, NEW now \in Clock,
         WriteEpisode(k0, p, vals, now)
  PROVE  CursorInv'
<1>1. PICK r : /\ tbl' = [tbl EXCEPT ![k0] = r]
               /\ r.modifiedAt = NextToken(syncLastModified, now)
               /\ syncLastModified' = NextToken(syncLastModified, now)
  BY DEF WriteEpisode
<1>2. /\ UNCHANGED <<phase, token, work, dirty, reply, cursor, view>>
      /\ \A e \in Device : phase[e] # "tx"
  BY DEF WriteEpisode, LockFree, txn, client
<1>3. /\ syncLastModified' \in Nat /\ syncLastModified \in Nat
      /\ syncLastModified' > syncLastModified
  BY <1>1, NextTokenGrows, SyncEngineAssumption DEF TypeOK
<1>4. \A k \in Key : /\ tbl'[k] = IF k = k0 THEN r ELSE tbl[k]
                     /\ tbl[k].modifiedAt \in Nat
  <2>1. tbl \in Table
    BY DEF TypeOK
  <2>2. QED
    BY <1>1, <2>1, TableRow DEF Table
<1>5. r.modifiedAt = syncLastModified'
  BY <1>1
<1>6. \A e \in Device : /\ cursor[e] \in Nat /\ cursor[e] <= syncLastModified
                        /\ token[e] \in Nat
                        /\ phase[e] \in {"hooks", "reply"} => token[e] <= syncLastModified
  BY DEF CursorInv, CursorsBehind, TypeOK
<1>7. OneWriter'
  BY <1>2 DEF OneWriter
<1>8. CursorsBehind'
  <2>1. \A k \in Key : tbl'[k].modifiedAt <= syncLastModified'
    BY <1>3, <1>4, <1>5 DEF CursorInv, CursorsBehind
  <2>2. QED
    BY <1>2, <1>3, <1>6, <2>1 DEF CursorsBehind
<1>9. WorkStamped'
  BY <1>2 DEF CursorInv, WorkStamped
<1>10. RowsStamped'
  BY <1>3, <1>4, <1>5, SyncedInKey DEF CursorInv, RowsStamped
<1>11. ReplyComplete'
  <2>1. SUFFICES ASSUME NEW e \in Device, NEW k \in SyncedKey,
                        phase[e] \in {"hooks", "reply"}, tbl'[k].modifiedAt <= token[e]
                 PROVE  Overlay(view[e], reply[e])[k] = Echo(k, tbl'[k])
    BY <1>2 DEF ReplyComplete
  <2>2. tbl'[k] = tbl[k]
    BY <1>3, <1>4, <1>5, <1>6, <2>1, SyncedInKey
  <2>3. QED
    BY <2>1, <2>2 DEF CursorInv, ReplyComplete
<1>12. NoMissedWrite'
  <2>1. SUFFICES ASSUME NEW e \in Device, NEW k \in SyncedKey, tbl'[k].modifiedAt <= cursor[e]
                 PROVE  view[e][k] = Echo(k, tbl'[k])
    BY <1>2 DEF NoMissedWrite
  <2>2. tbl'[k] = tbl[k]
    BY <1>3, <1>4, <1>5, <1>6, <2>1, SyncedInKey
  <2>3. QED
    BY <2>1, <2>2 DEF CursorInv, NoMissedWrite
<1>13. QED
  BY <1>7, <1>8, <1>9, <1>10, <1>11, <1>12 DEF CursorInv

(* Delivering a complete response makes the device as current as its cursor. *)
LEMMA DeliverReplyCursor ==
  ASSUME TypeOK, CursorInv, NEW d \in Device, DeliverReply(d)
  PROVE  CursorInv'
<1>1. /\ phase[d] = "reply" /\ phase' = [phase EXCEPT ![d] = "idle"]
      /\ token' = [token EXCEPT ![d] = 0]
      /\ reply' = [reply EXCEPT ![d] = EmptyTable]
      /\ view' = [view EXCEPT ![d] = Overlay(view[d], reply[d])]
      /\ cursor' = [cursor EXCEPT ![d] = token[d]]
      /\ UNCHANGED <<tbl, syncLastModified, work, dirty>>
  BY DEF DeliverReply, EndRequest, server
<1>2. OneWriter' /\ WorkStamped' /\ RowsStamped'
  BY <1>1 DEF CursorInv, OneWriter, WorkStamped, RowsStamped, TypeOK
<1>3. CursorsBehind'
  BY <1>1 DEF CursorInv, CursorsBehind, TypeOK
<1>4. ReplyComplete'
  BY <1>1 DEF CursorInv, ReplyComplete, TypeOK
<1>5. NoMissedWrite'
  BY <1>1 DEF CursorInv, ReplyComplete, NoMissedWrite, TypeOK
<1>6. QED
  BY <1>2, <1>3, <1>4, <1>5 DEF CursorInv

LEMMA ResetDeviceCursor ==
  ASSUME TypeOK, CursorInv, NEW d \in Device, ResetDevice(d)
  PROVE  CursorInv'
<1>1. /\ phase[d] = "idle"
      /\ cursor' = [cursor EXCEPT ![d] = 0] /\ view' = [view EXCEPT ![d] = EmptyTable]
      /\ UNCHANGED <<tbl, syncLastModified, phase, token, work, dirty, reply>>
  BY DEF ResetDevice, server, txn
<1>2. OneWriter' /\ WorkStamped' /\ RowsStamped' /\ CursorsBehind'
  BY <1>1 DEF CursorInv, OneWriter, WorkStamped, RowsStamped, CursorsBehind, TypeOK
<1>3. ReplyComplete'
  BY <1>1 DEF CursorInv, ReplyComplete, TypeOK
<1>4. NoMissedWrite'
  <2>1. SUFFICES ASSUME NEW e \in Device, NEW k \in SyncedKey, tbl[k].modifiedAt <= cursor'[e]
                 PROVE  view'[e][k] = Echo(k, tbl[k])
    BY <1>1 DEF NoMissedWrite
  <2>2. CASE e # d
    BY <1>1, <2>1, <2>2 DEF CursorInv, NoMissedWrite, TypeOK
  <2>3. CASE e = d
    <3>1. tbl[k].modifiedAt \in Nat /\ cursor'[d] = 0 /\ view'[d] = EmptyTable
      BY <1>1, TableRow, SyncedInKey DEF TypeOK
    <3>2. tbl[k] = NoRow
      BY <2>1, <2>3, <3>1 DEF CursorInv, RowsStamped
    <3>3. QED
      BY <2>3, <3>1, <3>2, EmptyTableTyped, EchoNoRow, SyncedInKey
  <2>4. QED
    BY <2>2, <2>3
<1>5. QED
  BY <1>2, <1>3, <1>4 DEF CursorInv

----------------------------------------------------------------------------
LEMMA CursorNext == TypeOK /\ CursorInv /\ [Next]_vars => CursorInv'
<1> SUFFICES ASSUME TypeOK, CursorInv, [Next]_vars PROVE CursorInv'
  OBVIOUS
<1>1. ASSUME NEW d \in Device, NEW now \in Clock, BeginSync(d, now) PROVE CursorInv'
  BY <1>1, BeginSyncCursor
<1>2. ASSUME NEW d \in Device, NEW rec \in Record, NEW known \in BOOLEAN,
             SyncRecord(d, rec, known)
      PROVE  CursorInv'
  BY <1>2, SyncRecordCursor
<1>3. ASSUME NEW d \in Device, CommitSync(d) PROVE CursorInv'
  BY <1>3, CommitSyncCursor
<1>4. ASSUME NEW d \in Device, RollbackSync(d) PROVE CursorInv'
  <2>1. /\ phase' = [phase EXCEPT ![d] = "idle"] /\ token' = [token EXCEPT ![d] = 0]
        /\ work' = [work EXCEPT ![d] = EmptyTable] /\ dirty' = [dirty EXCEPT ![d] = {}]
        /\ UNCHANGED <<tbl, syncLastModified, cursor, view, reply>>
    BY <1>4 DEF RollbackSync, CloseTransaction, server, client
  <2>2. OneWriter' /\ WorkStamped' /\ RowsStamped' /\ CursorsBehind'
    BY <2>1 DEF CursorInv, OneWriter, WorkStamped, RowsStamped, CursorsBehind, TypeOK
  <2>3. ReplyComplete' /\ NoMissedWrite'
    BY <2>1 DEF CursorInv, ReplyComplete, NoMissedWrite, TypeOK
  <2>4. QED
    BY <2>2, <2>3 DEF CursorInv
<1>5. ASSUME NEW d \in Device, DispatchHooks(d) PROVE CursorInv'
  <2>1. /\ phase[d] = "hooks" /\ phase' = [phase EXCEPT ![d] = "reply"]
        /\ UNCHANGED <<tbl, syncLastModified, token, work, dirty, cursor, view, reply>>
    BY <1>5 DEF DispatchHooks, server, client
  <2>2. OneWriter' /\ WorkStamped' /\ RowsStamped' /\ CursorsBehind'
    BY <2>1 DEF CursorInv, OneWriter, WorkStamped, RowsStamped, CursorsBehind, TypeOK
  <2>3. ReplyComplete' /\ NoMissedWrite'
    BY <2>1 DEF CursorInv, ReplyComplete, NoMissedWrite, TypeOK
  <2>4. QED
    BY <2>2, <2>3 DEF CursorInv
<1>6. ASSUME NEW d \in Device, DeliverReply(d) PROVE CursorInv'
  BY <1>6, DeliverReplyCursor
<1>7. ASSUME NEW d \in Device, LoseReply(d) PROVE CursorInv'
  <2>1. /\ phase' = [phase EXCEPT ![d] = "idle"] /\ token' = [token EXCEPT ![d] = 0]
        /\ reply' = [reply EXCEPT ![d] = EmptyTable] /\ phase[d] # "tx"
        /\ UNCHANGED <<tbl, syncLastModified, work, dirty, cursor, view>>
    BY <1>7 DEF LoseReply, EndRequest, server, client
  <2>2. OneWriter' /\ WorkStamped' /\ RowsStamped' /\ CursorsBehind'
    BY <2>1 DEF CursorInv, OneWriter, WorkStamped, RowsStamped, CursorsBehind, TypeOK
  <2>3. ReplyComplete' /\ NoMissedWrite'
    BY <2>1 DEF CursorInv, ReplyComplete, NoMissedWrite, TypeOK
  <2>4. QED
    BY <2>2, <2>3 DEF CursorInv
<1>8. ASSUME NEW d \in Device, ResetDevice(d) PROVE CursorInv'
  BY <1>8, ResetDeviceCursor
<1>9. ASSUME NEW k \in EpisodeKey, NEW p \in Podcasts \cup {NoPodcast}, NEW now \in Clock,
             NEW vals, WriteEpisode(k, p, vals, now)
      PROVE  CursorInv'
  BY <1>9, WriteEpisodeCursor
<1>10. ASSUME NEW changed, NEW legacy, NEW now \in Clock, UpdateSettings(changed, legacy, now)
       PROVE  CursorInv'
  <2>1. /\ syncLastModified' \in Nat /\ syncLastModified' > syncLastModified
        /\ \A e \in Device : phase[e] # "tx"
        /\ UNCHANGED <<tbl, phase, token, work, dirty, cursor, view, reply>>
    BY <1>10, NextTokenGrows, SyncEngineAssumption
       DEF UpdateSettings, LockFree, txn, client, TypeOK
  <2>2. CursorsBehind'
    <3>1. \A k \in Key : tbl[k].modifiedAt \in Nat
      BY TableRow DEF TypeOK
    <3>2. QED
      BY <2>1, <3>1 DEF CursorInv, CursorsBehind, TypeOK
  <2>3. QED
    BY <2>1, <2>2 DEF CursorInv, OneWriter, WorkStamped, RowsStamped, ReplyComplete,
                      NoMissedWrite
<1>11. CASE UNCHANGED vars
  BY <1>11 DEF vars, server, txn, client, CursorInv, OneWriter, CursorsBehind, WorkStamped,
               RowsStamped, ReplyComplete, NoMissedWrite
<1>12. QED
  BY <1>1, <1>2, <1>3, <1>4, <1>5, <1>6, <1>7, <1>8, <1>9, <1>10, <1>11
     DEF Next, UpdateEpisode, UpdateEpisodeStar

(* The whole cursor invariant of sync: one writer at a time, tokens above
   every cursor, complete responses, no missed write. *)
THEOREM CursorCorrect == Spec => []CursorInv
  BY TypeInit, TypeNext, CursorInit, CursorNext, PTL DEF Spec

(* "Incremental reads never miss a write" (token.go), for every number of
   devices and every clock. *)
THEOREM NoMissedWriteHolds == Spec => []NoMissedWrite
<1>1. CursorInv => NoMissedWrite
  BY DEF CursorInv
<1>2. QED
  BY <1>1, CursorCorrect, PTL

----------------------------------------------------------------------------
(* The step of WritesAdvanceCursor. *)
Advance ==
  /\ \A k \in SyncedKey : tbl'[k] # tbl[k] =>
       /\ syncLastModified' > syncLastModified
       /\ tbl'[k].modifiedAt = syncLastModified'
  /\ settings' # settings => syncLastModified' > syncLastModified

LEMMA AdvanceStep == TypeOK /\ CursorInv /\ Next => Advance
<1> SUFFICES ASSUME TypeOK, CursorInv, Next PROVE Advance
  OBVIOUS
<1>1. ASSUME UNCHANGED <<tbl, settings>> PROVE Advance
  BY <1>1 DEF Advance
<1>2. ASSUME NEW d \in Device, CommitSync(d) PROVE Advance
  <2>1. /\ phase[d] = "tx" /\ tbl' = Visible(d) /\ syncLastModified' = token[d]
        /\ settings' = settings
    BY <1>2 DEF CommitSync
  <2>2. token[d] > syncLastModified
    BY <2>1 DEF CursorInv, CursorsBehind
  <2>3. ASSUME NEW k \in SyncedKey, Visible(d)[k] # tbl[k]
        PROVE  Visible(d)[k].modifiedAt = token[d]
    <3>1. k \in dirty[d] /\ Visible(d)[k] = work[d][k]
      BY <2>3, SyncedInKey DEF Visible
    <3>2. QED
      BY <3>1 DEF CursorInv, WorkStamped
  <2>4. QED
    BY <2>1, <2>2, <2>3 DEF Advance
<1>3. ASSUME NEW k \in EpisodeKey, NEW p, NEW vals, NEW now \in Clock,
             WriteEpisode(k, p, vals, now)
      PROVE  Advance
  <2>1. PICK r : /\ tbl' = [tbl EXCEPT ![k] = r]
                 /\ r.modifiedAt = NextToken(syncLastModified, now)
                 /\ settings' = settings
                 /\ syncLastModified' = NextToken(syncLastModified, now)
    BY <1>3 DEF WriteEpisode
  <2>2. syncLastModified' > syncLastModified
    BY <2>1, NextTokenGrows, SyncEngineAssumption DEF TypeOK
  <2>3. \A x \in Key : tbl'[x] # tbl[x] => tbl'[x] = r
    BY <2>1 DEF TypeOK, Table
  <2>4. QED
    BY <2>1, <2>2, <2>3, SyncedInKey DEF Advance
<1>4. ASSUME NEW changed, NEW legacy, NEW now \in Clock, UpdateSettings(changed, legacy, now)
      PROVE  Advance
  BY <1>4, NextTokenGrows, SyncEngineAssumption DEF UpdateSettings, Advance, TypeOK
<1>5. ASSUME NEW d \in Device,
             \/ \E now \in Clock : BeginSync(d, now)
             \/ \E rec \in Record, known \in BOOLEAN : SyncRecord(d, rec, known)
             \/ RollbackSync(d) \/ DispatchHooks(d) \/ DeliverReply(d) \/ LoseReply(d)
             \/ ResetDevice(d)
      PROVE  Advance
  BY <1>1, <1>5 DEF BeginSync, SyncRecord, RollbackSync, DispatchHooks, DeliverReply,
                    LoseReply, EndRequest, ResetDevice, server
<1>6. QED
  BY <1>2, <1>3, <1>4, <1>5 DEF Next, UpdateEpisode, UpdateEpisodeStar

(* A row or a setting never changes without the cursor moving past every
   earlier token, and the row is stamped with exactly the new cursor. *)
THEOREM WritesAdvance == Spec => WritesAdvanceCursor
<1>1. TypeOK /\ CursorInv /\ [Next]_vars => [Advance]_vars
  BY AdvanceStep
<1>2. Spec => [][Advance]_vars
  BY <1>1, TypeCorrect, CursorCorrect, PTL DEF Spec
<1>3. QED
  BY <1>2 DEF WritesAdvanceCursor, Advance

----------------------------------------------------------------------------
(* Refinement.  The abstract state of the mapping, by name. *)
Db      == [k \in SyncedKey |-> Echo(k, tbl[k])]
Copy    == [d \in Device |-> Library(view[d])]
InFlight(d) == phase[d] \in {"hooks", "reply"}
Sent    == [d \in Device |->
              IF InFlight(d) THEN <<Library(Overlay(view[d], reply[d]))>> ELSE <<>>]

LEMMA ReplicaInit == Init => Replica!Init
<1> SUFFICES ASSUME Init PROVE Replica!Init
  OBVIOUS
<1>1. [k \in SyncedKey |-> Echo(k, tbl[k])] = Library(EmptyTable)
  BY EmptyTableTyped, EchoNoRow, SyncedInKey DEF Init, Library
<1>2. [d \in Device |-> Library(view[d])] = [d \in Device |-> Library(EmptyTable)]
  BY DEF Init
<1>3. Sent = [d \in Device |-> <<>>]
  BY DEF Sent, InFlight, Init
<1>4. QED
  BY <1>1, <1>2, <1>3 DEF Replica!Init, Sent, InFlight

(* Steps that leave the library, the copies and the responses alone. *)
LEMMA ReplicaStutter ==
  ASSUME UNCHANGED <<tbl, view, reply>>,
         \A d \in Device : InFlight(d)' <=> InFlight(d)
  PROVE  UNCHANGED <<Db, Copy, Sent>>
<1>1. Db' = Db /\ Copy' = Copy
  BY DEF Db, Copy
<1>2. Sent' = Sent
  BY DEF Sent
<1>3. QED
  BY <1>1, <1>2

(* A commit snapshots the whole library for its device. *)
LEMMA ReplicaCommit ==
  ASSUME TypeOK, CursorInv, CursorInv', NEW d \in Device, CommitSync(d)
  PROVE  Replica!Sync(d)
<1>1. /\ phase[d] = "tx" /\ phase' = [phase EXCEPT ![d] = "hooks"]
      /\ reply' = [reply EXCEPT ![d] = CollectChanged(Visible(d), cursor[d], token[d])]
      /\ syncLastModified' = token[d] /\ UNCHANGED <<token, view>>
  BY DEF CommitSync, client
<1>2. Copy' = Copy
  BY <1>1 DEF Copy
<1>3. Sent[d] = <<>>
  BY <1>1 DEF Sent, InFlight
<1>4. InFlight(d)' /\ \A k \in SyncedKey : tbl'[k].modifiedAt <= token'[d]
  BY <1>1, SyncedInKey DEF InFlight, TypeOK, CursorInv, CursorsBehind
<1>5. \A k \in SyncedKey : Overlay(view[d], reply'[d])[k] = Echo(k, tbl'[k])
  BY <1>1, <1>4 DEF CursorInv, ReplyComplete, InFlight
<1>6. Library(Overlay(view[d], reply'[d])) = Db'
  BY <1>5 DEF Library, Db
<1>7. Sent' = [Sent EXCEPT ![d] = <<Db'>>]
  <2>1. Sent'[d] = <<Db'>>
    BY <1>1, <1>4, <1>6 DEF Sent
  <2>2. \A e \in Device \ {d} : Sent'[e] = Sent[e]
    BY <1>1 DEF Sent, InFlight, TypeOK
  <2>3. QED
    BY <2>1, <2>2 DEF Sent
<1>8. QED
  BY <1>2, <1>3, <1>7 DEF Replica!Sync, Sent, InFlight, Db, Copy

LEMMA ReplicaDeliver ==
  ASSUME TypeOK, NEW d \in Device, DeliverReply(d)
  PROVE  Replica!Deliver(d)
<1>1. /\ phase[d] = "reply" /\ phase' = [phase EXCEPT ![d] = "idle"]
      /\ reply' = [reply EXCEPT ![d] = EmptyTable]
      /\ view' = [view EXCEPT ![d] = Overlay(view[d], reply[d])]
      /\ tbl' = tbl
  BY DEF DeliverReply, EndRequest, server
<1>2. Db' = Db
  BY <1>1 DEF Db
<1>3. Sent[d] = <<Library(Overlay(view[d], reply[d]))>> /\ Sent[d] # <<>>
  BY <1>1 DEF Sent, InFlight
<1>4. Copy' = [Copy EXCEPT ![d] = Sent[d][1]]
  <2>1. Sent[d][1] = Library(Overlay(view[d], reply[d]))
    BY <1>3
  <2>2. Copy'[d] = Sent[d][1] /\ \A e \in Device \ {d} : Copy'[e] = Copy[e]
    BY <1>1, <2>1 DEF Copy, TypeOK
  <2>3. QED
    BY <2>2 DEF Copy
<1>5. Sent' = [Sent EXCEPT ![d] = <<>>]
  <2>1. Sent'[d] = <<>>
    BY <1>1 DEF Sent, InFlight, TypeOK
  <2>2. \A e \in Device \ {d} : Sent'[e] = Sent[e]
    BY <1>1 DEF Sent, InFlight, TypeOK
  <2>3. QED
    BY <2>1, <2>2 DEF Sent
<1>6. QED
  BY <1>2, <1>3, <1>4, <1>5 DEF Replica!Deliver, Sent, InFlight, Db, Copy

LEMMA ReplicaLose ==
  ASSUME TypeOK, NEW d \in Device, LoseReply(d)
  PROVE  Replica!Lose(d)
<1>1. /\ phase[d] \in {"hooks", "reply"} /\ phase' = [phase EXCEPT ![d] = "idle"]
      /\ reply' = [reply EXCEPT ![d] = EmptyTable]
      /\ view' = view /\ tbl' = tbl
  BY DEF LoseReply, EndRequest, server, client
<1>2. Db' = Db /\ Copy' = Copy
  BY <1>1 DEF Db, Copy
<1>3. Sent[d] # <<>>
  BY <1>1 DEF Sent, InFlight
<1>4. Sent' = [Sent EXCEPT ![d] = <<>>]
  BY <1>1 DEF Sent, InFlight, TypeOK
<1>5. QED
  BY <1>2, <1>3, <1>4 DEF Replica!Lose, Sent, InFlight, Db, Copy

LEMMA ReplicaReset ==
  ASSUME TypeOK, NEW d \in Device, ResetDevice(d)
  PROVE  Replica!Reset(d)
<1>1. /\ phase[d] = "idle" /\ view' = [view EXCEPT ![d] = EmptyTable]
      /\ UNCHANGED <<tbl, phase, reply>>
  BY DEF ResetDevice, server
<1>2. Db' = Db
  BY <1>1 DEF Db
<1>3. Copy' = [Copy EXCEPT ![d] = Library(EmptyTable)]
  BY <1>1 DEF Copy, TypeOK
<1>4. Sent' = Sent
  <2>1. \A e \in Device : InFlight(e) => view'[e] = view[e]
    BY <1>1 DEF InFlight, TypeOK
  <2>2. QED
    BY <1>1, <2>1 DEF Sent, InFlight
<1>5. QED
  BY <1>2, <1>3, <1>4 DEF Replica!Reset, Sent, InFlight, Db, Copy

LEMMA ReplicaWrite ==
  ASSUME NEW k, NEW p, NEW vals, NEW now, WriteEpisode(k, p, vals, now)
  PROVE  Replica!Write
<1>1. UNCHANGED <<phase, reply, view>>
  BY DEF WriteEpisode, client
<1>2. Copy' = Copy /\ Sent' = Sent
  BY <1>1 DEF Copy, Sent, InFlight
<1>3. QED
  BY <1>2 DEF Replica!Write, Sent, InFlight, Copy

LEMMA ReplicaStep ==
  TypeOK /\ CursorInv /\ CursorInv' /\ [Next]_vars => [Replica!Next]_(Replica!rvars)
<1> SUFFICES ASSUME TypeOK, CursorInv, CursorInv', [Next]_vars
             PROVE  [Replica!Next]_(Replica!rvars)
  OBVIOUS
<1>0. ASSUME UNCHANGED <<Db, Copy, Sent>> PROVE UNCHANGED Replica!rvars
  BY <1>0 DEF Replica!rvars, Db, Copy, Sent, InFlight
<1>1. ASSUME NEW d \in Device,
             \/ \E now \in Clock : BeginSync(d, now)
             \/ \E rec \in Record, known \in BOOLEAN : SyncRecord(d, rec, known)
             \/ RollbackSync(d) \/ DispatchHooks(d)
      PROVE  UNCHANGED Replica!rvars
  <2>1. UNCHANGED <<tbl, view, reply>>
    BY <1>1 DEF BeginSync, SyncRecord, RollbackSync, DispatchHooks, server, client
  <2>2. \A e \in Device : InFlight(e)' <=> InFlight(e)
    BY <1>1 DEF BeginSync, SyncRecord, RollbackSync, DispatchHooks, InFlight, TypeOK
  <2>3. QED
    BY <1>0, <2>1, <2>2, ReplicaStutter
<1>2. ASSUME NEW d \in Device, CommitSync(d) PROVE Replica!Next
  BY <1>2, ReplicaCommit DEF Replica!Next
<1>3. ASSUME NEW d \in Device, DeliverReply(d) \/ LoseReply(d) \/ ResetDevice(d)
      PROVE  Replica!Next
  BY <1>3, ReplicaDeliver, ReplicaLose, ReplicaReset DEF Replica!Next
<1>4. ASSUME NEW k, NEW p, NEW vals, NEW now, WriteEpisode(k, p, vals, now)
      PROVE  Replica!Next
  BY <1>4, ReplicaWrite DEF Replica!Next
<1>5. ASSUME NEW changed, NEW legacy, NEW now, UpdateSettings(changed, legacy, now)
      PROVE  UNCHANGED Replica!rvars
  <2>1. UNCHANGED <<tbl, phase, view, reply>>
    BY <1>5 DEF UpdateSettings, client
  <2>2. QED
    BY <1>0, <2>1, ReplicaStutter DEF InFlight
<1>6. CASE UNCHANGED vars
  <2>1. UNCHANGED <<tbl, phase, view, reply>>
    BY <1>6 DEF vars, server, client
  <2>2. QED
    BY <1>0, <2>1, ReplicaStutter DEF InFlight
<1>7. QED
  BY <1>1, <1>2, <1>3, <1>4, <1>5, <1>6 DEF Next, UpdateEpisode, UpdateEpisodeStar

(* Incremental sync with tokens, deltas, lost responses and concurrent
   devices implements snapshot replication: whatever a device imports is the
   whole library as of the commit of its own request. *)
THEOREM SyncImplementsReplica == Spec => ImplementsReplica
<1>1. TypeOK /\ CursorInv /\ CursorInv' /\ [Next]_vars => [Replica!Next]_(Replica!rvars)
  BY ReplicaStep
<1>2. QED
  BY <1>1, ReplicaInit, TypeCorrect, CursorCorrect, PTL
     DEF Spec, ImplementsReplica, Replica!Spec
=============================================================================
