------------------------------ MODULE SyncEngine ------------------------------
(***************************************************************************)
(* The incremental sync of one account: syncsvc/engine.go (ApplyUpdate)    *)
(* and syncsvc/updates.go, with the devices that call them.                *)
(*                                                                         *)
(* Every mutating entry point is a transaction that first takes the lock   *)
(* of the users row (GetUserForUpdate) and draws a token greater than the  *)
(* cursor stored there.  ApplyUpdate is modelled statement by statement:   *)
(* BeginSync, SyncRecord for each record of the request, CommitSync;       *)
(* RollbackSync is an error or a crash at any point in between.  Uncommitted *)
(* rows are in work[d] for the keys in dirty[d].  The other entry points   *)
(* touch one row and are one step each, enabled when the lock is free.     *)
(*                                                                         *)
(* now, the wall clock of the replica that serves the request, is any      *)
(* value of Clock at every step: replicas are skewed and clocks are set    *)
(* back.                                                                   *)
(***************************************************************************)
EXTENDS SyncRecords, FiniteSetsExt

CONSTANTS
  Device,           \* the clients of the account
  Clock,            \* what time.Now().UnixMilli() may return
  MaxToken,         \* bound: no transaction starts at or past this cursor
  MaxRecords,       \* bound: records in one request
  Tiers,            \* milestoneTiers
  HourLen           \* seconds in an hour of the milestone ladder

ASSUME SyncEngineAssumption ==
  /\ Clock \subseteq Nat
  /\ MaxToken \in Nat /\ MaxRecords \in Nat
  /\ Tiers \subseteq Nat
  /\ HourLen \in Nat \ {0}

VARIABLES
  tbl,              \* committed rows: data and modified_at
  settings,         \* user_settings: stamped values by key
  milestones,       \* social_milestones
  syncLastModified, \* users.sync_last_modified
  phase,            \* of the sync request of each device
  token,            \* the token drawn by the open transaction
  work, dirty,      \* rows written by the open transaction
  unknown,          \* feeds collected for OnUnknownPodcast
  nrec,             \* records applied so far
  hasEpisodes,      \* hasEpisodeRecords
  reply,            \* records of the response on its way to the device
  cursor, view,     \* what the device stored: lastModified and the rows
  ingested,         \* feeds handed to OnUnknownPodcast
  committedFeeds,   \* history: feeds collected by requests that committed
  detected          \* history: a milestone detection has committed

server == <<tbl, settings, milestones, syncLastModified, detected, committedFeeds>>
txn    == <<token, work, dirty, unknown, nrec, hasEpisodes>>
client == <<cursor, view>>
vars   == <<server, txn, client, phase, reply, ingested>>

NoRow      == [data |-> NoData, modifiedAt |-> 0]
EmptyTable == [k \in Key |-> NoRow]

Data == PodcastData \cup EpisodeData \cup BookmarkData \cup ContentData \cup {NoData}
Row  == [data : Data, modifiedAt : Nat]

(* The data of a row belongs to its table. *)
DataOf(k) ==
  {x \in Data : x # NoData =>
     /\ k \in PodcastKey  => x \in PodcastData
     /\ k \in EpisodeKey  => x \in EpisodeData
     /\ k \in BookmarkKey => x \in BookmarkData
     /\ k \in FolderKey \cup PlaylistKey \cup DeviceKey => x \in ContentData}
Table == {t \in [Key -> Row] : \A k \in Key : t[k].data \in DataOf(k)}
Phase == {"idle", "tx", "hooks", "reply"}

(* The state has its type. *)
TypeOK ==
  /\ tbl \in Table
  /\ IsPartial(settings, SettingKeys, Stamped)
  /\ milestones \subseteq Milestone
  /\ syncLastModified \in Nat
  /\ phase \in [Device -> Phase]
  /\ token \in [Device -> Nat]
  /\ work \in [Device -> Table]
  /\ dirty \in [Device -> SUBSET Key]
  /\ unknown \in [Device -> SUBSET Feeds]
  /\ nrec \in [Device -> Nat]
  /\ hasEpisodes \in [Device -> BOOLEAN]
  /\ reply \in [Device -> Table]
  /\ cursor \in [Device -> Nat]
  /\ view \in [Device -> Table]
  /\ ingested \subseteq Feeds
  /\ committedFeeds \subseteq Feeds
  /\ detected \in BOOLEAN

Init ==
  /\ tbl = EmptyTable
  /\ settings = EmptyFn
  /\ milestones = {}
  /\ syncLastModified = 0
  /\ phase = [d \in Device |-> "idle"]
  /\ token = [d \in Device |-> 0]
  /\ work = [d \in Device |-> EmptyTable]
  /\ dirty = [d \in Device |-> {}]
  /\ unknown = [d \in Device |-> {}]
  /\ nrec = [d \in Device |-> 0]
  /\ hasEpisodes = [d \in Device |-> FALSE]
  /\ reply = [d \in Device |-> EmptyTable]
  /\ cursor = [d \in Device |-> 0]
  /\ view = [d \in Device |-> EmptyTable]
  /\ ingested = {}
  /\ committedFeeds = {}
  /\ detected = FALSE

----------------------------------------------------------------------------
(* GetUserForUpdate: the users row is locked by an open transaction. *)
LockFree == \A d \in Device : phase[d] # "tx"

(* What the open transaction of d reads. *)
Visible(d) == [k \in Key |-> IF k \in dirty[d] THEN work[d][k] ELSE tbl[k]]

(* collectChangedRecords: since < modified_at <= upTo, the five synced
   tables only. *)
Echo(k, r) ==
  IF k \in PodcastKey /\ r.data # NoData
  THEN [data |-> EchoPodcast(r.data), modifiedAt |-> r.modifiedAt] ELSE r
CollectBefore(t, since, upTo) ==         \* mutant: upTo is exclusive
  [k \in Key |-> IF k \in SyncedKey /\ t[k].modifiedAt > since /\ t[k].modifiedAt < upTo
                 THEN Echo(k, t[k]) ELSE NoRow]
CollectChanged(t, since, upTo) ==
  [k \in Key |-> IF k \in SyncedKey /\ t[k].modifiedAt > since /\ t[k].modifiedAt <= upTo
                 THEN Echo(k, t[k]) ELSE NoRow]

(* The device imports a response: echoed records replace its copies. *)
Overlay(v, r) == [k \in Key |-> IF r[k] = NoRow THEN v[k] ELSE r[k]]

(* GetListeningTotals: each episode counts at most its length, if known. *)
Listened(fields) ==
  LET played == fields["playedUpTo"].val
      length == fields["duration"].val
  IN IF length > 0 /\ length < played THEN length ELSE played
EpisodeRows(t) == {k \in EpisodeKey : t[k].data # NoData}
ListenedSeconds(t) == MapThenSumSet(LAMBDA k : Listened(t[k].data.fields), EpisodeRows(t))
EpisodesFinished(t) ==
  Cardinality({k \in EpisodeRows(t) : t[k].data.fields["playingStatus"].val = 3})

Detect(t) ==
  DetectMilestones(milestones, Tiers, ListenedSeconds(t) \div HourLen, EpisodesFinished(t))

----------------------------------------------------------------------------
(* POST user/sync/update of device d. *)
BeginSync(d, now) ==
  /\ phase[d] = "idle" /\ LockFree
  /\ syncLastModified < MaxToken
  /\ phase' = [phase EXCEPT ![d] = "tx"]
  /\ token' = [token EXCEPT ![d] = NextToken(syncLastModified, now)]
  /\ UNCHANGED <<server, client, work, dirty, unknown, nrec, hasEpisodes, reply, ingested>>

SyncRecord(d, rec, knownInCatalog) ==
  LET k == rec.key
      old == Visible(d)[k].data
      new == ApplyRecord(old, rec)
  IN /\ phase[d] = "tx" /\ nrec[d] < MaxRecords
     /\ nrec' = [nrec EXCEPT ![d] = @ + 1]
     /\ hasEpisodes' = [hasEpisodes EXCEPT ![d] = @ \/ k \in EpisodeKey]
     /\ unknown' = [unknown EXCEPT ![d] =
          IF k \in PodcastKey THEN @ \cup UnknownFeeds(old, rec, knownInCatalog) ELSE @]
     /\ IF new = NoData THEN UNCHANGED <<work, dirty>>
        ELSE /\ work' = [work EXCEPT ![d][k] =
                   [data |-> new, modifiedAt |-> IF k \in DeviceKey THEN 0 ELSE token[d]]]
             /\ dirty' = [dirty EXCEPT ![d] = @ \cup {k}]
     /\ UNCHANGED <<server, client, phase, token, reply, ingested>>

CloseTransaction(d) ==
  /\ work' = [work EXCEPT ![d] = EmptyTable]
  /\ dirty' = [dirty EXCEPT ![d] = {}]
  /\ nrec' = [nrec EXCEPT ![d] = 0]
  /\ hasEpisodes' = [hasEpisodes EXCEPT ![d] = FALSE]

CommitSync(d) ==
  LET rows == Visible(d) IN
  /\ phase[d] = "tx"
  /\ tbl' = rows
  /\ milestones' = IF hasEpisodes[d] THEN Detect(rows) ELSE milestones
  /\ detected' = (detected \/ hasEpisodes[d])
  /\ syncLastModified' = token[d]
  /\ committedFeeds' = committedFeeds \cup unknown[d]
  /\ reply' = [reply EXCEPT ![d] = CollectChanged(rows, cursor[d], token[d])]
  /\ phase' = [phase EXCEPT ![d] = "hooks"]
  /\ CloseTransaction(d)
  /\ UNCHANGED <<settings, client, token, unknown, ingested>>

(* Any statement fails, or the process dies: nothing is committed. *)
RollbackIgnored(d) ==        \* mutant: the hooks run although the transaction failed
  /\ phase[d] = "tx"
  /\ phase' = [phase EXCEPT ![d] = "hooks"]
  /\ CloseTransaction(d)
  /\ UNCHANGED <<server, client, token, unknown, reply, ingested>>
RollbackSync(d) ==
  /\ phase[d] = "tx"
  /\ phase' = [phase EXCEPT ![d] = "idle"]
  /\ unknown' = [unknown EXCEPT ![d] = {}]
  /\ token' = [token EXCEPT ![d] = 0]
  /\ CloseTransaction(d)
  /\ UNCHANGED <<server, client, reply, ingested>>

(* After the commit the hook gets the unknown feeds, then the response is
   written. *)
DispatchHooks(d) ==
  /\ phase[d] = "hooks"
  /\ ingested' = ingested \cup unknown[d]
  /\ unknown' = [unknown EXCEPT ![d] = {}]
  /\ phase' = [phase EXCEPT ![d] = "reply"]
  /\ UNCHANGED <<server, client, token, work, dirty, nrec, hasEpisodes, reply>>

EndRequest(d) ==
  /\ phase' = [phase EXCEPT ![d] = "idle"]
  /\ unknown' = [unknown EXCEPT ![d] = {}]
  /\ token' = [token EXCEPT ![d] = 0]
  /\ reply' = [reply EXCEPT ![d] = EmptyTable]
  /\ UNCHANGED <<server, work, dirty, nrec, hasEpisodes, ingested>>

(* The device imports the response and stores its lastModified. *)
DeliverReply(d) ==
  /\ phase[d] = "reply"
  /\ view' = [view EXCEPT ![d] = Overlay(@, reply[d])]
  /\ cursor' = [cursor EXCEPT ![d] = token[d]]
  /\ EndRequest(d)

(* The response is lost, or the process dies after the commit. *)
LoseReply(d) ==
  /\ phase[d] \in {"hooks", "reply"}
  /\ EndRequest(d)
  /\ UNCHANGED client

(* A reinstalled device starts from nothing. *)
ResetDevice(d) ==
  /\ phase[d] = "idle"
  /\ cursor' = [cursor EXCEPT ![d] = 0]
  /\ view' = [view EXCEPT ![d] = EmptyTable]
  /\ UNCHANGED <<server, txn, phase, reply, ingested>>

----------------------------------------------------------------------------
(* The single-row entry points of updates.go. *)

WriteEpisode(k, podcast, vals, now) ==
  LET t == NextToken(syncLastModified, now)
      new == WriteEpisodeFields(tbl[k].data, podcast, vals, t)
  IN /\ LockFree /\ syncLastModified < MaxToken
     /\ new # NoData
     /\ tbl' = [tbl EXCEPT ![k] = [data |-> new, modifiedAt |-> t]]
     /\ syncLastModified' = t
     /\ UNCHANGED <<settings, milestones, detected, committedFeeds, txn, client, phase,
                    reply, ingested>>

(* POST sync/update_episode: position, status and duration, each optional. *)
UpdateEpisode(k, podcast, vals, now) ==
  /\ \A f \in DOMAIN vals : f = "playedUpTo" \/ vals[f] # 0
  /\ WriteEpisode(k, podcast, vals, now)

(* POST sync/update_episode_star.  For a new row the empty podcast is not a
   uuid: the insert fails and nothing changes. *)
UpdateEpisodeStar(k, podcast, star, now) ==
  WriteEpisode(k, podcast, [f \in {"starred"} |-> star], now)

(* POST user/named_settings/update. *)
UpdateSettingsOnly(changed, legacy, now) ==     \* mutant: the cursor is left behind
  LET t == NextToken(syncLastModified, now)
  IN /\ LockFree /\ syncLastModified < MaxToken
     /\ settings' = ApplyLegacySettings(MergeSettings(settings, changed), legacy, t)
     /\ UNCHANGED <<tbl, milestones, syncLastModified, detected, committedFeeds, txn, client,
                    phase, reply, ingested>>
UpdateSettings(changed, legacy, now) ==
  LET t == NextToken(syncLastModified, now)
      merged == MergeSettings(settings, changed)
      new == ApplyLegacySettings(merged, legacy, t)
  IN /\ LockFree /\ syncLastModified < MaxToken
     /\ merged # settings \/ DOMAIN legacy # {}
     /\ settings' = new
     /\ syncLastModified' = t
     /\ UNCHANGED <<tbl, milestones, detected, committedFeeds, txn, client, phase, reply,
                    ingested>>

(* What those requests carry: fields, the star, named settings with the stamps
   of their changes or, from older clients, bare. *)
RealtimeFields == {"playedUpTo", "playingStatus", "duration"} \cap SentFields
UpdateEpisodeRequest     == Partial(RealtimeFields, Val)
UpdateEpisodeStarRequest == {0, 1}
ChangeableSettings       == Partial(SettingKeys, [val : Val, mod : Stamp])
NamedSettings            == Partial(SettingKeys, Val)

Next ==
  \/ \E d \in Device :
       \/ \E now \in Clock : BeginSync(d, now)
       \/ \E rec \in Record, known \in BOOLEAN : SyncRecord(d, rec, known)
       \/ CommitSync(d)
       \/ RollbackSync(d)
       \/ DispatchHooks(d)
       \/ DeliverReply(d)
       \/ LoseReply(d)
       \/ ResetDevice(d)
  \/ \E k \in EpisodeKey, p \in Podcasts \cup {NoPodcast}, now \in Clock :
       \/ \E vals \in UpdateEpisodeRequest : UpdateEpisode(k, p, vals, now)
       \/ \E star \in UpdateEpisodeStarRequest : UpdateEpisodeStar(k, p, star, now)
  \/ \E changed \in ChangeableSettings, legacy \in NamedSettings, now \in Clock :
       UpdateSettings(changed, legacy, now)

Spec == Init /\ [][Next]_vars

----------------------------------------------------------------------------
(* Properties. *)

(* The promise of the cursor (token.go: "incremental reads never miss a
   write"): a device whose stored lastModified is at or past a row's
   modified_at has that very row, whatever clocks, lost responses and
   concurrent devices did. *)
NoMissedWrite ==
  \A d \in Device, k \in SyncedKey :
    tbl[k].modifiedAt <= cursor[d] => view[d][k] = Echo(k, tbl[k])

(* A response on its way carries everything its lastModified will vouch
   for, even when other devices commit before it arrives. *)
ReplyComplete ==
  \A d \in Device, k \in SyncedKey :
    /\ phase[d] \in {"hooks", "reply"}
    /\ tbl[k].modifiedAt <= token[d]
    => Overlay(view[d], reply[d])[k] = Echo(k, tbl[k])

(* The strengthening that makes the two inductive: the lock admits one
   transaction, its token lies above the committed cursor, no row, no device
   and no response is ahead of that cursor, and a row that exists is stamped. *)
OneWriter ==
  \A d, e \in Device : phase[d] = "tx" /\ phase[e] = "tx" => d = e
CursorsBehind ==
  /\ \A k \in Key : tbl[k].modifiedAt <= syncLastModified
  /\ \A d \in Device : cursor[d] <= syncLastModified
  /\ \A d \in Device : phase[d] = "tx" => token[d] > syncLastModified
  /\ \A d \in Device : phase[d] \in {"hooks", "reply"} =>
       token[d] <= syncLastModified
WorkStamped ==
  \A d \in Device :
    /\ phase[d] # "tx" => dirty[d] = {}
    /\ \A k \in dirty[d] \cap SyncedKey : work[d][k].modifiedAt = token[d]
    /\ \A k \in dirty[d] \ SyncedKey : work[d][k].modifiedAt = 0
RowsStamped == \A k \in SyncedKey : tbl[k].modifiedAt = 0 => tbl[k] = NoRow
CursorInv ==
  /\ OneWriter /\ CursorsBehind /\ WorkStamped /\ RowsStamped
  /\ ReplyComplete /\ NoMissedWrite

(* "Settings and users.sync_last_modified advance in the same transaction":
   a step that changes a synced row or a setting moves the cursor strictly
   up, and stamps the row with exactly the new cursor. *)
WritesAdvanceCursor ==
  [][/\ \A k \in SyncedKey : tbl'[k] # tbl[k] =>
          /\ syncLastModified' > syncLastModified
          /\ tbl'[k].modifiedAt = syncLastModified'
     /\ settings' # settings => syncLastModified' > syncLastModified]_vars

(* OnUnknownPodcast is "called after the sync transaction commits": a feed
   collected by a request that rolled back is never ingested for it. *)
HooksAfterCommit == ingested \subseteq committedFeeds

(* The comment on detectMilestones: only the "first-ever detection
   backdates its crossings"; a crossing found by a later detection is news. *)
LaterCrossingsAreNews ==
  [][detected => \A m \in milestones' \ milestones : ~m.backdated]_vars

----------------------------------------------------------------------------
(* The replica each device keeps, seen as the abstract one: what a device
   will hold once its response arrives is the whole library as it was when
   the request committed. *)
Library(t) == [k \in SyncedKey |-> t[k]]
Replica == INSTANCE LibraryReplica WITH
  Empty <- Library(EmptyTable),
  db    <- [k \in SyncedKey |-> Echo(k, tbl[k])],
  copy  <- [d \in Device |-> Library(view[d])],
  sent  <- [d \in Device |->
              IF phase[d] \in {"hooks", "reply"}
              THEN <<Library(Overlay(view[d], reply[d]))>> ELSE <<>>]

(* Incremental sync implements snapshot replication. *)
ImplementsReplica == Replica!Spec
=============================================================================
