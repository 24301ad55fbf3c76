------------------------------ MODULE SyncMerge ------------------------------
(***************************************************************************)
(* Episode rows, bookmark rows and named settings of one account under     *)
(* records that arrive in any order, late and more than once, from devices *)
(* whose clocks disagree.  Each step is a committed record, real-time      *)
(* write or settings change of SyncEngine; the question here is what the   *)
(* merge rules of SyncRecords leave behind, compared with the history of   *)
(* everything that was sent.  A record only reads and writes its own row,  *)
(* so a behaviour follows the rows of one kind, the subject.               *)
(***************************************************************************)
EXTENDS SyncRecords

CONSTANT Tokens        \* server tokens a real-time write may draw

(* NextToken never draws 0. *)
ASSUME SyncMergeAssumption == Tokens \subseteq Nat \ {0}

VARIABLES
  subject,    \* the kind of row that is sent: episode, bookmark or setting
  row,        \* the stored data of each key, or NoData
  settings,   \* user_settings
  wrote,      \* history: stamped writes of each column since a real-time overwrite
  trims,      \* history: user trims of each bookmark, [stamp, excerpt]
  fills,      \* history: machine excerpts of each bookmark
  changes     \* history: settings changes of each key

vars == <<subject, row, settings, wrote, trims, fills, changes>>

MergeKey == EpisodeKey \cup BookmarkKey

Init ==
  /\ subject \in {"episode", "bookmark", "setting"}
  /\ row = [k \in MergeKey |-> NoData]
  /\ settings = EmptyFn
  /\ wrote = [k \in MergeKey |-> [f \in EpisodeField \cup BookmarkField |-> {}]]
  /\ trims = [k \in BookmarkKey |-> {}]
  /\ fills = [k \in BookmarkKey |-> {}]
  /\ changes = [k \in SettingKeys |-> {}]

Remember(k, fields) ==
  wrote' = [wrote EXCEPT ![k] =
    [f \in DOMAIN @ |-> IF f \in DOMAIN fields THEN @[f] \cup {fields[f]} ELSE @[f]]]

(* An episode record of a committed ApplyUpdate; a skipped record leaves no
   trace. *)
SendEpisode(rec) ==
  LET new == ApplyEpisodeRecord(row[rec.key], rec)
  IN /\ subject = "episode" /\ new # NoData
     /\ row' = [row EXCEPT ![rec.key] = new]
     /\ Remember(rec.key, rec.fields)
     /\ UNCHANGED <<subject, settings, trims, fills, changes>>

(* A bookmark record.  A trim stamp of 0 is no trim and no enrichment. *)
SendBookmark(rec) ==
  LET k == rec.key IN
  /\ subject = "bookmark"
  /\ row' = [row EXCEPT ![k] = ApplyBookmarkRecord(@, rec)]
  /\ Remember(k, rec.fields)
  /\ trims' = [trims EXCEPT ![k] =
       IF rec.trim # NoStamp /\ rec.trim > 0
       THEN @ \cup {[stamp |-> rec.trim, excerpt |-> rec.excerpt]} ELSE @]
  /\ fills' = [fills EXCEPT ![k] =
       IF rec.trim = NoStamp THEN @ \cup ({rec.excerpt} \ {NoExcerpt}) ELSE @]
  /\ UNCHANGED <<subject, settings, changes>>

(* UpdateEpisode and UpdateEpisodeStar: the listed columns are overwritten
   and whatever was sent for them before is forgotten. *)
Realtime(k, podcast, vals, t) ==
  LET new == WriteEpisodeFields(row[k], podcast, vals, t)
  IN /\ subject = "episode" /\ new # NoData
     /\ row' = [row EXCEPT ![k] = new]
     /\ wrote' = [wrote EXCEPT ![k] =
          [f \in DOMAIN @ |->
             IF f \in DOMAIN vals THEN {[val |-> vals[f], mod |-> t]} ELSE @[f]]]
     /\ UNCHANGED <<subject, settings, trims, fills, changes>>

(* UpdateSettings: changed settings are merged, legacy ones overwrite. *)
SendSettings(changed, legacy, t) ==
  /\ subject = "setting"
  /\ settings' = ApplyLegacySettings(MergeSettings(settings, changed), legacy, t)
  /\ changes' = [k \in SettingKeys |->
       IF k \in DOMAIN legacy THEN {[val |-> legacy[k], mod |-> t]}
       ELSE IF k \in DOMAIN changed THEN changes[k] \cup {changed[k]} ELSE changes[k]]
  /\ UNCHANGED <<subject, row, wrote, trims, fills>>

RealtimeFields == {"playedUpTo", "playingStatus", "duration", "starred"} \cap SentFields

Next ==
  \/ \E rec \in EpisodeRecord : SendEpisode(rec)
  \/ \E rec \in BookmarkRecord : SendBookmark(rec)
  \/ \E k \in EpisodeKey, p \in Podcasts \cup {NoPodcast}, t \in Tokens,
        vals \in Partial(RealtimeFields, Val) : Realtime(k, p, vals, t)
  \/ \E changed \in Partial(SettingKeys, [val : Val, mod : Stamp]),
        legacy \in Partial(SettingKeys, Val), t \in Tokens :
       SendSettings(changed, legacy, t)

Spec == Init /\ [][Next]_vars

----------------------------------------------------------------------------
(* Reference: v is one of the newest of the writes W. *)
Newest(v, W) == v \in W /\ \A w \in W : w.mod <= v.mod

(* The writes a column may hold; a column nobody stamped keeps its default. *)
Candidates(k, f, default) ==
  IF \E w \in wrote[k][f] : w.mod > 0 THEN wrote[k][f] ELSE wrote[k][f] \cup {default}

Default(k, f) ==
  IF k \in EpisodeKey THEN NewEpisodeFields[f] ELSE NewBookmark(0).fields[f]

(* Per-column last writer wins: however the records are ordered, delayed or
   repeated, each LWW column of an episode or bookmark holds the newest write
   sent for it since a real-time overwrite, value and stamp together, never
   an older one. *)
ColumnNewestWins ==
  \A k \in MergeKey : row[k] # NoData =>
    \A f \in DOMAIN row[k].fields :
      Newest(row[k].fields[f], Candidates(k, f, Default(k, f)))

(* The highlight window: once any user trim was sent, the newest trim with
   its excerpt (an empty one too), and never machine enrichment; before
   that, one of the machine excerpts as soon as there is one. *)
TrimBeatsEnrichment ==
  \A k \in BookmarkKey : row[k] # NoData =>
    IF trims[k] # {}
    THEN /\ [stamp |-> row[k].trimModified, excerpt |-> row[k].excerpt] \in trims[k]
         /\ \A t \in trims[k] : t.stamp <= row[k].trimModified
    ELSE /\ row[k].trimModified = 0
         /\ row[k].excerpt \in IF fills[k] = {} THEN {NoExcerpt} ELSE fills[k]

(* Named settings: each key holds the newest change sent for it since a
   legacy overwrite, and a key nobody sent stays unset. *)
SettingNewestWins ==
  \A k \in SettingKeys :
    /\ k \in DOMAIN settings <=> changes[k] # {}
    /\ k \in DOMAIN settings => Newest(settings[k], changes[k])

(* Whatever the order of arrival, the newest write of each column and of each
   setting is the one that stays, and a user's trim of a highlight beats what
   enrichment filled in. *)
NewestWins == ColumnNewestWins /\ SettingNewestWins /\ TrimBeatsEnrichment

(* The echo of a row carries all of it (convert.go: "a clear is empty values
   under a nonzero TrimModified, and other devices need the field presence"):
   a store that has never seen the row and applies its echo gets that very
   row, and applying the echo of one's own row changes nothing. *)
EchoRebuildsRow ==
  /\ \A k \in EpisodeKey : row[k] # NoData =>
       \A old \in {NoData, row[k]} :
         ApplyEpisodeRecord(old, EpisodeToProto(k, row[k])) = row[k]
  /\ \A k \in BookmarkKey : row[k] # NoData =>
       \A old \in {NoData, row[k]} :
         ApplyBookmarkRecord(old, BookmarkToProto(k, row[k])) = row[k]
=============================================================================
