---------------------------- MODULE AccountsProofs ----------------------------
(***************************************************************************)
(* For any records, clocks, lists, devices, phones and overlapping requests*)
(* of MCAccounts: the newest write of a column stays, an echo rebuilds its *)
(* row, a restore converges, an attested request counts once and a phone   *)
(* stays reachable.                                                        *)
(*                                                                         *)
(* Each part has an inductive invariant of its own: RecordsInv, AttestInv, *)
(* PushInv and LibraryInv.  PartsInv puts the last three together.         *)
(***************************************************************************)
EXTENDS MCAccounts, Sequences, FiniteSetTheorems, TLAPS

(* Last writer wins, for one column: a write joins those the column may hold. *)
Held(W, default) == IF \E w \in W : w.mod > 0 THEN W ELSE W \cup {default}

LEMMA NewestMerge ==
  ASSUME NEW W \in SUBSET Stamped, NEW s \in Stamped, NEW w \in Stamped, NEW default \in Stamped,
         default.mod = 0, Newest(s, Held(W, default))
  PROVE  /\ w.mod > s.mod => Newest(w, Held(W \cup {w}, default))
         /\ ~(w.mod > s.mod) => Newest(s, Held(W \cup {w}, default))
<1>1. /\ s.mod \in Nat /\ w.mod \in Nat /\ \A x \in W : x.mod \in Nat
  BY DEF Stamped
<1>2. s \in Held(W, default) /\ \A x \in Held(W, default) : x.mod <= s.mod
  BY DEF Newest
<1>3. CASE \E x \in W : x.mod > 0
  <2>1. Held(W, default) = W /\ Held(W \cup {w}, default) = W \cup {w}
    BY <1>3 DEF Held
  <2>2. s \in W /\ \A x \in W : x.mod <= s.mod
    BY <1>2, <2>1
  <2>3. ASSUME w.mod > s.mod PROVE \A x \in W \cup {w} : x.mod <= w.mod
    BY <1>1, <2>2, <2>3
  <2>4. ASSUME ~(w.mod > s.mod) PROVE \A x \in W \cup {w} : x.mod <= s.mod
    BY <1>1, <2>2, <2>4
  <2>5. QED
    BY <2>1, <2>2, <2>3, <2>4 DEF Newest
<1>4. CASE ~\E x \in W : x.mod > 0
  <2>1. Held(W, default) = W \cup {default} /\ \A x \in W : x.mod = 0
    BY <1>1, <1>4 DEF Held
  <2>2. s.mod = 0 /\ s \in W \cup {default}
    BY <1>1, <1>2, <2>1
  <2>3. CASE w.mod > 0
    <3>1. Held(W \cup {w}, default) = W \cup {w}
      BY <2>3 DEF Held
    <3>2. \A x \in W \cup {w} : x.mod <= w.mod
      BY <1>1, <2>1, <2>3
    <3>3. QED
      BY <1>1, <2>2, <2>3, <3>1, <3>2 DEF Newest
  <2>4. CASE ~(w.mod > 0)
    <3>1. w.mod = 0
      BY <1>1, <2>4
    <3>2. Held(W \cup {w}, default) = (W \cup {w}) \cup {default}
      BY <2>1, <3>1 DEF Held
    <3>3. \A x \in (W \cup {w}) \cup {default} : x.mod <= s.mod
      BY <2>1, <2>2, <3>1
    <3>4. QED
      BY <2>2, <3>1, <3>2, <3>3 DEF Newest
  <2>5. QED
    BY <2>3, <2>4
<1>5. QED
  BY <1>3, <1>4

LEMMA NewestAlone ==
  ASSUME NEW w \in Stamped, NEW default \in Stamped, default.mod = 0
  PROVE  Newest(w, Held({w}, default)) /\ Newest(default, Held({}, default))
<1>1. w.mod \in Nat
  BY DEF Stamped
<1>2. QED
  BY <1>1 DEF Newest, Held

(* A stored row of one column map, the history W of each column and what the
   columns start with. *)
Columns(F, fields, W, default) ==
  /\ fields \in [F -> Stamped] /\ default \in [F -> Stamped] /\ \A f \in F : default[f].mod = 0
  /\ \A f \in F : W[f] \in SUBSET Stamped
  /\ \A f \in F : Newest(fields[f], Held(W[f], default[f]))
  /\ \A f \in F : fields[f].mod = 0 => fields[f] = default[f]

(* Records carry a partial map of stamped values. *)
LEMMA PartialWrites ==
  ASSUME NEW S, NEW g \in Partial(S, [val : Val, mod : Stamp])
  PROVE  DOMAIN g \subseteq S /\ \A f \in DOMAIN g : g[f] \in Stamped
<1>1. PICK D \in SUBSET S : g \in [D -> [val : Val, mod : Stamp]]
  BY DEF Partial
<1>2. Stamp \subseteq Nat
  BY SyncRecordsAssumption
<1>3. [val : Val, mod : Stamp] \subseteq Stamped
  BY <1>2 DEF Stamped
<1>4. QED
  BY <1>1, <1>3

LEMMA ColumnsMerge ==
  ASSUME NEW F, NEW fields, NEW W, NEW default, Columns(F, fields, W, default),
         NEW g, DOMAIN g \subseteq F, \A f \in DOMAIN g : g[f] \in Stamped,
         NEW V, \A f \in F : V[f] = IF f \in DOMAIN g THEN W[f] \cup {g[f]} ELSE W[f]
  PROVE  Columns(F, MergeFields(fields, g), V, default)
<1> DEFINE new == MergeFields(fields, g)
<1>1. /\ fields \in [F -> Stamped] /\ default \in [F -> Stamped] /\ \A f \in F : default[f].mod = 0
      /\ \A f \in F : W[f] \in SUBSET Stamped
      /\ \A f \in F : Newest(fields[f], Held(W[f], default[f]))
      /\ \A f \in F : fields[f].mod = 0 => fields[f] = default[f]
  BY DEF Columns
<1>2. /\ DOMAIN fields = F
      /\ new = [f \in F |-> IF f \in DOMAIN g /\ g[f].mod > fields[f].mod THEN g[f] ELSE fields[f]]
  BY <1>1 DEF MergeFields, ModifiedAfter
<1>3. \A x \in Stamped : x.mod \in Nat
  BY DEF Stamped
<1> HIDE DEF new
<1>4. ASSUME NEW f \in F
      PROVE  /\ new[f] \in Stamped /\ V[f] \in SUBSET Stamped
             /\ Newest(new[f], Held(V[f], default[f]))
             /\ new[f].mod = 0 => new[f] = default[f]
  <2>1. CASE f \in DOMAIN g
    <3>1. /\ fields[f] \in Stamped /\ g[f] \in Stamped /\ default[f] \in Stamped /\ default[f].mod = 0
          /\ W[f] \in SUBSET Stamped /\ V[f] = W[f] \cup {g[f]}
          /\ Newest(fields[f], Held(W[f], default[f]))
      BY <1>1, <2>1
    <3>2. /\ g[f].mod > fields[f].mod => Newest(g[f], Held(V[f], default[f]))
          /\ ~(g[f].mod > fields[f].mod) => Newest(fields[f], Held(V[f], default[f]))
      BY <3>1, NewestMerge
    <3>3. CASE g[f].mod > fields[f].mod
      <4>1. new[f] = g[f]
        BY <1>2, <2>1, <3>3
      <4>2. new[f].mod # 0
        BY <1>3, <3>1, <3>3, <4>1
      <4>3. QED
        BY <3>1, <3>2, <3>3, <4>1, <4>2
    <3>4. CASE ~(g[f].mod > fields[f].mod)
      <4>1. new[f] = fields[f]
        BY <1>2, <3>4
      <4>2. QED
        BY <1>1, <3>1, <3>2, <3>4, <4>1
    <3>5. QED
      BY <3>3, <3>4
  <2>2. CASE f \notin DOMAIN g
    BY <1>1, <1>2, <2>2
  <2>3. QED
    BY <2>1, <2>2
<1>5. new \in [F -> Stamped]
  BY <1>2, <1>4
<1>6. Columns(F, new, V, default)
  BY <1>1, <1>4, <1>5 DEF Columns
<1>7. QED
  BY <1>6 DEF new

(* A real-time write overwrites columns and forgets what was sent for them. *)
LEMMA ColumnsOverride ==
  ASSUME NEW F, NEW fields, NEW W, NEW default, Columns(F, fields, W, default),
         NEW g, DOMAIN g \subseteq F, \A f \in DOMAIN g : g[f] \in Stamped /\ g[f].mod # 0,
         NEW V, \A f \in F : V[f] = IF f \in DOMAIN g THEN {g[f]} ELSE W[f]
  PROVE  Columns(F, Override(fields, g), V, default)
<1> DEFINE new == Override(fields, g)
<1>1. /\ fields \in [F -> Stamped] /\ default \in [F -> Stamped] /\ \A f \in F : default[f].mod = 0
      /\ \A f \in F : W[f] \in SUBSET Stamped
      /\ \A f \in F : Newest(fields[f], Held(W[f], default[f]))
      /\ \A f \in F : fields[f].mod = 0 => fields[f] = default[f]
  BY DEF Columns
<1>2. new = [f \in F |-> IF f \in DOMAIN g THEN g[f] ELSE fields[f]]
  <2>1. DOMAIN fields = F /\ DOMAIN fields \cup DOMAIN g = F
    BY <1>1
  <2>2. QED
    BY <2>1 DEF Override
<1> HIDE DEF new
<1>3. ASSUME NEW f \in F
      PROVE  /\ new[f] \in Stamped /\ V[f] \in SUBSET Stamped
             /\ Newest(new[f], Held(V[f], default[f]))
             /\ new[f].mod = 0 => new[f] = default[f]
  <2>1. CASE f \in DOMAIN g
    <3>1. g[f] \in Stamped /\ default[f] \in Stamped /\ default[f].mod = 0 /\ V[f] = {g[f]}
      BY <1>1, <2>1
    <3>2. Newest(g[f], Held({g[f]}, default[f]))
      BY <3>1, NewestAlone
    <3>3. QED
      BY <1>2, <2>1, <3>1, <3>2
  <2>2. CASE f \notin DOMAIN g
    BY <1>1, <1>2, <2>2
  <2>3. QED
    BY <2>1, <2>2
<1>4. new \in [F -> Stamped]
  BY <1>2, <1>3
<1>5. Columns(F, new, V, default)
  BY <1>1, <1>3, <1>4 DEF Columns
<1>6. QED
  BY <1>5 DEF new

----------------------------------------------------------------------------
(* What is kept about a row of each kind. *)
EpisodeKept(data, W) ==
  \/ data = NoData /\ \A f \in EpisodeField : W[f] = {}
  \/ data \in EpisodeData /\ Columns(EpisodeField, data.fields, W, NewEpisodeFields)

Trim == [stamp : Nat \ {0}, excerpt : Excerpts \cup {NoExcerpt}]
Window(data, T, X) ==
  IF T # {}
  THEN /\ [stamp |-> data.trimModified, excerpt |-> data.excerpt] \in T
       /\ \A t \in T : t.stamp <= data.trimModified
  ELSE /\ data.trimModified = 0
       /\ data.excerpt \in IF X = {} THEN {NoExcerpt} ELSE X

NewColumns == [f \in BookmarkField |-> [val |-> 0, mod |-> 0]]
BookmarkKept(data, W, T, X) ==
  \/ /\ data = NoData /\ T = {} /\ X = {}
     /\ \A f \in BookmarkField : W[f] = {}
  \/ /\ data \in BookmarkData /\ Columns(BookmarkField, data.fields, W, NewColumns)
     /\ Window(data, T, X)

SettingKept(stored, k, C) ==
  /\ k \in DOMAIN stored <=> C # {}
  /\ k \in DOMAIN stored => stored[k] \in Stamped /\ Newest(stored[k], C)

RecordsInv ==
  /\ row \in [MergeKey -> EpisodeData \cup BookmarkData \cup {NoData}]
  /\ wrote \in [MergeKey -> [EpisodeField \cup BookmarkField -> SUBSET Stamped]]
  /\ trims \in [BookmarkKey -> SUBSET Trim] /\ fills \in [BookmarkKey -> SUBSET Excerpts]
  /\ changes \in [SettingKeys -> SUBSET Stamped]
  /\ \A k \in EpisodeKey : EpisodeKept(row[k], wrote[k])
  /\ \A k \in BookmarkKey : BookmarkKept(row[k], wrote[k], trims[k], fills[k])
  /\ \A k \in SettingKeys : SettingKept(settings, k, changes[k])

LEMMA Values == 0 \in Val /\ 1 \in Val /\ Val \subseteq Nat
BY SyncRecordsAssumption

LEMMA NewRows ==
  /\ NewEpisodeFields \in [EpisodeField -> Stamped] /\ NewColumns \in [BookmarkField -> Stamped]
  /\ \A f \in EpisodeField : NewEpisodeFields[f].mod = 0
  /\ \A f \in BookmarkField : NewColumns[f].mod = 0
<1>1. 0 \in Val /\ 1 \in Val /\ 0 \in Nat
  BY Values
<1>2. \A n \in {0, 1} : [val |-> n, mod |-> 0] \in Stamped
  BY <1>1 DEF Stamped
<1>3. \A f \in EpisodeField : (IF f = "playingStatus" THEN 1 ELSE 0) \in {0, 1}
  OBVIOUS
<1>4. QED
  BY <1>2, <1>3 DEF NewEpisodeFields, NewColumns

LEMMA NewColumnsKept ==
  ASSUME NEW F, NEW default \in [F -> Stamped], \A f \in F : default[f].mod = 0,
         NEW W, \A f \in F : W[f] = {}
  PROVE  Columns(F, default, W, default)
<1>1. \A f \in F : Newest(default[f], Held(W[f], default[f]))
  BY NewestAlone
<1>2. QED
  BY <1>1 DEF Columns

LEMMA KeyKinds ==
  /\ EpisodeKey \cap BookmarkKey = {} /\ EpisodeKey \subseteq MergeKey
  /\ BookmarkKey \subseteq MergeKey /\ MergeKey = EpisodeKey \cup BookmarkKey
BY DEF EpisodeKey, BookmarkKey, MergeKey

LEMMA NoDataIsNoRow == NoData \notin EpisodeData /\ NoData \notin BookmarkData
BY NoDataAssumption

(* A record of an episode, and a real-time write. *)
LEMMA EpisodeSent ==
  ASSUME NEW data, NEW W, EpisodeKept(data, W), NEW rec \in EpisodeRecord,
         ApplyEpisodeRecord(data, rec) # NoData,
         NEW V, \A f \in EpisodeField :
                  V[f] = IF f \in DOMAIN rec.fields THEN W[f] \cup {rec.fields[f]} ELSE W[f]
  PROVE  EpisodeKept(ApplyEpisodeRecord(data, rec), V)
         /\ ApplyEpisodeRecord(data, rec) \in EpisodeData
<1> DEFINE base == IF data = NoData THEN NewEpisodeFields ELSE data.fields
           podcast == IF rec.podcast # NoPodcast \/ data = NoData THEN rec.podcast ELSE data.podcast
           new == MergeFields(base, rec.fields)
<1>1. ApplyEpisodeRecord(data, rec) = [podcast |-> podcast, fields |-> new] /\ podcast # NoPodcast
  BY DEF ApplyEpisodeRecord, Storable
<1>2. podcast \in Podcasts
  BY <1>1 DEF EpisodeRecord, EpisodeKept, EpisodeData
<1>3. Columns(EpisodeField, base, W, NewEpisodeFields)
  BY NewRows, NewColumnsKept, NoDataIsNoRow DEF EpisodeKept
<1>4. DOMAIN rec.fields \subseteq EpisodeField /\ \A f \in DOMAIN rec.fields : rec.fields[f] \in Stamped
  <2>1. rec.fields \in Partial(EpisodeField \cap SentFields, [val : Val, mod : Stamp])
    BY DEF EpisodeRecord
  <2>2. QED
    BY <2>1, PartialWrites
<1> HIDE DEF base, podcast
<1>5. Columns(EpisodeField, new, V, NewEpisodeFields)
  BY <1>3, <1>4, ColumnsMerge
<1>6. new \in [EpisodeField -> Stamped]
  BY <1>5 DEF Columns
<1> HIDE DEF new
<1>7. [podcast |-> podcast, fields |-> new] \in EpisodeData
  BY <1>2, <1>6 DEF EpisodeData
<1>8. QED
  BY <1>1, <1>5, <1>7 DEF EpisodeKept

LEMMA EpisodeWritten ==
  ASSUME NEW data, NEW W, EpisodeKept(data, W), NEW podcast \in Podcasts \cup {NoPodcast},
         NEW vals \in Partial(EpisodeField, Val), NEW t \in Tokens,
         WriteEpisodeFields(data, podcast, vals, t) # NoData,
         NEW V, \A f \in EpisodeField :
                  V[f] = IF f \in DOMAIN vals THEN {[val |-> vals[f], mod |-> t]} ELSE W[f]
  PROVE  EpisodeKept(WriteEpisodeFields(data, podcast, vals, t), V)
         /\ WriteEpisodeFields(data, podcast, vals, t) \in EpisodeData
<1> DEFINE from == IF data = NoData THEN NewEpisodeFields ELSE data.fields
           place == IF podcast # NoPodcast \/ data = NoData THEN podcast ELSE data.podcast
           stamps == [f \in DOMAIN vals |-> [val |-> vals[f], mod |-> t]]
           base == ApplyEpisodeRecord(data, [podcast |-> podcast, fields |-> EmptyFn])
           new == Override(from, stamps)
<1>1. Columns(EpisodeField, from, W, NewEpisodeFields)
  BY NewRows, NewColumnsKept, NoDataIsNoRow DEF EpisodeKept
<1>2. MergeFields(from, EmptyFn) = from
  <2>1. from \in [EpisodeField -> Stamped]
    BY <1>1 DEF Columns
  <2> HIDE DEF from
  <2>2. QED
    BY <2>1 DEF MergeFields, EmptyFn
<1>3. base = IF place # NoPodcast THEN [podcast |-> place, fields |-> from] ELSE NoData
  BY <1>2 DEF ApplyEpisodeRecord, Storable
<1>4. /\ base # NoData
      /\ WriteEpisodeFields(data, podcast, vals, t)
           = [podcast |-> base.podcast, fields |-> Override(base.fields, stamps)]
  BY DEF WriteEpisodeFields
<1>5. place # NoPodcast /\ WriteEpisodeFields(data, podcast, vals, t) = [podcast |-> place, fields |-> new]
  BY <1>3, <1>4
<1>6. place \in Podcasts
  BY <1>5 DEF EpisodeKept, EpisodeData
<1>7. /\ DOMAIN stamps \subseteq EpisodeField /\ DOMAIN stamps = DOMAIN vals
      /\ \A f \in DOMAIN stamps : stamps[f] \in Stamped /\ stamps[f].mod # 0
      /\ \A f \in EpisodeField : V[f] = IF f \in DOMAIN stamps THEN {stamps[f]} ELSE W[f]
  <2>1. PICK D \in SUBSET EpisodeField : vals \in [D -> Val]
    BY DEF Partial
  <2>2. t \in Nat /\ t # 0
    BY SyncMergeAssumption
  <2>3. QED
    BY <2>1, <2>2 DEF Stamped
<1> HIDE DEF from, place, stamps, base
<1>8. Columns(EpisodeField, new, V, NewEpisodeFields)
  BY <1>1, <1>7, ColumnsOverride
<1>9. new \in [EpisodeField -> Stamped]
  BY <1>8 DEF Columns
<1> HIDE DEF new
<1>10. [podcast |-> place, fields |-> new] \in EpisodeData
  BY <1>6, <1>9 DEF EpisodeData
<1>11. QED
  BY <1>5, <1>8, <1>10 DEF EpisodeKept

(* A record of a bookmark: its columns, and the highlight window. *)
LEMMA WindowSent ==
  ASSUME NEW base, base.trimModified \in Nat, base.excerpt \in Excerpts \cup {NoExcerpt},
         NEW T \in SUBSET Trim, NEW X \in SUBSET Excerpts, Window(base, T, X),
         NEW rec \in BookmarkRecord, NEW new,
         LET trims_ == rec.trim # NoStamp /\ ModifiedAfter(rec.trim, base.trimModified)
         IN /\ new.excerpt = (IF trims_ \/ Fills(base, rec) THEN rec.excerpt ELSE base.excerpt)
            /\ new.trimModified = (IF trims_ THEN rec.trim ELSE base.trimModified)
  PROVE  /\ new.trimModified \in Nat /\ new.excerpt \in Excerpts \cup {NoExcerpt}
         /\ Window(new,
              IF rec.trim # NoStamp /\ rec.trim > 0
              THEN T \cup {[stamp |-> rec.trim, excerpt |-> rec.excerpt]} ELSE T,
              IF rec.trim = NoStamp THEN X \cup ({rec.excerpt} \ {NoExcerpt}) ELSE X)
<1>1. /\ rec.excerpt \in Excerpts \cup {NoExcerpt} /\ NoExcerpt \notin Excerpts
      /\ (rec.trim \in Nat \/ rec.trim = NoStamp) /\ NoStamp \notin Nat
  BY SyncRecordsAssumption DEF BookmarkRecord
<1>2. \A t \in T : t.stamp \in Nat /\ t.stamp # 0
  BY DEF Trim
<1>3. CASE rec.trim = NoStamp
  <2>1. /\ new.trimModified = base.trimModified
        /\ new.excerpt = IF Fills(base, rec) THEN rec.excerpt ELSE base.excerpt
    BY <1>3
  <2>2. CASE T # {}
    <3>1. base.trimModified # 0
      BY <1>2, <2>2 DEF Window, Trim
    <3>2. new.excerpt = base.excerpt
      BY <2>1, <3>1 DEF Fills
    <3>3. QED
      BY <1>3, <2>1, <2>2, <3>2 DEF Window
  <2>3. CASE T = {}
    <3>1. base.trimModified = 0 /\ base.excerpt \in (IF X = {} THEN {NoExcerpt} ELSE X)
      BY <2>3 DEF Window
    <3>2. new.excerpt = IF base.excerpt = NoExcerpt /\ rec.excerpt # NoExcerpt
                        THEN rec.excerpt ELSE base.excerpt
      BY <1>3, <2>1, <3>1 DEF Fills
    <3>3. QED
      BY <1>1, <1>3, <2>1, <2>3, <3>1, <3>2 DEF Window
  <2>4. QED
    BY <2>2, <2>3
<1>4. CASE rec.trim \in Nat
  <2>1. /\ new.excerpt = (IF rec.trim > base.trimModified THEN rec.excerpt ELSE base.excerpt)
        /\ new.trimModified = (IF rec.trim > base.trimModified THEN rec.trim ELSE base.trimModified)
    BY <1>1, <1>4 DEF ModifiedAfter, Fills
  <2>2. CASE rec.trim > 0
    <3> DEFINE U == T \cup {[stamp |-> rec.trim, excerpt |-> rec.excerpt]}
    <3>1. Window(new, U, X)
      <4>1. CASE rec.trim > base.trimModified
        <5>1. \A t \in T : t.stamp <= base.trimModified
          BY DEF Window
        <5>2. \A t \in U : t.stamp <= rec.trim
          BY <1>2, <1>4, <4>1, <5>1
        <5>3. QED
          BY <2>1, <4>1, <5>2 DEF Window
      <4>2. CASE ~(rec.trim > base.trimModified)
        <5>1. T # {}
          BY <2>2, <4>2 DEF Window
        <5>2. /\ [stamp |-> base.trimModified, excerpt |-> base.excerpt] \in T
              /\ \A t \in T : t.stamp <= base.trimModified
          BY <5>1 DEF Window
        <5>3. \A t \in U : t.stamp <= base.trimModified
          BY <1>4, <4>2, <5>2
        <5>4. QED
          BY <2>1, <4>2, <5>2, <5>3 DEF Window
      <4>3. QED
        BY <4>1, <4>2
    <3>2. QED
      BY <1>1, <1>4, <2>1, <2>2, <3>1
  <2>3. CASE ~(rec.trim > 0)
    <3>1. new.excerpt = base.excerpt /\ new.trimModified = base.trimModified
      BY <1>4, <2>1, <2>3
    <3>2. QED
      BY <1>1, <1>4, <2>3, <3>1 DEF Window
  <2>4. QED
    BY <2>2, <2>3
<1>5. QED
  BY <1>1, <1>3, <1>4

LEMMA BookmarkSent ==
  ASSUME NEW data, NEW W, NEW T \in SUBSET Trim, NEW X \in SUBSET Excerpts,
         BookmarkKept(data, W, T, X), NEW rec \in BookmarkRecord,
         NEW V, \A f \in BookmarkField :
                  V[f] = IF f \in DOMAIN rec.fields THEN W[f] \cup {rec.fields[f]} ELSE W[f]
  PROVE  /\ ApplyBookmarkRecord(data, rec) \in BookmarkData
         /\ BookmarkKept(ApplyBookmarkRecord(data, rec), V,
              IF rec.trim # NoStamp /\ rec.trim > 0
              THEN T \cup {[stamp |-> rec.trim, excerpt |-> rec.excerpt]} ELSE T,
              IF rec.trim = NoStamp THEN X \cup ({rec.excerpt} \ {NoExcerpt}) ELSE X)
<1> DEFINE base == IF data = NoData THEN NewBookmark(rec.home) ELSE data
           trimmed == rec.trim # NoStamp /\ ModifiedAfter(rec.trim, base.trimModified)
           fields == MergeFields(base.fields, rec.fields)
           excerpt == IF trimmed \/ Fills(base, rec) THEN rec.excerpt ELSE base.excerpt
           stamp == IF trimmed THEN rec.trim ELSE base.trimModified
           new == [home |-> base.home, fields |-> fields, excerpt |-> excerpt, trimModified |-> stamp]
<1>1. ApplyBookmarkRecord(data, rec) = new
  BY DEF ApplyBookmarkRecord
<1>2. /\ base.home \in Val /\ base.trimModified \in Nat /\ base.excerpt \in Excerpts \cup {NoExcerpt}
      /\ Columns(BookmarkField, base.fields, W, NewColumns) /\ Window(base, T, X)
  <2>1. CASE data = NoData
    <3>1. base = [home |-> rec.home, fields |-> NewColumns, excerpt |-> NoExcerpt,
                  trimModified |-> 0]
      BY <2>1 DEF NewBookmark, NewColumns
    <3>2. T = {} /\ X = {} /\ \A f \in BookmarkField : W[f] = {}
      BY <2>1, NoDataIsNoRow DEF BookmarkKept
    <3>3. Columns(BookmarkField, NewColumns, W, NewColumns)
      BY <3>2, NewRows, NewColumnsKept
    <3>4. rec.home \in Val
      BY DEF BookmarkRecord
    <3>5. /\ base.home = rec.home /\ base.fields = NewColumns /\ base.excerpt = NoExcerpt
          /\ base.trimModified = 0
      BY <3>1
    <3> HIDE DEF base
    <3>6. Window(base, T, X)
      BY <3>2, <3>5 DEF Window
    <3>7. QED
      BY <3>3, <3>4, <3>5, <3>6
  <2>2. CASE data # NoData
    BY <2>2 DEF BookmarkKept, BookmarkData
  <2>3. QED
    BY <2>1, <2>2
<1>3. DOMAIN rec.fields \subseteq BookmarkField /\ \A f \in DOMAIN rec.fields : rec.fields[f] \in Stamped
  <2>1. rec.fields \in Partial(BookmarkField \cap SentFields, [val : Val, mod : Stamp])
    BY DEF BookmarkRecord
  <2>2. QED
    BY <2>1, PartialWrites
<1>4. /\ new.home = base.home /\ new.fields = fields /\ new.excerpt = excerpt
      /\ new.trimModified = stamp
  OBVIOUS
<1> HIDE DEF base
<1>5. Columns(BookmarkField, fields, V, NewColumns)
  BY <1>2, <1>3, ColumnsMerge
<1>6. fields \in [BookmarkField -> Stamped]
  BY <1>5 DEF Columns
<1> DEFINE Trims == IF rec.trim # NoStamp /\ rec.trim > 0
                    THEN T \cup {[stamp |-> rec.trim, excerpt |-> rec.excerpt]} ELSE T
           Filled == IF rec.trim = NoStamp THEN X \cup ({rec.excerpt} \ {NoExcerpt}) ELSE X
<1>7. /\ new.trimModified \in Nat /\ new.excerpt \in Excerpts \cup {NoExcerpt}
      /\ Window(new, Trims, Filled)
  <2> HIDE DEF new
  <2>1. LET trims_ == rec.trim # NoStamp /\ ModifiedAfter(rec.trim, base.trimModified)
        IN /\ new.excerpt = (IF trims_ \/ Fills(base, rec) THEN rec.excerpt ELSE base.excerpt)
           /\ new.trimModified = (IF trims_ THEN rec.trim ELSE base.trimModified)
    BY <1>4
  <2> HIDE DEF trimmed, excerpt, stamp, fields
  <2>2. QED
    BY <1>2, <2>1, WindowSent
<1>8. excerpt \in Excerpts \cup {NoExcerpt} /\ stamp \in Nat
  BY <1>4, <1>7
<1> HIDE DEF fields, excerpt, stamp, Trims, Filled
<1>9. new \in BookmarkData
  BY <1>2, <1>6, <1>8 DEF BookmarkData
<1> HIDE DEF new
<1>10. BookmarkKept(new, V, Trims, Filled)
  BY <1>4, <1>5, <1>7, <1>9 DEF BookmarkKept
<1>11. QED
  BY <1>1, <1>9, <1>10 DEF Trims, Filled

(* A change of settings, per key: those with stamps are merged, bare ones
   overwrite with the token. *)
LEMMA SettingsSent ==
  ASSUME NEW k \in SettingKeys, NEW C \in SUBSET Stamped, NEW stored, SettingKept(stored, k, C),
         NEW changed \in Partial(SettingKeys, [val : Val, mod : Stamp]),
         NEW legacy \in Partial(SettingKeys, Val), NEW t \in Tokens
  PROVE  LET D == IF k \in DOMAIN legacy THEN {[val |-> legacy[k], mod |-> t]}
                  ELSE IF k \in DOMAIN changed THEN C \cup {changed[k]} ELSE C
         IN /\ D \in SUBSET Stamped
            /\ SettingKept(ApplyLegacySettings(MergeSettings(stored, changed), legacy, t), k, D)
<1> DEFINE merged == MergeSettings(stored, changed)
           bare == [x \in DOMAIN legacy |-> [val |-> legacy[x], mod |-> t]]
           new == Override(merged, bare)
           D == IF k \in DOMAIN legacy THEN {[val |-> legacy[k], mod |-> t]}
                ELSE IF k \in DOMAIN changed THEN C \cup {changed[k]} ELSE C
<1>1. ApplyLegacySettings(MergeSettings(stored, changed), legacy, t) = new
  BY DEF ApplyLegacySettings
<1>2. k \in DOMAIN changed => changed[k] \in Stamped
  BY PartialWrites
<1>3. k \in DOMAIN legacy => [val |-> legacy[k], mod |-> t] \in Stamped
  <2>1. PICK E \in SUBSET SettingKeys : legacy \in [E -> Val]
    BY DEF Partial
  <2>2. t \in Nat
    BY SyncMergeAssumption
  <2>3. QED
    BY <2>1, <2>2 DEF Stamped
<1>4. /\ (k \in DOMAIN new) <=> (k \in DOMAIN merged \/ k \in DOMAIN legacy)
      /\ k \in DOMAIN legacy => new[k] = [val |-> legacy[k], mod |-> t]
      /\ k \notin DOMAIN legacy /\ k \in DOMAIN merged => new[k] = merged[k]
  BY DEF Override
<1>5. /\ (k \in DOMAIN merged) <=> (k \in DOMAIN stored \/ k \in DOMAIN changed)
      /\ k \in DOMAIN changed /\ k \notin DOMAIN stored => merged[k] = changed[k]
      /\ k \in DOMAIN changed /\ k \in DOMAIN stored =>
           merged[k] = IF changed[k].mod > stored[k].mod THEN changed[k] ELSE stored[k]
      /\ k \notin DOMAIN changed /\ k \in DOMAIN stored => merged[k] = stored[k]
  BY DEF MergeSettings
<1> HIDE DEF merged, bare, new
<1>6. \A x \in Stamped : x.mod \in Nat
  BY DEF Stamped
<1>7. CASE k \in DOMAIN legacy
  <2> DEFINE w == [val |-> legacy[k], mod |-> t]
  <2>1. w \in Stamped /\ new[k] = w /\ D = {w} /\ k \in DOMAIN new
    BY <1>3, <1>4, <1>7
  <2> HIDE DEF w, D
  <2>2. w.mod \in Nat
    BY <1>6, <2>1
  <2>3. Newest(new[k], D)
    BY <2>1, <2>2 DEF Newest
  <2>4. D \in SUBSET Stamped /\ SettingKept(new, k, D)
    BY <2>1, <2>3 DEF SettingKept
  <2>5. QED
    BY <1>1, <2>4 DEF D
<1>8. CASE k \notin DOMAIN legacy /\ k \in DOMAIN changed
  <2>1. changed[k] \in Stamped /\ D = C \cup {changed[k]} /\ k \in DOMAIN new /\ new[k] = merged[k]
    BY <1>2, <1>4, <1>5, <1>8
  <2>2. CASE k \in DOMAIN stored
    <3>1. stored[k] \in Stamped /\ stored[k] \in C /\ \A x \in C : x.mod <= stored[k].mod
      BY <2>2 DEF SettingKept, Newest
    <3>2. CASE changed[k].mod > stored[k].mod
      <4>1. new[k] = changed[k]
        BY <1>5, <1>8, <2>1, <2>2, <3>2
      <4>2. \A x \in D : x.mod <= changed[k].mod
        BY <1>6, <2>1, <3>1, <3>2
      <4>3. QED
        BY <1>1, <2>1, <4>1, <4>2 DEF SettingKept, Newest
    <3>3. CASE ~(changed[k].mod > stored[k].mod)
      <4>1. new[k] = stored[k]
        BY <1>5, <1>8, <2>1, <2>2, <3>3
      <4>2. \A x \in D : x.mod <= stored[k].mod
        BY <1>6, <2>1, <3>1, <3>3
      <4>3. QED
        BY <1>1, <2>1, <3>1, <4>1, <4>2 DEF SettingKept, Newest
    <3>4. QED
      BY <3>2, <3>3
  <2>3. CASE k \notin DOMAIN stored
    <3>1. C = {}
      BY <2>3 DEF SettingKept
    <3>2. new[k] = changed[k] /\ D = {changed[k]}
      BY <1>5, <1>8, <2>1, <2>3, <3>1
    <3>3. QED
      BY <1>1, <1>6, <2>1, <3>2 DEF SettingKept, Newest
  <2>4. QED
    BY <2>2, <2>3
<1>9. CASE k \notin DOMAIN legacy /\ k \notin DOMAIN changed
  BY <1>1, <1>4, <1>5, <1>9 DEF SettingKept
<1>10. QED
  BY <1>1, <1>7, <1>8, <1>9

----------------------------------------------------------------------------
LEMMA RecordsInitInv == Init => RecordsInv
<1> SUFFICES ASSUME Init PROVE RecordsInv
  OBVIOUS
<1>1. \A k \in MergeKey : row[k] = NoData /\ \A f \in EpisodeField \cup BookmarkField : wrote[k][f] = {}
  BY DEF Init
<1>2. \A k \in EpisodeKey : EpisodeKept(row[k], wrote[k])
  BY <1>1, KeyKinds DEF EpisodeKept
<1>3. \A k \in BookmarkKey : trims[k] = {} /\ fills[k] = {}
  BY DEF Init
<1>4. \A k \in BookmarkKey : BookmarkKept(row[k], wrote[k], trims[k], fills[k])
  BY <1>1, <1>3, KeyKinds DEF BookmarkKept
<1>5. \A k \in SettingKeys : SettingKept(settings, k, changes[k])
  BY DEF Init, SettingKept, EmptyFn
<1>6. /\ row \in [MergeKey -> EpisodeData \cup BookmarkData \cup {NoData}]
      /\ wrote \in [MergeKey -> [EpisodeField \cup BookmarkField -> SUBSET Stamped]]
      /\ trims \in [BookmarkKey -> SUBSET Trim] /\ fills \in [BookmarkKey -> SUBSET Excerpts]
      /\ changes \in [SettingKeys -> SUBSET Stamped]
  BY DEF Init
<1>7. QED
  BY <1>2, <1>4, <1>5, <1>6 DEF RecordsInv

(* Both kinds of step on an episode change its row and its history alike. *)
LEMMA EpisodeStep ==
  ASSUME RecordsInv, NEW k \in EpisodeKey, NEW new \in EpisodeData,
         NEW V \in [EpisodeField \cup BookmarkField -> SUBSET Stamped], EpisodeKept(new, V),
         row' = [row EXCEPT ![k] = new], wrote' = [wrote EXCEPT ![k] = V],
         UNCHANGED <<settings, trims, fills, changes>>
  PROVE  RecordsInv'
<1>1. /\ row' \in [MergeKey -> EpisodeData \cup BookmarkData \cup {NoData}]
      /\ wrote' \in [MergeKey -> [EpisodeField \cup BookmarkField -> SUBSET Stamped]]
      /\ row'[k] = new /\ wrote'[k] = V
      /\ \A j \in MergeKey \ {k} : row'[j] = row[j] /\ wrote'[j] = wrote[j]
  BY KeyKinds DEF RecordsInv
<1>2. \A j \in EpisodeKey : EpisodeKept(row'[j], wrote'[j])
  BY <1>1, KeyKinds DEF RecordsInv
<1>3. \A j \in BookmarkKey : BookmarkKept(row'[j], wrote'[j], trims'[j], fills'[j])
  BY <1>1, KeyKinds DEF RecordsInv
<1>4. QED
  BY <1>1, <1>2, <1>3 DEF RecordsInv

LEMMA SendEpisodeKept ==
  ASSUME RecordsInv, NEW rec \in EpisodeRecord, SendEpisode(rec)
  PROVE  RecordsInv'
<1> DEFINE k == rec.key
           new == ApplyEpisodeRecord(row[k], rec)
           V == [f \in EpisodeField \cup BookmarkField |->
                  IF f \in DOMAIN rec.fields THEN wrote[k][f] \cup {rec.fields[f]} ELSE wrote[k][f]]
<1>1. k \in EpisodeKey /\ k \in MergeKey
  BY KeyKinds DEF EpisodeRecord
<1>2. wrote[k] \in [EpisodeField \cup BookmarkField -> SUBSET Stamped] /\ EpisodeKept(row[k], wrote[k])
  BY <1>1 DEF RecordsInv
<1>3. /\ new # NoData /\ row' = [row EXCEPT ![k] = new]
      /\ UNCHANGED <<settings, trims, fills, changes>>
  BY DEF SendEpisode
<1>4. wrote' = [wrote EXCEPT ![k] = V]
  <2>1. wrote' = [wrote EXCEPT ![k] = [f \in DOMAIN wrote[k] |->
          IF f \in DOMAIN rec.fields THEN wrote[k][f] \cup {rec.fields[f]} ELSE wrote[k][f]]]
    BY <1>1 DEF SendEpisode, Remember, RecordsInv
  <2>2. DOMAIN wrote[k] = EpisodeField \cup BookmarkField
    BY <1>2
  <2>3. QED
    BY <2>1, <2>2
<1>5. \A f \in DOMAIN rec.fields : rec.fields[f] \in Stamped
  <2>1. rec.fields \in Partial(EpisodeField \cap SentFields, [val : Val, mod : Stamp])
    BY DEF EpisodeRecord
  <2>2. QED
    BY <2>1, PartialWrites
<1>6. V \in [EpisodeField \cup BookmarkField -> SUBSET Stamped]
  BY <1>2, <1>5
<1>7. \A f \in EpisodeField :
        V[f] = IF f \in DOMAIN rec.fields THEN wrote[k][f] \cup {rec.fields[f]} ELSE wrote[k][f]
  OBVIOUS
<1> HIDE DEF k, V
<1>8. EpisodeKept(new, V) /\ new \in EpisodeData
  BY <1>2, <1>3, <1>7, EpisodeSent
<1> HIDE DEF new
<1>9. QED
  BY <1>1, <1>3, <1>4, <1>6, <1>8, EpisodeStep

LEMMA RealtimeKept ==
  ASSUME RecordsInv, NEW k \in EpisodeKey, NEW p \in Podcasts \cup {NoPodcast}, NEW t \in Tokens,
         NEW vals \in Partial(RealtimeFields, Val), Realtime(k, p, vals, t)
  PROVE  RecordsInv'
<1> DEFINE new == WriteEpisodeFields(row[k], p, vals, t)
           V == [f \in EpisodeField \cup BookmarkField |->
                  IF f \in DOMAIN vals THEN {[val |-> vals[f], mod |-> t]} ELSE wrote[k][f]]
<1>1. k \in MergeKey
  BY KeyKinds
<1>2. wrote[k] \in [EpisodeField \cup BookmarkField -> SUBSET Stamped] /\ EpisodeKept(row[k], wrote[k])
  BY <1>1 DEF RecordsInv
<1>3. /\ new # NoData /\ row' = [row EXCEPT ![k] = new]
      /\ UNCHANGED <<settings, trims, fills, changes>>
  BY DEF Realtime
<1>4. wrote' = [wrote EXCEPT ![k] = V]
  <2>1. wrote' = [wrote EXCEPT ![k] = [f \in DOMAIN wrote[k] |->
          IF f \in DOMAIN vals THEN {[val |-> vals[f], mod |-> t]} ELSE wrote[k][f]]]
    BY <1>1 DEF Realtime, RecordsInv
  <2>2. DOMAIN wrote[k] = EpisodeField \cup BookmarkField
    BY <1>2
  <2>3. QED
    BY <2>1, <2>2
<1>5. PICK D \in SUBSET RealtimeFields : vals \in [D -> Val]
  BY DEF Partial
<1>6. vals \in Partial(EpisodeField, Val)
  <2>1. D \in SUBSET EpisodeField
    BY DEF RealtimeFields, EpisodeField
  <2>2. QED
    BY <1>5, <2>1 DEF Partial
<1>7. V \in [EpisodeField \cup BookmarkField -> SUBSET Stamped]
  <2>1. t \in Nat
    BY SyncMergeAssumption
  <2>2. \A f \in DOMAIN vals : [val |-> vals[f], mod |-> t] \in Stamped
    BY <1>5, <2>1 DEF Stamped
  <2>3. QED
    BY <1>2, <2>2
<1>8. \A f \in EpisodeField :
        V[f] = IF f \in DOMAIN vals THEN {[val |-> vals[f], mod |-> t]} ELSE wrote[k][f]
  OBVIOUS
<1> HIDE DEF V
<1>9. EpisodeKept(new, V) /\ new \in EpisodeData
  BY <1>2, <1>3, <1>6, <1>8, EpisodeWritten
<1> HIDE DEF new
<1>10. QED
  BY <1>3, <1>4, <1>7, <1>9, EpisodeStep

LEMMA SendBookmarkKept ==
  ASSUME RecordsInv, NEW rec \in BookmarkRecord, SendBookmark(rec)
  PROVE  RecordsInv'
<1> DEFINE k == rec.key
           new == ApplyBookmarkRecord(row[k], rec)
           V == [f \in EpisodeField \cup BookmarkField |->
                  IF f \in DOMAIN rec.fields THEN wrote[k][f] \cup {rec.fields[f]} ELSE wrote[k][f]]
           T == IF rec.trim # NoStamp /\ rec.trim > 0
                THEN trims[k] \cup {[stamp |-> rec.trim, excerpt |-> rec.excerpt]} ELSE trims[k]
           X == IF rec.trim = NoStamp THEN fills[k] \cup ({rec.excerpt} \ {NoExcerpt}) ELSE fills[k]
<1>1. k \in BookmarkKey /\ k \in MergeKey
  BY KeyKinds DEF BookmarkRecord
<1>2. /\ wrote[k] \in [EpisodeField \cup BookmarkField -> SUBSET Stamped]
      /\ trims[k] \in SUBSET Trim /\ fills[k] \in SUBSET Excerpts
      /\ BookmarkKept(row[k], wrote[k], trims[k], fills[k])
  BY <1>1 DEF RecordsInv
<1>3. /\ row' = [row EXCEPT ![k] = new]
      /\ trims' = [trims EXCEPT ![k] = T] /\ fills' = [fills EXCEPT ![k] = X]
      /\ UNCHANGED <<settings, changes>>
  BY <1>1 DEF SendBookmark, RecordsInv
<1>4. wrote' = [wrote EXCEPT ![k] = V]
  <2>1. wrote' = [wrote EXCEPT ![k] = [f \in DOMAIN wrote[k] |->
          IF f \in DOMAIN rec.fields THEN wrote[k][f] \cup {rec.fields[f]} ELSE wrote[k][f]]]
    BY <1>1 DEF SendBookmark, Remember, RecordsInv
  <2>2. DOMAIN wrote[k] = EpisodeField \cup BookmarkField
    BY <1>2
  <2>3. QED
    BY <2>1, <2>2
<1>5. \A f \in DOMAIN rec.fields : rec.fields[f] \in Stamped
  <2>1. rec.fields \in Partial(BookmarkField \cap SentFields, [val : Val, mod : Stamp])
    BY DEF BookmarkRecord
  <2>2. QED
    BY <2>1, PartialWrites
<1>6. V \in [EpisodeField \cup BookmarkField -> SUBSET Stamped]
  BY <1>2, <1>5
<1>7. T \in SUBSET Trim /\ X \in SUBSET Excerpts
  <2>1. rec.excerpt \in Excerpts \cup {NoExcerpt} /\ (rec.trim \in Nat \/ rec.trim = NoStamp)
    BY SyncRecordsAssumption DEF BookmarkRecord
  <2>2. QED
    BY <1>2, <2>1 DEF Trim
<1>8. \A f \in BookmarkField :
        V[f] = IF f \in DOMAIN rec.fields THEN wrote[k][f] \cup {rec.fields[f]} ELSE wrote[k][f]
  OBVIOUS
<1> HIDE DEF k, V
<1>9. new \in BookmarkData /\ BookmarkKept(new, V, T, X)
  BY <1>2, <1>8, BookmarkSent
<1> HIDE DEF new, T, X
<1>10. /\ row' \in [MergeKey -> EpisodeData \cup BookmarkData \cup {NoData}]
       /\ wrote' \in [MergeKey -> [EpisodeField \cup BookmarkField -> SUBSET Stamped]]
       /\ trims' \in [BookmarkKey -> SUBSET Trim] /\ fills' \in [BookmarkKey -> SUBSET Excerpts]
       /\ row'[k] = new /\ wrote'[k] = V /\ trims'[k] = T /\ fills'[k] = X
       /\ \A j \in MergeKey \ {k} : row'[j] = row[j] /\ wrote'[j] = wrote[j]
       /\ \A j \in BookmarkKey \ {k} : trims'[j] = trims[j] /\ fills'[j] = fills[j]
  BY <1>1, <1>3, <1>4, <1>6, <1>7, <1>9 DEF RecordsInv
<1>11. \A j \in BookmarkKey : BookmarkKept(row'[j], wrote'[j], trims'[j], fills'[j])
  BY <1>9, <1>10, KeyKinds DEF RecordsInv
<1>12. \A j \in EpisodeKey : EpisodeKept(row'[j], wrote'[j])
  BY <1>1, <1>10, KeyKinds DEF RecordsInv
<1>13. QED
  BY <1>3, <1>10, <1>11, <1>12 DEF RecordsInv

LEMMA SendSettingsKept ==
  ASSUME RecordsInv, NEW changed \in Partial(SettingKeys, [val : Val, mod : Stamp]),
         NEW legacy \in Partial(SettingKeys, Val), NEW t \in Tokens,
         SendSettings(changed, legacy, t)
  PROVE  RecordsInv'
<1>1. /\ settings' = ApplyLegacySettings(MergeSettings(settings, changed), legacy, t)
      /\ UNCHANGED <<row, wrote, trims, fills>>
      /\ changes' = [k \in SettingKeys |->
           IF k \in DOMAIN legacy THEN {[val |-> legacy[k], mod |-> t]}
           ELSE IF k \in DOMAIN changed THEN changes[k] \cup {changed[k]} ELSE changes[k]]
  BY DEF SendSettings
<1>2. ASSUME NEW k \in SettingKeys
      PROVE  changes'[k] \in SUBSET Stamped /\ SettingKept(settings', k, changes'[k])
  <2>1. changes[k] \in SUBSET Stamped /\ SettingKept(settings, k, changes[k])
    BY DEF RecordsInv
  <2>2. changes'[k] = IF k \in DOMAIN legacy THEN {[val |-> legacy[k], mod |-> t]}
                      ELSE IF k \in DOMAIN changed THEN changes[k] \cup {changed[k]} ELSE changes[k]
    BY <1>1
  <2> DEFINE old == settings
             C == changes[k]
             D == IF k \in DOMAIN legacy THEN {[val |-> legacy[k], mod |-> t]}
                  ELSE IF k \in DOMAIN changed THEN C \cup {changed[k]} ELSE C
  <2>3. C \in SUBSET Stamped /\ SettingKept(old, k, C) /\ changes'[k] = D
    BY <2>1, <2>2
  <2>4. settings' = ApplyLegacySettings(MergeSettings(old, changed), legacy, t)
    BY <1>1
  <2> HIDE DEF old, C
  <2>5. /\ D \in SUBSET Stamped
        /\ SettingKept(ApplyLegacySettings(MergeSettings(old, changed), legacy, t), k, D)
    BY <2>3, SettingsSent
  <2> HIDE DEF D
  <2>6. QED
    BY <2>3, <2>4, <2>5
<1>3. changes' \in [SettingKeys -> SUBSET Stamped]
  BY <1>1, <1>2
<1>4. QED
  BY <1>1, <1>2, <1>3 DEF RecordsInv

LEMMA RecordsStepInv == RecordsInv /\ [Next]_vars => RecordsInv'
<1> SUFFICES ASSUME RecordsInv, [Next]_vars PROVE RecordsInv'
  OBVIOUS
<1>1. CASE \E rec \in EpisodeRecord : SendEpisode(rec)
  BY <1>1, SendEpisodeKept
<1>2. CASE \E rec \in BookmarkRecord : SendBookmark(rec)
  BY <1>2, SendBookmarkKept
<1>3. CASE \E k \in EpisodeKey, p \in Podcasts \cup {NoPodcast}, t \in Tokens,
             vals \in Partial(RealtimeFields, Val) : Realtime(k, p, vals, t)
  BY <1>3, RealtimeKept
<1>4. CASE \E changed \in Partial(SettingKeys, [val : Val, mod : Stamp]),
             legacy \in Partial(SettingKeys, Val), t \in Tokens :
             SendSettings(changed, legacy, t)
  BY <1>4, SendSettingsKept
<1>5. CASE UNCHANGED vars
  BY <1>5 DEF vars, RecordsInv
<1>6. QED
  BY <1>1, <1>2, <1>3, <1>4, <1>5 DEF Next

(* The invariant says what is promised of each row. *)
LEMMA KeptIsNewest == RecordsInv => NewestWins
<1> SUFFICES ASSUME RecordsInv PROVE NewestWins
  OBVIOUS
<1>1. ASSUME NEW k \in MergeKey, row[k] # NoData, NEW f \in DOMAIN row[k].fields
      PROVE  Newest(row[k].fields[f], Candidates(k, f, Default(k, f)))
  <2>1. Candidates(k, f, Default(k, f)) = Held(wrote[k][f], Default(k, f))
    BY DEF Candidates, Held
  <2>2. CASE k \in EpisodeKey
    <3>1. row[k] \in EpisodeData /\ Columns(EpisodeField, row[k].fields, wrote[k], NewEpisodeFields)
      BY <1>1, <2>2 DEF RecordsInv, EpisodeKept
    <3>2. f \in EpisodeField /\ Default(k, f) = NewEpisodeFields[f]
      BY <1>1, <2>2, <3>1 DEF Columns, Default
    <3>3. QED
      BY <2>1, <3>1, <3>2 DEF Columns
  <2>3. CASE k \in BookmarkKey
    <3>1. Columns(BookmarkField, row[k].fields, wrote[k], NewColumns)
      BY <1>1, <2>3 DEF RecordsInv, BookmarkKept
    <3>2. f \in BookmarkField
      BY <1>1, <3>1 DEF Columns
    <3>3. Default(k, f) = NewColumns[f]
      BY <2>3, <3>2, KeyKinds DEF Default, NewBookmark, NewColumns
    <3>4. QED
      BY <2>1, <3>1, <3>2, <3>3 DEF Columns
  <2>4. QED
    BY <2>2, <2>3, KeyKinds
<1>2. ColumnNewestWins
  BY <1>1 DEF ColumnNewestWins
<1>3. SettingNewestWins
  BY DEF SettingNewestWins, RecordsInv, SettingKept
<1>4. \A k \in BookmarkKey : row[k] # NoData => Window(row[k], trims[k], fills[k])
  BY DEF RecordsInv, BookmarkKept
<1>5. TrimBeatsEnrichment
  BY <1>4 DEF TrimBeatsEnrichment, Window
<1>6. QED
  BY <1>2, <1>3, <1>5 DEF NewestWins

(* Columns that carry all their stamped values are merged back to themselves. *)
LEMMA ColumnsEchoed ==
  ASSUME NEW F, NEW fields, NEW W, NEW default, Columns(F, fields, W, default),
         NEW D \in SUBSET F, \A f \in F \ D : fields[f].mod = 0,
         NEW sent, sent = [f \in D |-> fields[f]]
  PROVE  MergeFields(default, sent) = fields /\ MergeFields(fields, sent) = fields
<1>1. /\ fields \in [F -> Stamped] /\ default \in [F -> Stamped] /\ \A f \in F : default[f].mod = 0
      /\ \A f \in F : fields[f].mod = 0 => fields[f] = default[f]
  BY DEF Columns
<1>2. \A f \in F : fields[f].mod \in Nat
  BY <1>1 DEF Stamped
<1>3. MergeFields(fields, sent) =
        [f \in F |-> IF f \in D /\ fields[f].mod > fields[f].mod THEN fields[f] ELSE fields[f]]
  BY <1>1 DEF MergeFields, ModifiedAfter
<1>4. MergeFields(default, sent) =
        [f \in F |-> IF f \in D /\ fields[f].mod > default[f].mod THEN fields[f] ELSE default[f]]
  BY <1>1 DEF MergeFields, ModifiedAfter
<1>5. \A f \in F : (IF f \in D /\ fields[f].mod > default[f].mod THEN fields[f] ELSE default[f]) = fields[f]
  BY <1>1, <1>2
<1>6. QED
  BY <1>1, <1>3, <1>4, <1>5

LEMMA KeptIsEchoed == RecordsInv => EchoRebuildsRow
<1> SUFFICES ASSUME RecordsInv PROVE EchoRebuildsRow
  OBVIOUS
<1>1. ASSUME NEW k \in EpisodeKey, row[k] # NoData, NEW old \in {NoData, row[k]}
      PROVE  ApplyEpisodeRecord(old, EpisodeToProto(k, row[k])) = row[k]
  <2> DEFINE data == row[k]
             fields == data.fields
             rec == EpisodeToProto(k, data)
             from == IF old = NoData THEN NewEpisodeFields ELSE old.fields
  <2>1. data \in EpisodeData /\ Columns(EpisodeField, fields, wrote[k], NewEpisodeFields)
    BY <1>1 DEF RecordsInv, EpisodeKept
  <2>2. rec.podcast = data.podcast /\ rec.fields = fields
    BY DEF EpisodeToProto
  <2>3. data = [podcast |-> data.podcast, fields |-> fields] /\ data.podcast \in Podcasts
    BY <2>1 DEF EpisodeData
  <2>4. data.podcast # NoPodcast
    BY <2>3, SyncRecordsAssumption
  <2>5. from = NewEpisodeFields \/ from = fields
    OBVIOUS
  <2>6. ApplyEpisodeRecord(old, rec) = [podcast |-> data.podcast, fields |-> MergeFields(from, rec.fields)]
    <3> HIDE DEF data, fields, rec
    <3>1. QED
      BY <2>2, <2>4 DEF ApplyEpisodeRecord, Storable
  <2>7. fields = [f \in EpisodeField |-> fields[f]]
    BY <2>1 DEF Columns
  <2> HIDE DEF fields, rec, from
  <2>8. MergeFields(NewEpisodeFields, fields) = fields /\ MergeFields(fields, fields) = fields
    BY <2>1, <2>7, ColumnsEchoed
  <2>9. QED
    BY <2>2, <2>3, <2>5, <2>6, <2>8 DEF rec
<1>2. ASSUME NEW k \in BookmarkKey, row[k] # NoData, NEW old \in {NoData, row[k]}
      PROVE  ApplyBookmarkRecord(old, BookmarkToProto(k, row[k])) = row[k]
  <2> DEFINE data == row[k]
             fields == data.fields
             rec == BookmarkToProto(k, data)
             base == IF old = NoData THEN NewBookmark(rec.home) ELSE old
             trimmed == rec.trim # NoStamp /\ ModifiedAfter(rec.trim, base.trimModified)
             D == BookmarkField \ (IF fields["tags"].mod = 0 THEN {"tags"} ELSE {})
  <2>1. data \in BookmarkData /\ Columns(BookmarkField, fields, wrote[k], NewColumns)
    BY <1>2 DEF RecordsInv, BookmarkKept
  <2>2. /\ rec.home = data.home /\ rec.excerpt = data.excerpt
        /\ rec.trim = IF data.trimModified # 0 THEN data.trimModified ELSE NoStamp
        /\ rec.fields = [f \in D |-> fields[f]]
    BY DEF BookmarkToProto, BookmarkFields
  <2>3. /\ data.trimModified \in Nat
        /\ data = [home |-> data.home, fields |-> fields, excerpt |-> data.excerpt,
                   trimModified |-> data.trimModified]
    BY <2>1 DEF BookmarkData
  <2>4. D \in SUBSET BookmarkField /\ \A f \in BookmarkField \ D : fields[f].mod = 0
    OBVIOUS
  <2>5. \/ base = data
        \/ /\ base.home = data.home /\ base.fields = NewColumns /\ base.excerpt = NoExcerpt
           /\ base.trimModified = 0
    BY <2>2 DEF NewBookmark, NewColumns
  <2>6. ApplyBookmarkRecord(old, rec) =
          [home |-> base.home, fields |-> MergeFields(base.fields, rec.fields),
           excerpt |-> IF trimmed \/ Fills(base, rec) THEN rec.excerpt ELSE base.excerpt,
           trimModified |-> IF trimmed THEN rec.trim ELSE base.trimModified]
    BY DEF ApplyBookmarkRecord
  <2> HIDE DEF rec, base, D
  <2>7. MergeFields(NewColumns, rec.fields) = fields /\ MergeFields(fields, rec.fields) = fields
    <3> HIDE DEF fields
    <3>1. QED
      BY <2>1, <2>2, <2>4, ColumnsEchoed
  <2>8. base.home = data.home /\ MergeFields(base.fields, rec.fields) = fields
    BY <2>5, <2>7
  <2>9. trimmed <=> data.trimModified # 0 /\ data.trimModified > base.trimModified
    BY <2>2, <2>3, SyncRecordsAssumption DEF ModifiedAfter
  <2> HIDE DEF trimmed
  <2>10. (IF trimmed THEN rec.trim ELSE base.trimModified) = data.trimModified
    BY <2>2, <2>3, <2>5, <2>9
  <2>11. (IF trimmed \/ Fills(base, rec) THEN rec.excerpt ELSE base.excerpt) = data.excerpt
    BY <2>2, <2>3, <2>5, <2>9, SyncRecordsAssumption DEF Fills
  <2> HIDE DEF data, fields
  <2>12. QED
    BY <2>3, <2>6, <2>8, <2>10, <2>11 DEF rec, data
<1>3. QED
  BY <1>1, <1>2 DEF EchoRebuildsRow

LEMMA RecordsAlone ==
  /\ AccountsInit => RecordsInv
  /\ RecordsInv /\ [AccountsNext]_accountVars => RecordsInv'
<1>1. AccountsInit => Init
  BY DEF AccountsInit
<1>2. [AccountsNext]_accountVars => [Next]_vars
  BY DEF AccountsNext, RecordStep, LibraryStep, AttestStep, PushStep, Ends, accountVars
<1>3. QED
  BY <1>1, <1>2, RecordsInitInv, RecordsStepInv

(* Whatever the order in which records, real-time writes and settings arrive,
   late and repeated ones included, the newest of each column and each setting
   stays, and a user's trim beats enrichment (apply*Record of
   syncsvc/engine.go, ApplySettings). *)
THEOREM NewestStays == AccountsSpec => []NewestWins
<1>1. AccountsInit => RecordsInv
  BY RecordsAlone
<1>2. RecordsInv /\ [AccountsNext]_accountVars => RecordsInv'
  BY RecordsAlone
<1>3. QED
  BY <1>1, <1>2, KeptIsNewest, PTL DEF AccountsSpec

(* What is echoed of a row rebuilds the row on a store that has never seen it
   and leaves the row alone where it is stored (episodeToProto and
   bookmarkToProto of syncsvc/convert.go). *)
THEOREM EchoesRebuild == AccountsSpec => []EchoRebuildsRow
<1>1. AccountsInit => RecordsInv
  BY RecordsAlone
<1>2. RecordsInv /\ [AccountsNext]_accountVars => RecordsInv'
  BY RecordsAlone
<1>3. QED
  BY <1>1, <1>2, KeptIsEchoed, PTL DEF AccountsSpec

----------------------------------------------------------------------------
(* Attestation.  What the counts rest on: a counter is one its install has
   reached, no assertion above a key's counter has passed yet, and a challenge
   is either open or burnt by one request. *)
AttestTypes ==
  /\ issued \in 0 .. MaxChallenges /\ expired \subseteq open /\ open \subseteq 1 .. issued
  /\ keys \in [Device -> Attested!AttestKey \cup {Attested!NoKey}]
  /\ req \in [Request -> Attested!ReqType] /\ signed \in [Device -> 0 .. MaxCounter]
  /\ enrolled \in [Attested!Challenge -> Nat] /\ verified \in [Device \X Attested!Counter -> Nat]
  /\ deliveries \in Nat

CountersReached ==
  /\ \A i \in Device : keys[i] # Attested!NoKey => keys[i].counter <= signed[i]
  /\ \A i \in Device : signed[i] > 0 => keys[i] # Attested!NoKey
  /\ \A i \in Device : keys[i].status = "revoked" => i \in revoked
  /\ \A r \in Request : req[r].op \in {"advance", "recheck"} =>
       keys[req[r].key] # Attested!NoKey /\ req[r].counter <= signed[req[r].key]

PassedBelowCounter ==
  \A i \in Device, n \in Attested!Counter :
    /\ verified[<<i, n>>] <= 1
    /\ (keys[i] = Attested!NoKey \/ n > keys[i].counter) => verified[<<i, n>>] = 0

BurntOnce ==
  /\ \A c \in Attested!Challenge : enrolled[c] <= 1 /\ ((c \in open \/ c > issued) => enrolled[c] = 0)
  /\ \A r \in Request : req[r].op = "insert" =>
       /\ enrolled[req[r].challenge] = 0
       /\ req[r].challenge \notin open /\ req[r].challenge <= issued
  /\ \A r, q \in Request : req[r].op = "insert" /\ req[q].op = "insert"
       /\ req[r].challenge = req[q].challenge => r = q

AttestInv ==
  /\ AttestTypes /\ CountersReached /\ PassedBelowCounter /\ BurntOnce
  /\ Attested!HealthyKeyKept

LEMMA AttestKeyFacts ==
  /\ \A x \in Attested!AttestKey : /\ x.status \in {"active", "revoked"}
                                   /\ x.counter \in 0 .. MaxCounter /\ x # Attested!NoKey
  /\ Attested!NoKey.status = "none" /\ Attested!NoKey \notin Attested!AttestKey
BY DEF Attested!AttestKey, Attested!NoKey

LEMMA AttestReqFacts ==
  /\ \A q \in Attested!ReqType :
       /\ q.op \in {"idle", "insert", "advance", "recheck"}
       /\ (q.op = "idle") <=> (q = Attested!Idle)
       /\ (q.op = "insert") => (q.key \in Device /\ q.challenge \in Attested!Challenge)
       /\ (q.op \in {"advance", "recheck"}) =>
            /\ q.key \in Device /\ q.counter \in Attested!Counter
            /\ [q EXCEPT !.op = "recheck"] = [op |-> "recheck", key |-> q.key, counter |-> q.counter]
  /\ Attested!Idle \in Attested!ReqType /\ Attested!Idle.op = "idle"
  /\ \A i \in Device, c \in Attested!Challenge :
       [op |-> "insert", key |-> i, challenge |-> c] \in Attested!ReqType
  /\ \A o \in {"advance", "recheck"}, i \in Device, n \in Attested!Counter :
       [op |-> o, key |-> i, counter |-> n] \in Attested!ReqType
<1>1. \A q \in Attested!ReqType : q.op \in {"advance", "recheck"} =>
        [q EXCEPT !.op = "recheck"] = [op |-> "recheck", key |-> q.key, counter |-> q.counter]
  BY DEF Attested!ReqType, Attested!Idle
<1>2. QED
  BY <1>1 DEF Attested!ReqType, Attested!Idle

LEMMA AttestInitInv == Attested!Init => AttestInv
<1> SUFFICES ASSUME Attested!Init PROVE AttestInv
  OBVIOUS
<1>1. /\ issued = 0 /\ open = {} /\ expired = {} /\ keys = [i \in Device |-> Attested!NoKey]
      /\ signed = [i \in Device |-> 0] /\ req = [r \in Request |-> Attested!Idle] /\ deliveries = 0
      /\ enrolled = [c \in Attested!Challenge |-> 0] /\ answered = {}
      /\ verified = [a \in Device \X Attested!Counter |-> 0]
  BY DEF Attested!Init
<1>2. AttestTypes
  BY <1>1, AttestReqFacts, AccountsAssumption DEF AttestTypes
<1>3. CountersReached
  BY <1>1, AttestReqFacts, AttestKeyFacts DEF CountersReached
<1>4. PassedBelowCounter
  BY <1>1 DEF PassedBelowCounter
<1>5. BurntOnce
  BY <1>1, AttestReqFacts DEF BurntOnce
<1>6. Attested!HealthyKeyKept
  BY <1>1 DEF Attested!HealthyKeyKept
<1>7. QED
  BY <1>2, <1>3, <1>4, <1>5, <1>6 DEF AttestInv

LEMMA ChallengeKept ==
  ASSUME AttestInv, Attested!GetAttestChallenge PROVE AttestInv'
<1>1. /\ issued < MaxChallenges /\ issued' = issued + 1
      /\ open' = (open \ expired) \cup {issued'} /\ expired' = {}
      /\ UNCHANGED <<keys, signed, req, deliveries, enrolled, verified, answered, revoked>>
  BY DEF Attested!GetAttestChallenge, Attested!DeleteExpiredChallenges, Attested!devices,
         Attested!history
<1>2. /\ issued \in Nat /\ MaxChallenges \in Nat /\ open \subseteq 1 .. issued
      /\ AttestTypes /\ BurntOnce
  BY AccountsAssumption DEF AttestInv, AttestTypes
<1>3. AttestTypes'
  <2>1. issued' \in 0 .. MaxChallenges /\ issued' \in 1 .. issued'
    BY <1>1, <1>2
  <2>2. \A c \in 1 .. issued : c \in 1 .. issued'
    BY <1>1, <1>2
  <2>3. open' \subseteq 1 .. issued'
    BY <1>1, <1>2, <2>1, <2>2
  <2>4. QED
    BY <1>1, <1>2, <2>1, <2>3 DEF AttestTypes
<1>4. CountersReached' /\ PassedBelowCounter'
  BY <1>1 DEF AttestInv, CountersReached, PassedBelowCounter
<1>5. BurntOnce'
  <2>1. \A c \in Attested!Challenge : (c \in open' \/ c > issued') => (c \in open \/ c > issued)
    BY <1>1, <1>2 DEF Attested!Challenge
  <2>2. \A r \in Request : req[r].op = "insert" =>
          req[r].challenge \in Nat /\ req[r].challenge <= issued /\ req[r].challenge \notin open
    <3>1. \A r \in Request : req[r].op = "insert" => req[r].challenge \in Attested!Challenge
      BY <1>2, AttestReqFacts DEF AttestTypes
    <3>2. \A c \in Attested!Challenge : c \in Nat
      BY <1>2 DEF Attested!Challenge
    <3>3. QED
      BY <1>2, <3>1, <3>2 DEF BurntOnce
  <2>3. \A r \in Request : req[r].op = "insert" =>
          req[r].challenge <= issued' /\ req[r].challenge \notin open'
    BY <1>1, <1>2, <2>2
  <2>4. QED
    BY <1>1, <1>2, <2>1, <2>3 DEF BurntOnce
<1>6. Attested!HealthyKeyKept'
  BY <1>1 DEF AttestInv, Attested!HealthyKeyKept
<1>7. QED
  BY <1>3, <1>4, <1>5, <1>6 DEF AttestInv

(* A request turns to something that is no insertion and that its install has
   reached, and nothing else changes but what was answered. *)
LEMMA AttestGo ==
  ASSUME AttestInv, NEW r \in Request, NEW q \in Attested!ReqType, q.op # "insert",
         q.op \in {"advance", "recheck"} =>
           keys[q.key] # Attested!NoKey /\ q.counter <= signed[q.key],
         req' = [req EXCEPT ![r] = q], deliveries' \in Nat, Attested!HealthyKeyKept',
         UNCHANGED <<issued, open, expired, keys, signed, enrolled, verified, revoked>>
  PROVE  AttestInv'
<1>1. /\ req' \in [Request -> Attested!ReqType] /\ req'[r] = q
      /\ \A p \in Request \ {r} : req'[p] = req[p]
  BY DEF AttestInv, AttestTypes
<1>2. AttestTypes'
  BY <1>1 DEF AttestInv, AttestTypes
<1>3. CountersReached'
  BY <1>1 DEF AttestInv, CountersReached
<1>4. PassedBelowCounter'
  BY DEF AttestInv, PassedBelowCounter
<1>5. BurntOnce'
  BY <1>1 DEF AttestInv, BurntOnce
<1>6. QED
  BY <1>2, <1>3, <1>4, <1>5 DEF AttestInv

LEMMA EnrollPosted ==
  ASSUME AttestInv, NEW r \in Request, NEW i \in Device, NEW c \in Attested!Challenge,
         Attested!PostAttestEnroll(r, i, c)
  PROVE  AttestInv'
<1> DEFINE q == IF Attested!VerifyAttestation(i, c)
                THEN [op |-> "insert", key |-> i, challenge |-> c] ELSE Attested!Idle
<1>1. /\ c \in open \ expired /\ open' = open \ {c} /\ req[r] = Attested!Idle
      /\ req' = [req EXCEPT ![r] = q] /\ deliveries' = deliveries + 1
      /\ UNCHANGED <<issued, expired, keys, signed, enrolled, verified, answered, revoked>>
  BY DEF Attested!PostAttestEnroll, Attested!ConsumeChallenge, Attested!Deliver, Attested!devices,
         Attested!history
<1>2. /\ q \in Attested!ReqType /\ q.op \in {"insert", "idle"}
      /\ q.op = "insert" => q.challenge = c
  BY AttestReqFacts
<1> HIDE DEF q
<1>3. /\ req' \in [Request -> Attested!ReqType] /\ req'[r] = q
      /\ \A p \in Request \ {r} : req'[p] = req[p]
  BY <1>1, <1>2 DEF AttestInv, AttestTypes
<1>4. AttestTypes'
  BY <1>1, <1>3 DEF AttestInv, AttestTypes
<1>5. CountersReached' /\ PassedBelowCounter' /\ Attested!HealthyKeyKept'
  BY <1>1, <1>2, <1>3 DEF AttestInv, CountersReached, PassedBelowCounter, Attested!HealthyKeyKept
<1>6. BurntOnce'
  <2>1. /\ enrolled[c] = 0 /\ c \notin open' /\ c <= issued
        /\ \A p \in Request : req[p].op = "insert" => req[p].challenge # c
    BY <1>1 DEF AttestInv, AttestTypes, BurntOnce
  <2>2. QED
    BY <1>1, <1>2, <1>3, <2>1 DEF AttestInv, BurntOnce
<1>7. QED
  BY <1>4, <1>5, <1>6 DEF AttestInv

LEMMA EnrollKept ==
  ASSUME AttestInv, NEW r \in Request, Attested!Enroll(r) PROVE AttestInv'
<1> DEFINE i == req[r].key
           c == req[r].challenge
<1>1. /\ req[r].op = "insert" /\ keys' = Attested!InsertAttestKey(i)
      /\ enrolled' = [enrolled EXCEPT ![c] = @ + 1] /\ req' = [req EXCEPT ![r] = Attested!Idle]
      /\ UNCHANGED <<issued, open, expired, signed, deliveries, verified, answered, revoked>>
  BY DEF Attested!Enroll, Attested!Go, Attested!devices
<1>2. i \in Device /\ c \in Attested!Challenge /\ enrolled[c] = 0 /\ enrolled[c] \in Nat
      /\ c \notin open /\ c <= issued
  BY <1>1, AttestReqFacts DEF AttestInv, AttestTypes, BurntOnce
<1> HIDE DEF i, c
<1>3. /\ req' \in [Request -> Attested!ReqType] /\ req'[r].op = "idle"
      /\ \A p \in Request \ {r} : req'[p] = req[p]
  BY <1>1, AttestReqFacts DEF AttestInv, AttestTypes
<1>4. /\ enrolled' \in [Attested!Challenge -> Nat] /\ enrolled'[c] = 1
      /\ \A d \in Attested!Challenge \ {c} : enrolled'[d] = enrolled[d]
  BY <1>1, <1>2 DEF AttestInv, AttestTypes
<1>5. /\ keys' \in [Device -> Attested!AttestKey \cup {Attested!NoKey}]
      /\ \A j \in Device : keys[j] # Attested!NoKey => keys'[j] = keys[j]
      /\ \A j \in Device :
           \/ keys'[j] = keys[j]
           \/ (keys[j] = Attested!NoKey /\ keys'[j] = [status |-> "active", counter |-> 0])
  <2>1. [status |-> "active", counter |-> 0] \in Attested!AttestKey
    BY AccountsAssumption DEF Attested!AttestKey
  <2>2. keys \in [Device -> Attested!AttestKey \cup {Attested!NoKey}]
    BY DEF AttestInv, AttestTypes
  <2>3. CASE keys[i] = Attested!NoKey
    <3>1. keys' = [keys EXCEPT ![i] = [status |-> "active", counter |-> 0]]
      BY <1>1, <2>3 DEF Attested!InsertAttestKey
    <3>2. QED
      BY <1>2, <2>1, <2>2, <2>3, <3>1
  <2>4. CASE keys[i] # Attested!NoKey
    BY <1>1, <2>2, <2>4 DEF Attested!InsertAttestKey
  <2>5. QED
    BY <2>3, <2>4
<1>6. AttestTypes'
  BY <1>1, <1>3, <1>4, <1>5 DEF AttestInv, AttestTypes
<1>7. [status |-> "active", counter |-> 0] # Attested!NoKey
  BY DEF Attested!NoKey
<1>8. CountersReached'
  <2>1. \A j \in Device : signed[j] \in Nat
    BY DEF AttestInv, AttestTypes
  <2>2. \A j \in Device : keys'[j] # Attested!NoKey => keys'[j].counter <= signed[j]
    BY <1>5, <2>1 DEF AttestInv, CountersReached
  <2>3. \A j \in Device : signed[j] > 0 => keys'[j] # Attested!NoKey
    BY <1>5 DEF AttestInv, CountersReached
  <2>4. \A j \in Device : keys'[j].status = "revoked" => j \in revoked
    BY <1>5 DEF AttestInv, CountersReached
  <2>5. \A p \in Request : req'[p].op \in {"advance", "recheck"} =>
          keys'[req'[p].key] # Attested!NoKey /\ req'[p].counter <= signed[req'[p].key]
    <3>1. \A p \in Request : req'[p].op \in {"advance", "recheck"} =>
            /\ req'[p] = req[p] /\ req[p].key \in Device /\ keys[req[p].key] # Attested!NoKey
            /\ req[p].counter <= signed[req[p].key]
      BY <1>3, AttestReqFacts DEF AttestInv, AttestTypes, CountersReached
    <3>2. QED
      BY <1>5, <3>1
  <2>6. QED
    BY <1>1, <2>2, <2>3, <2>4, <2>5 DEF CountersReached
<1>9. PassedBelowCounter'
  BY <1>1, <1>5 DEF AttestInv, PassedBelowCounter
<1>10. BurntOnce'
  <2>1. issued \in Nat /\ c \in Nat
    BY <1>2 DEF AttestInv, AttestTypes, Attested!Challenge
  <2>2. \A d \in Attested!Challenge : enrolled'[d] <= 1 /\ ((d \in open' \/ d > issued') => enrolled'[d] = 0)
    BY <1>1, <1>2, <1>4, <2>1 DEF AttestInv, BurntOnce
  <2>3. \A p \in Request : req'[p].op = "insert" => p # r /\ req[p].op = "insert" /\ req'[p] = req[p]
    BY <1>3
  <2>4. \A p \in Request : req'[p].op = "insert" =>
          req[p].challenge # c /\ req[p].challenge \in Attested!Challenge
    BY <1>1, <2>3, AttestReqFacts DEF AttestInv, AttestTypes, BurntOnce, c
  <2>5. \A p \in Request : req'[p].op = "insert" =>
          /\ enrolled'[req'[p].challenge] = 0
          /\ req'[p].challenge \notin open' /\ req'[p].challenge <= issued'
    BY <1>1, <1>4, <2>3, <2>4 DEF AttestInv, BurntOnce
  <2>6. \A p, q \in Request : req'[p].op = "insert" /\ req'[q].op = "insert"
          /\ req'[p].challenge = req'[q].challenge => p = q
    BY <2>3 DEF AttestInv, BurntOnce
  <2>7. QED
    BY <2>2, <2>5, <2>6 DEF BurntOnce
<1>11. Attested!HealthyKeyKept'
  BY <1>1 DEF AttestInv, Attested!HealthyKeyKept
<1>12. QED
  BY <1>6, <1>8, <1>9, <1>10, <1>11 DEF AttestInv

LEMMA ExpireKept == ASSUME AttestInv, Attested!Expire PROVE AttestInv'
<1>1. /\ expired' = open
      /\ UNCHANGED <<issued, open, keys, signed, req, deliveries, enrolled, verified, answered, revoked>>
  BY DEF Attested!Expire, Attested!devices, Attested!history
<1>2. AttestTypes'
  BY <1>1 DEF AttestInv, AttestTypes
<1>3. CountersReached' /\ PassedBelowCounter' /\ BurntOnce' /\ Attested!HealthyKeyKept'
  BY <1>1 DEF AttestInv, CountersReached, PassedBelowCounter, BurntOnce, Attested!HealthyKeyKept
<1>4. QED
  BY <1>2, <1>3 DEF AttestInv

LEMMA AttestsKept == ASSUME AttestInv, NEW i \in Device, Attested!Attests(i) PROVE AttestInv'
<1>1. UNCHANGED <<issued, open, expired, keys, signed, req, deliveries, enrolled, verified, answered, revoked>>
  BY DEF Attested!Attests, Attested!store, Attested!history
<1>2. AttestTypes'
  BY <1>1 DEF AttestInv, AttestTypes
<1>3. CountersReached' /\ PassedBelowCounter' /\ BurntOnce' /\ Attested!HealthyKeyKept'
  BY <1>1 DEF AttestInv, CountersReached, PassedBelowCounter, BurntOnce, Attested!HealthyKeyKept
<1>4. QED
  BY <1>2, <1>3 DEF AttestInv

LEMMA SignKept == ASSUME AttestInv, NEW i \in Device, Attested!Sign(i) PROVE AttestInv'
<1>1. /\ keys[i] # Attested!NoKey /\ signed[i] < MaxCounter
      /\ signed' = [signed EXCEPT ![i] = @ + 1]
      /\ UNCHANGED <<issued, open, expired, keys, req, deliveries, enrolled, verified, answered, revoked>>
  BY DEF Attested!Sign, Attested!store, Attested!history
<1>2. signed \in [Device -> 0 .. MaxCounter] /\ MaxCounter \in Nat
  BY AccountsAssumption DEF AttestInv, AttestTypes
<1>3. /\ signed' \in [Device -> 0 .. MaxCounter]
      /\ \A j \in Device : signed[j] \in Nat /\ signed'[j] \in Nat /\ signed[j] <= signed'[j]
      /\ \A j \in Device : signed'[j] > 0 => keys[j] # Attested!NoKey
  <2>1. \A j \in Device : j # i => signed'[j] = signed[j]
    BY <1>1, <1>2
  <2>2. signed'[i] = signed[i] + 1 /\ signed[i] \in 0 .. MaxCounter
    BY <1>1, <1>2
  <2>3. \A j \in Device : signed[j] > 0 => keys[j] # Attested!NoKey
    BY DEF AttestInv, CountersReached
  <2>4. signed[i] + 1 \in 0 .. MaxCounter
    BY <1>1, <1>2, <2>2
  <2>5. QED
    BY <1>1, <1>2, <2>1, <2>2, <2>3, <2>4
<1>4. AttestTypes'
  BY <1>1, <1>3 DEF AttestInv, AttestTypes
<1>5. CountersReached'
  <2>1. \A j \in Device : keys[j] # Attested!NoKey =>
          keys[j].counter \in Nat /\ keys[j].counter <= signed[j]
    <3>1. \A n \in 0 .. MaxCounter : n \in Nat
      BY <1>2
    <3>2. QED
      BY <3>1, AttestKeyFacts DEF AttestInv, AttestTypes, CountersReached
  <2>2. \A r \in Request : req[r].op \in {"advance", "recheck"} =>
          /\ req[r].counter \in Nat /\ req[r].key \in Device /\ keys[req[r].key] # Attested!NoKey
          /\ req[r].counter <= signed[req[r].key]
    <3>1. \A n \in Attested!Counter : n \in Nat
      BY <1>2 DEF Attested!Counter
    <3>2. QED
      BY <3>1, AttestReqFacts DEF AttestInv, AttestTypes, CountersReached
  <2>3. \A j \in Device : keys[j] # Attested!NoKey => keys[j].counter <= signed'[j]
    BY <1>3, <2>1
  <2>4. \A r \in Request : req[r].op \in {"advance", "recheck"} => req[r].counter <= signed'[req[r].key]
    BY <1>3, <2>2
  <2>5. \A j \in Device : keys[j].status = "revoked" => j \in revoked
    BY DEF AttestInv, CountersReached
  <2>6. QED
    BY <1>1, <1>3, <2>2, <2>3, <2>4, <2>5 DEF CountersReached
<1>6. PassedBelowCounter' /\ BurntOnce' /\ Attested!HealthyKeyKept'
  BY <1>1 DEF AttestInv, PassedBelowCounter, BurntOnce, Attested!HealthyKeyKept
<1>7. QED
  BY <1>4, <1>5, <1>6 DEF AttestInv

(* The two verdicts of deny: invalid is answered for a revoked key only. *)
LEMMA DenyKept ==
  ASSUME AttestInv, NEW i \in Device, keys[i] # Attested!NoKey, NEW t, NEW verdict,
         Attested!deny(i, t, verdict), verdict = "stale" \/ keys[i].status # "active" \/ t # "as signed",
         UNCHANGED revoked
  PROVE  Attested!HealthyKeyKept'
<1>1. \A j \in Device \ revoked : <<j, "invalid">> \notin answered
  BY DEF AttestInv, Attested!HealthyKeyKept
<1>2. \/ answered' = answered
      \/ answered' = answered \cup {<<i, verdict>>} /\ t = "as signed"
  BY DEF Attested!deny
<1>3. keys[i].status # "active" => i \in revoked
  BY AttestKeyFacts DEF AttestInv, AttestTypes, CountersReached
<1>4. ASSUME NEW j \in Device \ revoked, <<j, "invalid">> = <<i, verdict>>, t = "as signed" PROVE FALSE
  <2>1. j = i /\ verdict = "invalid"
    BY <1>4
  <2>2. verdict # "stale"
    BY <2>1
  <2>3. QED
    BY <1>3, <1>4, <2>1, <2>2
<1>5. QED
  BY <1>1, <1>2, <1>4 DEF Attested!HealthyKeyKept

LEMMA SentReached ==
  ASSUME AttestInv, NEW a \in Attested!Sent
  PROVE  /\ a \in Attested!Assertion /\ a.key \in Device /\ a.counter \in Attested!Counter
         /\ a.counter <= signed[a.key] /\ keys[a.key] # Attested!NoKey
<1>1. a.key \in Device /\ a.counter \in Attested!Counter /\ a.counter <= signed[a.key] /\ a \in Attested!Assertion
  BY DEF Attested!Sent, Attested!Assertion
<1>2. MaxCounter \in Nat /\ signed[a.key] \in 0 .. MaxCounter
  BY <1>1, AccountsAssumption DEF AttestInv, AttestTypes
<1>3. signed[a.key] > 0
  BY <1>1, <1>2 DEF Attested!Counter
<1>4. QED
  BY <1>1, <1>3 DEF AttestInv, CountersReached

LEMMA VerifyKept ==
  ASSUME AttestInv, NEW r \in Request, NEW a \in Attested!Assertion, NEW t \in Attested!Target,
         Attested!AttestVerify(r, a, t)
  PROVE  AttestInv'
<1> DEFINE go == [op |-> "advance", key |-> a.key, counter |-> a.counter]
<1>1. a \in Attested!Sent
  BY DEF Attested!AttestVerify
<1>2. /\ a.key \in Device /\ a.counter \in Attested!Counter /\ a.counter <= signed[a.key]
      /\ keys[a.key] # Attested!NoKey
  BY <1>1, SentReached
<1>3. /\ deliveries' = deliveries + 1
      /\ UNCHANGED <<issued, open, expired, keys, signed, enrolled, verified, revoked>>
      /\ \/ /\ req' = [req EXCEPT ![r] = Attested!Idle]
            /\ \/ Attested!deny(a.key, t, "invalid") /\ (keys[a.key].status # "active" \/ t # "as signed")
               \/ UNCHANGED answered
         \/ req' = [req EXCEPT ![r] = go] /\ UNCHANGED answered
  BY <1>1 DEF Attested!AttestVerify, Attested!Deliver, Attested!GetAttestKey, Attested!VerifyAssertion,
         Attested!store, Attested!devices
<1>4. Attested!HealthyKeyKept'
  <2>1. CASE UNCHANGED answered
    BY <1>3, <2>1 DEF AttestInv, Attested!HealthyKeyKept
  <2>2. CASE Attested!deny(a.key, t, "invalid") /\ (keys[a.key].status # "active" \/ t # "as signed")
    BY <1>2, <1>3, <2>2, DenyKept
  <2>3. QED
    BY <1>3, <2>1, <2>2
<1>5. /\ go \in Attested!ReqType /\ go.op = "advance" /\ go.key = a.key /\ go.counter = a.counter
  <2>1. go.op = "advance" /\ go.key = a.key /\ go.counter = a.counter
    OBVIOUS
  <2>2. "advance" \in {"advance", "recheck"}
    OBVIOUS
  <2>3. go \in Attested!ReqType
    BY <1>2, <2>2, AttestReqFacts
  <2> HIDE DEF go
  <2>4. QED
    BY <2>1, <2>3
<1>6. deliveries' \in Nat
  <2>1. deliveries \in Nat
    BY DEF AttestInv, AttestTypes
  <2>2. deliveries' = deliveries + 1
    BY <1>3
  <2>3. QED
    BY <2>1, <2>2
<1> HIDE DEF go
<1>7. CASE req' = [req EXCEPT ![r] = go]
  BY <1>2, <1>3, <1>4, <1>5, <1>6, <1>7, AttestGo
<1>8. CASE req' = [req EXCEPT ![r] = Attested!Idle]
  BY <1>3, <1>4, <1>6, <1>8, AttestGo, AttestReqFacts
<1>9. QED
  BY <1>3, <1>7, <1>8

LEMMA AdvanceKept == ASSUME AttestInv, NEW r \in Request, Attested!AdvanceAttestCounter(r) PROVE AttestInv'
<1> DEFINE i == req[r].key
           n == req[r].counter
<1>1. req[r].op = "advance"
  BY DEF Attested!AdvanceAttestCounter
<1>2. /\ i \in Device /\ n \in Attested!Counter /\ keys[i] # Attested!NoKey /\ n <= signed[i]
      /\ [req[r] EXCEPT !.op = "recheck"] = [op |-> "recheck", key |-> i, counter |-> n]
      /\ n \in Nat /\ n \in 0 .. MaxCounter
  <2>1. /\ i \in Device /\ n \in Attested!Counter /\ keys[i] # Attested!NoKey /\ n <= signed[i]
        /\ [req[r] EXCEPT !.op = "recheck"] = [op |-> "recheck", key |-> i, counter |-> n]
    BY <1>1, AttestReqFacts DEF AttestInv, AttestTypes, CountersReached
  <2>2. \A m \in Attested!Counter : m \in Nat /\ m \in 0 .. MaxCounter
    BY AccountsAssumption DEF Attested!Counter
  <2>3. QED
    BY <2>1, <2>2
<1> DEFINE again == [op |-> "recheck", key |-> i, counter |-> n]
<1>3. CASE keys[i].status = "active" /\ keys[i].counter < n
  <2>1. /\ keys' = [keys EXCEPT ![i].counter = n]
        /\ verified' = [verified EXCEPT ![<<i, n>>] = @ + 1]
        /\ req' = [req EXCEPT ![r] = Attested!Idle]
        /\ UNCHANGED <<issued, open, expired, signed, deliveries, enrolled, answered, revoked>>
    BY <1>3 DEF Attested!AdvanceAttestCounter, Attested!Go, Attested!devices
  <2>2. keys[i] \in Attested!AttestKey
    BY <1>2 DEF AttestInv, AttestTypes
  <2>3. [keys[i] EXCEPT !.counter = n] \in Attested!AttestKey
        /\ [keys[i] EXCEPT !.counter = n].counter = n
        /\ [keys[i] EXCEPT !.counter = n].status = keys[i].status
    BY <1>2, <2>2 DEF Attested!AttestKey
  <2>4. verified[<<i, n>>] = 0 /\ <<i, n>> \in Device \X Attested!Counter
    BY <1>2, <1>3 DEF AttestInv, PassedBelowCounter
  <2> DEFINE w == [keys[i] EXCEPT !.counter = n]
  <2>5. keys' = [keys EXCEPT ![i] = w]
    BY <1>2, <2>1 DEF AttestInv, AttestTypes
  <2>6. w \in Attested!AttestKey /\ w.counter = n /\ w.status = keys[i].status
    BY <2>3
  <2> HIDE DEF w
  <2>7. /\ keys' \in [Device -> Attested!AttestKey \cup {Attested!NoKey}] /\ keys'[i] = w
        /\ \A j \in Device \ {i} : keys'[j] = keys[j]
    BY <1>2, <2>5, <2>6 DEF AttestInv, AttestTypes
  <2>8. /\ verified' \in [Device \X Attested!Counter -> Nat] /\ verified'[<<i, n>>] = 1
        /\ \A x \in Device \X Attested!Counter : x # <<i, n>> => verified'[x] = verified[x]
    BY <2>1, <2>4 DEF AttestInv, AttestTypes
  <2>9. /\ req' \in [Request -> Attested!ReqType] /\ req'[r].op = "idle"
        /\ \A p \in Request \ {r} : req'[p] = req[p]
    BY <2>1, AttestReqFacts DEF AttestInv, AttestTypes
  <2> HIDE DEF i, n
  <2>10. AttestTypes'
    BY <2>1, <2>7, <2>8, <2>9 DEF AttestInv, AttestTypes
  <2>11. w # Attested!NoKey
    BY <2>6, AttestKeyFacts
  <2>12. CountersReached'
    <3>1. \A j \in Device : keys'[j] # Attested!NoKey => keys'[j].counter <= signed'[j]
      BY <1>2, <2>1, <2>6, <2>7 DEF AttestInv, CountersReached
    <3>2. \A j \in Device : signed'[j] > 0 => keys'[j] # Attested!NoKey
      BY <2>1, <2>7, <2>11 DEF AttestInv, CountersReached
    <3>3. \A j \in Device : keys'[j].status = "revoked" => j \in revoked'
      BY <1>2, <2>1, <2>6, <2>7 DEF AttestInv, CountersReached
    <3>4. \A p \in Request : req'[p].op \in {"advance", "recheck"} =>
            keys'[req'[p].key] # Attested!NoKey /\ req'[p].counter <= signed'[req'[p].key]
      <4>1. \A p \in Request : req'[p].op \in {"advance", "recheck"} =>
              /\ req'[p] = req[p] /\ req[p].key \in Device /\ keys[req[p].key] # Attested!NoKey
              /\ req[p].counter <= signed[req[p].key]
        BY <2>9, AttestReqFacts DEF AttestInv, AttestTypes, CountersReached
      <4>2. QED
        BY <2>1, <2>7, <2>11, <4>1
    <3>5. QED
      BY <3>1, <3>2, <3>3, <3>4 DEF CountersReached
  <2>13. PassedBelowCounter'
    <3>1. ASSUME NEW j \in Device, NEW m \in Attested!Counter
          PROVE  /\ verified'[<<j, m>>] <= 1
                 /\ (keys'[j] = Attested!NoKey \/ m > keys'[j].counter) => verified'[<<j, m>>] = 0
      <4>1. /\ verified[<<j, m>>] <= 1 /\ <<j, m>> \in Device \X Attested!Counter
            /\ (keys[j] = Attested!NoKey \/ m > keys[j].counter) => verified[<<j, m>>] = 0
        BY DEF AttestInv, PassedBelowCounter
      <4>2. CASE j # i
        <5>1. <<j, m>> # <<i, n>>
          BY <4>2
        <5>2. QED
          BY <2>7, <2>8, <4>1, <4>2, <5>1
      <4>3. CASE j = i /\ m = n
        BY <1>2, <2>6, <2>7, <2>8, <2>11, <4>3
      <4>4. CASE j = i /\ m # n
        <5>1. <<j, m>> # <<i, n>>
          BY <4>4
        <5>2. verified'[<<j, m>>] = verified[<<j, m>>]
          BY <2>8, <4>1, <5>1
        <5>3. m \in Nat /\ keys[i].counter \in Nat
          <6>1. \A x \in Attested!Counter : x \in Nat
            BY AccountsAssumption DEF Attested!Counter
          <6>2. \A x \in 0 .. MaxCounter : x \in Nat
            BY AccountsAssumption
          <6>3. QED
            BY <2>2, <6>1, <6>2, AttestKeyFacts
        <5>4. m > n => m > keys[j].counter
          BY <1>2, <1>3, <4>4, <5>3 DEF n
        <5>5. QED
          BY <2>6, <2>7, <2>11, <4>1, <4>4, <5>2, <5>4
      <4>5. QED
        BY <4>2, <4>3, <4>4
    <3>2. QED
      BY <3>1 DEF PassedBelowCounter
  <2>14. BurntOnce'
    BY <2>1, <2>9 DEF AttestInv, BurntOnce
  <2>15. Attested!HealthyKeyKept'
    BY <2>1 DEF AttestInv, Attested!HealthyKeyKept
  <2>16. QED
    BY <2>10, <2>12, <2>13, <2>14, <2>15 DEF AttestInv
<1>4. CASE ~(keys[i].status = "active" /\ keys[i].counter < n)
  <2>1. /\ req' = [req EXCEPT ![r] = again]
        /\ UNCHANGED <<issued, open, expired, keys, signed, deliveries, enrolled, verified, answered, revoked>>
    BY <1>2, <1>4 DEF Attested!AdvanceAttestCounter, Attested!Go, Attested!devices
  <2>2. again \in Attested!ReqType /\ again.op = "recheck" /\ again.key = i /\ again.counter = n
    BY <1>2, AttestReqFacts
  <2> HIDE DEF again, i, n
  <2>3. Attested!HealthyKeyKept' /\ deliveries' \in Nat
    BY <2>1 DEF AttestInv, AttestTypes, Attested!HealthyKeyKept
  <2>4. QED
    BY <1>2, <2>1, <2>2, <2>3, AttestGo
<1>5. QED
  BY <1>3, <1>4

LEMMA RecheckKept == ASSUME AttestInv, NEW r \in Request, Attested!Recheck(r) PROVE AttestInv'
<1> DEFINE i == req[r].key
           verdict == IF keys[i].status = "active" THEN "stale" ELSE "invalid"
<1>1. /\ req[r].op = "recheck" /\ req' = [req EXCEPT ![r] = Attested!Idle]
      /\ Attested!deny(i, "as signed", verdict)
      /\ UNCHANGED <<issued, open, expired, keys, signed, deliveries, enrolled, verified, revoked>>
  BY DEF Attested!Recheck, Attested!Go, Attested!GetAttestKey, Attested!store, Attested!devices
<1>2. i \in Device /\ keys[i] # Attested!NoKey
  BY <1>1, AttestReqFacts DEF AttestInv, AttestTypes, CountersReached
<1>3. verdict = "stale" \/ keys[i].status # "active"
  OBVIOUS
<1> HIDE DEF i, verdict
<1>4. Attested!HealthyKeyKept'
  BY <1>1, <1>2, <1>3, DenyKept
<1>5. deliveries' \in Nat
  BY <1>1 DEF AttestInv, AttestTypes
<1>6. QED
  BY <1>1, <1>4, <1>5, AttestGo, AttestReqFacts

LEMMA FailureKept == ASSUME AttestInv, NEW r \in Request, Attested!RequestFails(r) PROVE AttestInv'
<1>1. /\ req' = [req EXCEPT ![r] = Attested!Idle]
      /\ UNCHANGED <<issued, open, expired, keys, signed, deliveries, enrolled, verified, answered, revoked>>
  BY DEF Attested!RequestFails, Attested!Go, Attested!store, Attested!devices, Attested!history
<1>2. Attested!HealthyKeyKept' /\ deliveries' \in Nat
  BY <1>1 DEF AttestInv, AttestTypes, Attested!HealthyKeyKept
<1>3. QED
  BY <1>1, <1>2, AttestGo, AttestReqFacts

LEMMA RevokeKept == ASSUME AttestInv, NEW i \in Device, Attested!Revoke(i) PROVE AttestInv'
<1> DEFINE w == [keys[i] EXCEPT !.status = "revoked"]
<1>1. /\ keys[i] # Attested!NoKey /\ keys' = [keys EXCEPT ![i].status = "revoked"]
      /\ revoked' = revoked \cup {i}
      /\ UNCHANGED <<issued, open, expired, signed, req, deliveries, enrolled, verified, answered>>
  BY DEF Attested!Revoke, Attested!devices
<1>2. keys[i] \in Attested!AttestKey /\ keys' = [keys EXCEPT ![i] = w]
  BY <1>1 DEF AttestInv, AttestTypes
<1>3. w \in Attested!AttestKey /\ w.counter = keys[i].counter
  BY <1>2 DEF Attested!AttestKey
<1> HIDE DEF w
<1>4. /\ keys' \in [Device -> Attested!AttestKey \cup {Attested!NoKey}] /\ keys'[i] = w
      /\ \A j \in Device \ {i} : keys'[j] = keys[j]
  BY <1>2, <1>3 DEF AttestInv, AttestTypes
<1>5. w # Attested!NoKey
  BY <1>3, AttestKeyFacts
<1>6. AttestTypes'
  BY <1>1, <1>4 DEF AttestInv, AttestTypes
<1>7. CountersReached'
  <2>1. \A r \in Request : req[r].op \in {"advance", "recheck"} => req[r].key \in Device
    BY AttestReqFacts DEF AttestInv, AttestTypes
  <2>2. QED
    BY <1>1, <1>3, <1>4, <1>5, <2>1 DEF AttestInv, CountersReached
<1>8. PassedBelowCounter'
  BY <1>1, <1>3, <1>4, <1>5 DEF AttestInv, PassedBelowCounter
<1>9. BurntOnce' /\ Attested!HealthyKeyKept'
  BY <1>1 DEF AttestInv, BurntOnce, Attested!HealthyKeyKept
<1>10. QED
  BY <1>6, <1>7, <1>8, <1>9 DEF AttestInv

LEMMA AttestStepInv == AttestInv /\ [Attested!Next]_Attested!vars => AttestInv'
<1> SUFFICES ASSUME AttestInv, [Attested!Next]_Attested!vars PROVE AttestInv'
  OBVIOUS
<1>1. CASE Attested!GetAttestChallenge
  BY <1>1, ChallengeKept
<1>2. CASE Attested!Expire
  BY <1>2, ExpireKept
<1>3. ASSUME NEW i \in Device, Attested!Attests(i) \/ Attested!Sign(i) \/ Attested!Revoke(i) PROVE AttestInv'
  BY <1>3, AttestsKept, SignKept, RevokeKept
<1>4. ASSUME NEW r \in Request, Attested!Step(r) PROVE AttestInv'
  BY <1>4, EnrollKept, AdvanceKept, RecheckKept, FailureKept DEF Attested!Step
<1>5. ASSUME NEW r \in Request, NEW i \in Device, NEW c \in Attested!Challenge,
             Attested!PostAttestEnroll(r, i, c)
      PROVE  AttestInv'
  BY <1>5, EnrollPosted
<1>6. ASSUME NEW r \in Request, NEW a \in Attested!Assertion, NEW t \in Attested!Target,
             Attested!AttestVerify(r, a, t)
      PROVE  AttestInv'
  BY <1>6, VerifyKept
<1>7. CASE UNCHANGED Attested!vars
  <2>1. UNCHANGED <<issued, open, expired, keys, signed, req, deliveries, enrolled, verified, answered, revoked>>
    BY <1>7 DEF Attested!vars, Attested!store, Attested!devices, Attested!history
  <2>2. AttestTypes'
    BY <2>1 DEF AttestInv, AttestTypes
  <2>3. CountersReached' /\ PassedBelowCounter' /\ BurntOnce' /\ Attested!HealthyKeyKept'
    BY <2>1 DEF AttestInv, CountersReached, PassedBelowCounter, BurntOnce, Attested!HealthyKeyKept
  <2>4. QED
    BY <2>2, <2>3 DEF AttestInv
<1>8. QED
  BY <1>1, <1>2, <1>3, <1>4, <1>5, <1>6, <1>7 DEF Attested!Next

LEMMA AttestShown ==
  AttestInv => Attested!TypeOK /\ Attested!CountsOnce /\ Attested!HealthyKeyKept
<1> SUFFICES ASSUME AttestInv PROVE Attested!TypeOK /\ Attested!CountsOnce
  BY DEF AttestInv
<1>1. Attested!TypeOK
  BY DEF AttestInv, AttestTypes, CountersReached, Attested!TypeOK
<1>2. Attested!CountsOnce
  BY DEF AttestInv, PassedBelowCounter, BurntOnce, Attested!CountsOnce
<1>3. QED
  BY <1>1, <1>2

----------------------------------------------------------------------------
(* Push registrations.  A token belongs to one phone: it was given out, and it
   is current for no other. *)
TokenOf(n, p) == n <= tokens /\ \A q \in Phone \ {p} : current[q] # n

PushTypes ==
  /\ tokens \in Nat /\ current \in [Phone -> Push!Token] /\ home \in [Phone -> Push!Env]
  /\ rows \in [Push!Row -> Push!DeviceRow] /\ last \in [Push!Row -> {0} \cup Push!Token]
  /\ notify \cup social \cup deleted \subseteq Account
  /\ send \in [{"notifier"} -> Push!Sending \cup {Push!Idle}]
  /\ req \in [{"refresh"} -> [op : {"upsert", "flags"}, m : Push!UpdateRequest] \cup {Push!Idle}]

SendsUnderway ==
  \A s \in {"notifier"} : send[s] # Push!Idle =>
    send[s].left \cup send[s].shown \subseteq send[s].targets /\ send[s].tries < MaxAttempts

TokensApart ==
  /\ \A p \in Phone : current[p] <= tokens
  /\ \A p, q \in Phone : p # q => current[p] # current[q]
  /\ \A x \in Push!Row : TokenOf(rows[x].token, x[2]) /\ TokenOf(last[x], x[2])
  /\ \A r \in {"refresh"} : req[r] # Push!Idle => TokenOf(req[r].m.token, req[r].m.phone)
  /\ \A s \in {"notifier"} : send[s] # Push!Idle =>
       \A t \in send[s].targets : TokenOf(t.token, t.row[2])

(* A token that the service refused is no phone's any more, or was tried in the
   wrong environment. *)
DroppedForGood ==
  \A s \in {"notifier"} : send[s] # Push!Idle =>
    \A n \in send[s].dropped : n <= tokens /\ (n \in misrouted \/ \A p \in Phone : current[p] # n)

PushInv ==
  /\ PushTypes /\ SendsUnderway /\ TokensApart /\ DroppedForGood
  /\ Push!LiveTokenKept /\ Push!DeletedIsUnreachable /\ Push!OneFailureOnePhone

LEMMA TokenNumbers ==
  /\ MaxTokens \in Nat /\ \A n \in Push!Token : n \in Nat /\ n # 0
  /\ \A n \in {0} \cup Push!Token : n \in Nat
BY AccountsAssumption DEF Push!Token

LEMMA PushRecords ==
  /\ \A d \in Push!DeviceRow : d.token \in {0} \cup Push!Token /\ d.on \in BOOLEAN /\ d.env \in Push!Env
  /\ Push!NoPush \in Push!DeviceRow
  /\ \A m \in Push!UpdateRequest :
       /\ m.account \in Account /\ m.phone \in Phone /\ m.token \in {0} \cup Push!Token
       /\ m.on \in BOOLEAN /\ m.env \in {""} \cup Push!Env
  /\ \A t \in Push!PushTarget : t.row \in Push!Row /\ t.token \in Push!Token /\ t.env \in Push!Env
  /\ \A x \in Push!Row : x[1] \in Account /\ x[2] \in Phone
  /\ \A a \in Account, p \in Phone : <<a, p>> \in Push!Row
BY DEF Push!DeviceRow, Push!NoPush, Push!UpdateRequest, Push!PushTarget, Push!Row, Push!Env

LEMMA PushReqFacts ==
  /\ \A q \in [op : {"upsert", "flags"}, m : Push!UpdateRequest] :
       q.op \in {"upsert", "flags"} /\ q.m \in Push!UpdateRequest /\ q # Push!Idle
  /\ Push!Idle.op = "idle"
BY DEF Push!Idle

LEMMA SendingFacts ==
  \A x \in Push!Sending :
    /\ x.op \in {"send", "clear"} /\ x.clears \in BOOLEAN /\ x.targets \subseteq Push!PushTarget
    /\ x.left \subseteq Push!PushTarget /\ x.trying \subseteq Push!PushTarget /\ x.tries \in Nat
    /\ x.shown \subseteq Push!PushTarget /\ x.failed \subseteq Push!PushTarget
    /\ x.dropped \subseteq Push!Token /\ x # Push!Idle
BY DEF Push!Sending, Push!Idle

(* The answers to one try, field by field. *)
LEMMA DoneFields ==
  ASSUME NEW x \in Push!Sending, NEW t \in Push!PushTarget
  PROVE  LET y == Push!Done(x, t) IN
         /\ y \in Push!Sending /\ y.clears = x.clears /\ y.targets = x.targets
         /\ y.left = x.left \ {t} /\ y.tries = 0
         /\ y.shown = x.shown /\ y.failed = x.failed /\ y.dropped = x.dropped
<1>1. 0 \in Nat /\ {} \in SUBSET Push!PushTarget
  OBVIOUS
<1>2. Push!Done(x, t) \in Push!Sending
  BY <1>1 DEF Push!Done, Push!Sending
<1>3. QED
  BY <1>2 DEF Push!Done, Push!Sending

Answers(x, t, got) ==
  {IF Push!Accepts(t) THEN Push!Delivered(x, t) ELSE Push!Refused(x, t),
   Push!Unclear(x, t, {}), Push!Unclear(x, t, got),
   [Push!Done(x, t) EXCEPT !.failed = @ \cup {t}]}

LEMMA Answered ==
  ASSUME NEW x \in Push!Sending, x.left \cup x.shown \subseteq x.targets, x.tries < MaxAttempts,
         NEW t \in x.left, NEW got \in SUBSET {t},
         NEW y \in Answers(x, t, got)
  PROVE  /\ y \in Push!Sending /\ y.targets = x.targets
         /\ y.left \cup y.shown \subseteq y.targets /\ y.tries < MaxAttempts
         /\ y.dropped \subseteq x.dropped \cup {t.token}
         /\ y.dropped \subseteq x.dropped \/ ~Push!Accepts(t)
         /\ x.left \cup x.shown \cup x.failed \subseteq y.left \cup y.shown \cup y.failed \cup {t}
         /\ ~Push!Accepts(t) \/ t \in y.left \cup y.shown \cup y.failed
<1> DEFINE d == Push!Done(x, t)
<1>1. /\ t \in Push!PushTarget /\ t.token \in Push!Token /\ x.dropped \subseteq Push!Token
      /\ x.left \subseteq Push!PushTarget /\ x.shown \subseteq Push!PushTarget
      /\ x.failed \subseteq Push!PushTarget /\ x.tries \in Nat
  BY SendingFacts, PushRecords
<1>2. MaxAttempts \in Nat /\ 0 < MaxAttempts
  BY AccountsAssumption
<1>3. /\ d \in Push!Sending /\ d.clears = x.clears /\ d.targets = x.targets /\ d.left = x.left \ {t}
      /\ d.tries = 0 /\ d.shown = x.shown /\ d.failed = x.failed /\ d.dropped = x.dropped
  BY <1>1, DoneFields
<1>4. CASE y = Push!Delivered(x, t)
  <2>1. y = [d EXCEPT !.shown = @ \cup {t}]
    BY <1>4 DEF Push!Delivered
  <2> HIDE DEF d
  <2>2. y \in Push!Sending
    BY <1>1, <1>3, <2>1 DEF Push!Sending
  <2>3. /\ y.targets = d.targets /\ y.left = d.left /\ y.tries = d.tries
        /\ y.shown = d.shown \cup {t} /\ y.failed = d.failed /\ y.dropped = d.dropped
    BY <1>3, <2>1 DEF Push!Sending
  <2>4. QED
    BY <1>2, <1>3, <2>2, <2>3
<1>5. CASE y = Push!Refused(x, t) /\ ~Push!Accepts(t)
  <2>1. y = IF x.clears THEN [d EXCEPT !.op = "clear", !.dropped = @ \cup {t.token}] ELSE d
    BY <1>5 DEF Push!Refused
  <2> HIDE DEF d
  <2>2. CASE x.clears
    <3>1. y = [d EXCEPT !.op = "clear", !.dropped = @ \cup {t.token}]
      BY <2>1, <2>2
    <3>2. y \in Push!Sending
      BY <1>1, <1>3, <3>1 DEF Push!Sending
    <3>3. /\ y.targets = d.targets /\ y.left = d.left /\ y.tries = d.tries
          /\ y.shown = d.shown /\ y.failed = d.failed /\ y.dropped = d.dropped \cup {t.token}
      BY <1>3, <3>1 DEF Push!Sending
    <3>4. QED
      BY <1>2, <1>3, <1>5, <3>2, <3>3
  <2>3. CASE ~x.clears
    BY <1>2, <1>3, <1>5, <2>1, <2>3
  <2>4. QED
    BY <2>2, <2>3
<1>6. ASSUME NEW g \in SUBSET {t}, y = Push!Unclear(x, t, g) PROVE
         /\ y \in Push!Sending /\ y.targets = x.targets
         /\ y.left \cup y.shown \subseteq y.targets /\ y.tries < MaxAttempts
         /\ y.dropped = x.dropped
         /\ x.left \cup x.shown \cup x.failed \subseteq y.left \cup y.shown \cup y.failed
  <2>1. CASE x.tries + 1 < MaxAttempts
    <3>1. y = [x EXCEPT !.trying = {t}, !.tries = @ + 1, !.shown = @ \cup g]
      BY <1>6, <2>1 DEF Push!Unclear
    <3>2. x.tries + 1 \in Nat /\ {t} \in SUBSET Push!PushTarget /\ x.shown \cup g \in SUBSET Push!PushTarget
      BY <1>1
    <3>3. y \in Push!Sending
      BY <3>1, <3>2 DEF Push!Sending
    <3>4. /\ y.targets = x.targets /\ y.left = x.left /\ y.tries = x.tries + 1
          /\ y.shown = x.shown \cup g /\ y.failed = x.failed /\ y.dropped = x.dropped
      BY <3>1 DEF Push!Sending
    <3>5. QED
      BY <2>1, <3>3, <3>4
  <2>2. CASE ~(x.tries + 1 < MaxAttempts)
    <3>1. y = [d EXCEPT !.shown = @ \cup g, !.failed = @ \cup {t}]
      BY <1>6, <2>2 DEF Push!Unclear
    <3> HIDE DEF d
    <3>2. d.shown \cup g \in SUBSET Push!PushTarget /\ d.failed \cup {t} \in SUBSET Push!PushTarget
      BY <1>1, <1>3
    <3>3. y \in Push!Sending
      BY <1>3, <3>1, <3>2 DEF Push!Sending
    <3>4. /\ y.targets = d.targets /\ y.left = d.left /\ y.tries = d.tries
          /\ y.shown = d.shown \cup g /\ y.failed = d.failed \cup {t} /\ y.dropped = d.dropped
      BY <1>3, <3>1 DEF Push!Sending
    <3>5. QED
      BY <1>2, <1>3, <3>3, <3>4
  <2>3. QED
    BY <2>1, <2>2
<1>7. CASE y = [d EXCEPT !.failed = @ \cup {t}]
  <2> HIDE DEF d
  <2>1. y \in Push!Sending
    BY <1>1, <1>3, <1>7 DEF Push!Sending
  <2>2. /\ y.targets = d.targets /\ y.left = d.left /\ y.tries = d.tries
        /\ y.shown = d.shown /\ y.failed = d.failed \cup {t} /\ y.dropped = d.dropped
    BY <1>3, <1>7 DEF Push!Sending
  <2>3. QED
    BY <1>2, <1>3, <2>1, <2>2
<1>8. CASE y = Push!Unclear(x, t, {}) \/ y = Push!Unclear(x, t, got)
  <2>1. {} \in SUBSET {t}
    OBVIOUS
  <2>2. \/ ~Push!Accepts(t)
        \/ t \in y.left \cup y.shown \cup y.failed
    BY <1>6, <1>8, <2>1
  <2>3. QED
    BY <1>6, <1>8, <2>1, <2>2
<1>9. QED
  BY <1>4, <1>5, <1>7, <1>8 DEF Answers

----------------------------------------------------------------------------
LEMMA PushInitInv == Push!Init => PushInv
<1> SUFFICES ASSUME Push!Init PROVE PushInv
  OBVIOUS
<1>1. /\ tokens = Cardinality(Phone) /\ home = [p \in Phone |-> "production"]
      /\ current \in [Phone -> Push!Token] /\ \A p, q \in Phone : p # q => current[p] # current[q]
      /\ \A p \in Phone : current[p] <= tokens
      /\ rows = [x \in Push!Row |-> Push!NoPush] /\ notify = {} /\ deleted = {} /\ social = Account
      /\ req = [r \in {"refresh"} |-> Push!Idle] /\ send = [s \in {"notifier"} |-> Push!Idle]
      /\ last = [x \in Push!Row |-> 0] /\ late = {} /\ misrouted = {}
  <2>1. Push!Cardinality(Phone) = Cardinality(Phone)
    BY Zenon DEF Push!Cardinality, Cardinality
  <2>2. QED
    BY <2>1 DEF Push!Init
<1>2. tokens \in Nat
  BY <1>1, AccountsAssumption, FS_CardinalityType
<1>3. PushTypes
  BY <1>1, <1>2, PushRecords DEF PushTypes, Push!Env
<1>4. SendsUnderway /\ DroppedForGood /\ Push!OneFailureOnePhone
  BY <1>1 DEF SendsUnderway, DroppedForGood, Push!OneFailureOnePhone
<1>5. TokensApart
  <2>1. \A p \in Phone : TokenOf(0, p)
    BY <1>1, <1>2, TokenNumbers DEF TokenOf
  <2>2. \A x \in Push!Row : rows[x].token = 0 /\ last[x] = 0 /\ x[2] \in Phone
    BY <1>1, PushRecords DEF Push!NoPush
  <2>3. QED
    BY <1>1, <2>1, <2>2 DEF TokensApart
<1>6. Push!LiveTokenKept
  <2>1. \A x \in Push!Row : last[x] = 0 /\ current[x[2]] # 0
    BY <1>1, PushRecords, TokenNumbers
  <2>2. QED
    BY <2>1 DEF Push!LiveTokenKept
<1>7. Push!DeletedIsUnreachable
  BY <1>1 DEF Push!DeletedIsUnreachable
<1>8. QED
  BY <1>3, <1>4, <1>5, <1>6, <1>7 DEF PushInv

(* Steps of a registration that write no device row. *)
LEMMA RequestStepKept ==
  ASSUME PushInv, NEW r \in {"refresh"},
         NEW q \in [op : {"upsert", "flags"}, m : Push!UpdateRequest] \cup {Push!Idle},
         q # Push!Idle => TokenOf(q.m.token, q.m.phone),
         req' = [req EXCEPT ![r] = q], notify' \in SUBSET Account,
         UNCHANGED <<tokens, current, home, rows, social, deleted, send, last, late, misrouted>>
  PROVE  PushInv'
<1>1. PushTypes'
  BY DEF PushInv, PushTypes
<1>2. TokensApart'
  BY DEF PushInv, PushTypes, TokensApart, TokenOf
<1>3. SendsUnderway' /\ DroppedForGood'
  BY DEF PushInv, SendsUnderway, DroppedForGood
<1>4. Push!LiveTokenKept' /\ Push!DeletedIsUnreachable'
  BY DEF PushInv, Push!LiveTokenKept, Push!DeletedIsUnreachable
<1>5. Push!OneFailureOnePhone'
  BY DEF PushInv, Push!OneFailureOnePhone, Push!Accepts
<1>6. QED
  BY <1>1, <1>2, <1>3, <1>4, <1>5 DEF PushInv

LEMMA RegistrationKept ==
  ASSUME PushInv, NEW r \in {"refresh"}, NEW m \in Push!UpdateRequest, Push!persistPushState(r, m)
  PROVE  PushInv'
<1> DEFINE q == [op |-> "upsert", m |-> m]
<1>1. /\ m.token \in {0, current[m.phone]} /\ req' = [req EXCEPT ![r] = q]
      /\ UNCHANGED <<tokens, current, home, rows, notify, social, deleted, send, last, late, misrouted>>
  BY DEF Push!persistPushState, Push!service, Push!account
<1>2. q \in [op : {"upsert", "flags"}, m : Push!UpdateRequest] /\ q.m = m
  OBVIOUS
<1> HIDE DEF q
<1>3. TokenOf(m.token, m.phone)
  <2>1. m.phone \in Phone /\ tokens \in Nat /\ current \in [Phone -> Push!Token]
    BY PushRecords DEF PushInv, PushTypes
  <2>2. \A p \in Phone : current[p] # 0 /\ current[p] <= tokens /\ 0 <= tokens
    BY <2>1, TokenNumbers DEF PushInv, TokensApart
  <2>3. QED
    BY <1>1, <2>1, <2>2 DEF PushInv, TokensApart, TokenOf
<1>4. notify' \in SUBSET Account
  BY <1>1 DEF PushInv, PushTypes
<1>5. QED
  BY <1>1, <1>2, <1>3, <1>4, RequestStepKept

LEMMA FlagsKept ==
  ASSUME PushInv, NEW r \in {"refresh"}, Push!SetPodcastNotifyFlags(r) \/ Push!RegistrationFails(r)
  PROVE  PushInv'
<1>1. /\ req' = [req EXCEPT ![r] = Push!Idle] /\ req[r] # Push!Idle
      /\ notify' \in {notify, notify \cup {req[r].m.account}, notify \ {req[r].m.account}}
      /\ UNCHANGED <<tokens, current, home, rows, social, deleted, send, last, late, misrouted>>
  BY PushReqFacts DEF Push!SetPodcastNotifyFlags, Push!RegistrationFails, Push!service, Push!account
<1>2. req[r].m.account \in Account
  BY <1>1, PushReqFacts, PushRecords DEF PushInv, PushTypes
<1>3. notify' \in SUBSET Account
  BY <1>1, <1>2 DEF PushInv, PushTypes
<1>4. QED
  BY <1>1, <1>3, RequestStepKept

(* A registration is stored, after its account was deleted too: the row then
   is one of those that came late. *)
LEMMA StoreKept == ASSUME PushInv, NEW r \in {"refresh"}, Push!StoreDevice(r) PROVE PushInv'
<1> DEFINE m == req[r].m
           x == <<m.account, m.phone>>
           w == Push!UpsertDevicePush(rows[x], m)
           q == IF m.messages = "" THEN Push!Idle ELSE [op |-> "flags", m |-> m]
<1>1. req[r].op = "upsert" /\ req[r] # Push!Idle
  BY PushReqFacts DEF Push!StoreDevice
<1>2. /\ m \in Push!UpdateRequest /\ x \in Push!Row /\ m.account \in Account /\ m.phone \in Phone
      /\ x[1] = m.account /\ x[2] = m.phone
  BY <1>1, PushReqFacts, PushRecords DEF PushInv, PushTypes
<1>3. /\ rows' = [rows EXCEPT ![x] = w] /\ last' = [last EXCEPT ![x] = rows'[x].token]
      /\ late' = (IF m.account \in deleted THEN late \cup {x} ELSE late)
      /\ req' = [req EXCEPT ![r] = q]
      /\ UNCHANGED <<tokens, current, home, notify, social, deleted, send, misrouted>>
  BY <1>2 DEF Push!StoreDevice, Push!service, Push!account, Push!counts, PushInv, PushTypes
<1>4. /\ w \in Push!DeviceRow
      /\ w.token = m.token \/ w.token = rows[x].token
  <2>1. rows[x] \in Push!DeviceRow
    BY <1>2 DEF PushInv, PushTypes
  <2>2. /\ rows[x].token \in {0} \cup Push!Token /\ rows[x].env \in Push!Env
        /\ m.token \in {0} \cup Push!Token /\ m.on \in BOOLEAN /\ m.env \in {""} \cup Push!Env
    BY <1>2, <2>1, PushRecords
  <2> HIDE DEF m, x
  <2>3. /\ w = [token |-> w.token, on |-> m.on, env |-> w.env]
        /\ w.token = m.token \/ w.token = rows[x].token
        /\ (w.env = m.env /\ m.env # "") \/ w.env = rows[x].env
    BY DEF Push!UpsertDevicePush
  <2>4. w.token \in {0} \cup Push!Token /\ w.env \in Push!Env
    BY <2>2, <2>3
  <2> HIDE DEF w
  <2>5. [token |-> w.token, on |-> m.on, env |-> w.env] \in Push!DeviceRow
    BY <2>2, <2>4 DEF Push!DeviceRow
  <2>6. QED
    BY <2>3, <2>5
<1>5. TokenOf(w.token, x[2])
  BY <1>1, <1>2, <1>4 DEF PushInv, TokensApart
<1>6. /\ q \in [op : {"upsert", "flags"}, m : Push!UpdateRequest] \cup {Push!Idle}
      /\ q # Push!Idle => q.m = m
  <2>1. [op |-> "flags", m |-> m] \in [op : {"upsert", "flags"}, m : Push!UpdateRequest]
    BY <1>2
  <2>2. [op |-> "flags", m |-> m].m = m
    OBVIOUS
  <2>3. QED
    BY <2>1, <2>2
<1>7. q # Push!Idle => TokenOf(q.m.token, q.m.phone)
  <2>1. TokenOf(m.token, m.phone)
    BY <1>1 DEF PushInv, TokensApart
  <2>2. QED
    BY <1>6, <2>1
<1>8. w.token \in {0} \cup Push!Token
  BY <1>4, PushRecords
<1> HIDE DEF m, x, w, q
<1>9. /\ rows' \in [Push!Row -> Push!DeviceRow] /\ rows'[x] = w
      /\ \A y \in Push!Row \ {x} : rows'[y] = rows[y]
  BY <1>2, <1>3, <1>4 DEF PushInv, PushTypes
<1>10. /\ last' \in [Push!Row -> {0} \cup Push!Token] /\ last'[x] = w.token
       /\ \A y \in Push!Row \ {x} : last'[y] = last[y]
  BY <1>2, <1>3, <1>8, <1>9 DEF PushInv, PushTypes
<1>11. /\ req' \in [{"refresh"} -> [op : {"upsert", "flags"}, m : Push!UpdateRequest] \cup {Push!Idle}]
       /\ req'[r] = q
  BY <1>3, <1>6 DEF PushInv, PushTypes
<1>12. PushTypes'
  BY <1>3, <1>9, <1>10, <1>11 DEF PushInv, PushTypes
<1>13. TokensApart'
  <2>1. \A y \in Push!Row : TokenOf(rows'[y].token, y[2]) /\ TokenOf(last'[y], y[2])
    BY <1>5, <1>9, <1>10 DEF PushInv, TokensApart
  <2>2. \A p \in {"refresh"} : req'[p] # Push!Idle => TokenOf(req'[p].m.token, req'[p].m.phone)
    BY <1>7, <1>11
  <2>3. \A n, p : TokenOf(n, p)' <=> TokenOf(n, p)
    BY <1>3 DEF TokenOf
  <2>4. QED
    BY <1>3, <2>1, <2>2, <2>3 DEF PushInv, TokensApart, TokenOf
<1>14. SendsUnderway' /\ DroppedForGood'
  BY <1>3 DEF PushInv, SendsUnderway, DroppedForGood
<1>15. Push!LiveTokenKept'
  BY <1>3, <1>9, <1>10 DEF PushInv, Push!LiveTokenKept
<1>16. Push!DeletedIsUnreachable'
  <2>1. \A y \in Push!Row \ {x} : y[1] \in deleted => y \in late \/ (rows'[y].token = 0 /\ ~rows'[y].on)
    BY <1>9 DEF PushInv, Push!DeletedIsUnreachable
  <2>2. x[1] \in deleted => x \in late'
    BY <1>2, <1>3
  <2>3. QED
    BY <1>3, <2>1, <2>2 DEF Push!DeletedIsUnreachable
<1>17. Push!OneFailureOnePhone'
  BY <1>3 DEF PushInv, Push!OneFailureOnePhone, Push!Accepts
<1>18. QED
  BY <1>12, <1>13, <1>14, <1>15, <1>16, <1>17 DEF PushInv

(* Steps that only take tokens out of rows: tokens that are dropped, or all of
   an account that is deleted. *)
LEMMA ClearedKept ==
  ASSUME PushInv, rows' \in [Push!Row -> Push!DeviceRow],
         \A x \in Push!Row : rows'[x].token \in {0, rows[x].token} /\ (rows'[x].on => rows[x].on),
         \A x \in Push!Row : rows'[x].token # rows[x].token =>
           \/ x[1] \in deleted'
           \/ \E s \in {"notifier"} : send[s] # Push!Idle /\ rows[x].token \in send[s].dropped,
         deleted \subseteq deleted', deleted' \subseteq Account, social' \subseteq Account,
         \A x \in Push!Row : x[1] \in deleted' \ deleted => rows'[x].token = 0 /\ ~rows'[x].on,
         NEW sent, send' = [s \in {"notifier"} |-> sent],
         sent = send["notifier"] \/ (/\ sent \in Push!Sending /\ send["notifier"] \in Push!Sending
              /\ sent.targets = send["notifier"].targets /\ sent.left = send["notifier"].left
              /\ sent.shown = send["notifier"].shown /\ sent.failed = send["notifier"].failed
              /\ sent.tries = send["notifier"].tries /\ sent.dropped = send["notifier"].dropped),
         UNCHANGED <<tokens, current, home, notify, req, last, late, misrouted>>
  PROVE  PushInv'
<1>1. /\ send["notifier"] \in Push!Sending \cup {Push!Idle} /\ Push!Idle \notin Push!Sending
      /\ send'["notifier"] = sent
  BY SendingFacts DEF PushInv, PushTypes
<1>2. sent \in Push!Sending \cup {Push!Idle}
  BY <1>1
<1>3. PushTypes'
  <2>1. send' \in [{"notifier"} -> Push!Sending \cup {Push!Idle}]
    BY <1>2
  <2>2. QED
    BY <2>1 DEF PushInv, PushTypes
<1>4. sent # Push!Idle =>
        /\ send["notifier"] # Push!Idle /\ sent.targets = send["notifier"].targets
        /\ sent.left = send["notifier"].left /\ sent.shown = send["notifier"].shown
        /\ sent.failed = send["notifier"].failed /\ sent.tries = send["notifier"].tries
        /\ sent.dropped = send["notifier"].dropped
  BY <1>1
<1>5. \A n, p : TokenOf(n, p)' <=> TokenOf(n, p)
  BY DEF TokenOf
<1>6. TokensApart'
  <2>1. \A x \in Push!Row : TokenOf(0, x[2])
    <3>1. tokens \in Nat /\ \A q \in Phone : current[q] # 0
      BY TokenNumbers DEF PushInv, PushTypes
    <3>2. QED
      BY <3>1 DEF TokenOf
  <2>2. \A x \in Push!Row : TokenOf(rows'[x].token, x[2])
    BY <2>1 DEF PushInv, TokensApart
  <2>3. sent # Push!Idle => \A t \in sent.targets : TokenOf(t.token, t.row[2])
    BY <1>4 DEF PushInv, TokensApart
  <2>4. QED
    BY <1>1, <1>5, <2>2, <2>3 DEF PushInv, TokensApart, TokenOf
<1>7. SendsUnderway'
  BY <1>1, <1>4 DEF PushInv, SendsUnderway
<1>8. DroppedForGood'
  BY <1>1, <1>4 DEF PushInv, DroppedForGood
<1>9. Push!LiveTokenKept'
  <2>1. ASSUME NEW x \in Push!Row, x[1] \notin deleted', last[x] = current[x[2]], last[x] \notin misrouted
        PROVE  rows'[x].token = last[x]
    <3>1. rows[x].token = last[x] /\ x[2] \in Phone
      BY <2>1, PushRecords DEF PushInv, Push!LiveTokenKept
    <3>2. \A s \in {"notifier"} : send[s] # Push!Idle => rows[x].token \notin send[s].dropped
      BY <2>1, <3>1 DEF PushInv, DroppedForGood
    <3>3. QED
      BY <2>1, <3>1, <3>2
  <2>2. QED
    BY <2>1 DEF Push!LiveTokenKept
<1>10. Push!DeletedIsUnreachable'
  BY DEF PushInv, Push!DeletedIsUnreachable
<1>11. Push!OneFailureOnePhone'
  BY <1>1, <1>4 DEF PushInv, Push!OneFailureOnePhone, Push!Accepts
<1>12. QED
  BY <1>3, <1>6, <1>7, <1>8, <1>9, <1>10, <1>11 DEF PushInv

LEMMA RowCleared ==
  ASSUME NEW d \in Push!DeviceRow
  PROVE  /\ [d EXCEPT !.token = 0] \in Push!DeviceRow /\ [d EXCEPT !.token = 0].token = 0
         /\ [d EXCEPT !.token = 0].on = d.on
         /\ [d EXCEPT !.token = 0, !.on = FALSE] \in Push!DeviceRow
         /\ [d EXCEPT !.token = 0, !.on = FALSE].token = 0
         /\ [d EXCEPT !.token = 0, !.on = FALSE].on = FALSE
BY DEF Push!DeviceRow

LEMMA DeleteKept == ASSUME PushInv, NEW a \in Account, Push!DeleteAccount(a) PROVE PushInv'
<1>1. /\ deleted' = deleted \cup {a} /\ social' = social \ {a}
      /\ rows' = [x \in Push!Row |-> IF x[1] = a THEN [rows[x] EXCEPT !.token = 0, !.on = FALSE] ELSE rows[x]]
      /\ UNCHANGED <<tokens, current, home, notify, req, send, last, late, misrouted>>
  BY DEF Push!DeleteAccount, Push!ClearPushStateForUser, Push!service, Push!counts
<1>2. rows \in [Push!Row -> Push!DeviceRow]
  BY DEF PushInv, PushTypes
<1>3. ASSUME NEW x \in Push!Row
      PROVE  /\ rows'[x] \in Push!DeviceRow
             /\ rows'[x].token \in {0, rows[x].token} /\ (rows'[x].on => rows[x].on)
             /\ rows'[x].token # rows[x].token => x[1] = a
             /\ x[1] = a => rows'[x].token = 0 /\ ~rows'[x].on
  <2>1. rows[x] \in Push!DeviceRow
    BY <1>2
  <2> DEFINE none == [rows[x] EXCEPT !.token = 0, !.on = FALSE]
  <2>2. none \in Push!DeviceRow /\ none.token = 0 /\ none.on = FALSE
    BY <2>1, RowCleared
  <2>3. rows'[x] = IF x[1] = a THEN none ELSE rows[x]
    BY <1>1
  <2> HIDE DEF none
  <2>4. QED
    BY <2>1, <2>2, <2>3
<1>4. rows' \in [Push!Row -> Push!DeviceRow]
  BY <1>1, <1>3
<1>5. send' = [s \in {"notifier"} |-> send["notifier"]]
  BY <1>1 DEF PushInv, PushTypes
<1>6. deleted \subseteq deleted' /\ deleted' \subseteq Account /\ social' \subseteq Account
  BY <1>1 DEF PushInv, PushTypes
<1>7. QED
  BY <1>1, <1>3, <1>4, <1>5, <1>6, ClearedKept

LEMMA ClearDeadKept == ASSUME PushInv, NEW s \in {"notifier"}, Push!ClearDead(s) PROVE PushInv'
<1> DEFINE x == send[s]
           y == [x EXCEPT !.op = "send"]
<1>1. /\ x.op = "clear" /\ send' = [send EXCEPT ![s] = y]
      /\ \/ rows' = rows
         \/ rows' = [r \in Push!Row |-> IF rows[r].token \in x.dropped THEN [rows[r] EXCEPT !.token = 0] ELSE rows[r]]
      /\ UNCHANGED <<tokens, current, home, notify, social, deleted, req, last, late, misrouted>>
  BY DEF Push!ClearDead, Push!ClearPushToken, Push!service, Push!account, Push!counts, PushInv, PushTypes
<1>2. s = "notifier" /\ x \in Push!Sending /\ x # Push!Idle
  <2>1. x \in Push!Sending \cup {Push!Idle}
    BY DEF PushInv, PushTypes
  <2>2. x # Push!Idle
    BY <1>1, PushReqFacts
  <2>3. QED
    BY <2>1, <2>2
<1>3. y \in Push!Sending
  BY <1>2 DEF Push!Sending
<1>4. /\ y.targets = x.targets /\ y.left = x.left /\ y.tries = x.tries /\ y.shown = x.shown
      /\ y.failed = x.failed /\ y.dropped = x.dropped
  BY <1>2 DEF Push!Sending
<1> HIDE DEF y
<1>5. send' = [n \in {"notifier"} |-> y]
  BY <1>1, <1>2 DEF PushInv, PushTypes
<1>6. rows \in [Push!Row -> Push!DeviceRow] /\ deleted \subseteq Account /\ social \subseteq Account
  BY DEF PushInv, PushTypes
<1>7. ASSUME NEW r \in Push!Row
      PROVE  /\ rows'[r] \in Push!DeviceRow
             /\ rows'[r].token \in {0, rows[r].token} /\ (rows'[r].on => rows[r].on)
             /\ rows'[r].token # rows[r].token => rows[r].token \in x.dropped
  <2>1. rows[r] \in Push!DeviceRow
    BY <1>6
  <2> DEFINE none == [rows[r] EXCEPT !.token = 0]
  <2>2. none \in Push!DeviceRow /\ none.token = 0 /\ none.on = rows[r].on
    BY <2>1, RowCleared
  <2>3. rows'[r] = rows[r] \/ (rows'[r] = none /\ rows[r].token \in x.dropped)
    BY <1>1
  <2> HIDE DEF none
  <2>4. QED
    BY <2>1, <2>2, <2>3
<1>8. rows' \in [Push!Row -> Push!DeviceRow]
  BY <1>1, <1>6, <1>7
<1>9. \A r \in Push!Row : rows'[r].token # rows[r].token =>
        \E n \in {"notifier"} : send[n] # Push!Idle /\ rows[r].token \in send[n].dropped
  BY <1>2, <1>7
<1>10. /\ y.targets = send["notifier"].targets /\ y.left = send["notifier"].left
       /\ y.tries = send["notifier"].tries /\ y.shown = send["notifier"].shown
       /\ y.failed = send["notifier"].failed /\ y.dropped = send["notifier"].dropped
       /\ send["notifier"] \in Push!Sending
  BY <1>2, <1>4
<1> HIDE DEF x
<1>11. QED
  BY <1>1, <1>3, <1>5, <1>6, <1>7, <1>8, <1>9, <1>10, ClearedKept

(* The service gives a phone a new token: whatever is held is an older one. *)
LEMMA ReplaceKept == ASSUME PushInv, NEW p \in Phone, Push!ReplaceToken(p) PROVE PushInv'
<1>1. /\ tokens < MaxTokens /\ tokens' = tokens + 1
      /\ current' = [current EXCEPT ![p] = tokens']
      /\ home' \in {home, [home EXCEPT ![p] = "sandbox"]}
      /\ UNCHANGED <<rows, notify, social, deleted, req, send, last, late, misrouted>>
  BY DEF Push!ReplaceToken, Push!account, Push!counts
<1>2. /\ tokens \in Nat /\ MaxTokens \in Nat /\ tokens' \in Push!Token /\ tokens' \in Nat
      /\ current \in [Phone -> Push!Token] /\ home \in [Phone -> Push!Env]
  <2>1. tokens \in Nat /\ current \in [Phone -> Push!Token] /\ home \in [Phone -> Push!Env]
    BY DEF PushInv, PushTypes
  <2>2. QED
    BY <1>1, <2>1, AccountsAssumption DEF Push!Token
<1>3. /\ current' \in [Phone -> Push!Token] /\ current'[p] = tokens + 1
      /\ \A q \in Phone \ {p} : current'[q] = current[q] /\ home'[q] = home[q]
      /\ home' \in [Phone -> Push!Env]
  BY <1>1, <1>2 DEF Push!Env
<1>4. PushTypes'
  BY <1>1, <1>2, <1>3 DEF PushInv, PushTypes
<1>5. ASSUME NEW n \in {0} \cup Push!Token, n <= tokens PROVE n <= tokens' /\ n # current'[p]
  <2>1. n \in Nat
    BY TokenNumbers
  <2>2. QED
    BY <1>1, <1>2, <1>3, <1>5, <2>1
<1>6. ASSUME NEW n \in {0} \cup Push!Token, NEW q \in Phone, TokenOf(n, q) PROVE TokenOf(n, q)'
  <2>1. n <= tokens /\ \A o \in Phone \ {q} : current[o] # n
    BY <1>6 DEF TokenOf
  <2>2. n <= tokens' /\ n # current'[p]
    BY <1>5, <2>1
  <2>3. QED
    BY <1>3, <2>1, <2>2 DEF TokenOf
<1>7. TokensApart'
  <2>1. \A q \in Phone : current'[q] <= tokens'
    <3>1. \A q \in Phone \ {p} : current[q] \in Push!Token /\ current[q] <= tokens
      BY <1>2 DEF PushInv, TokensApart
    <3>2. QED
      BY <1>1, <1>2, <1>3, <1>5, <3>1
  <2>2. \A q, o \in Phone : q # o => current'[q] # current'[o]
    <3>1. \A q \in Phone \ {p} : current[q] # current'[p]
      <4>1. \A q \in Phone \ {p} : current[q] \in Push!Token /\ current[q] <= tokens
        BY <1>2 DEF PushInv, TokensApart
      <4>2. QED
        BY <1>5, <4>1
    <3>2. QED
      BY <1>3, <3>1 DEF PushInv, TokensApart
  <2>3. \A x \in Push!Row : TokenOf(rows[x].token, x[2])' /\ TokenOf(last[x], x[2])'
    <3>1. \A x \in Push!Row :
            /\ rows[x].token \in {0} \cup Push!Token /\ last[x] \in {0} \cup Push!Token /\ x[2] \in Phone
            /\ TokenOf(rows[x].token, x[2]) /\ TokenOf(last[x], x[2])
      BY PushRecords DEF PushInv, PushTypes, TokensApart
    <3>2. QED
      BY <1>1, <1>6, <3>1
  <2>4. \A r \in {"refresh"} : req[r] # Push!Idle => TokenOf(req[r].m.token, req[r].m.phone)'
    <3>1. \A r \in {"refresh"} : req[r] # Push!Idle =>
            /\ req[r].m.token \in {0} \cup Push!Token /\ req[r].m.phone \in Phone
            /\ TokenOf(req[r].m.token, req[r].m.phone)
      BY PushReqFacts, PushRecords DEF PushInv, PushTypes, TokensApart
    <3>2. QED
      BY <1>1, <1>6, <3>1
  <2>5. \A s \in {"notifier"} : send[s] # Push!Idle =>
          \A t \in send[s].targets : TokenOf(t.token, t.row[2])'
    <3>1. \A s \in {"notifier"} : send[s] # Push!Idle =>
            \A t \in send[s].targets :
              /\ t.token \in {0} \cup Push!Token /\ t.row[2] \in Phone /\ TokenOf(t.token, t.row[2])
      BY SendingFacts, PushRecords DEF PushInv, PushTypes, TokensApart
    <3>2. QED
      BY <1>1, <1>6, <3>1
  <2>6. QED
    BY <1>1, <2>1, <2>2, <2>3, <2>4, <2>5 DEF TokensApart, TokenOf
<1>8. SendsUnderway'
  BY <1>1 DEF PushInv, SendsUnderway
<1>9. DroppedForGood'
  <2>1. ASSUME NEW s \in {"notifier"}, send[s] # Push!Idle, NEW n \in send[s].dropped
        PROVE  n <= tokens' /\ (n \in misrouted \/ \A q \in Phone : current'[q] # n)
    <3>1. /\ n \in {0} \cup Push!Token /\ n <= tokens
          /\ n \in misrouted \/ \A q \in Phone : current[q] # n
      BY <2>1, SendingFacts DEF PushInv, PushTypes, DroppedForGood
    <3>2. n <= tokens' /\ n # current'[p]
      BY <1>5, <3>1
    <3>3. QED
      BY <1>3, <3>1, <3>2
  <2>2. QED
    BY <1>1, <2>1 DEF DroppedForGood
<1>10. Push!LiveTokenKept'
  <2>1. ASSUME NEW x \in Push!Row, last[x] = current'[x[2]] PROVE last[x] = current[x[2]]
    <3>1. last[x] \in {0} \cup Push!Token /\ last[x] <= tokens /\ x[2] \in Phone
      BY PushRecords DEF PushInv, PushTypes, TokensApart, TokenOf
    <3>2. x[2] # p
      BY <1>5, <2>1, <3>1
    <3>3. QED
      BY <1>3, <2>1, <3>1, <3>2
  <2>2. QED
    BY <1>1, <2>1 DEF PushInv, Push!LiveTokenKept
<1>11. Push!DeletedIsUnreachable'
  BY <1>1 DEF PushInv, Push!DeletedIsUnreachable
<1>12. Push!OneFailureOnePhone'
  <2>1. ASSUME NEW s \in {"notifier"}, send[s] # Push!Idle, NEW t \in send[s].targets, ~Push!Accepts(t)
        PROVE  ~Push!Accepts(t)'
    <3>1. /\ t.token \in {0} \cup Push!Token /\ t.row[2] \in Phone /\ t.token <= tokens
      BY <2>1, SendingFacts, PushRecords DEF PushInv, PushTypes, TokensApart, TokenOf
    <3>2. t.token # current'[p]
      BY <1>5, <3>1
    <3>3. QED
      BY <1>3, <2>1, <3>1, <3>2 DEF Push!Accepts
  <2>2. QED
    BY <1>1, <2>1 DEF PushInv, Push!OneFailureOnePhone
<1>13. QED
  BY <1>4, <1>7, <1>8, <1>9, <1>10, <1>11, <1>12 DEF PushInv

(* Steps of the notifier: the record of its run changes, and a token may turn
   out to be of the other environment. *)
LEMMA NotifierKept ==
  ASSUME PushInv, NEW y \in Push!Sending \cup {Push!Idle}, send' = [s \in {"notifier"} |-> y],
         y # Push!Idle =>
           /\ y.left \cup y.shown \subseteq y.targets /\ y.tries < MaxAttempts
           /\ \A t \in y.targets : TokenOf(t.token, t.row[2])
           /\ \A n \in y.dropped : n <= tokens /\ (n \in misrouted' \/ \A p \in Phone : current[p] # n)
           /\ \A t \in y.targets \ (y.left \cup y.shown \cup y.failed) : ~Push!Accepts(t),
         misrouted \subseteq misrouted',
         UNCHANGED <<tokens, current, home, rows, notify, social, deleted, req, last, late>>
  PROVE  PushInv'
<1>1. send'["notifier"] = y
  OBVIOUS
<1>2. PushTypes'
  <2>1. send' \in [{"notifier"} -> Push!Sending \cup {Push!Idle}]
    OBVIOUS
  <2>2. QED
    BY <2>1 DEF PushInv, PushTypes
<1>3. TokensApart'
  BY <1>1 DEF PushInv, TokensApart, TokenOf
<1>4. SendsUnderway' /\ DroppedForGood'
  BY <1>1 DEF SendsUnderway, DroppedForGood
<1>5. Push!LiveTokenKept' /\ Push!DeletedIsUnreachable'
  BY DEF PushInv, Push!LiveTokenKept, Push!DeletedIsUnreachable
<1>6. Push!OneFailureOnePhone'
  BY <1>1 DEF Push!OneFailureOnePhone, Push!Accepts
<1>7. QED
  BY <1>2, <1>3, <1>4, <1>5, <1>6 DEF PushInv

LEMMA BeginKept ==
  ASSUME PushInv, NEW s \in {"notifier"}, NEW clears \in BOOLEAN, NEW R \in SUBSET Push!Reachable,
         Push!Begin(s, clears, Push!Targets(R))
  PROVE  PushInv'
<1> DEFINE T == Push!Targets(R)
           y == [op |-> "send", clears |-> clears, targets |-> T, left |-> T, trying |-> {},
                 tries |-> 0, shown |-> {}, failed |-> {}, dropped |-> {}]
<1>1. /\ send' = [send EXCEPT ![s] = y]
      /\ UNCHANGED <<tokens, current, home, rows, notify, social, deleted, req, last, late, misrouted>>
  BY DEF Push!Begin, Push!service, Push!account
<1>2. send' = [n \in {"notifier"} |-> y]
  BY <1>1 DEF PushInv, PushTypes
<1>3. \A t \in T : t \in Push!PushTarget /\ TokenOf(t.token, t.row[2])
  <2>1. ASSUME NEW x \in R
        PROVE  /\ [row |-> x, token |-> rows[x].token, env |-> rows[x].env] \in Push!PushTarget
               /\ TokenOf(rows[x].token, x[2])
    <3>1. x \in Push!Row /\ rows[x].token # 0 /\ rows[x] \in Push!DeviceRow
      BY DEF Push!Reachable, PushInv, PushTypes
    <3>2. rows[x].token \in Push!Token /\ rows[x].env \in Push!Env
      BY <3>1, PushRecords
    <3>3. QED
      BY <3>1, <3>2 DEF Push!PushTarget, PushInv, TokensApart
  <2>2. QED
    BY <2>1 DEF Push!Targets
<1> HIDE DEF T
<1>4. y \in Push!Sending
  BY <1>3 DEF Push!Sending
<1>5. /\ y.left = T /\ y.shown = {} /\ y.targets = T /\ y.tries = 0 /\ y.dropped = {} /\ y.failed = {}
  OBVIOUS
<1>6. 0 < MaxAttempts
  BY AccountsAssumption
<1> HIDE DEF y
<1>7. QED
  BY <1>1, <1>2, <1>3, <1>4, <1>5, <1>6, NotifierKept

LEMMA DeliverKept ==
  ASSUME PushInv, NEW s \in {"notifier"}, NEW t \in Push!PushTarget, Push!deliver(s, t)
  PROVE  PushInv'
<1> DEFINE x == send[s]
           got == IF Push!Accepts(t) THEN {t} ELSE {}
<1>1. PICK y \in Answers(x, t, got) : send' = [send EXCEPT ![s] = y]
  BY DEF Push!deliver, Answers
<1>2. /\ x.op = "send" /\ t \in x.left
      /\ misrouted' = (IF t.token = current[t.row[2]] /\ ~Push!Accepts(t)
                       THEN misrouted \cup {t.token} ELSE misrouted)
      /\ UNCHANGED <<tokens, current, home, rows, notify, social, deleted, req, last, late>>
  BY DEF Push!deliver, Push!service, Push!account
<1>3. x \in Push!Sending /\ x # Push!Idle /\ x.left \cup x.shown \subseteq x.targets /\ x.tries < MaxAttempts
  <2>1. x \in Push!Sending \cup {Push!Idle} /\ x # Push!Idle
    BY <1>2, PushReqFacts DEF PushInv, PushTypes
  <2>2. QED
    BY <2>1 DEF PushInv, SendsUnderway
<1>4. got \in SUBSET {t}
  OBVIOUS
<1>5. send' = [n \in {"notifier"} |-> y]
  BY <1>1 DEF PushInv, PushTypes
<1>6. /\ \A u \in x.targets : TokenOf(u.token, u.row[2])
      /\ \A n \in x.dropped : n <= tokens /\ (n \in misrouted \/ \A p \in Phone : current[p] # n)
      /\ \A u \in x.targets \ (x.left \cup x.shown \cup x.failed) : ~Push!Accepts(u)
  BY <1>3 DEF PushInv, TokensApart, DroppedForGood, Push!OneFailureOnePhone
<1> HIDE DEF x, got
<1>7. /\ y \in Push!Sending /\ y.targets = x.targets
      /\ y.left \cup y.shown \subseteq y.targets /\ y.tries < MaxAttempts
      /\ y.dropped \subseteq x.dropped \cup {t.token}
      /\ y.dropped \subseteq x.dropped \/ ~Push!Accepts(t)
      /\ x.left \cup x.shown \cup x.failed \subseteq y.left \cup y.shown \cup y.failed \cup {t}
      /\ ~Push!Accepts(t) \/ t \in y.left \cup y.shown \cup y.failed
  BY <1>1, <1>2, <1>3, <1>4, Answered
<1>8. /\ t \in x.targets /\ t.row \in Push!Row /\ t.row[2] \in Phone
      /\ t.token <= tokens /\ \A p \in Phone \ {t.row[2]} : current[p] # t.token
  BY <1>2, <1>3, <1>6, PushRecords DEF TokenOf
<1>9. ~Push!Accepts(t) => t.token \in misrouted' \/ \A p \in Phone : current[p] # t.token
  <2>1. CASE t.token = current[t.row[2]]
    BY <1>2, <2>1
  <2>2. CASE t.token # current[t.row[2]]
    BY <1>8, <2>2
  <2>3. QED
    BY <2>1, <2>2
<1>10. \A n \in y.dropped : n <= tokens /\ (n \in misrouted' \/ \A p \in Phone : current[p] # n)
  <2>1. misrouted \subseteq misrouted'
    BY <1>2
  <2>2. ASSUME NEW n \in y.dropped, n \in x.dropped
        PROVE  n <= tokens /\ (n \in misrouted' \/ \A p \in Phone : current[p] # n)
    BY <1>6, <2>1, <2>2
  <2>3. ASSUME NEW n \in y.dropped, n \notin x.dropped
        PROVE  n <= tokens /\ (n \in misrouted' \/ \A p \in Phone : current[p] # n)
    <3>1. n = t.token /\ ~Push!Accepts(t)
      BY <1>7, <2>3
    <3>2. QED
      BY <1>8, <1>9, <3>1
  <2>4. QED
    BY <2>2, <2>3
<1>11. \A u \in y.targets \ (y.left \cup y.shown \cup y.failed) : ~Push!Accepts(u)
  BY <1>6, <1>7
<1>12. misrouted \subseteq misrouted' /\ \A u \in y.targets : TokenOf(u.token, u.row[2])
  BY <1>2, <1>6, <1>7
<1>13. QED
  BY <1>2, <1>5, <1>7, <1>10, <1>11, <1>12, NotifierKept

LEMMA EndKept == ASSUME PushInv, NEW s \in {"notifier"}, Push!SendEnds(s) PROVE PushInv'
<1>1. /\ send' = [send EXCEPT ![s] = Push!Idle]
      /\ UNCHANGED <<tokens, current, home, rows, notify, social, deleted, req, last, late, misrouted>>
  BY DEF Push!SendEnds, Push!service, Push!account
<1>2. send' = [n \in {"notifier"} |-> Push!Idle]
  BY <1>1 DEF PushInv, PushTypes
<1>3. QED
  BY <1>1, <1>2, NotifierKept

LEMMA PushStepInv == PushInv /\ [Push!Next]_Push!vars => PushInv'
<1> SUFFICES ASSUME PushInv, [Push!Next]_Push!vars PROVE PushInv'
  OBVIOUS
<1>1. ASSUME NEW r \in {"refresh"},
             Push!StoreDevice(r) \/ Push!SetPodcastNotifyFlags(r) \/ Push!RegistrationFails(r)
      PROVE  PushInv'
  BY <1>1, StoreKept, FlagsKept
<1>2. ASSUME NEW r \in {"refresh"}, NEW m \in Push!UpdateRequest, Push!persistPushState(r, m)
      PROVE  PushInv'
  BY <1>2, RegistrationKept
<1>3. ASSUME NEW s \in {"notifier"}, Push!NotifyNewEpisodes(s) PROVE PushInv'
  <2>1. {x \in Push!Reachable : x[1] \in notify} \in SUBSET Push!Reachable
    OBVIOUS
  <2>2. QED
    BY <1>3, <2>1, BeginKept DEF Push!NotifyNewEpisodes, Push!GetPushTargetsForPodcast
<1>4. ASSUME NEW s \in {"notifier"}, NEW a \in Account, Push!NotifySocial(s, a) \/ Push!NotifyPersonAppearance(s, a)
      PROVE  PushInv'
  <2>1. {x \in Push!Reachable : x[1] = a} \in SUBSET Push!Reachable
    OBVIOUS
  <2>2. \E clears \in BOOLEAN : Push!Begin(s, clears, Push!Targets({x \in Push!Reachable : x[1] = a}))
    BY <1>4 DEF Push!NotifySocial, Push!NotifyPersonAppearance, Push!GetPushTargetsForUser
  <2>3. QED
    BY <2>1, <2>2, BeginKept
<1>5. ASSUME NEW s \in {"notifier"}, Push!ClearDead(s) \/ Push!SendEnds(s) PROVE PushInv'
  BY <1>5, ClearDeadKept, EndKept
<1>6. ASSUME NEW s \in {"notifier"}, NEW t \in Push!PushTarget, Push!deliver(s, t) PROVE PushInv'
  BY <1>6, DeliverKept
<1>7. ASSUME NEW a \in Account, Push!DeleteAccount(a) PROVE PushInv'
  BY <1>7, DeleteKept
<1>8. ASSUME NEW p \in Phone, Push!ReplaceToken(p) PROVE PushInv'
  BY <1>8, ReplaceKept
<1>9. CASE UNCHANGED Push!vars
  <2>1. UNCHANGED <<tokens, current, home, rows, notify, social, deleted, req, send, last, late, misrouted>>
    BY <1>9 DEF Push!vars, Push!service, Push!account
  <2>2. PushTypes'
    BY <2>1 DEF PushInv, PushTypes
  <2>3. TokensApart' /\ SendsUnderway' /\ DroppedForGood'
    BY <2>1 DEF PushInv, TokensApart, TokenOf, SendsUnderway, DroppedForGood
  <2>4. Push!LiveTokenKept' /\ Push!DeletedIsUnreachable' /\ Push!OneFailureOnePhone'
    BY <2>1 DEF PushInv, Push!LiveTokenKept, Push!DeletedIsUnreachable, Push!OneFailureOnePhone, Push!Accepts
  <2>5. QED
    BY <2>2, <2>3, <2>4 DEF PushInv
<1>10. QED
  BY <1>1, <1>2, <1>3, <1>4, <1>5, <1>6, <1>7, <1>8, <1>9 DEF Push!Next

LEMMA PushShown == PushInv => Push!TypeOK
BY SendingFacts DEF PushInv, PushTypes, SendsUnderway, Push!TypeOK

----------------------------------------------------------------------------
(* Restores.  A row that has not changed since the cursor was read is held as
   it is, once its list was read; an episode's chapters come with its podcast. *)
LibKeys == Restore!Key
Row(k) == library[k].data
Old(k) == Restore!Stored(k) /\ library[k].mod <= cursor

LibraryTypes ==
  /\ syncLastModified \in Nat /\ cursor \in Nat /\ cursor <= syncLastModified
  /\ \A k \in LibKeys : Restore!Stored(k) =>
       /\ Row(k) \in Restore!RowOf(k.t)
       /\ library[k].mod \in Nat \ {0} /\ library[k].mod <= syncLastModified
  /\ \A k \in LibKeys : Restore!Holds(copy, k) => Restore!Stored(k) /\ copy[k] \in Restore!RowOf(k.t)
  /\ todo \subseteq {"last_sync_at"} \cup Restore!ListRequest /\ wanted \subseteq Podcasts
  /\ half \subseteq Episodes
  /\ "last_sync_at" \in todo =>
       todo = {"last_sync_at"} /\ wanted = {} /\ half = {} /\ \A k \in LibKeys : ~Restore!Holds(copy, k)

Agrees(k, data) ==
  IF k.t = "episode" THEN data.podcast = Row(k).podcast /\ data.starred = Row(k).starred
  ELSE data = Row(k)
CopiesAgree == \A k \in LibKeys : Restore!Holds(copy, k) /\ Old(k) => Agrees(k, copy[k])

Read(k) ==
  CASE k.t = "podcast" -> "podcast/list" \notin todo
    [] k.t = "folder" -> "podcast/list" \notin todo /\ "podcast/folders" \notin todo
    [] k.t = "playlist" -> "playlist/list" \notin todo
    [] k.t = "bookmark" -> "bookmark/list" \notin todo
    [] OTHER -> "starred/list" \notin todo
Listed(k) == IF k.t = "episode" THEN Row(k).starred ELSE Row(k).live
ListsRead ==
  "last_sync_at" \notin todo =>
    \A k \in LibKeys : Old(k) /\ Listed(k) /\ Read(k) => Restore!Holds(copy, k)

EpisodesRead ==
  \A p, e \in LibKeys :
    /\ p.t = "podcast" /\ Restore!Holds(copy, p) /\ copy[p].live /\ p.id \notin wanted
    /\ e.t = "episode" /\ Old(e) /\ Row(e).podcast = p.id
    => copy[e] = Row(e)

LibraryInv == LibraryTypes /\ CopiesAgree /\ ListsRead /\ EpisodesRead

LEMMA LibraryKeys ==
  /\ \A k \in LibKeys :
       /\ k.t \in {"podcast", "folder", "playlist", "episode", "bookmark"}
       /\ k.t = "podcast" => k.id \in Podcasts
       /\ k.t = "folder" => k.id = "folder"
       /\ k.t = "episode" => k.id \in Episodes
  /\ \A k, j \in LibKeys : k.t = j.t /\ k.id = j.id => k = j
  /\ \A n \in Podcasts : [t |-> "podcast", id |-> n] \in LibKeys
  /\ \A x : x \in Restore!Keys("podcast") <=> (x \in LibKeys /\ x.t = "podcast")
  /\ \A x : x \in Restore!Keys("folder") <=> (x \in LibKeys /\ x.t = "folder")
  /\ \A x : x \in Restore!Keys("playlist") <=> (x \in LibKeys /\ x.t = "playlist")
  /\ \A x : x \in Restore!Keys("episode") <=> (x \in LibKeys /\ x.t = "episode")
  /\ \A x : x \in Restore!Keys("bookmark") <=> (x \in LibKeys /\ x.t = "bookmark")
<1>1. \A k \in LibKeys :
        /\ k.t \in {"podcast", "folder", "playlist", "episode", "bookmark"}
        /\ k.t = "podcast" => k.id \in Podcasts
        /\ k.t = "folder" => k.id = "folder"
        /\ k.t = "episode" => k.id \in Episodes
  BY DEF LibKeys, Restore!Key
<1>2. \A k, j \in LibKeys : k.t = j.t /\ k.id = j.id => k = j
  BY DEF LibKeys, Restore!Key
<1>3. \A n \in Podcasts : [t |-> "podcast", id |-> n] \in LibKeys
  BY DEF LibKeys, Restore!Key
<1>4. \A x, y : x \in Restore!Keys(y) <=> (x \in LibKeys /\ x.t = y)
  BY DEF LibKeys, Restore!Keys
<1>5. QED
  BY <1>1, <1>2, <1>3, <1>4

LEMMA LibraryRows ==
  /\ \A d : d \in Restore!RowOf("podcast") <=> d \in Restore!UserPodcast
  /\ \A d : d \in Restore!RowOf("episode") <=> d \in Restore!UserEpisode
  /\ \A d : d \in Restore!RowOf("bookmark") <=> d \in Restore!BookmarkRow
  /\ \A d : d \in Restore!RowOf("folder") <=> d \in Restore!FolderRow
  /\ \A d : d \in Restore!RowOf("playlist") <=> d \in Restore!PlaylistRow
BY DEF Restore!RowOf

LEMMA LibraryRecords ==
  /\ \A d \in Restore!UserPodcast :
       /\ d.live \in BOOLEAN /\ d.folder \in {"folder", "none"} /\ d # Restore!Absent
       /\ d = [live |-> d.live, folder |-> d.folder]
  /\ \A d \in Restore!UserEpisode :
       /\ d.podcast \in Podcasts /\ d.starred \in BOOLEAN /\ d.chapters \in {0, 1} /\ d # Restore!Absent
       /\ d = [podcast |-> d.podcast, starred |-> d.starred, chapters |-> d.chapters]
  /\ \A d \in Restore!BookmarkRow :
       /\ d.live \in BOOLEAN /\ d.episode \in Episodes /\ d # Restore!Absent
       /\ d = [live |-> d.live, episode |-> d.episode]
  /\ \A d \in Restore!FolderRow : /\ d.live \in BOOLEAN /\ d.val \in Excerpts /\ d # Restore!Absent
                                  /\ d = [live |-> d.live, val |-> d.val]
  /\ \A d \in Restore!PlaylistRow : /\ d.live \in BOOLEAN /\ d.val \in Excerpts /\ d # Restore!Absent
                                    /\ d = [live |-> d.live, val |-> d.val]
<1>1. \A d \in Restore!UserPodcast :
        /\ d.live \in BOOLEAN /\ d.folder \in {"folder", "none"} /\ d # Restore!Absent
        /\ d = [live |-> d.live, folder |-> d.folder]
  BY DEF Restore!UserPodcast, Restore!Absent
<1>2. \A d \in Restore!UserEpisode :
        /\ d.podcast \in Podcasts /\ d.starred \in BOOLEAN /\ d.chapters \in {0, 1} /\ d # Restore!Absent
        /\ d = [podcast |-> d.podcast, starred |-> d.starred, chapters |-> d.chapters]
  BY DEF Restore!UserEpisode, Restore!Absent
<1>3. \A d \in Restore!BookmarkRow :
        /\ d.live \in BOOLEAN /\ d.episode \in Episodes /\ d # Restore!Absent
        /\ d = [live |-> d.live, episode |-> d.episode]
  BY DEF Restore!BookmarkRow, Restore!Absent
<1>4. \A d \in Restore!FolderRow : /\ d.live \in BOOLEAN /\ d.val \in Excerpts /\ d # Restore!Absent
                                   /\ d = [live |-> d.live, val |-> d.val]
  BY DEF Restore!FolderRow, Restore!Absent
<1>5. \A d \in Restore!PlaylistRow : /\ d.live \in BOOLEAN /\ d.val \in Excerpts /\ d # Restore!Absent
                                     /\ d = [live |-> d.live, val |-> d.val]
  BY DEF Restore!PlaylistRow, Restore!Absent
<1>6. QED
  BY <1>1, <1>2, <1>3, <1>4, <1>5

LEMMA NeverAbsent == \A k \in LibKeys : Restore!Absent \notin Restore!RowOf(k.t)
<1>1. ASSUME NEW k \in LibKeys, Restore!Absent \in Restore!RowOf(k.t) PROVE FALSE
  BY <1>1, LibraryKeys, LibraryRows, LibraryRecords
<1>2. QED
  BY <1>1

LEMMA LibraryInitInv == Restore!Init => LibraryInv
<1> SUFFICES ASSUME Restore!Init PROVE LibraryInv
  OBVIOUS
<1>1. /\ library = [k \in LibKeys |-> Restore!NoRow] /\ syncLastModified = 0
      /\ todo = {"last_sync_at"} /\ wanted = {} /\ half = {} /\ cursor = 0
      /\ copy = [k \in LibKeys |-> Restore!Absent]
  BY DEF Restore!Init, LibKeys
<1>2. \A k \in LibKeys : ~Restore!Stored(k) /\ ~Restore!Holds(copy, k)
  BY <1>1 DEF Restore!Stored, Restore!Holds
<1>3. LibraryTypes
  BY <1>1, <1>2 DEF LibraryTypes
<1>4. CopiesAgree /\ ListsRead /\ EpisodesRead
  BY <1>2 DEF CopiesAgree, ListsRead, EpisodesRead, Old
<1>5. QED
  BY <1>3, <1>4 DEF LibraryInv

(* A transaction of another device: what it writes is newer than the cursor. *)
LEMMA WriteKept ==
  ASSUME LibraryInv, NEW new, DOMAIN new \subseteq LibKeys,
         \A k \in DOMAIN new : new[k] \in Restore!RowOf(k.t),
         Restore!Write(new)
  PROVE  LibraryInv'
<1>1. /\ syncLastModified' = syncLastModified + 1
      /\ library' = [k \in LibKeys |-> IF k \in DOMAIN new
                                       THEN [mod |-> syncLastModified', data |-> new[k]] ELSE library[k]]
      /\ UNCHANGED <<todo, wanted, half, cursor, copy>>
  BY DEF Restore!Write, LibKeys
<1>2. syncLastModified \in Nat /\ cursor \in Nat /\ cursor <= syncLastModified /\ LibraryTypes
  BY DEF LibraryInv, LibraryTypes
<1>3. ASSUME NEW k \in LibKeys
      PROVE  \/ library'[k] = library[k]
             \/ /\ k \in DOMAIN new /\ library'[k].mod = syncLastModified' /\ library'[k].data = new[k]
                /\ library'[k] # Restore!NoRow
  <2>1. CASE k \in DOMAIN new
    <3> DEFINE r == [mod |-> syncLastModified', data |-> new[k]]
    <3>1. library'[k] = r
      BY <1>1, <2>1
    <3>2. r.mod = syncLastModified' /\ r.data = new[k]
      OBVIOUS
    <3>3. syncLastModified' # 0 /\ Restore!NoRow.mod = 0
      BY <1>1, <1>2 DEF Restore!NoRow
    <3> HIDE DEF r
    <3>4. r # Restore!NoRow
      BY <3>2, <3>3
    <3>5. QED
      BY <2>1, <3>1, <3>2, <3>4
  <2>2. CASE k \notin DOMAIN new
    BY <1>1, <2>2
  <2>3. QED
    BY <2>1, <2>2
<1>4. \A k \in LibKeys : Restore!Stored(k) => Restore!Stored(k)'
  BY <1>3 DEF Restore!Stored
<1>5. \A k \in LibKeys : Old(k)' => Old(k) /\ Row(k)' = Row(k)
  <2>1. ASSUME NEW k \in LibKeys, Old(k)' PROVE library'[k] = library[k]
    <3>1. library'[k].mod <= cursor
      BY <1>1, <2>1 DEF Old
    <3>2. library'[k].mod # syncLastModified'
      BY <1>1, <1>2, <3>1
    <3>3. QED
      BY <1>3, <3>2
  <2>2. QED
    BY <1>1, <2>1 DEF Old, Row, Restore!Stored
<1>6. LibraryTypes'
  <2>1. ASSUME NEW k \in LibKeys, Restore!Stored(k)'
        PROVE  /\ Row(k)' \in Restore!RowOf(k.t)
               /\ library'[k].mod \in Nat \ {0} /\ library'[k].mod <= syncLastModified'
    <3>1. CASE library'[k] = library[k]
      <4>1. Row(k) \in Restore!RowOf(k.t) /\ library[k].mod \in Nat \ {0} /\ library[k].mod <= syncLastModified
        BY <1>2, <2>1, <3>1 DEF LibraryTypes, Restore!Stored
      <4>2. QED
        BY <1>1, <1>2, <3>1, <4>1 DEF Row
    <3>2. CASE k \in DOMAIN new /\ library'[k].mod = syncLastModified' /\ library'[k].data = new[k]
      BY <1>1, <1>2, <3>2 DEF Row
    <3>3. QED
      BY <1>3, <3>1, <3>2
  <2>2. \A k \in LibKeys : Restore!Holds(copy', k) => Restore!Stored(k)' /\ copy'[k] \in Restore!RowOf(k.t)
    BY <1>1, <1>2, <1>4 DEF LibraryTypes, Restore!Holds
  <2>3. syncLastModified' \in Nat /\ cursor' <= syncLastModified'
    BY <1>1, <1>2
  <2>4. QED
    BY <1>1, <1>2, <2>1, <2>2, <2>3 DEF LibraryTypes, Restore!Holds
<1>7. CopiesAgree'
  <2>1. \A k \in LibKeys : Restore!Holds(copy, k)' /\ Old(k)' => Agrees(k, copy[k])'
    BY <1>1, <1>5 DEF LibraryInv, CopiesAgree, Agrees, Restore!Holds
  <2>2. QED
    BY <2>1 DEF CopiesAgree
<1>8. ListsRead'
  <2>1. \A k \in LibKeys : Listed(k)' /\ Old(k)' => Listed(k)
    BY <1>5 DEF Listed
  <2>2. \A k \in LibKeys : Read(k)' <=> Read(k)
    BY <1>1 DEF Read
  <2>3. QED
    BY <1>1, <1>5, <2>1, <2>2 DEF LibraryInv, ListsRead, Restore!Holds
<1>9. EpisodesRead'
  BY <1>1, <1>5 DEF LibraryInv, EpisodesRead, Restore!Holds
<1>10. QED
  BY <1>6, <1>7, <1>8, <1>9 DEF LibraryInv

(* A list that the device imports.  What it carries is stored, agrees with the
   row, and takes nothing away from a copy that was complete. *)
Carries(R) ==
  /\ DOMAIN R \subseteq LibKeys
  /\ \A k \in DOMAIN R :
       /\ Restore!Stored(k) /\ R[k] \in Restore!RowOf(k.t) /\ Agrees(k, R[k])
       /\ copy[k] = Row(k) => R[k] = Row(k)

LEMMA Imported ==
  ASSUME LibraryInv, NEW R, Carries(R), copy' = Restore!Import(R), UNCHANGED library
  PROVE  /\ \A k \in LibKeys : k \notin DOMAIN R => copy'[k] = copy[k]
         /\ \A k \in DOMAIN R : copy'[k] = R[k] /\ Restore!Holds(copy', k)
         /\ \A k \in LibKeys : Restore!Holds(copy, k) => Restore!Holds(copy', k)
         /\ \A k \in LibKeys : copy[k] = Row(k) => copy'[k] = Row(k)
         /\ \A k \in LibKeys : Restore!Holds(copy', k) => Restore!Stored(k) /\ copy'[k] \in Restore!RowOf(k.t)
         /\ \A k \in LibKeys : Restore!Holds(copy', k) /\ Old(k) => Agrees(k, copy'[k])
<1>1. \A k \in LibKeys : copy'[k] = IF k \in DOMAIN R THEN R[k] ELSE copy[k]
  BY DEF Restore!Import, LibKeys
<1>2. /\ DOMAIN R \subseteq LibKeys
      /\ \A k \in DOMAIN R :
           /\ Restore!Stored(k) /\ R[k] \in Restore!RowOf(k.t) /\ Agrees(k, R[k])
           /\ copy[k] = Row(k) => R[k] = Row(k)
  BY DEF Carries
<1>3. \A k \in DOMAIN R : R[k] # Restore!Absent
  BY <1>2, NeverAbsent
<1>4. /\ \A k \in LibKeys : Restore!Holds(copy, k) => Restore!Stored(k) /\ copy[k] \in Restore!RowOf(k.t)
      /\ \A k \in LibKeys : Restore!Holds(copy, k) /\ Old(k) => Agrees(k, copy[k])
  BY DEF LibraryInv, LibraryTypes, CopiesAgree
<1>5. QED
  BY <1>1, <1>2, <1>3, <1>4 DEF Restore!Holds

LEMMA ListKept ==
  ASSUME LibraryInv, NEW R, Carries(R), copy' = Restore!Import(R),
         UNCHANGED <<library, syncLastModified, cursor>>,
         "last_sync_at" \notin todo, todo' \subseteq Restore!ListRequest,
         wanted' \subseteq Podcasts, half' \subseteq Episodes,
         \A k \in LibKeys : Listed(k) /\ Restore!Stored(k) /\ Read(k)' => Read(k) \/ k \in DOMAIN R,
         \A p \in LibKeys : p.t = "podcast" /\ p.id \notin wanted'
           => \/ p \notin DOMAIN R /\ p.id \notin wanted
              \/ p \in DOMAIN R /\ Restore!Holds(copy, p) /\ copy[p].live /\ p.id \notin wanted
              \/ p \in DOMAIN R /\ ~R[p].live
              \/ \A e \in LibKeys : e.t = "episode" /\ Restore!Stored(e) /\ Row(e).podcast = p.id
                   => e \in DOMAIN R /\ R[e] = Row(e)
  PROVE  LibraryInv'
<1>1. /\ \A k \in LibKeys : k \notin DOMAIN R => copy'[k] = copy[k]
      /\ \A k \in DOMAIN R : copy'[k] = R[k] /\ Restore!Holds(copy', k)
      /\ \A k \in LibKeys : Restore!Holds(copy, k) => Restore!Holds(copy', k)
      /\ \A k \in LibKeys : copy[k] = Row(k) => copy'[k] = Row(k)
      /\ \A k \in LibKeys : Restore!Holds(copy', k) => Restore!Stored(k) /\ copy'[k] \in Restore!RowOf(k.t)
      /\ \A k \in LibKeys : Restore!Holds(copy', k) /\ Old(k) => Agrees(k, copy'[k])
  BY Imported
<1>2. \A k \in LibKeys : /\ Old(k)' <=> Old(k)
                         /\ Row(k)' = Row(k)
                         /\ Restore!Stored(k)' <=> Restore!Stored(k)
                         /\ Listed(k)' <=> Listed(k)
                         /\ Restore!Holds(copy, k)' <=> Restore!Holds(copy', k)
  BY DEF Old, Row, Restore!Stored, Listed, Restore!Holds
<1>3. "last_sync_at" \notin todo' /\ LibraryTypes
  BY DEF Restore!ListRequest, LibraryInv
<1>4. LibraryTypes'
  <2>1. \A k \in LibKeys : Restore!Stored(k) =>
          /\ Row(k) \in Restore!RowOf(k.t)
          /\ library[k].mod \in Nat \ {0} /\ library[k].mod <= syncLastModified
    BY <1>3 DEF LibraryTypes
  <2>2. \A k \in LibKeys : Restore!Stored(k)' =>
          /\ Row(k)' \in Restore!RowOf(k.t)
          /\ library'[k].mod \in Nat \ {0} /\ library'[k].mod <= syncLastModified'
    BY <1>2, <2>1
  <2>3. \A k \in LibKeys : Restore!Holds(copy, k)' => Restore!Stored(k)' /\ copy'[k] \in Restore!RowOf(k.t)
    BY <1>1, <1>2
  <2>4. syncLastModified' \in Nat /\ cursor' \in Nat /\ cursor' <= syncLastModified'
    BY <1>3 DEF LibraryTypes
  <2>5. QED
    BY <1>3, <2>2, <2>3, <2>4 DEF LibraryTypes
<1>5. CopiesAgree'
  <2>1. \A k \in LibKeys : Restore!Holds(copy, k)' /\ Old(k)' => Agrees(k, copy[k])'
    BY <1>1, <1>2 DEF Agrees
  <2>2. QED
    BY <2>1 DEF CopiesAgree
<1>6. ListsRead'
  <2>1. \A k \in LibKeys : Old(k) /\ Listed(k) /\ Read(k)' => Restore!Holds(copy', k)
    BY <1>1 DEF LibraryInv, ListsRead, Old
  <2>2. QED
    BY <1>2, <2>1 DEF ListsRead
<1>7. EpisodesRead'
  <2>1. ASSUME NEW p \in LibKeys, NEW e \in LibKeys,
               p.t = "podcast", Restore!Holds(copy', p), copy'[p].live, p.id \notin wanted',
               e.t = "episode", Old(e), Row(e).podcast = p.id
        PROVE  copy'[e] = Row(e)
    <3>1. CASE Restore!Holds(copy, p) /\ copy[p].live /\ p.id \notin wanted
      BY <1>1, <2>1, <3>1 DEF LibraryInv, EpisodesRead
    <3>2. CASE e \in DOMAIN R /\ R[e] = Row(e)
      BY <1>1, <3>2
    <3>3. p \notin DOMAIN R => (Restore!Holds(copy, p) /\ copy[p].live)
      BY <1>1, <2>1 DEF Restore!Holds
    <3>4. ~(p \in DOMAIN R /\ ~R[p].live)
      BY <1>1, <2>1
    <3>5. Restore!Stored(e)
      BY <2>1 DEF Old
    <3>6. QED
      BY <2>1, <3>1, <3>2, <3>3, <3>4, <3>5
  <2>2. QED
    BY <1>2, <2>1 DEF EpisodesRead
<1>8. QED
  BY <1>4, <1>5, <1>6, <1>7 DEF LibraryInv

(* The requests of the restoring device. *)
LEMMA RowTypes ==
  ASSUME LibraryInv, NEW k \in LibKeys, Restore!Stored(k)
  PROVE  /\ Row(k) \in Restore!RowOf(k.t)
         /\ k.t = "podcast" => Row(k) \in Restore!UserPodcast
         /\ k.t = "episode" => Row(k) \in Restore!UserEpisode
         /\ k.t = "bookmark" => Row(k) \in Restore!BookmarkRow
         /\ k.t = "folder" => Row(k) \in Restore!FolderRow
         /\ k.t = "playlist" => Row(k) \in Restore!PlaylistRow
BY LibraryRows DEF LibraryInv, LibraryTypes

LEMMA RequestFacts ==
  Restore!ListRequest = {"podcast/list", "podcast/folders", "playlist/list", "bookmark/list", "starred/list"}
BY DEF Restore!ListRequest

LEMMA PodcastListKept == ASSUME LibraryInv, Restore!PodcastList PROVE LibraryInv'
<1> DEFINE R == Restore!UserPodcastListResponse
<1>1. /\ "podcast/list" \in todo /\ todo' = (todo \ {"podcast/list"}) \cup {"podcast/folders"}
      /\ copy' = Restore!Import(R) /\ wanted' = wanted \cup Restore!New(copy')
      /\ UNCHANGED <<library, syncLastModified, cursor, half>>
  BY DEF Restore!PodcastList, Restore!server
<1>2. LibraryTypes
  BY DEF LibraryInv
<1>3. \A k : k \in DOMAIN R <=> k \in LibKeys /\ k.t = "podcast" /\ Restore!Stored(k) /\ Row(k).live
  BY LibraryKeys DEF Restore!UserPodcastListResponse, Restore!GetSubscribedPodcastsWithCatalog, Row
<1>4. \A k \in DOMAIN R : R[k] = Row(k)
  <2>1. ASSUME NEW k \in DOMAIN R PROVE R[k] = Row(k)
    <3>1. R[k] = [live |-> TRUE, folder |-> Row(k).folder]
      BY DEF Restore!UserPodcastListResponse, Restore!UserPodcastResponse, Row
    <3>2. Row(k) \in Restore!UserPodcast /\ Row(k).live
      BY <1>3, RowTypes
    <3>3. QED
      BY <3>1, <3>2, LibraryRecords
  <2>2. QED
    BY <2>1
<1> HIDE DEF R
<1>5. Carries(R)
  <2>1. ASSUME NEW k \in DOMAIN R PROVE Agrees(k, R[k]) /\ R[k] \in Restore!RowOf(k.t)
    BY <1>3, <1>4, RowTypes DEF Agrees
  <2>2. QED
    BY <1>3, <1>4, <2>1 DEF Carries
<1>6. "last_sync_at" \notin todo /\ todo' \subseteq Restore!ListRequest /\ half' \subseteq Episodes
  BY <1>1, <1>2, RequestFacts DEF LibraryTypes
<1>7. Restore!New(copy') \subseteq Podcasts
  BY LibraryKeys DEF Restore!New
<1>8. wanted' \subseteq Podcasts
  BY <1>1, <1>2, <1>7 DEF LibraryTypes
<1>9. \A k \in LibKeys : Listed(k) /\ Restore!Stored(k) /\ Read(k)' => Read(k) \/ k \in DOMAIN R
  <2>1. ASSUME NEW k \in LibKeys, Listed(k), Restore!Stored(k), Read(k)' PROVE Read(k) \/ k \in DOMAIN R
    <3>1. CASE k.t = "podcast"
      BY <1>3, <2>1, <3>1 DEF Listed
    <3>2. CASE k.t = "folder"
      BY <1>1, <2>1, <3>2 DEF Read
    <3>3. CASE k.t \notin {"podcast", "folder"}
      BY <1>1, <2>1, <3>3 DEF Read
    <3>4. QED
      BY <3>1, <3>2, <3>3
  <2>2. QED
    BY <2>1
<1>10. \A p \in LibKeys : p.t = "podcast" /\ p.id \notin wanted'
         => \/ p \notin DOMAIN R /\ p.id \notin wanted
            \/ p \in DOMAIN R /\ Restore!Holds(copy, p) /\ copy[p].live /\ p.id \notin wanted
            \/ p \in DOMAIN R /\ ~R[p].live
  <2>1. ASSUME NEW p \in LibKeys, p.t = "podcast", p.id \notin wanted', p \in DOMAIN R
        PROVE  Restore!Holds(copy, p) /\ copy[p].live
    <3>1. Restore!Holds(copy', p) /\ copy'[p] = R[p] /\ R[p].live
      BY <1>1, <1>3, <1>4, <1>5, <2>1, Imported
    <3>2. p.id \notin Restore!New(copy') /\ p \in Restore!Keys("podcast")
      BY <1>1, <2>1, LibraryKeys
    <3>3. QED
      BY <3>1, <3>2 DEF Restore!New
  <2>2. QED
    BY <1>1, <2>1
<1>11. QED
  BY <1>1, <1>5, <1>6, <1>8, <1>9, <1>10, ListKept

LEMMA ReadFoldersKept == ASSUME LibraryInv, Restore!ReadFolders PROVE LibraryInv'
<1> DEFINE R == Restore!PodcastListFolders
<1>1. /\ "podcast/folders" \in todo /\ todo' = todo \ {"podcast/folders"}
      /\ copy' = Restore!Import(R)
      /\ UNCHANGED <<library, syncLastModified, cursor, wanted, half>>
  BY DEF Restore!ReadFolders, Restore!server
<1>2. LibraryTypes
  BY DEF LibraryInv
<1>3. \A k : k \in DOMAIN R <=> k \in LibKeys /\ k.t = "folder" /\ Restore!Stored(k) /\ Row(k).live
  BY LibraryKeys DEF Restore!PodcastListFolders, Restore!GetFolders, Row
<1>4. \A k \in DOMAIN R : R[k] = Row(k)
  <2>1. ASSUME NEW k \in DOMAIN R PROVE R[k] = Row(k)
    <3>1. R[k] = [live |-> TRUE, val |-> Row(k).val]
      BY DEF Restore!PodcastListFolders, Restore!PodcastFolder, Row
    <3>2. Row(k) \in Restore!FolderRow /\ Row(k).live
      BY <1>3, RowTypes
    <3>3. QED
      BY <3>1, <3>2, LibraryRecords
  <2>2. QED
    BY <2>1
<1> HIDE DEF R
<1>5. Carries(R)
  <2>1. ASSUME NEW k \in DOMAIN R PROVE Agrees(k, R[k]) /\ R[k] \in Restore!RowOf(k.t)
    BY <1>3, <1>4, RowTypes DEF Agrees
  <2>2. QED
    BY <1>3, <1>4, <2>1 DEF Carries
<1>6. "last_sync_at" \notin todo /\ todo' \subseteq Restore!ListRequest /\ half' \subseteq Episodes /\ wanted' \subseteq Podcasts
  BY <1>1, <1>2, RequestFacts DEF LibraryTypes
<1>7. \A k \in LibKeys : Listed(k) /\ Restore!Stored(k) /\ Read(k)' => Read(k) \/ k \in DOMAIN R
  BY <1>1, <1>3 DEF Listed, Read
<1>8. \A p \in LibKeys : p.t = "podcast" /\ p.id \notin wanted' => p \notin DOMAIN R /\ p.id \notin wanted
  BY <1>1, <1>3
<1>9. QED
  BY <1>1, <1>5, <1>6, <1>7, <1>8, ListKept

LEMMA PlaylistListKept == ASSUME LibraryInv, Restore!PlaylistList PROVE LibraryInv'
<1> DEFINE R == Restore!UserPlaylistListResponse
<1>1. /\ "playlist/list" \in todo /\ todo' = todo \ {"playlist/list"}
      /\ copy' = Restore!Import(R)
      /\ UNCHANGED <<library, syncLastModified, cursor, wanted, half>>
  BY DEF Restore!PlaylistList, Restore!server
<1>2. LibraryTypes
  BY DEF LibraryInv
<1>3. \A k : k \in DOMAIN R <=> k \in LibKeys /\ k.t = "playlist" /\ Restore!Stored(k) /\ Row(k).live
  BY LibraryKeys DEF Restore!UserPlaylistListResponse, Restore!GetPlaylists, Row
<1>4. \A k \in DOMAIN R : R[k] = Row(k)
  <2>1. ASSUME NEW k \in DOMAIN R PROVE R[k] = Row(k)
    <3>1. R[k] = [live |-> TRUE, val |-> Row(k).val]
      BY DEF Restore!UserPlaylistListResponse, Restore!PlaylistSyncResponse, Row
    <3>2. Row(k) \in Restore!PlaylistRow /\ Row(k).live
      BY <1>3, RowTypes
    <3>3. QED
      BY <3>1, <3>2, LibraryRecords
  <2>2. QED
    BY <2>1
<1> HIDE DEF R
<1>5. Carries(R)
  <2>1. ASSUME NEW k \in DOMAIN R PROVE Agrees(k, R[k]) /\ R[k] \in Restore!RowOf(k.t)
    BY <1>3, <1>4, RowTypes DEF Agrees
  <2>2. QED
    BY <1>3, <1>4, <2>1 DEF Carries
<1>6. "last_sync_at" \notin todo /\ todo' \subseteq Restore!ListRequest /\ half' \subseteq Episodes /\ wanted' \subseteq Podcasts
  BY <1>1, <1>2, RequestFacts DEF LibraryTypes
<1>7. \A k \in LibKeys : Listed(k) /\ Restore!Stored(k) /\ Read(k)' => Read(k) \/ k \in DOMAIN R
  BY <1>1, <1>3 DEF Listed, Read
<1>8. \A p \in LibKeys : p.t = "podcast" /\ p.id \notin wanted' => p \notin DOMAIN R /\ p.id \notin wanted
  BY <1>1, <1>3
<1>9. QED
  BY <1>1, <1>5, <1>6, <1>7, <1>8, ListKept

LEMMA BookmarkListKept == ASSUME LibraryInv, Restore!BookmarkList PROVE LibraryInv'
<1> DEFINE R == Restore!BookmarksResponse
<1>1. /\ "bookmark/list" \in todo /\ todo' = todo \ {"bookmark/list"}
      /\ copy' = Restore!Import(R)
      /\ UNCHANGED <<library, syncLastModified, cursor, wanted, half>>
  BY DEF Restore!BookmarkList, Restore!server
<1>2. LibraryTypes
  BY DEF LibraryInv
<1>3. \A k : k \in DOMAIN R <=> k \in LibKeys /\ k.t = "bookmark" /\ Restore!Stored(k) /\ Row(k).live
  BY LibraryKeys DEF Restore!BookmarksResponse, Restore!GetBookmarks, Row
<1>4. \A k \in DOMAIN R : R[k] = Row(k)
  <2>1. ASSUME NEW k \in DOMAIN R PROVE R[k] = Row(k)
    <3>1. R[k] = [live |-> TRUE, episode |-> Row(k).episode]
      BY DEF Restore!BookmarksResponse, Restore!BookmarkResponse, Row
    <3>2. Row(k) \in Restore!BookmarkRow /\ Row(k).live
      BY <1>3, RowTypes
    <3>3. QED
      BY <3>1, <3>2, LibraryRecords
  <2>2. QED
    BY <2>1
<1> HIDE DEF R
<1>5. Carries(R)
  <2>1. ASSUME NEW k \in DOMAIN R PROVE Agrees(k, R[k]) /\ R[k] \in Restore!RowOf(k.t)
    BY <1>3, <1>4, RowTypes DEF Agrees
  <2>2. QED
    BY <1>3, <1>4, <2>1 DEF Carries
<1>6. "last_sync_at" \notin todo /\ todo' \subseteq Restore!ListRequest /\ half' \subseteq Episodes /\ wanted' \subseteq Podcasts
  BY <1>1, <1>2, RequestFacts DEF LibraryTypes
<1>7. \A k \in LibKeys : Listed(k) /\ Restore!Stored(k) /\ Read(k)' => Read(k) \/ k \in DOMAIN R
  BY <1>1, <1>3 DEF Listed, Read
<1>8. \A p \in LibKeys : p.t = "podcast" /\ p.id \notin wanted' => p \notin DOMAIN R /\ p.id \notin wanted
  BY <1>1, <1>3
<1>9. QED
  BY <1>1, <1>5, <1>6, <1>7, <1>8, ListKept

LEMMA ReadBookmarksKept == ASSUME LibraryInv, Restore!ReadBookmarks PROVE LibraryInv'
<1> DEFINE R == Restore!EpisodeBookmarks(half)
<1>1. /\ half # {} /\ half' = {} /\ copy' = Restore!Import(R)
      /\ UNCHANGED <<library, syncLastModified, cursor, wanted, todo>>
  BY DEF Restore!ReadBookmarks, Restore!server
<1>2. LibraryTypes
  BY DEF LibraryInv
<1>3. \A k : k \in DOMAIN R => k \in LibKeys /\ k.t = "bookmark" /\ Restore!Stored(k) /\ Row(k).live
  BY LibraryKeys DEF Restore!EpisodeBookmarks, Restore!GetBookmarksForEpisodes, Row
<1>4. \A k \in DOMAIN R : R[k] = Row(k)
  <2>1. ASSUME NEW k \in DOMAIN R PROVE R[k] = Row(k)
    <3>1. R[k] = [live |-> TRUE, episode |-> Row(k).episode]
      BY DEF Restore!EpisodeBookmarks, Restore!BookmarkResponse, Row
    <3>2. Row(k) \in Restore!BookmarkRow /\ Row(k).live
      BY <1>3, RowTypes
    <3>3. QED
      BY <3>1, <3>2, LibraryRecords
  <2>2. QED
    BY <2>1
<1> HIDE DEF R
<1>5. Carries(R)
  <2>1. ASSUME NEW k \in DOMAIN R PROVE Agrees(k, R[k]) /\ R[k] \in Restore!RowOf(k.t)
    BY <1>3, <1>4, RowTypes DEF Agrees
  <2>2. QED
    BY <1>3, <1>4, <2>1 DEF Carries
<1>6. "last_sync_at" \notin todo /\ todo' \subseteq Restore!ListRequest /\ half' \subseteq Episodes /\ wanted' \subseteq Podcasts
  BY <1>1, <1>2, RequestFacts DEF LibraryTypes
<1>7. \A k \in LibKeys : Read(k)' => Read(k)
  BY <1>1 DEF Read
<1>8. \A p \in LibKeys : p.t = "podcast" /\ p.id \notin wanted' => p \notin DOMAIN R /\ p.id \notin wanted
  BY <1>1, <1>3
<1>9. QED
  BY <1>1, <1>5, <1>6, <1>7, <1>8, ListKept

LEMMA PodcastEpisodesKept ==
  ASSUME LibraryInv, NEW n \in Podcasts, Restore!PodcastEpisodes(n) PROVE LibraryInv'
<1> DEFINE R == Restore!SyncEpisodesResponse(n)
<1>1. /\ n \in wanted /\ wanted' = wanted \ {n} /\ half' = {k.id : k \in DOMAIN R}
      /\ copy' = Restore!Import(R)
      /\ UNCHANGED <<library, syncLastModified, cursor, todo>>
  BY DEF Restore!PodcastEpisodes, Restore!server
<1>2. LibraryTypes
  BY DEF LibraryInv
<1>3. \A k : k \in DOMAIN R <=> k \in LibKeys /\ k.t = "episode" /\ Restore!Stored(k) /\ Row(k).podcast = n
  BY LibraryKeys DEF Restore!SyncEpisodesResponse, Restore!GetUserEpisodesForPodcast, Row
<1>4. \A k \in DOMAIN R : R[k] = Row(k)
  BY DEF Restore!SyncEpisodesResponse, Restore!EpisodeSyncResponse, Row
<1> HIDE DEF R
<1>5. Carries(R)
  <2>1. ASSUME NEW k \in DOMAIN R PROVE Agrees(k, R[k]) /\ R[k] \in Restore!RowOf(k.t)
    BY <1>3, <1>4, RowTypes DEF Agrees
  <2>2. QED
    BY <1>3, <1>4, <2>1 DEF Carries
<1>6. "last_sync_at" \notin todo /\ todo' \subseteq Restore!ListRequest
  BY <1>1, <1>2, RequestFacts DEF LibraryTypes
<1>7. half' \subseteq Episodes /\ wanted' \subseteq Podcasts
  BY <1>1, <1>2, <1>3, LibraryKeys DEF LibraryTypes
<1>8. \A k \in LibKeys : Read(k)' => Read(k)
  BY <1>1 DEF Read
<1>9. \A p \in LibKeys : p.t = "podcast" /\ p.id \notin wanted'
        => \/ p \notin DOMAIN R /\ p.id \notin wanted
           \/ \A e \in LibKeys : e.t = "episode" /\ Restore!Stored(e) /\ Row(e).podcast = p.id
                => e \in DOMAIN R /\ R[e] = Row(e)
  BY <1>1, <1>3, <1>4
<1>10. QED
  BY <1>1, <1>5, <1>6, <1>7, <1>8, <1>9, ListKept

LEMMA StarredListKept == ASSUME LibraryInv, Restore!StarredList PROVE LibraryInv'
<1> DEFINE R == Restore!StarredEpisodesResponse
<1>1. /\ "starred/list" \in todo /\ todo' = todo \ {"starred/list"}
      /\ copy' = Restore!Import(R)
      /\ UNCHANGED <<library, syncLastModified, cursor, wanted, half>>
  BY DEF Restore!StarredList, Restore!server
<1>2. LibraryTypes
  BY DEF LibraryInv
<1>3. \A k : k \in DOMAIN R <=> k \in LibKeys /\ k.t = "episode" /\ Restore!Stored(k) /\ Row(k).starred
  BY LibraryKeys DEF Restore!StarredEpisodesResponse, Restore!GetStarredEpisodes, Row
<1>4. \A k \in DOMAIN R :
        /\ R[k] \in Restore!UserEpisode /\ R[k].podcast = Row(k).podcast /\ R[k].starred = Row(k).starred
        /\ copy[k] = Row(k) => R[k] = Row(k)
  <2>1. ASSUME NEW k \in DOMAIN R
        PROVE  /\ R[k] \in Restore!UserEpisode
               /\ R[k].podcast = Row(k).podcast /\ R[k].starred = Row(k).starred
               /\ copy[k] = Row(k) => R[k] = Row(k)
    <3> DEFINE c == IF Restore!Holds(copy, k) THEN copy[k].chapters ELSE 0
    <3>1. R[k] = [Row(k) EXCEPT !.chapters = c]
      BY DEF Restore!StarredEpisodesResponse, Restore!StarredEpisode, Row
    <3>2. k \in LibKeys /\ Row(k) \in Restore!UserEpisode
      BY <1>3, <2>1, RowTypes
    <3>3. c \in {0, 1}
      <4>1. CASE Restore!Holds(copy, k)
        <5>1. copy[k] \in Restore!UserEpisode
          BY <1>2, <1>3, <4>1, LibraryRows DEF LibraryTypes
        <5>2. QED
          BY <4>1, <5>1, LibraryRecords
      <4>2. CASE ~Restore!Holds(copy, k)
        BY <4>2
      <4>3. QED
        BY <4>1, <4>2
    <3>4. copy[k] = Row(k) => c = Row(k).chapters
      BY <3>2, LibraryRecords DEF Restore!Holds
    <3> HIDE DEF c
    <3>5. R[k] \in Restore!UserEpisode /\ R[k].podcast = Row(k).podcast /\ R[k].starred = Row(k).starred
          /\ R[k].chapters = c
      BY <3>1, <3>2, <3>3 DEF Restore!UserEpisode
    <3>6. QED
      BY <3>2, <3>4, <3>5, LibraryRecords
  <2>2. QED
    BY <2>1
<1> HIDE DEF R
<1>5. Carries(R)
  <2>1. ASSUME NEW k \in DOMAIN R PROVE Agrees(k, R[k]) /\ R[k] \in Restore!RowOf(k.t)
    BY <1>3, <1>4, LibraryRows DEF Agrees
  <2>2. QED
    BY <1>3, <1>4, <2>1 DEF Carries
<1>6. "last_sync_at" \notin todo /\ todo' \subseteq Restore!ListRequest /\ half' \subseteq Episodes /\ wanted' \subseteq Podcasts
  BY <1>1, <1>2, RequestFacts DEF LibraryTypes
<1>7. \A k \in LibKeys : Listed(k) /\ Restore!Stored(k) /\ Read(k)' => Read(k) \/ k \in DOMAIN R
  BY <1>1, <1>3, LibraryKeys DEF Listed, Read
<1>8. \A p \in LibKeys : p.t = "podcast" /\ p.id \notin wanted' => p \notin DOMAIN R /\ p.id \notin wanted
  BY <1>1, <1>3
<1>9. QED
  BY <1>1, <1>5, <1>6, <1>7, <1>8, ListKept

LEMMA LastSyncAtKept == ASSUME LibraryInv, Restore!LastSyncAt PROVE LibraryInv'
<1>1. /\ "last_sync_at" \in todo /\ cursor' = syncLastModified
      /\ todo' = Restore!ListRequest \ {"podcast/folders"}
      /\ UNCHANGED <<library, syncLastModified, wanted, half, copy>>
  BY DEF Restore!LastSyncAt, Restore!server, Restore!UserLastSyncAtResponse
<1>2. LibraryTypes
  BY DEF LibraryInv
<1>3. /\ syncLastModified \in Nat /\ wanted = {} /\ half = {}
      /\ \A k \in LibKeys : ~Restore!Holds(copy, k)
      /\ \A k \in LibKeys : Restore!Stored(k) =>
           /\ Row(k) \in Restore!RowOf(k.t)
           /\ library[k].mod \in Nat \ {0} /\ library[k].mod <= syncLastModified
  BY <1>1, <1>2 DEF LibraryTypes
<1>4. \A k \in LibKeys : ~Restore!Holds(copy, k)'
  BY <1>1, <1>3 DEF Restore!Holds
<1>5. "last_sync_at" \notin todo' /\ todo' \subseteq Restore!ListRequest
  BY <1>1, RequestFacts
<1>6. LibraryTypes'
  <2>1. \A k \in LibKeys : Restore!Stored(k)' =>
          /\ Row(k)' \in Restore!RowOf(k.t)
          /\ library'[k].mod \in Nat \ {0} /\ library'[k].mod <= syncLastModified'
    BY <1>1, <1>3 DEF Restore!Stored, Row
  <2>2. QED
    BY <1>1, <1>3, <1>4, <1>5, <2>1 DEF LibraryTypes
<1>7. CopiesAgree' /\ EpisodesRead'
  BY <1>4 DEF CopiesAgree, EpisodesRead
<1>8. ListsRead'
  <2>1. \A k \in LibKeys : ~Read(k)'
    <3>1. todo' = {"podcast/list", "playlist/list", "bookmark/list", "starred/list"}
      BY <1>1, RequestFacts
    <3>2. QED
      BY <3>1, LibraryKeys DEF Read
  <2>2. QED
    BY <2>1 DEF ListsRead
<1>9. QED
  BY <1>6, <1>7, <1>8 DEF LibraryInv

LEMMA RestoreFailsKept == ASSUME LibraryInv, Restore!RestoreFails PROVE LibraryInv'
<1>1. /\ todo' = {"last_sync_at"} /\ wanted' = {} /\ half' = {} /\ cursor' = 0
      /\ copy' = [k \in LibKeys |-> Restore!Absent]
      /\ UNCHANGED <<library, syncLastModified>>
  BY DEF Restore!RestoreFails, Restore!server, LibKeys
<1>2. LibraryTypes
  BY DEF LibraryInv
<1>3. \A k \in LibKeys : ~Restore!Holds(copy, k)'
  BY <1>1 DEF Restore!Holds
<1>4. /\ syncLastModified \in Nat
      /\ \A k \in LibKeys : Restore!Stored(k) =>
           /\ Row(k) \in Restore!RowOf(k.t)
           /\ library[k].mod \in Nat \ {0} /\ library[k].mod <= syncLastModified
  BY <1>2 DEF LibraryTypes
<1>5. LibraryTypes'
  <2>1. \A k \in LibKeys : Restore!Stored(k)' =>
          /\ Row(k)' \in Restore!RowOf(k.t)
          /\ library'[k].mod \in Nat \ {0} /\ library'[k].mod <= syncLastModified'
    BY <1>1, <1>4 DEF Restore!Stored, Row
  <2>2. QED
    BY <1>1, <1>3, <1>4, <2>1 DEF LibraryTypes
<1>6. CopiesAgree' /\ EpisodesRead'
  BY <1>3 DEF CopiesAgree, EpisodesRead
<1>7. ListsRead'
  BY <1>1 DEF ListsRead
<1>8. QED
  BY <1>5, <1>6, <1>7 DEF LibraryInv

LEMMA IncrementalSyncKept == ASSUME LibraryInv, Restore!IncrementalSync PROVE LibraryInv'
<1> DEFINE R == Restore!SyncUpdateResponse(cursor)
<1>1. /\ todo = {} /\ wanted = {} /\ half = {} /\ cursor' = syncLastModified
      /\ copy' = Restore!Import(R) /\ wanted' = Restore!New(copy')
      /\ UNCHANGED <<library, syncLastModified, todo, half>>
  BY DEF Restore!IncrementalSync, Restore!Restored, Restore!server
<1>2. LibraryTypes
  BY DEF LibraryInv
<1>3. \A k : k \in DOMAIN R <=> k \in LibKeys /\ Restore!Stored(k) /\ library[k].mod > cursor
  BY DEF Restore!SyncUpdateResponse, LibKeys
<1>4. \A k \in DOMAIN R : R[k] = Row(k)
  BY DEF Restore!SyncUpdateResponse, Row
<1> HIDE DEF R
<1>5. Carries(R)
  <2>1. ASSUME NEW k \in DOMAIN R PROVE Agrees(k, R[k]) /\ R[k] \in Restore!RowOf(k.t)
    BY <1>3, <1>4, RowTypes DEF Agrees
  <2>2. QED
    BY <1>3, <1>4, <2>1 DEF Carries
<1>6. /\ \A k \in LibKeys : k \notin DOMAIN R => copy'[k] = copy[k]
      /\ \A k \in DOMAIN R : copy'[k] = R[k] /\ Restore!Holds(copy', k)
      /\ \A k \in LibKeys : Restore!Holds(copy, k) => Restore!Holds(copy', k)
      /\ \A k \in LibKeys : copy[k] = Row(k) => copy'[k] = Row(k)
      /\ \A k \in LibKeys : Restore!Holds(copy', k) => Restore!Stored(k) /\ copy'[k] \in Restore!RowOf(k.t)
      /\ \A k \in LibKeys : Restore!Holds(copy', k) /\ Old(k) => Agrees(k, copy'[k])
  BY <1>1, <1>5, Imported
<1>7. /\ syncLastModified \in Nat /\ cursor \in Nat
      /\ \A k \in LibKeys : Restore!Stored(k) =>
           /\ Row(k) \in Restore!RowOf(k.t)
           /\ library[k].mod \in Nat \ {0} /\ library[k].mod <= syncLastModified
  BY <1>2 DEF LibraryTypes
<1>8. \A k \in LibKeys : /\ Row(k)' = Row(k)
                         /\ Restore!Stored(k)' <=> Restore!Stored(k)
                         /\ Listed(k)' <=> Listed(k)
                         /\ Restore!Holds(copy, k)' <=> Restore!Holds(copy', k)
  BY <1>1 DEF Row, Restore!Stored, Listed, Restore!Holds
<1>9. \A k \in LibKeys : Restore!Stored(k) => Old(k) \/ k \in DOMAIN R
  <2>1. ASSUME NEW k \in LibKeys, Restore!Stored(k), k \notin DOMAIN R PROVE Old(k)
    <3>1. ~(library[k].mod > cursor) /\ library[k].mod \in Nat
      BY <1>3, <1>7, <2>1
    <3>2. QED
      BY <1>7, <2>1, <3>1 DEF Old
  <2>2. QED
    BY <2>1
<1>10. LibraryTypes'
  <2>1. \A k \in LibKeys : Restore!Stored(k)' =>
          /\ Row(k)' \in Restore!RowOf(k.t)
          /\ library'[k].mod \in Nat \ {0} /\ library'[k].mod <= syncLastModified'
    BY <1>1, <1>7, <1>8
  <2>2. \A k \in LibKeys : Restore!Holds(copy, k)' => Restore!Stored(k)' /\ copy'[k] \in Restore!RowOf(k.t)
    BY <1>6, <1>8
  <2>3. wanted' \subseteq Podcasts
    BY <1>1, LibraryKeys DEF Restore!New
  <2>4. QED
    BY <1>1, <1>7, <2>1, <2>2, <2>3 DEF LibraryTypes
<1>11. CopiesAgree'
  <2>1. ASSUME NEW k \in LibKeys, Restore!Holds(copy', k), Restore!Stored(k) PROVE Agrees(k, copy'[k])
    BY <1>4, <1>5, <1>6, <1>9, <2>1 DEF Carries
  <2>2. \A k \in LibKeys : Restore!Holds(copy, k)' /\ Old(k)' => Agrees(k, copy[k])'
    BY <1>8, <2>1 DEF Agrees, Old
  <2>3. QED
    BY <2>2 DEF CopiesAgree
<1>12. ListsRead'
  <2>1. ASSUME NEW k \in LibKeys, Restore!Stored(k), Listed(k) PROVE Restore!Holds(copy', k)
    <3>1. CASE k \in DOMAIN R
      BY <1>6, <3>1
    <3>2. CASE Old(k)
      <4>1. Read(k)
        BY <1>1 DEF Read
      <4>2. QED
        BY <1>1, <1>6, <2>1, <3>2, <4>1 DEF LibraryInv, ListsRead
    <3>3. QED
      BY <1>9, <2>1, <3>1, <3>2
  <2>2. QED
    BY <1>8, <2>1 DEF ListsRead, Old
<1>13. EpisodesRead'
  <2>1. ASSUME NEW p \in LibKeys, NEW e \in LibKeys,
               p.t = "podcast", Restore!Holds(copy', p), copy'[p].live, p.id \notin wanted',
               e.t = "episode", Restore!Stored(e), Row(e).podcast = p.id
        PROVE  copy'[e] = Row(e)
    <3>1. CASE e \in DOMAIN R
      BY <1>4, <1>6, <3>1
    <3>2. CASE Old(e)
      <4>1. p \in Restore!Keys("podcast") /\ p.id \notin Restore!New(copy')
        BY <1>1, <2>1, LibraryKeys
      <4>2. Restore!Holds(copy, p) /\ copy[p].live
        BY <2>1, <4>1 DEF Restore!New
      <4>3. copy[e] = Row(e)
        BY <1>1, <2>1, <3>2, <4>2 DEF LibraryInv, EpisodesRead
      <4>4. QED
        BY <1>6, <4>3
    <3>3. QED
      BY <1>9, <2>1, <3>1, <3>2
  <2>2. QED
    BY <1>8, <2>1 DEF EpisodesRead, Old
<1>14. QED
  BY <1>10, <1>11, <1>12, <1>13 DEF LibraryInv

(* The transactions of other devices: a podcast's folder stays live. *)
LEMMA CommitRowKept ==
  ASSUME LibraryInv, NEW k \in LibKeys, NEW d \in Restore!RowOf(k.t), Restore!CommitRow(k, d)
  PROVE  LibraryInv'
<1> DEFINE new == [x \in {k} |-> d]
<1>1. DOMAIN new = {k} /\ new[k] = d /\ Restore!Write(new)
  BY DEF Restore!CommitRow
<1> HIDE DEF new
<1>2. DOMAIN new \subseteq LibKeys /\ \A x \in DOMAIN new : new[x] \in Restore!RowOf(x.t)
  BY <1>1
<1>3. QED
  BY <1>1, <1>2, WriteKept

LEMMA CommitFolderKept ==
  ASSUME LibraryInv, NEW k \in LibKeys, k.t = "folder", NEW d \in Restore!FolderRow,
         NEW P \in SUBSET Restore!Keys("podcast"), NEW moved \in [P -> Restore!UserPodcast],
         Restore!CommitFolder(k, d, moved)
  PROVE  LibraryInv'
<1> DEFINE new == [x \in {k} \cup P |-> IF x = k THEN d ELSE moved[x]]
<1>1. Restore!Write(new)
  BY DEF Restore!CommitFolder
<1>2. \A x \in P : x \in LibKeys /\ x.t = "podcast" /\ x # k
  BY LibraryKeys
<1>3. DOMAIN new = {k} \cup P /\ new[k] = d /\ \A x \in P : new[x] \in Restore!UserPodcast
  BY <1>2
<1> HIDE DEF new
<1>4. DOMAIN new \subseteq LibKeys /\ \A x \in DOMAIN new : new[x] \in Restore!RowOf(x.t)
  BY <1>2, <1>3, LibraryRows
<1>5. QED
  BY <1>1, <1>4, WriteKept

LEMMA LibraryStepInv == LibraryInv /\ [Restore!Next]_Restore!vars => LibraryInv'
<1> SUFFICES ASSUME LibraryInv, [Restore!Next]_Restore!vars PROVE LibraryInv'
  OBVIOUS
<1>1. ASSUME NEW k \in LibKeys, NEW d \in Restore!RowOf(k.t), Restore!CommitRow(k, d) PROVE LibraryInv'
  BY <1>1, CommitRowKept
<1>2. ASSUME NEW k \in Restore!Keys("folder"), NEW d \in Restore!FolderRow,
             NEW P \in SUBSET Restore!Keys("podcast"),
             NEW moved \in [P -> {r \in Restore!UserPodcast : r.live}],
             Restore!CommitFolder(k, d, moved)
      PROVE  LibraryInv'
  <2>1. moved \in [P -> Restore!UserPodcast]
    OBVIOUS
  <2>2. QED
    BY <1>2, <2>1, CommitFolderKept, LibraryKeys
<1>3. ASSUME NEW p \in Podcasts, Restore!PodcastEpisodes(p) PROVE LibraryInv'
  BY <1>3, PodcastEpisodesKept
<1>4. ASSUME \/ Restore!LastSyncAt \/ Restore!PodcastList \/ Restore!ReadFolders
             \/ Restore!ReadBookmarks \/ Restore!PlaylistList \/ Restore!BookmarkList \/ Restore!StarredList
             \/ Restore!IncrementalSync \/ Restore!RestoreFails
      PROVE  LibraryInv'
  BY <1>4, LastSyncAtKept, PodcastListKept, ReadFoldersKept, ReadBookmarksKept, PlaylistListKept,
     BookmarkListKept, StarredListKept, IncrementalSyncKept, RestoreFailsKept
<1>5. CASE UNCHANGED Restore!vars
  <2>1. UNCHANGED <<library, syncLastModified, todo, wanted, half, cursor, copy>>
    BY <1>5 DEF Restore!vars, Restore!server
  <2>2. LibraryTypes'
    BY <2>1 DEF LibraryInv, LibraryTypes, Restore!Stored, Restore!Holds, Row
  <2>3. CopiesAgree'
    BY <2>1 DEF LibraryInv, CopiesAgree, Agrees, Old, Restore!Stored, Restore!Holds, Row
  <2>4. ListsRead'
    BY <2>1 DEF LibraryInv, ListsRead, Listed, Read, Old, Restore!Stored, Restore!Holds, Row
  <2>5. EpisodesRead'
    BY <2>1 DEF LibraryInv, EpisodesRead, Old, Restore!Stored, Restore!Holds, Row
  <2>6. QED
    BY <2>2, <2>3, <2>4, <2>5 DEF LibraryInv
<1>6. QED
  BY <1>1, <1>2, <1>3, <1>4, <1>5 DEF Restore!Next, Restore!UuidRequest, LibKeys

LEMMA LibraryShown == LibraryInv => Restore!TypeOK
<1> SUFFICES ASSUME LibraryInv PROVE Restore!TypeOK
  OBVIOUS
<1>1. LibraryTypes
  BY DEF LibraryInv
<1>2. \A k \in LibKeys : Restore!Stored(k) => Row(k) \in Restore!RowOf(k.t) /\ library[k].mod <= syncLastModified
  BY <1>1 DEF LibraryTypes
<1>3. \A k \in LibKeys : Restore!Holds(copy, k) => copy[k] \in Restore!RowOf(k.t)
  BY <1>1 DEF LibraryTypes
<1>4. QED
  BY <1>1, <1>2, <1>3 DEF LibraryTypes, Restore!TypeOK, Restore!UuidRequest, LibKeys, Row

(* Once every list was read and the cursor is that of the last commit, every
   stored row is one that the device holds as it is, where a user sees it. *)
LEMMA Converged ==
  ASSUME LibraryInv, Restore!Restored, cursor = syncLastModified
  PROVE  /\ \A k \in LibKeys : Restore!Holds(copy, k) => Restore!Stored(k) /\ Agrees(k, copy[k])
         /\ \A k \in LibKeys : Restore!Stored(k) /\ Listed(k) => Restore!Holds(copy, k)
         /\ \A p, e \in LibKeys :
              /\ p.t = "podcast" /\ Restore!Holds(copy, p) /\ copy[p].live
              /\ e.t = "episode" /\ Restore!Stored(e) /\ Row(e).podcast = p.id
              => copy[e] = Row(e) /\ Restore!Holds(copy, e)
<1>1. LibraryTypes /\ CopiesAgree /\ ListsRead /\ EpisodesRead
  BY DEF LibraryInv
<1>2. \A k \in LibKeys : Restore!Stored(k) => Old(k) /\ Row(k) \in Restore!RowOf(k.t)
  BY <1>1 DEF LibraryTypes, Old
<1>3. todo = {} /\ wanted = {}
  BY DEF Restore!Restored
<1>4. \A k \in LibKeys : Restore!Holds(copy, k) => Restore!Stored(k) /\ Agrees(k, copy[k])
  BY <1>1, <1>2 DEF LibraryTypes, CopiesAgree
<1>5. \A k \in LibKeys : Restore!Stored(k) /\ Listed(k) => Restore!Holds(copy, k)
  <2>1. \A k \in LibKeys : Read(k)
    BY <1>3 DEF Read
  <2>2. QED
    BY <1>1, <1>2, <1>3, <2>1 DEF ListsRead
<1>6. ASSUME NEW p \in LibKeys, NEW e \in LibKeys, p.t = "podcast", Restore!Holds(copy, p), copy[p].live,
             e.t = "episode", Restore!Stored(e), Row(e).podcast = p.id
      PROVE  copy[e] = Row(e) /\ Restore!Holds(copy, e)
  <2>1. copy[e] = Row(e)
    BY <1>1, <1>2, <1>3, <1>6 DEF EpisodesRead
  <2>2. Row(e) # Restore!Absent
    BY <1>2, <1>6, NeverAbsent
  <2>3. QED
    BY <2>1, <2>2 DEF Restore!Holds
<1>7. QED
  BY <1>4, <1>5, <1>6

PodcastOf(id) == [t |-> "podcast", id |-> id]
SeenThere(k) ==
  /\ Restore!Stored(k)
  /\ IF k.t = "episode"
     THEN Restore!Stored(PodcastOf(Row(k).podcast)) /\ Row(PodcastOf(Row(k).podcast)).live
     ELSE Row(k).live
SeenHere(k) ==
  /\ Restore!Holds(copy, k)
  /\ IF k.t = "episode"
     THEN Restore!Holds(copy, PodcastOf(copy[k].podcast)) /\ copy[PodcastOf(copy[k].podcast)].live
     ELSE copy[k].live

LEMMA SeenAlike ==
  ASSUME LibraryInv, Restore!Restored, cursor = syncLastModified, NEW k \in LibKeys
  PROVE  /\ SeenThere(k) <=> SeenHere(k)
         /\ SeenHere(k) => copy[k] = Row(k)
         /\ k.t = "episode" =>
              (Restore!Stored(k) /\ Row(k).starred <=> Restore!Holds(copy, k) /\ copy[k].starred)
         /\ k.t = "episode" /\ Restore!Holds(copy, k) => copy[k].podcast = Row(k).podcast
<1>1. /\ \A j \in LibKeys : Restore!Holds(copy, j) => Restore!Stored(j) /\ Agrees(j, copy[j])
      /\ \A j \in LibKeys : Restore!Stored(j) /\ Listed(j) => Restore!Holds(copy, j)
      /\ \A p, e \in LibKeys :
           /\ p.t = "podcast" /\ Restore!Holds(copy, p) /\ copy[p].live
           /\ e.t = "episode" /\ Restore!Stored(e) /\ Row(e).podcast = p.id
           => copy[e] = Row(e) /\ Restore!Holds(copy, e)
  BY Converged
<1>2. CASE k.t # "episode"
  <2>1. Restore!Holds(copy, k) => Restore!Stored(k) /\ copy[k] = Row(k)
    BY <1>1, <1>2 DEF Agrees
  <2>2. Restore!Stored(k) /\ Row(k).live => Restore!Holds(copy, k)
    BY <1>1, <1>2 DEF Listed
  <2>3. QED
    BY <1>2, <2>1, <2>2 DEF SeenThere, SeenHere
<1>3. CASE k.t = "episode"
  <2>1. Restore!Holds(copy, k) => /\ Restore!Stored(k) /\ copy[k].podcast = Row(k).podcast
                                  /\ copy[k].starred = Row(k).starred
    BY <1>1, <1>3 DEF Agrees
  <2>2. Restore!Stored(k) /\ Row(k).starred => Restore!Holds(copy, k)
    BY <1>1, <1>3 DEF Listed
  <2> DEFINE p == PodcastOf(Row(k).podcast)
  <2>3. Restore!Stored(k) => p \in LibKeys /\ p.t = "podcast" /\ p.id = Row(k).podcast
    <3>1. Restore!Stored(k) => Row(k).podcast \in Podcasts
      BY <1>3, RowTypes, LibraryRecords
    <3>2. p.t = "podcast" /\ p.id = Row(k).podcast
      BY DEF PodcastOf
    <3>3. QED
      BY <3>1, <3>2, LibraryKeys DEF PodcastOf
  <2> HIDE DEF p
  <2>4. Restore!Stored(k) /\ Restore!Holds(copy, p) => Restore!Stored(p) /\ copy[p] = Row(p)
    BY <1>1, <2>3 DEF Agrees
  <2>5. Restore!Stored(k) /\ Restore!Stored(p) /\ Row(p).live => Restore!Holds(copy, p)
    BY <1>1, <2>3 DEF Listed
  <2>6. Restore!Stored(k) /\ Restore!Holds(copy, p) /\ copy[p].live => copy[k] = Row(k) /\ Restore!Holds(copy, k)
    BY <1>1, <1>3, <2>3
  <2>7. SeenThere(k) <=> Restore!Stored(k) /\ Restore!Stored(p) /\ Row(p).live
    BY <1>3 DEF SeenThere, p
  <2>8. SeenHere(k) <=> Restore!Holds(copy, k) /\ Restore!Holds(copy, p) /\ copy[p].live
    BY <1>3, <2>1 DEF SeenHere, p
  <2>9. QED
    BY <1>3, <2>1, <2>2, <2>4, <2>5, <2>6, <2>7, <2>8
<1>4. QED
  BY <1>2, <1>3

LEMMA LibraryConverges == LibraryInv => Restore!RestoreConverges
<1> SUFFICES ASSUME LibraryInv, Restore!Restored, cursor = syncLastModified
             PROVE  Restore!OnDevice = Restore!OnServer
  BY DEF Restore!RestoreConverges
<1> DEFINE Server == {<<k, Row(k)>> : k \in {x \in LibKeys : SeenThere(x)}}
                       \cup {<<k, Row(k).podcast>> : k \in {x \in LibKeys : Restore!Stored(x) /\ x.t = "episode" /\ Row(x).starred}}
           Phones == {<<k, copy[k]>> : k \in {x \in LibKeys : SeenHere(x)}}
                       \cup {<<k, copy[k].podcast>> : k \in {x \in LibKeys : Restore!Holds(copy, x) /\ x.t = "episode" /\ copy[x].starred}}
<1>1. Restore!OnServer = Server
  BY DEF Restore!OnServer, Restore!Shown, SeenThere, PodcastOf, Row, LibKeys
<1>2. Restore!OnDevice = Phones
  BY DEF Restore!OnDevice, Restore!Shown, SeenHere, PodcastOf, LibKeys
<1>3. {<<k, Row(k)>> : k \in {x \in LibKeys : SeenThere(x)}} = {<<k, copy[k]>> : k \in {x \in LibKeys : SeenHere(x)}}
  <2>1. \A k \in LibKeys : (SeenThere(k) <=> SeenHere(k)) /\ (SeenHere(k) => copy[k] = Row(k))
    BY SeenAlike
  <2>2. {x \in LibKeys : SeenThere(x)} = {x \in LibKeys : SeenHere(x)}
    BY <2>1
  <2>3. \A k \in {x \in LibKeys : SeenHere(x)} : copy[k] = Row(k)
    BY <2>1
  <2>4. QED
    BY <2>2, <2>3
<1>4. {<<k, Row(k).podcast>> : k \in {x \in LibKeys : Restore!Stored(x) /\ x.t = "episode" /\ Row(x).starred}}
        = {<<k, copy[k].podcast>> : k \in {x \in LibKeys : Restore!Holds(copy, x) /\ x.t = "episode" /\ copy[x].starred}}
  <2>1. \A k \in LibKeys : k.t = "episode" =>
          /\ Restore!Stored(k) /\ Row(k).starred <=> Restore!Holds(copy, k) /\ copy[k].starred
          /\ Restore!Holds(copy, k) => copy[k].podcast = Row(k).podcast
    BY SeenAlike
  <2> DEFINE Starred == {x \in LibKeys : Restore!Holds(copy, x) /\ x.t = "episode" /\ copy[x].starred}
  <2>2. {x \in LibKeys : Restore!Stored(x) /\ x.t = "episode" /\ Row(x).starred} = Starred
    BY <2>1
  <2>3. \A k \in Starred : copy[k].podcast = Row(k).podcast
    BY <2>1
  <2> HIDE DEF Starred
  <2>4. {<<k, Row(k).podcast>> : k \in Starred} = {<<k, copy[k].podcast>> : k \in Starred}
    BY <2>3
  <2>5. QED
    BY <2>2, <2>4 DEF Starred
<1>5. QED
  BY <1>1, <1>2, <1>3, <1>4

LEMMA LibraryDangling == LibraryInv => Restore!DanglingIsRepaired
<1> SUFFICES ASSUME LibraryInv, todo = {}, NEW p \in Restore!Keys("podcast"), NEW f \in Restore!Keys("folder"),
                    Restore!Holds(copy, p), copy[p].live, copy[p].folder = f.id,
                    Restore!Holds(copy, f) => ~copy[f].live,
                    ~(library[f].mod > cursor), ~(library[p].mod > cursor),
                    ~(Row(p).folder = f.id /\ ~(Restore!Stored(f) /\ Row(f).live))
             PROVE  FALSE
  BY DEF Restore!DanglingIsRepaired, Row
<1>1. p \in LibKeys /\ p.t = "podcast" /\ f \in LibKeys /\ f.t = "folder" /\ f.id = "folder"
  BY LibraryKeys
<1>2. LibraryTypes /\ CopiesAgree /\ ListsRead
  BY DEF LibraryInv
<1>3. \A k \in LibKeys : Restore!Stored(k) /\ ~(library[k].mod > cursor) => Old(k)
  BY <1>2 DEF LibraryTypes, Old
<1>4. Row(p).folder = f.id
  <2>1. Old(p)
    BY <1>1, <1>2, <1>3 DEF LibraryTypes
  <2>2. QED
    BY <1>1, <1>2, <2>1 DEF CopiesAgree, Agrees
<1>5. Restore!Stored(f) /\ Row(f).live /\ Old(f)
  BY <1>1, <1>3, <1>4
<1>6. Restore!Holds(copy, f)
  <2>1. Read(f) /\ Listed(f)
    BY <1>1, <1>5 DEF Read, Listed
  <2>2. QED
    BY <1>1, <1>2, <1>5, <2>1 DEF ListsRead
<1>7. copy[f] = Row(f)
  BY <1>1, <1>2, <1>5, <1>6 DEF CopiesAgree, Agrees
<1>8. QED
  BY <1>5, <1>6, <1>7

----------------------------------------------------------------------------
(* The parts together: the one that runs keeps its invariant, the others do
   not move. *)
PartsInv ==
  /\ part = "library" => LibraryInv
  /\ part = "attest" => AttestInv
  /\ part = "push" => PushInv

LEMMA PartsInitInv == AccountsInit => PartsInv
BY LibraryInitInv, AttestInitInv, PushInitInv DEF AccountsInit, PartsInv

LEMMA PartsStepInv == PartsInv /\ [AccountsNext]_accountVars => PartsInv'
<1> SUFFICES ASSUME PartsInv, [AccountsNext]_accountVars PROVE PartsInv'
  OBVIOUS
<1>1. CASE RecordStep
  BY <1>1 DEF RecordStep, PartsInv
<1>2. CASE LibraryStep
  BY <1>2, LibraryStepInv DEF LibraryStep, PartsInv
<1>3. CASE AttestStep
  BY <1>3, AttestStepInv DEF AttestStep, PartsInv
<1>4. CASE PushStep
  BY <1>4, PushStepInv DEF PushStep, PartsInv
<1>5. CASE UNCHANGED accountVars
  <2>1. part' = part /\ UNCHANGED Restore!vars /\ UNCHANGED Attested!vars /\ UNCHANGED Push!vars
    BY <1>5 DEF accountVars, libraryOnly, attestOnly, pushOnly, Restore!vars, Restore!server,
                Attested!vars, Attested!store, Attested!devices, Attested!history,
                Push!vars, Push!service, Push!account, Push!counts
  <2>2. QED
    BY <2>1, LibraryStepInv, AttestStepInv, PushStepInv DEF PartsInv
<1>6. QED
  BY <1>1, <1>2, <1>3, <1>4, <1>5 DEF AccountsNext, Ends

(* The state of every part has its type: a stored row carries a token that the
   account has reached and a copy the row's columns (syncsvc/library.go), a
   counter is one that its key has signed (handlers.AttestVerify), and a send
   knows whom it still has to reach (Notifier in push). *)
THEOREM AccountTypesCorrect == AccountsSpec => []TypesOK
<1>1. PartsInv => TypesOK
  BY LibraryShown, AttestShown, PushShown DEF PartsInv, TypesOK
<1>2. QED
  BY <1>1, PartsInitInv, PartsStepInv, PTL DEF AccountsSpec

(* A device restored from lists that were read at different times shows the
   account as the server has it once it has synced past the last commit, and a
   podcast whose folder it lacks is one that the next sync repairs or that the
   account itself keeps in a folder that is not live: what LastSyncAt,
   PodcastList, PodcastEpisodes, PlaylistList, BookmarkList and StarredList
   (syncsvc/library.go) leave to ApplyUpdate, for any podcasts, episodes,
   bookmarks and number of commits. *)
THEOREM RestoresConverge == AccountsSpec => []RestoreConverges
<1>1. PartsInv => RestoreConverges
  BY LibraryConverges, LibraryDangling DEF PartsInv, RestoreConverges
<1>2. QED
  BY <1>1, PartsInitInv, PartsStepInv, PTL DEF AccountsSpec

(* A challenge and a signed request count once, in whatever order and however
   often they are delivered, and a key whose counter is ahead is never called
   invalid (PostAttestEnroll and AttestVerify in handlers), for any devices,
   challenges, counters and number of requests. *)
THEOREM AttestationCountsOnce == AccountsSpec => []AttestedOnce
<1>1. PartsInv => AttestedOnce
  BY AttestShown DEF PartsInv, AttestedOnce
<1>2. QED
  BY <1>1, PartsInitInv, PartsStepInv, PTL DEF AccountsSpec

(* A phone keeps the token that it registered, a deleted account is reached
   only through a registration that was under way, and no phone misses an
   alert because another's token is dead (Client.deliver and Notifier in push,
   persistPushState in handlers), for any accounts, phones, tokens and
   overlaps of sends and registrations. *)
THEOREM PhonesReachable == AccountsSpec => []PhonesStayReachable
<1>1. PartsInv => PhonesStayReachable
  BY DEF PartsInv, PhonesStayReachable, PushInv
<1>2. QED
  BY <1>1, PartsInitInv, PartsStepInv, PTL DEF AccountsSpec
=============================================================================
