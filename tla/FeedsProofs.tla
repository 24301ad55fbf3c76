----------------------------- MODULE FeedsProofs -----------------------------
(***************************************************************************)
(* Feeds, for any number of crawlers, episodes, requests and jobs: the     *)
(* types, what an etag stands for, which news is delivered, and what a     *)
(* completed refresh job means.                                            *)
(***************************************************************************)
EXTENDS MCFeeds, TLAPS

(* A version is the set of its episodes. *)
LEMMA Versions ==
  /\ \A n \in Version : 1 .. n \subseteq Episode
  /\ 0 \in Version /\ 1 .. 0 = {} /\ Episode \subseteq Version
BY FeedCrawlAssumption DEF Version, Episode

LEMMA CrawlInitType == Init => TypeOK
<1> SUFFICES ASSUME Init PROVE TypeOK
  OBVIOUS
<1>1. NoRow \in Row
  BY Versions DEF NoRow, Row, Status
<1>2. faults \in 0 .. MaxFaults /\ feed \in Version
  BY Versions, FeedCrawlAssumption DEF Init
<1>3. /\ pc \in [Crawler -> {"idle"}] /\ snap \in [Crawler -> Row]
      /\ got \in [Crawler -> Version] /\ todo = [c \in Crawler |-> {}]
  BY <1>1, Versions DEF Init
<1>4. QED
  BY <1>1, <1>2, <1>3 DEF Init, TypeOK

LEMMA CrawlTypeStep == TypeOK /\ [Next]_vars => TypeOK'
<1> SUFFICES ASSUME TypeOK, [Next]_vars PROVE TypeOK'
  OBVIOUS
<1> USE DEF TypeOK, Goto, crawl, ghost
<1>1. ASSUME faults < MaxFaults, faults' = faults + 1 PROVE faults' \in 0 .. MaxFaults
  BY <1>1, FeedCrawlAssumption
<1>2. ASSUME NEW c \in Crawler, NEW r \in Row, Begin(c, r), row' \in Row PROVE TypeOK'
  BY <1>2 DEF Begin
<1>3. ASSUME NEW c \in Crawler, EnsurePodcast(c) PROVE TypeOK'
  <2>1. [NoRow EXCEPT !.status = "pending", !.due = TRUE] \in Row
    BY Versions DEF NoRow, Row, Status
  <2>2. row' \in Row /\ Begin(c, row')
    BY <1>3, <2>1 DEF EnsurePodcast, Begin
  <2>3. QED
    BY <1>2, <2>2
<1>4. ASSUME NEW c \in Crawler, SweepDue(c) \/ Refresh(c) PROVE TypeOK'
  BY <1>2, <1>4 DEF SweepDue, Refresh
<1>5. ASSUME NEW c \in Crawler, Fetch(c) PROVE TypeOK'
  BY <1>5, Versions DEF Fetch
<1>6. ASSUME NEW c \in Crawler, FetchFails(c) PROVE TypeOK'
  BY <1>1, <1>6 DEF FetchFails, Fault
<1>7. ASSUME NEW c \in Crawler, RecordFailure(c) \/ NotModified(c) PROVE TypeOK'
  <2>1. row' \in Row
    BY <1>7 DEF RecordFailure, NotModified, Row, Status
  <2>2. QED
    BY <1>7, <2>1 DEF RecordFailure, NotModified
<1>8. ASSUME NEW c \in Crawler, NEW e \in Episode, UpsertEpisode(c, e) PROVE TypeOK'
  BY <1>8 DEF UpsertEpisode
<1>9. ASSUME NEW c \in Crawler PROVE 1 .. got[c] \subseteq Episode /\ Fresh(c) \subseteq 1 .. got[c]
  BY Versions DEF Fresh
<1>10. ASSUME NEW c \in Crawler, CrawlSuccess(c) PROVE TypeOK'
  <2>1. row' \in Row
    BY <1>10 DEF CrawlSuccess, Row, Status
  <2>2. silent' \subseteq Episode
    BY <1>9, <1>10 DEF CrawlSuccess
  <2>3. QED
    BY <1>10, <2>1, <2>2 DEF CrawlSuccess
<1>11. ASSUME NEW c \in Crawler, OnNewEpisodes(c) PROVE TypeOK'
  BY <1>9, <1>11 DEF OnNewEpisodes
<1>12. ASSUME NEW c \in Crawler, EnqueueFails(c) \/ StatementFails(c) \/ Crash(c) PROVE TypeOK'
  <2>1. faults' \in 0 .. MaxFaults
    BY <1>1, <1>12 DEF EnqueueFails, StatementFails, Crash, Fault
  <2>2. lost' \subseteq Episode
    BY <1>9, <1>12 DEF EnqueueFails, StatementFails, Crash
  <2>3. QED
    BY <1>12, <2>1, <2>2 DEF EnqueueFails, StatementFails, Crash
<1>13. CASE Publish
  BY <1>13, FeedCrawlAssumption DEF Publish, Version
<1>14. CASE FallsDue
  <2>1. row' \in Row
    BY <1>14 DEF FallsDue, Row
  <2>2. QED
    BY <1>14, <2>1 DEF FallsDue
<1>15. CASE UNCHANGED vars
  BY <1>15 DEF vars
<1> QED
  BY <1>3, <1>4, <1>5, <1>6, <1>7, <1>8, <1>10, <1>11, <1>12, <1>13, <1>14, <1>15 DEF Next

(* The steps that only the etag and the catalog have to survive. *)
LEMMA CrawlCases ==
  ASSUME [Next]_vars
  PROVE  \/ \E c \in Crawler :
              \/ EnsurePodcast(c) \/ SweepDue(c) \/ Refresh(c) \/ Fetch(c) \/ FetchFails(c)
              \/ RecordFailure(c) \/ NotModified(c) \/ CrawlSuccess(c) \/ OnNewEpisodes(c)
              \/ EnqueueFails(c) \/ StatementFails(c) \/ Crash(c)
         \/ \E c \in Crawler, e \in Episode : UpsertEpisode(c, e)
         \/ Publish \/ FallsDue \/ UNCHANGED vars
BY DEF Next

(* A crawl that ingests has in the catalog what it need not upsert any more. *)
IngestsAll == \A c \in Crawler : pc[c] = "ingest" => 1 .. got[c] \subseteq catalog \cup todo[c]

LEMMA EtagStep ==
  ASSUME TypeOK, IngestsAll, EtagNamesCatalog, [Next]_vars
  PROVE  IngestsAll' /\ EtagNamesCatalog'
<1> USE DEF IngestsAll, EtagNamesCatalog, Goto, crawl, ghost
<1>1. /\ pc \in [Crawler -> {"idle", "fetch", "unmodified", "failing", "ingest", "notify"}]
      /\ got \in [Crawler -> Version] /\ todo \in [Crawler -> SUBSET Episode] /\ row \in Row
      /\ \A c \in Crawler : pc[c] # "ingest" => todo[c] = {}
  BY DEF TypeOK
<1>2. ASSUME NEW c \in Crawler, EnsurePodcast(c) PROVE IngestsAll' /\ EtagNamesCatalog'
  <2>1. row' = row \/ (row'.etag = 0 /\ row'.latest = 0)
    BY <1>2 DEF EnsurePodcast, NoRow
  <2>2. UNCHANGED <<catalog, got, todo>> /\ pc' = [pc EXCEPT ![c] = "fetch"]
    BY <1>2 DEF EnsurePodcast, Begin
  <2>3. QED
    BY <1>1, <2>1, <2>2, Versions
<1>3. ASSUME NEW c \in Crawler, SweepDue(c) \/ Refresh(c) PROVE IngestsAll' /\ EtagNamesCatalog'
  BY <1>1, <1>3 DEF SweepDue, Refresh, Begin
<1>4. ASSUME NEW c \in Crawler, Fetch(c) PROVE IngestsAll' /\ EtagNamesCatalog'
  <2>1. UNCHANGED <<row, catalog>> /\ \A d \in Crawler \ {c} : UNCHANGED <<pc[d], got[d], todo[d]>>
    BY <1>1, <1>4 DEF Fetch
  <2>2. pc'[c] = "unmodified" \/ (got'[c] = feed /\ todo'[c] = 1 .. feed)
    BY <1>1, <1>4 DEF Fetch
  <2>3. QED
    BY <2>1, <2>2
<1>5. ASSUME NEW c \in Crawler,
             \/ FetchFails(c) \/ OnNewEpisodes(c) \/ EnqueueFails(c) \/ StatementFails(c) \/ Crash(c)
      PROVE  IngestsAll' /\ EtagNamesCatalog'
  <2>1. /\ UNCHANGED <<row, catalog, got>> /\ pc'[c] # "ingest"
        /\ \A d \in Crawler \ {c} : UNCHANGED <<pc[d], todo[d]>>
    BY <1>1, <1>5 DEF FetchFails, OnNewEpisodes, EnqueueFails, StatementFails, Crash
  <2>2. QED
    BY <2>1
<1>6. ASSUME NEW c \in Crawler, RecordFailure(c) \/ NotModified(c)
      PROVE  IngestsAll' /\ EtagNamesCatalog'
  <2>1. row'.etag = row.etag /\ row'.latest = row.latest
    BY <1>1, <1>6 DEF RecordFailure, NotModified, Row
  <2>2. UNCHANGED <<catalog, got, todo>> /\ pc' = [pc EXCEPT ![c] = "idle"]
    BY <1>6 DEF RecordFailure, NotModified
  <2>3. QED
    BY <1>1, <2>1, <2>2
<1>7. ASSUME NEW c \in Crawler, NEW e \in Episode, UpsertEpisode(c, e)
      PROVE  IngestsAll' /\ EtagNamesCatalog'
  BY <1>1, <1>7 DEF UpsertEpisode
<1>8. ASSUME NEW c \in Crawler, CrawlSuccess(c) PROVE IngestsAll' /\ EtagNamesCatalog'
  BY <1>1, <1>8 DEF CrawlSuccess
<1>9. CASE FallsDue
  <2>1. row'.etag = row.etag /\ row'.latest = row.latest
    BY <1>1, <1>9 DEF FallsDue, Row
  <2>2. QED
    BY <1>9, <2>1 DEF FallsDue
<1>10. CASE Publish \/ UNCHANGED vars
  BY <1>10 DEF Publish, vars
<1> QED
  BY <1>2, <1>3, <1>4, <1>5, <1>6, <1>7, <1>8, <1>9, <1>10, CrawlCases

(* What is told is told for good: an episode was handed over, its hand-over was
   lost, a first crawl brought it silently, or a crawl is about to announce it. *)
Told(e) ==
  \/ e \in announced \cup lost \cup silent
  \/ \E c \in Crawler : pc[c] = "notify" /\ e \in Fresh(c)
SnapsTold == \A c \in Crawler : \A e \in 1 .. snap[c].latest : Told(e)

LEMMA ToldForGood == ASSUME TypeOK, [Next]_vars, NEW e, Told(e) PROVE Told(e)'
<1> USE DEF Told, Fresh, Goto, crawl, ghost
<1>1. DOMAIN pc = Crawler /\ DOMAIN snap = Crawler /\ DOMAIN got = Crawler
  BY DEF TypeOK
<1>2. ASSUME NEW c \in Crawler,
             EnsurePodcast(c) \/ SweepDue(c) \/ Refresh(c)
      PROVE  Told(e)'
  <2>1. /\ UNCHANGED <<announced, lost, silent, got>> /\ pc[c] = "idle"
        /\ \A d \in Crawler \ {c} : UNCHANGED <<pc[d], snap[d]>>
    BY <1>1, <1>2 DEF EnsurePodcast, SweepDue, Refresh, Begin
  <2>2. QED
    BY <2>1
<1>3. ASSUME NEW c \in Crawler,
             \/ Fetch(c) \/ FetchFails(c) \/ RecordFailure(c) \/ NotModified(c)
             \/ CrawlSuccess(c) \/ StatementFails(c)
      PROVE  Told(e)'
  <2>1. /\ UNCHANGED <<announced, lost, snap>> /\ silent \subseteq silent' /\ pc[c] # "notify"
        /\ \A d \in Crawler \ {c} : UNCHANGED <<pc[d], got[d]>>
    BY <1>1, <1>3 DEF Fetch, FetchFails, RecordFailure, NotModified, CrawlSuccess, StatementFails
  <2>2. QED
    BY <2>1
<1>4. ASSUME NEW c \in Crawler, OnNewEpisodes(c) \/ EnqueueFails(c) \/ Crash(c) PROVE Told(e)'
  <2>1. /\ UNCHANGED <<silent, snap, got>> /\ announced \subseteq announced' /\ lost \subseteq lost'
        /\ \A d \in Crawler \ {c} : UNCHANGED <<pc[d]>>
    BY <1>1, <1>4 DEF OnNewEpisodes, EnqueueFails, Crash
  <2>2. pc[c] = "notify" /\ e \in Fresh(c) => e \in announced' \cup lost'
    BY <1>4 DEF OnNewEpisodes, EnqueueFails, Crash
  <2>3. QED
    BY <2>1, <2>2
<1>5. ASSUME NEW c \in Crawler, NEW f \in Episode, UpsertEpisode(c, f) PROVE Told(e)'
  BY <1>5 DEF UpsertEpisode
<1>6. CASE Publish \/ FallsDue \/ UNCHANGED vars
  BY <1>6 DEF Publish, FallsDue, vars
<1> QED
  BY <1>2, <1>3, <1>4, <1>5, <1>6, CrawlCases

LEMMA NewsStep ==
  ASSUME TypeOK, \A e \in 1 .. row.latest : Told(e), SnapsTold, [Next]_vars
  PROVE  (\A e \in 1 .. row'.latest : Told(e)') /\ SnapsTold'
<1> USE DEF SnapsTold, Goto, crawl, ghost
<1>1. /\ DOMAIN pc = Crawler /\ DOMAIN snap = Crawler /\ row \in Row
      /\ snap \in [Crawler -> Row] /\ got \in [Crawler -> Version]
      /\ pc \in [Crawler -> {"idle", "fetch", "unmodified", "failing", "ingest", "notify"}]
  BY DEF TypeOK
<1>2. (\A e \in 1 .. row.latest : Told(e)') /\ \A c \in Crawler : \A e \in 1 .. snap[c].latest : Told(e)'
  BY ToldForGood
<1>3. ASSUME NEW c \in Crawler, EnsurePodcast(c) \/ SweepDue(c) \/ Refresh(c)
      PROVE  (\A e \in 1 .. row'.latest : Told(e)') /\ SnapsTold'
  <2>1. row' = row \/ row'.latest = 0
    BY <1>3 DEF EnsurePodcast, SweepDue, Refresh, NoRow
  <2>2. \A e \in 1 .. row'.latest : Told(e)'
    BY <1>2, <2>1, Versions
  <2>3. snap' = [snap EXCEPT ![c] = row']
    BY <1>3 DEF EnsurePodcast, SweepDue, Refresh, Begin
  <2>4. \A d \in Crawler : snap'[d] = snap[d] \/ snap'[d] = row'
    BY <1>1, <2>3
  <2>5. QED
    BY <1>2, <2>2, <2>4
<1>4. ASSUME NEW c \in Crawler,
             \/ Fetch(c) \/ FetchFails(c) \/ RecordFailure(c) \/ NotModified(c) \/ OnNewEpisodes(c)
             \/ EnqueueFails(c) \/ StatementFails(c) \/ Crash(c)
      PROVE  row'.latest = row.latest /\ snap' = snap
  BY <1>1, <1>4 DEF Fetch, FetchFails, RecordFailure, NotModified, OnNewEpisodes, EnqueueFails,
                    StatementFails, Crash, Row
<1>5. ASSUME NEW c \in Crawler, CrawlSuccess(c)
      PROVE  (\A e \in 1 .. row'.latest : Told(e)') /\ SnapsTold'
  <2>1. /\ row'.latest = got[c] /\ snap' = snap /\ got' = got /\ pc'[c] = "notify"
        /\ snap[c].latest = 0 => 1 .. got[c] \subseteq silent'
    BY <1>1, <1>5 DEF CrawlSuccess
  <2>2. ASSUME NEW e \in 1 .. got[c] PROVE Told(e)'
    <3>1. CASE snap[c].latest = 0
      BY <2>1, <3>1 DEF Told
    <3>2. CASE snap[c].latest # 0 /\ e > snap[c].latest
      BY <2>1, <3>2 DEF Told, Fresh
    <3>3. CASE snap[c].latest # 0 /\ ~(e > snap[c].latest)
      <4>1. snap[c].latest \in Nat /\ e \in Nat /\ e >= 1
        BY <1>1, FeedCrawlAssumption DEF Row, Version
      <4>2. e \in 1 .. snap[c].latest
        BY <3>3, <4>1
      <4>3. QED
        BY <1>2, <4>2
    <3>4. QED
      BY <3>1, <3>2, <3>3
  <2>3. QED
    BY <1>2, <2>1, <2>2
<1>6. ASSUME NEW c \in Crawler, NEW f \in Episode, UpsertEpisode(c, f)
      PROVE  row'.latest = row.latest /\ snap' = snap
  BY <1>6 DEF UpsertEpisode
<1>7. CASE Publish \/ FallsDue \/ UNCHANGED vars
  <2>1. row'.latest = row.latest /\ snap' = snap
    BY <1>1, <1>7 DEF Publish, FallsDue, vars, Row
  <2>2. QED
    BY <1>2, <2>1
<1>8. CASE row'.latest = row.latest /\ snap' = snap
  BY <1>2, <1>8
<1> QED
  BY <1>3, <1>4, <1>5, <1>6, <1>7, <1>8, CrawlCases

CrawlInv ==
  /\ TypeOK /\ IngestsAll /\ EtagNamesCatalog
  /\ (\A e \in 1 .. row.latest : Told(e)) /\ SnapsTold

LEMMA CrawlInitInv == Init => CrawlInv
<1> SUFFICES ASSUME Init PROVE CrawlInv
  OBVIOUS
<1>1. TypeOK
  BY CrawlInitType
<1>2. row.latest = 0 /\ row.etag = 0 /\ \A c \in Crawler : snap[c].latest = 0 /\ pc[c] = "idle"
  BY DEF Init, NoRow
<1>3. QED
  BY <1>1, <1>2, Versions DEF CrawlInv, IngestsAll, EtagNamesCatalog, SnapsTold

LEMMA CrawlStepInv == CrawlInv /\ [Next]_vars => CrawlInv'
BY CrawlTypeStep, EtagStep, NewsStep DEF CrawlInv

(* A stored etag stands for the latest episode of its version, all of whose
   episodes are in the catalog, whichever crawls fail or overtake one another. *)
THEOREM EtagTrusted == Spec => []EtagNamesCatalog
<1>1. CrawlInv => EtagNamesCatalog
  BY DEF CrawlInv
<1>2. QED
  BY <1>1, CrawlInitInv, CrawlStepInv, PTL DEF Spec

(* No episode that the row knows of goes unannounced, but for a first crawl's
   and those whose hand-over failed. *)
THEOREM NewsAlwaysDelivered == Spec => []NewsDelivered
<1>1. CrawlInv => NewsDelivered
  BY DEF CrawlInv, Told, NewsDelivered
<1>2. QED
  BY <1>1, CrawlInitInv, CrawlStepInv, PTL DEF Spec

----------------------------------------------------------------------------
(* Refresh jobs (RefreshJob, here Forced), which share the bound on faults. *)
ForcedInv == Forced!TypeOK /\ Forced!CompletedIsTrue

LEMMA ForcedInitInv == Forced!Init => ForcedInv
<1> SUFFICES ASSUME Forced!Init PROVE ForcedInv
  OBVIOUS
<1>1. /\ faults \in 0 .. MaxFaults /\ known \in BOOLEAN /\ cooldown = None
      /\ \A r \in Request : request[r] = "idle" /\ job[r] = None
      /\ \A j \in Job : status[j] = "absent"
  BY FeedCrawlAssumption DEF Forced!Init
<1>2. /\ status \in [Job -> {"absent"}] /\ task \in [Job -> {"none"}]
      /\ request \in [Request -> {"idle"}] /\ job \in [Request -> {None}]
      /\ outcome \in [Job -> {"never"}]
  BY DEF Forced!Init
<1>3. missed = {} /\ unread = {}
  BY DEF Forced!Init
<1>4. QED
  BY <1>1, <1>2, <1>3 DEF ForcedInv, Forced!TypeOK, Forced!CompletedIsTrue, Forced!Live

LEMMA ForcedStepInv == ForcedInv /\ [Forced!Next]_Forced!vars => ForcedInv'
<1> SUFFICES ASSUME ForcedInv, [Forced!Next]_Forced!vars PROVE ForcedInv'
  OBVIOUS
<1> USE FeedsAssumption DEF ForcedInv, Forced!TypeOK, Forced!CompletedIsTrue, Forced!Goto, Forced!Answer,
        Forced!SetStatus, Forced!statuses, Forced!redis, Forced!Live
<1>1. ASSUME Forced!Fault PROVE faults' \in 0 .. MaxFaults
  BY <1>1, FeedCrawlAssumption DEF Forced!Fault
<1>2. ASSUME NEW r \in Request, NEW j \in Job, Forced!Ask(r, j) PROVE ForcedInv'
  BY <1>1, <1>2 DEF Forced!Ask
<1>3. ASSUME NEW r \in Request, request[r] # "idle" PROVE job[r] \in Job
  BY <1>3
<1>4. ASSUME NEW r \in Request, Forced!Claim(r) PROVE ForcedInv'
  <2>1. job[r] \in Job /\ request[r] = "claim"
    BY <1>3, <1>4 DEF Forced!Claim
  <2>2. /\ cooldown' \in Job \cup {None}
        /\ request' = [request EXCEPT ![r] = IF cooldown = None THEN "queue" ELSE "adopt"]
        /\ UNCHANGED <<known, status, unread, task, job, missed, outcome, faults>>
    BY <1>4, <2>1 DEF Forced!Claim
  <2>3. QED
    BY <2>1, <2>2
<1>5. ASSUME NEW r \in Request, Forced!Adopt(r) PROVE ForcedInv'
  BY <1>5 DEF Forced!Adopt
<1>6. ASSUME NEW r \in Request, Forced!MarkQueued(r) PROVE ForcedInv'
  BY <1>3, <1>6 DEF Forced!MarkQueued
<1>7. ASSUME NEW r \in Request, Forced!Enqueue(r) PROVE ForcedInv'
  BY <1>3, <1>7 DEF Forced!Enqueue, Forced!CompleteUnread
<1>8. ASSUME NEW r \in Request, Forced!EnqueueFails(r) PROVE ForcedInv'
  BY <1>1, <1>3, <1>8 DEF Forced!EnqueueFails
<1>9. ASSUME NEW j \in Job,
             Forced!StartTask(j) \/ Forced!StatusExpires(j) \/ Forced!RetentionEnds(j)
      PROVE  ForcedInv'
  BY <1>9 DEF Forced!StartTask, Forced!StatusExpires, Forced!RetentionEnds
<1>10. ASSUME NEW j \in Job, Forced!CrawlSucceeds(j) \/ Forced!CrawlFails(j) PROVE ForcedInv'
  BY <1>1, <1>10 DEF Forced!CrawlSucceeds, Forced!CrawlFails, Forced!FinishTask
<1>11. ASSUME NEW j \in Job, Forced!Retry(j) PROVE ForcedInv'
  BY <1>1, <1>11 DEF Forced!Retry
<1>12. CASE Forced!CooldownExpires \/ UNCHANGED Forced!vars
  BY <1>12 DEF Forced!CooldownExpires, Forced!vars
<1> QED
  BY <1>2, <1>4, <1>5, <1>6, <1>7, <1>8, <1>9, <1>10, <1>11, <1>12 DEF Forced!Next

LEMMA FeedsHold == FeedsSpec => [](TypeOK /\ ForcedInv)
<1>1. FeedsInit => TypeOK /\ ForcedInv
  BY CrawlInitType, ForcedInitInv DEF FeedsInit
<1>2. TypeOK /\ ForcedInv /\ [FeedsNext]_feedVars => (TypeOK /\ ForcedInv)'
  <2> SUFFICES ASSUME TypeOK, ForcedInv, [FeedsNext]_feedVars PROVE TypeOK' /\ ForcedInv'
    OBVIOUS
  <2>1. ASSUME UNCHANGED refreshVars, faults' \in 0 .. MaxFaults PROVE ForcedInv'
    BY <2>1 DEF refreshVars, ForcedInv, Forced!TypeOK, Forced!CompletedIsTrue
  <2>2. CASE CrawlStep
    <3>1. TypeOK'
      BY <2>2, CrawlTypeStep DEF CrawlStep
    <3>2. UNCHANGED refreshVars /\ faults' \in 0 .. MaxFaults
      BY <2>2, <3>1 DEF CrawlStep, TypeOK
    <3>3. QED
      BY <2>1, <3>1, <3>2
  <2>3. CASE RefreshStep
    <3>1. ForcedInv' /\ UNCHANGED <<feed, row, catalog, crawl, ghost>>
      BY <2>3, ForcedStepInv DEF RefreshStep
    <3>2. faults' \in 0 .. MaxFaults
      BY <3>1 DEF ForcedInv, Forced!TypeOK
    <3>3. TypeOK'
      BY <3>1, <3>2 DEF TypeOK, crawl, ghost
    <3>4. QED
      BY <3>1, <3>3
  <2>4. CASE UNCHANGED feedVars
    <3>1. UNCHANGED vars /\ UNCHANGED refreshVars
      BY <2>4 DEF feedVars
    <3>2. TypeOK' /\ faults' \in 0 .. MaxFaults
      BY <3>1, CrawlTypeStep DEF TypeOK
    <3>3. QED
      BY <2>1, <3>1, <3>2
  <2>5. QED
    BY <2>2, <2>3, <2>4 DEF FeedsNext
<1>3. QED
  BY <1>1, <1>2, PTL DEF FeedsSpec

(* Crawls and refresh jobs have their types. *)
THEOREM FeedsTypeCorrect == FeedsSpec => []TypesOK
<1>1. TypeOK /\ ForcedInv => TypesOK
  BY DEF TypesOK, ForcedInv
<1>2. QED
  BY <1>1, FeedsHold, PTL

(* A job is reported as completed only if its last crawl succeeded, or the
   request that claimed it could not look the podcast up (GetUpdatePodcast and
   HandlePodcastRefreshTask), through retries, further claims of the same job
   and expiries. *)
THEOREM CompletedMeansCrawled == FeedsSpec => []CompletedIsTrue
<1>1. TypeOK /\ ForcedInv => CompletedIsTrue
  BY DEF CompletedIsTrue, ForcedInv
<1>2. QED
  BY <1>1, FeedsHold, PTL
===============================================================================
