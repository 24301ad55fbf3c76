# TLA+ models of podcast-backend

podcast-backend is a Go service that stores the libraries of podcast listeners,
keeps their devices in sync, crawls feeds, runs background jobs and carries a
social layer.  Requests arrive over HTTP (protobuf for sync, JSON for the rest);
state lives in PostgreSQL, with Redis for locks, claims and the task queue
(asynq), and an S3 store for objects.  Several replicas run the same binary.

This directory holds models of the parts whose correctness depends on ordering,
concurrency and failure, the TLC runs that check them on small instances, and
TLAPS proofs of what the runs check, for every value of the constants.  `PROJECT.json` maps every definition
to the lines it models and lists the hazards the properties are aimed at.

Contents: [inventory](#inventory), [modules](#modules-and-the-code),
[runs](#runs), [bounds](#bounds), [fairness](#fairness), [proofs](#proofs),
[findings](#findings), [not modelled](#not-modelled), [plan](#plan).

## Inventory

| component | state | operations | hard behaviour | what makes it correct |
|---|---|---|---|---|
| Sync engine (`syncsvc/engine.go`, `updates.go`, `settings.go`, `convert.go`, `token.go`) | rows of six record kinds with `modified_at`, settings, milestones, `users.sync_last_modified` | `ApplyUpdate`, `UpdateEpisode`, `UpdateEpisodeStar`, `UpdateSettings` | devices sync at once, responses are lost, clocks differ, one record of a batch fails, records arrive late and repeated | no device misses a row at or below its cursor; every write moves the cursor; each column keeps its newest write |
| Up Next (`syncsvc/upnext.go`) | ordered queue, `up_next_modified` | `SyncUpNext` | read-modify-write of the whole queue, batches out of order | a token names one queue; no concurrent change is lost |
| History (`syncsvc/history.go`) | rows and tombstones, clear stamp, token | `SyncHistory` | old adds after newer deletions, the cap | newest change stays; the cap holds |
| Ingestion (`ingestion.go`) | in-flight set, channel, workers, per-user buckets | `Submit`, worker loop, shutdown | full channel, failing ingestion, evicted buckets | a feed is ingested once at a time and always released |
| Crawler (`crawler/crawler.go`) | podcast row with etag, latest episode, status; episodes | `EnsurePodcast`, `Crawl`, `recordFailure` | overlapping crawls, partial upserts, failures after successes | the etag names what is stored; no new episode is skipped |
| Refresh jobs (`handlers/update_podcast.go`, `tasks/`) | cooldown claim, status key, queue task | claim, adopt, enqueue, run, retry, poll | three independent expiries | a polled status is true |
| Weekly digest (`main.go`) | Redis completion key and lock, leases and watermarks | hourly tick, claim, push, mark | several replicas, crashes, expiring lock, failed pushes | one digest per user and week, the week completes |
| Avatars (`handlers/avatar.go`, `tasks/server.go`) | objects, live key, delete outbox | upload, delete, erase, cleanup | store and database are not atomic, leases expire | the live object is never deleted, replaced ones are |
| Social graph (`handlers/social.go`, `graph.go`) | handles, profiles, follows, blocks, mutes | join, follow, approve, block, erase | checks and writes in separate statements | handles are unique and never reissued; blocks sever |
| Groups (`handlers/groups.go`) | group, members with roles and tenure | create, update, join, leave, invite, accept, kick, ban, delete, erase | checks and writes in separate statements, succession | the group has an owner, bans hold, private stays private |
| Sessions (`handlers/account.go`) | refresh tokens in families, password, reset code | login, exchange, revoke, change, reset, delete | row locks, reuse detection, statements that cannot see concurrent inserts | one replacement per token; revoked families stay closed |
| Library reads (`syncsvc/library.go`) | none of its own; reads the synced rows and the cursor | `LastSyncAt`, `PodcastList`, `PodcastEpisodes`, `PlaylistList`, `BookmarkList`, `StarredList` | several statements outside a transaction while other devices commit | a restored device shows the account once it has synced past the last commit |
| Attestation (`handlers/attest*.go`, `attest/`) | challenges, keys with counter and status | challenge, enrol, verify each request | requests lost, doubled and reordered; revocation between read and advance | a signed request and a challenge count once; a healthy key is never called invalid |
| Push (`handlers/push.go`, `push/`) | device rows with token, switch and environment; notify flags | register, select targets, send with retries, clear dead tokens | tokens replaced, accounts deleted and alerts retried while a run goes on | a live token is kept, a deleted account is unreachable, one phone's failure is its own |
| Comments (`handlers/comments.go`) | comment rows with parent, root and tombstone; aliases; seen mark | submit, edit, delete, pages, inbox of replies | edits and inserts behind stale checks, erasure in between, two uuids of one episode | tombstones stay empty, edits end with the first reply, counts match pages |
| Group posts (`handlers/groupposts.go`, `tasks/server.go`) | post rows, alert switches, fan-outs under way | submit, edit, delete by author or owner, read, fan out | a full semaphore, a task that runs again, members who come and go | who was in the audience all along is told |
| Inbox, reviews, ratings (`handlers/inbox.go`, `reviews.go`, `ratings.go`) | shared items, reviews, reactions, ratings | send, read, delete, review, react, rate | the recipient blocks or the sender erases between check and insert | a push is backed by an inbox item; erasure leaves nothing |
| Shared lists (`handlers/lists.go`) | list, entries with position and attribution, members with roles | create, update, delete, entry operations, invite, respond, subscribe, remove | caps and roles read before the write, blocks, erasure | caps up to overlaps, no list opens across a block, no attribution after erasure |
| Social reads (`handlers/social.go`, `graph.go`, `people.go`, `discovery.go`) | reads profiles, tiers, follows, blocks, mutes | profile, follow lists, requests, feed, search, suggestions, contacts, curators, trending, proof | a dozen queries repeat the tests of tier, follow and block | no read crosses a tier; those that ask for blocks name nobody across one, those that rely on deleted follows only by a follow that the block missed |
| Limits (`handlers/social.go`, `distributed_limit.go`, `middlewares/ratelimit.go`) | reports of the last day, Redis counters, token buckets | report, `redisLimit`, `allow` | concurrent counting, expiry, eviction | the quota is exact, a window reopens, eviction forgives nothing |
| Corpus, recommendations, discovery, cache host, administration, start-up | see `PROJECT.json` | | | not modelled, below |

How they interact.  A sync request that meets a subscription unknown to the
catalogue collects its feed and, after the commit, hands it to the ingestion
dispatcher, which calls the crawler; the crawler writes the catalogue and
announces new episodes to the task queue, which pushes.  Milestones detected in
a sync transaction feed the digest.  Social erasure runs in one transaction and
touches profiles, follows, groups, comments, posts, lists, items, reviews and
avatars; avatar objects are deleted later from the outbox.  Account deletion ends
the sessions and clears the push registrations.  Follows, replies, shares, posts
and digests call the notifier.  The components share no
in-process state except the dispatcher's mutex and channel: all other
synchronisation is a database transaction, a row lock, a unique key or a Redis
key, and that is where the models put their atomic steps.

## Modules and the code

A step of a model is one database statement, one transaction, one Redis command,
one critical section or one outside call, whichever the code makes atomic.
Requests that read and later write without a lock are split there.  Record
contents are small numbers, identifiers are model values, texts are left out.

| module | models | correspondence |
|---|---|---|
| `SyncToken` | `syncsvc/token.go` | `NextToken(prev, now)` is `nextToken`: the clock, or one more than the previous token |
| `SyncRecords` | merge rules of `engine.go`, `settings.go` | the kinds of record with their stamped columns; `ApplyRecord` and its parts are the `apply*` functions |
| `SyncEngine` | `ApplyUpdate`, `handlers/sync.go`, the real-time endpoints, `UpdateSettings`, the clients | `BeginSync` locks the user's row and draws the token, `SyncRecord` applies one record to the transaction's `work`, `CommitSync` collects the response, stores the token, detects milestones and commits, `DispatchHooks` hands feeds over; `DeliverReply`/`LoseReply`/`ResetDevice` are the client |
| `LibraryReplica` | abstract specification | a device receives snapshots of one library; nothing else about cursors |
| `SyncMerge` | the same merge operators, without transactions | records in every order and repetition, with the history of what was sent |
| `UpNext`, `History` | `syncsvc/upnext.go`, `history.go` | begin (row lock), changes, commit or rollback, delivery or loss |
| `FeedIngestion` | `ingestion.go` | `Refuse`/`Accept` are the critical section of `Submit`, `Enqueue`/`DropFull`/`DropStopped` its select, `Take`/`Finish`/`Stop` a worker, `Tick` the passing of refill time |
| `FeedCrawl` | `crawler/crawler.go` and its callers | `EnsurePodcast`, `SweepDue` and `Refresh` start a crawl of a snapshot of the row; fetch, upserts, success or failure follow as separate steps |
| `RefreshJob` | `handlers/update_podcast.go`, `tasks/tasks.go`, `tasks/server.go` | the Redis claim, the status key and the asynq task of a job are three variables that expire independently |
| `WeeklyDigest` | `runDigestSchedulerOnce` and `digestSweep` in `main.go` | one ISO week; `pc` follows a replica through key check, lock, claim, push, watermark and release |
| `AvatarStore` | `handlers/avatar.go`, cleanup in `tasks/server.go` | an upload puts the object, reads the previous key and commits; workers lease outbox rows |
| `SocialGraph` | `handlers/social.go`, `handlers/graph.go` | `req` holds the requests between their statements |
| `Groups` | `handlers/groups.go`, erasure in `handlers/social.go` | `Begin…` is a request's checks, the following action its write; the listings and the roster hide whom their queries hide |
| `Sessions` | `handlers/account.go` | `req` holds requests between statements and the row locks they own |
| `Library` | `syncsvc/library.go`, `handlers/library.go` | one action per statement of a request; `Write` is a commit of another device, `IncrementalSync` the device's sync after the restore |
| `Attest` | `handlers/attest.go`, `attest_middleware.go`, `attest/` | `PostAttestEnroll`/`Enroll` and `AttestVerify`/`AdvanceAttestCounter`/`Recheck` are the requests between their statements |
| `PushDelivery` | `handlers/push.go`, `push/notifier.go`, `push/client.go` | `send` follows a notifier run over its targets, try by try |
| `Relations` | tests shared by the social handlers | `IsBlockedEither`, `mutedBy`, `visibilityToStored`, the tiers |
| `Comments`, `GroupPosts` | `handlers/comments.go`, `handlers/groupposts.go`, the fan-out in `tasks/server.go` | checks, insert or edit, notification as separate steps; pages and counts are operators named after their queries |
| `Sharing` | `handlers/inbox.go`, `reviews.go`, `ratings.go` | checks, insert, push as separate steps |
| `SharedLists` | `handlers/lists.go` | a request is its checks and then `WriteEntry` or `WriteMember`; `PostSocialListCreate` its creation, which an erasure may overtake; `held` the members and writes that a block found |
| `SocialReads` | reads of `handlers/social.go`, `graph.go`, `people.go`, `discovery.go` | one operator per query and per response; `CheckFollow`/`UpsertFollow` and `Block`/`Sever` are a follow and a block between their statements, the other changes are atomic here |
| `Quotas` | `withModerationReportQuota`, `distributed_limit.go`, `middlewares/ratelimit.go` | the report transaction statement by statement; the Redis script and `allow` are atomic |
| `MCSyncEngine` | | symmetry sets for TLC |
| `MCAccounts`, `MCDevices`, `MCFeeds`, `MCJobs`, `MCSocial`, `MCPeople` | | components that share no state, put beside each other for one run: a behaviour follows the one that `part` names while the others keep their initial state |
| `SyncEngineProofs`, `AccountsProofs`, `DevicesProofs`, `FeedsProofs`, `JobsProofs`, `SocialProofs`, `SocialTalkProofs`, `PeopleProofs` | | theorems about the runs of the same name; `SocialTalkProofs` those about comments, posts and what is shared |

`SyncEngine` composes `SyncToken` and `SyncRecords` and instantiates
`LibraryReplica`; `UpNext` and `History` use `SyncToken`; `Comments`,
`GroupPosts`, `Sharing`, `SharedLists` and `SocialReads` use `Relations`.
Request messages are sets of records with the fields their handler looks at,
and the queries of `db/queries.sql.go` are operators of the same name.  Definitions marked
`\* mutant` are faulty variants of the definition that follows; none
is used by a specification.

Libraries and services outside the repository (Redis expiry, asynq's task
states, the object store, PostgreSQL's row locks) are
modelled from how the code uses them and marked external in `PROJECT.json`.

## Runs

Each run is `tlc -config <run>.cfg <module>`.

| run | module | checks | shows |
|---|---|---|---|
| `sync` | `MCSyncEngine` | `TypeOK`, `NoMissedWrite`, `HooksAfterCommit`, `WritesAdvanceCursor`, `ImplementsReplica` | two devices interleave sync transactions, real-time writes, settings updates, rollbacks, lost responses and reinstalls under skewed clocks: nothing is missed, feeds are ingested only for committed requests, settings never change without the cursor, and incremental sync is snapshot replication |
| `accounts` | `MCAccounts` | `NewestWins`, `EchoRebuildsRow` (records), `RestoreConverges` (library), `AttestedOnce` (attestation), `PhonesStayReachable` (push), `TypesOK` | every order and repetition of the records of an episode, of a bookmark, of a setting: the newest write of each column stays, a user's trim beats machine enrichment, and an echoed record rebuilds its row; a restore from torn reads converges and what it tore is repaired by the next sync; signed requests and challenges count once; registrations survive dead tokens of their past |
| `devices` | `MCDevices` | `TokensNameLists`, `QueueFollowsChanges`, `NewestChangeKept` | concurrent changes of two devices with lost responses, a clock that stands still, batches out of order and a full table: a token names one queue and one history, the newest change of an episode decides, and the others keep their places |
| `feeds` | `MCFeeds` | `TypesOK`, `EtagNamesCatalog`, `NewsDelivered`, `CatchesUp` (crawls), `CompletedIsTrue` (refresh jobs) | two overlapping crawls that overtake each other, fail and die: the row and the catalogue end with the whole feed although stale crawls overwrite newer ones; a job reported completed was crawled successfully, or the lookup of its podcast failed |
| `jobs` | `MCJobs` | `TypesOK`; `OneIngestionPerFeed`, `LimiterExact` (ingestion); `DigestOnce` (digest); `ObjectsAccounted` (avatars); `WorkCompletes` (all three) | the dispatcher ingests a feed once at a time (import and sweep crawl besides it) and evicting a bucket gives nobody tokens; sweeps exclude each other until a lock expires under one; the live object is deleted only by an upload that mistook its commit for a failure, and the only untracked objects are those of overlapping or dead uploads; a claimed feed is released, a dead run's week completed, a queued object deleted |
| `social` | `MCSocial` | `HandleNamesProfile`, `SeveredUnlessRaced` (graph), `ErasedSaysNothing`, `CountsMatchPages`, `AlertsAreTrue`, `PublishedStays`, `TypesOK`; `FamilyStaysClosed`, `RevokedRunsDry` (sessions) | overlapping requests of two users and a failing statement: a follow crosses a block only in the cases the history variable `loose` names, and what an erased user leaves is what was being inserted during the erasure (`late`); totals and reply counts agree with the pages of each viewer; a push is backed by what it announces; two requests at a time to the sessions of an account: a token has one replacement, and what survives a revocation is exactly what overlapped it |
| `people` | `MCPeople` | `GroupIsWhole`, `BanNotOverwritten` (groups), `ErasedLeavesNothing` (lists), `ReadsRespectPrivacy` (reads, lists), `LimitsHold` (lists, quotas), `TypesOK` | groups of three users with two requests at a time: one owner row whatever overlaps (but two erasures of one user), the owner presides and the roster agrees while nothing did (`overlap`), but for the members that a block hides from its page; erasure reaches the lists although entries, invitations and the list itself were being written; lists, reads and limits as in the inventory |
| `sync_milestones`, `digest_retry`, `refresh_polling`, `social_blocks`, `groups_privacy` | `MCSyncEngine`, `WeeklyDigest`, `RefreshJob`, `SocialGraph`, `Groups` | one property each, violated | see [findings](#findings) |

Deadlock is checked in all passing runs.  Models that may stop say where:
`WeekOver` in `MCJobs` (a finished week has nothing left to do), and `Ends` or
`TalkEnds` in `MCAccounts`, `MCPeople` and `MCSocial` (a bound is reached, or the
group, the list or every account is deleted).  Symmetry is used only in runs
without liveness properties.

## Bounds

Every bound is a constant used in a guard.

- **Sync.** Two devices suffice for every property that relates a writer and a
  reader.  `MaxToken` 3 allows three committed or rolled-back writes, so that a
  device can be behind by two and another by one.  `Clock = {0, 2}` contains a
  clock behind the stored token and one that jumps.  A transaction may roll back
  after its record was applied.  One subscription with a feed, one episode and one
  setting: the cursor logic is the same for all kinds of record, and the proofs
  cover every table.  The milestone ladder is only in `sync_milestones`.
- **Merge.** `Stamp = {0, 1, 3}` with the server's token 2 puts device stamps on
  both sides of a real-time write, and equal to each other.  The stamped columns
  of a row are merged by `MergeFields`, independently of each other, so two of an
  episode stand for the rest; a bookmark is sent with its highlight window only.
- **Up Next, history.** Three episodes distinguish first, last and between;
  batches of two changes with equal and different stamps; `Cap` 1 makes the
  history overflow.
- **Ingestion.** Two users and two feeds against a queue of one, two workers,
  two tokens per bucket and `MaxUsers` 1: the queue, a bucket and the table of
  buckets are each exceeded.
- **Crawler.** Two crawls, three published episodes and one fault: a crawl may be
  two versions behind.  Refresh: one request at a time, any number after each
  other, two jobs.
- **Digest.** Two replicas, batches of one for two users, one fault.
- **Avatars.** Two uploads and their two keys, two workers, one fault; a commit
  may fail with or without its effect.
- **Library.** One row of each table and three commits: a podcast, its folder and
  a change of either, before, between or after the reads.  A commit writes any row
  with any content: the folder a podcast names may be unknown or deleted, as
  `ApplyUpdate` checks neither.
- **Attestation.** Two installs, two challenges, counters up to two and four
  deliveries, two at a time: an assertion may be repeated, overtaken or replayed
  after a second enrolment.
- **Push.** Two accounts on one phone, two tokens, two registrations, one
  notifier run with two attempts per alert.
- **Social.** Two users are every pair there is to an edge; two handles
  are one for each, or one that an erased user lost and one to rejoin with; two of
  five requests overlap, one fault.
- **Groups.** Three users, `Cap` 2: one too many.  Four requests besides the
  creation, two at a time: enough for two admissions, a ban and a succession.  One
  block, between any two users and at any time.
- **Comments, posts, shares.** Two users; three comments make a thread of depth
  three, two posts against one fan-out slot; four operations (three for shares),
  two at a time.
- **Lists.** Three users, two episodes against a cap of one, one collaborator too
  many, four operations, two at a time, after a creation that is under way at the
  start; one count that cannot be read.
- **Reads.** Three users, three changes of the graph and one of a profile: a
  friend, a stranger and whom the block is against, and a follow that is checked
  before a block and inserted after it.  An update opens one field; of the fields
  that only the profile page shows, the avatar and the top podcasts stay closed.  Every user has everything a
  read could show.
- **Limits.** One report per day of two ticks, two requests per window of two,
  two clients against a table of one, five tries.
- **Sessions.** Two requests at a time, three tokens (a login and two
  replacements, or two families), two passwords, one fault.  A family
  never leaves its device, so a token comes from that device or from another one.

## Fairness

- `FeedIngestion`: weak fairness of a submitter's select, of a worker's receive
  and of the end of an ingestion.  A goroutine that can run does; `ingestFeed`
  runs under a timeout and so ends.  Nothing is assumed of submitters or ticks.
- `FeedCrawl`: weak fairness of the steps of a running crawl (fetches have a
  timeout), of a podcast falling due (`next_crawl_at` is finite), of the
  periodic sweep and of a first subscription that calls `EnsurePodcast`.
  Publishing ends at `MaxEpisodes`: the property is about what follows.
- `WeeklyDigest`: weak fairness of the runs' steps, the hourly ticks included,
  and of the expiry of a Redis lock.  Not of lease expiry.
- `AvatarStore`: weak fairness of the periodic cleanup and of lease expiry.

The number of faults is finite in each, as in any liveness claim about retries.
The other modules state safety only.

## Proofs

Every invariant that a passing run checks is also a theorem, and so is every
action property but `QueueFollowsChanges`.  The theorems hold for every value of
the constants that satisfies the named assumptions below, so for any number of
devices, users, records, requests, replicas and faults; TLC evaluates the
assumptions in every run.

An invariant of a run is hardly ever inductive.  Each proof states a stronger one,
shows that it holds initially and that every action keeps it (one lemma per
action, or per group of actions that touch the same variables), and that it
implies the invariant of the run; the last step is temporal logic.  In the
modules of several components a behaviour follows one `part`: the others do not
move, so each part has an invariant of its own.

### Sync (`SyncEngineProofs`)

- `TypeCorrect`: the lemmas follow the merge operators.  A merged record of a
  kind is a record of that kind, the transaction's rows are rows of the table,
  an echo has its row's type.
- `CursorCorrect`, `NoMissedWriteHolds`.  `NoMissedWrite` (a device whose cursor
  is at or past a row's stamp holds that row) is not inductive: a response under
  way could be incomplete and a transaction could hold an old token.  `CursorInv`
  adds `OneWriter` (the row lock admits one transaction), `WorkStamped` (its rows
  carry its token, which is above the cursor of the account), `RowsStamped` and
  `CursorsBehind` (no committed row and no device is ahead of the account) and
  `ReplyComplete` (a response together with what the device holds is the library
  as of the response's token).
- `WritesAdvance`: every step that changes a synced row or the settings moves the
  cursor strictly up and stamps the row with it.
- `HooksHold`: a feed that is handed to the ingestion hook was collected by a
  request that committed; the feeds still to be handed over are in the invariant.
- `SyncImplementsReplica`: `Spec => Replica!Spec`.  Commits map to a write and a
  snapshot, real-time writes to writes, deliveries to deliveries, everything
  inside a transaction to stuttering.  It rests on `CursorInv`: that a delta
  applied to a stale view gives a snapshot is what `ReplyComplete` says.

### What clients send and restore (`AccountsProofs`)

- `NewestStays`, `EchoesRebuild`.  For each column `EpisodeKept`, `BookmarkKept`
  and their like say that the stored value is among the writes the column
  received and that none of these is newer; the merge of one write keeps this
  (`NewestMerge`) whatever the row held.  A user's trim is kept apart from
  machine excerpts.
- `RestoresConverge`.  `LibraryInv` relates a device halfway through a restore to
  the rows *that have not changed since its cursor*: such a row is held as it
  is where a list that carries it was read (`ListsRead`), what is held of it agrees
  with it (`CopiesAgree`, chapters of an episode excepted), and the episodes of a
  podcast that the device shows and no longer asks for are complete
  (`EpisodesRead`).  Lists read at different times
  are thereby harmless: what a read missed has a token above the cursor, and the
  next sync brings it.  With the cursor at the last commit no row has changed since,
  and the device shows what the server has.  A podcast whose folder the device lacks
  is repaired by that sync, unless the account itself names a folder that it does
  not have or has deleted: nothing in `ApplyUpdate` prevents that.
- `AttestationCountsOnce`.  `AttestInv` adds that a counter was reached by its
  device's signatures, that an assertion which passed lies at or below the stored
  counter of its key, and that a challenge which enrolled is spent.
- `PhonesReachable`.  `PushInv` follows a send: who was a target and is not waiting,
  shown or given up has a dead token (`SendsUnderway`), a token belongs to one phone
  (`TokensApart`), and a token that a send is about to clear is dead or was tried in
  the wrong environment (`DroppedForGood`).
- `AccountTypesCorrect`.

### Queue and history (`DevicesProofs`)

- `TokensAlwaysName`: of all snapshots that are stored, on the wire or on devices,
  those with one token are equal, because a new token is above all that exist and a
  request without changes leaves the list as it is (`OnlyReads`; for the queue, that
  an empty batch folds to the queue it started from).
- `NewestChangeStays`: inside a transaction its own table holds the newest of the
  changes committed before and its own, without what it cleared (`Changes`).  The
  upsert, a clear and the trim each keep this.

### Feeds and jobs (`FeedsProofs`, `JobsProofs`)

- `EtagTrusted`, `NewsAlwaysDelivered`: a crawl under way has every item of its
  fetched version in the catalogue or still to upsert (`IngestsAll`), and the latest
  episode of every snapshot a crawl may write back was announced (`SnapsTold`).
- `CompletedMeansCrawled`: inductive once the types hold and `missed` names the jobs
  whose lookup failed; those are reported completed without a crawl.
- `IngestionTypeCorrect`, `DispatchCorrect`, `LimiterCorrect`: the in-flight set is
  exactly the union of submitters, channel and workers, and a feed is in one of
  these places only (the two are proved together, neither is inductive alone);
  evicting an idle bucket never gives tokens, because an evicted bucket is full.
- `DigestSentOnce`: `OneSweepAtATime` (but for a lock that expired: `everOverdue`)
  together with `DigestLedger`: a user who was sent the digest is leased, marked or in the hands of
  the sweep that sent it.  What it does not exclude is a second digest after a
  watermark that was not written (`lost`): a crash or a failed statement between
  push and watermark.
- `AvatarObjectsAccounted`: `KeysApart` (uploads under way, outbox, workers and the
  avatar name different keys where they must) and `Accounted` for every object.
- `FeedsTypeCorrect`, `JobsTypeCorrect`.

### The social layer (`SocialProofs`, `SocialTalkProofs`, `PeopleProofs`)

- `HandlesCorrect`, `HandlesNeverReissued`, `FollowsSevered`, `GraphTypeCorrect`:
  what a request between its check and its write still knows is part of the type.
- `SessionsFamilyStaysClosed`, `SessionsRunDry`.  `SessionsInv` adds `Lineage` (a token's
  family and parent), `RowLocks` (who holds a row between its statements) and
  `OldSessionsNamed`/`RunsDry`: a live token of an earlier password is in `escaped` or in
  the hands of a change that is under way.
- `ErasedStaysSilent`, `CountsAlwaysMatch`, `AlertsStayTrue`, `WordsStayPublished`,
  `SocialTypesCorrect`: the invariants follow threads (`Threaded`: a reply is in its parent's
  episode and root), requests between check and insert (`Grounded`), and a fan-out with
  the audience it still has to tell (`FanInv`).
- `GroupsStayWhole`, `BansStay`.  `OneByOne` says what is true of a group while no two
  requests overlapped, `Erasers` what an erasure under way has read.  The proof
  attempt showed that one owner's row is not kept unconditionally: two erasures of
  one user without a profile are not serialised by a profile row, and each hands
  the group to the successor that it read.  `OneOwnerRow` therefore excepts them
  (`erasedTwice`).  `RosterAgrees` compares the reads with the members: the page of a
  roster lacks of its total exactly those whom a block hides from the viewer.
- `ErasureReachesLists`: until the list's row is inserted there is nothing to erase and
  nobody else on the list (`Creating`); whose creation, entry or membership was written
  after the erasure is in `late`.
- `PrivacyRespected`.  For the reads: of a follow across a block either the deletion is
  still to come (`cuts`) or nothing will delete it (`loose`).  For the lists: nobody is
  admitted across a block, so whoever is on a list across one was there, or being
  written, when it was made (`Sheltered`, `held`).
- `LimitsAlwaysHold`, `PeopleTypeCorrect`.  The reports of a day are counted under a
  lock that is part of `ReportInv`; `WindowInv` numbers
  the requests of a window; `BucketInv` compares each bucket with one that is never evicted.

### Assumptions

They say what the code or the database gives, and no more:

- bounds, stamps, clocks and tokens are natural numbers, and a token that the server
  draws is not zero, which stands for "never" (`SyncRecordsAssumption`,
  `SyncEngineAssumption`, `SyncMergeAssumption`, `UpNextAssumption`, `DevicesAssumption`,
  `FeedCrawlAssumption`, `AccountsAssumption`);
- the values that stand for "none" are not data: columns are nullable, an absent row is
  not a row (`NoDataAssumption`, `FeedsAssumption`, `SocialGraphAssumption`, `UserAssumption`,
  `PeopleAssumption`, `JobsAssumption`);
- queues, buckets, batches, caps and limits are positive, as constructors and
  configuration ensure (`FeedIngestionAssumption`, `JobsAssumption`, `GroupsAssumption`,
  `PeopleAssumption`, `TalkAssumption`);
- a bucket is evicted only after it has filled up: the eviction age is at least twice the time
  a minute's rate needs (`PeopleAssumption`), see `middlewares/ratelimit.go`;
- users, phones and requests under way are finitely many, where a proof counts them or
  takes the oldest of them (`JobsAssumption`, `GroupsAssumption`, `PeopleAssumption`,
  `TalkAssumption`, `UserAssumption`, `AccountsAssumption`).

### Only model-checked

- `WorkCompletes` and `CatchesUp`: liveness under fairness is outside the prover's reach.
- `QueueFollowsChanges`: what a batch does to the queue is a fold over the sorted
  changes, and a statement about every batch needs induction over sequences, which
  the provers cannot instantiate.
- The five statements that the code violates, which are [findings](#findings).

## Findings

Each is a run in which TLC finds the statement of a comment or a document
violated by what the code does.

| run | statement | what happens |
|---|---|---|
| `sync_milestones` | "First-ever detection backdates its crossings" (`syncsvc/engine.go:551`) | the code tests whether milestones are stored, so that a later detection is backdated too when earlier ones crossed nothing |
| `digest_retry` | "A transient push failure can retry after the 15-minute lease" (`docs/BackgroundJobsAndNotifications.md:84`) | the lease hides the user from the claim that ends the sweep, and the completion key closes the week |
| `refresh_polling` | "`202` while running, `200` when done" (`docs/ClientProtocolChanges.md:53`) | a job asked for after the cooldown and before the finished task's retention ends is reported as queued and never runs |
| `social_blocks` | "a block severs follows" (`db/queries.sql:1064`) | a follow checked before the block is inserted after the block's deletes |
| `groups_privacy` | "a private group cannot be made public" (`handlers/groups.go:137`) | a public update checked before a private one is written after it |

The first three need no overlap of requests; the others do, and the passing runs
state what holds nevertheless.  `groups_privacy` stands for a pattern of
`handlers/groups.go`: the checks of a request and its write are separate
statements without a lock.  In the same way two acceptances may pass the cap
check before either inserts, a leave checked before a ban deletes the ban, and an
erasure hands a group over, or spares it, by reads that have since changed, which
is why `OwnerPresides` has the condition `~overlap`.  Two overlapping erasures of a
user who has left the social layer already may even hand the group to two
successors, which is why `OneOwnerRow` has the condition `~erasedTwice`.

Blocks are kept by each query on its own, and not by all: "A block severs everything"
(`handlers/lists.go:655`) is more than the reads give.  `ReadsRespectPrivacy` states
what they do give, with these exceptions, which the model has as the code has them:

- the overview of one's lists keeps the header and the owner's handle of a list whose
  owner is across a block, for those who were on it when the block was made, while
  the list itself does not open (`handlers/lists.go:544-586`);
- the entries of a list name who added them, across blocks
  (`db/queries.sql:1395-1403`); no property is about this;
- the overview of groups names a group's owner across a block
  (`db/queries.sql:1655-1664`); no property is about this either;
- follow lists, the feed and the friends of discovery do not ask for blocks: a follow
  that outlives one, as in `social_blocks` or after a failed delete, names its user.

Modelled as the code has it, without a statement in the repository that
contradicts it; whoever maintains the code may want to know them:

- the listen gate of a comment looks at the first of the episode's uuids that
  has a playback row and not at the others (`handlers/comments.go:129`);
- the total of a group's roster counts members that a block hides from the
  viewer (`db/queries.sql:1686-1695`), and the number of reviews counts reviews
  without a profile; the page and the total of one request are two statements, and
  what is committed between them is not modelled;
- any error of `GetPodcastByUUID`, a transient one included, is taken for an unknown
  podcast, and the job is reported as completed without a crawl
  (`handlers/update_podcast.go:64,87`); `CompletedIsTrue` excepts these jobs
  (`missed`);
- a podcast may be stored with a folder that is unknown or deleted, and a folder is
  deleted whatever podcasts name it (`syncsvc/engine.go:189-190`, `316-332`);
- the starred list of a restore omits deselected chapters (`syncsvc/library.go`),
  so that a starred episode of a podcast one is not subscribed to has none until
  it changes;
- a phone on which a second account logs in keeps receiving the first account's
  alerts until its token is refused (`push_token` is not unique);
- `NotifyPersonAppearance` leaves dead tokens in place (`push/notifier.go`);
- a list may exceed its caps by the number of overlapping requests, and by one
  more for each count that could not be read (`handlers/lists.go:295`).

## Not modelled

Each component left out is in `PROJECT.json` with its reason.

- The transcript corpus (`transcripts/`, `db/corpus.go`): its votes, releases and
  artifact outbox are the largest stateful part without a model.  The outbox is
  the pattern of `AvatarStore`, the quotas that of `Quotas`.
- Reads and proxies without state of their own: cache host, artwork, discovery,
  statistics, recommendations; folder suggestions, one call to an outside service
  behind a cache.
- Single statements: feedback, administration, following a person, shareable
  podcast lists.
- Pure text and network code: feed parsing, the text filter, address validation,
  image handling, cryptography.  Certificates and signatures are taken at their
  word in `Attest`.
- Start-up: configuration, telemetry, migrations; the serialisation in generated
  code.

Within modelled components: a status write that Redis refuses (refresh jobs), paging (a page holds everything a query selects),
rankings, the wording of alerts, which alert types a profile switches off, digest
texts, upload validation, e-mail changes, access tokens and credential limits,
alias backfill and the OPML import.

## Plan

Written, in this order: the sync core and its abstract specification with their
proofs; queue and history; ingestion with its proofs; crawler, refresh and digest;
avatars; the social graph, groups and sessions; comments, posts, shares and lists;
the social reads by viewer; limits; the full-sync reads; attestation; push.

Next to model: the transcript corpus (contribution quotas, votes, releases under
advisory locks), the OPML import with its polling, the de-duplication of
scheduled tasks, and the paged reads statement by statement.

Next to prove: nothing that the runs check is left but liveness and
`QueueFollowsChanges`.  What is worth stating next is a refinement for the other
components, as `LibraryReplica` is for sync: an abstract session (one live token per
family) for `Sessions`, an abstract mailbox for the alerts, and, for `Library`,
that a restore followed by a sync is a snapshot of `LibraryReplica`.
