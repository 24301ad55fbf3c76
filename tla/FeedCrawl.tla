------------------------------ MODULE FeedCrawl ------------------------------
(***************************************************************************)
(* The crawl of one feed by several processes at once (crawler.go): the    *)
(* due sweep, refresh tasks, forced refreshes, imports and searches all    *)
(* call Crawl on the podcast row they read earlier, and nothing locks that *)
(* row.                                                                    *)
(*                                                                         *)
(* The publisher adds episodes in the order of their dates; episode e has  *)
(* date e, and the first n episodes are version n of the feed.  The row's  *)
(* etag and latest are such versions: 0 stands for an empty etag and for a *)
(* NULL latest_episode_published.  due says next_refresh_at has passed.    *)
(***************************************************************************)
EXTENDS Naturals, FiniteSets

CONSTANTS
  Crawler,          \* processes that crawl
  MaxEpisodes,      \* bound: episodes published
  MaxFaults         \* bound: failing fetches, failing statements, crashes

ASSUME FeedCrawlAssumption == MaxEpisodes \in Nat /\ MaxFaults \in Nat

VARIABLES
  feed,             \* the publisher's version of the feed
  row,              \* the podcasts row: status, etag, latest, due
  catalog,          \* episode rows
  pc, snap, got,    \* each crawl: where it is, the row it read, the version fetched
  todo,             \* items not yet upserted
  announced,        \* history: episodes handed to OnNewEpisodes and queued
  lost,             \* history: episodes whose hand-over failed
  silent,           \* history: episodes of crawls that knew no latest episode
  faults

crawl == <<pc, snap, got, todo>>
ghost == <<announced, lost, silent>>
vars  == <<feed, row, catalog, crawl, ghost, faults>>

Version == 0 .. MaxEpisodes
Episode == 1 .. MaxEpisodes
Status  == {"none", "pending", "ok", "failed"}
Row     == [status : Status, etag : Version, latest : Version, due : BOOLEAN]

NoRow == [status |-> "none", etag |-> 0, latest |-> 0, due |-> FALSE]

(* The state has its type, and only a crawl that ingests has items left. *)
TypeOK ==
  /\ feed \in Version /\ row \in Row
  /\ catalog \subseteq Episode
  /\ pc \in [Crawler -> {"idle", "fetch", "unmodified", "failing", "ingest", "notify"}]
  /\ snap \in [Crawler -> Row] /\ got \in [Crawler -> Version]
  /\ todo \in [Crawler -> SUBSET Episode]
  /\ \A c \in Crawler : pc[c] # "ingest" => todo[c] = {}
  /\ announced \subseteq Episode /\ lost \subseteq Episode /\ silent \subseteq Episode
  /\ faults \in 0 .. MaxFaults

Init ==
  /\ feed = 0 /\ row = NoRow /\ catalog = {}
  /\ pc = [c \in Crawler |-> "idle"] /\ snap = [c \in Crawler |-> NoRow]
  /\ got = [c \in Crawler |-> 0] /\ todo = [c \in Crawler |-> {}]
  /\ announced = {} /\ lost = {} /\ silent = {} /\ faults = 0

Goto(c, where) == pc' = [pc EXCEPT ![c] = where]
Fault == faults < MaxFaults /\ faults' = faults + 1

(* A crawl starts with the row r it was given. *)
Begin(c, r) ==
  /\ pc[c] = "idle"
  /\ snap' = [snap EXCEPT ![c] = r]
  /\ Goto(c, "fetch")
  /\ UNCHANGED <<feed, catalog, got, todo, ghost, faults>>

----------------------------------------------------------------------------
(* Who crawls *)

(* EnsurePodcast: the row is created when it is missing; a healthy row is
   returned as it is and a failed one is left alone until it is due. *)
EnsurePodcast(c) ==
  LET r == IF row.status = "none" THEN [NoRow EXCEPT !.status = "pending", !.due = TRUE]
                                  ELSE row IN
  /\ r.status # "ok"
  /\ ~(r.status = "failed" /\ ~r.due)
  /\ row' = r
  /\ Begin(c, r)

(* HandleRefreshDuePodcastsTask *)
SweepDue(c) == row.due /\ Begin(c, row) /\ UNCHANGED row

(* HandlePodcastRefreshTask and forced refreshes: due or not. *)
Refresh(c) == row.status # "none" /\ Begin(c, row) /\ UNCHANGED row

----------------------------------------------------------------------------
(* Crawl *)

(* A conditional GET with the etag read earlier. *)
Fetch(c) ==
  /\ pc[c] = "fetch"
  /\ IF snap[c].etag # 0 /\ snap[c].etag = feed
     THEN Goto(c, "unmodified") /\ UNCHANGED <<got, todo>>
     ELSE /\ got' = [got EXCEPT ![c] = feed]
          /\ todo' = [todo EXCEPT ![c] = 1 .. feed]
          /\ Goto(c, "ingest")
  /\ UNCHANGED <<feed, row, catalog, snap, ghost, faults>>

(* The fetch, the body or the parser fails. *)
FetchFails(c) ==
  /\ pc[c] = "fetch" /\ Fault
  /\ Goto(c, "failing")
  /\ UNCHANGED <<feed, row, catalog, snap, got, todo, ghost>>

(* UpdatePodcastCrawlFailure *)
RecordFailure(c) ==
  /\ pc[c] = "failing"
  /\ row' = [row EXCEPT !.status = IF @ = "ok" THEN "ok" ELSE "failed", !.due = FALSE]
  /\ Goto(c, "idle")
  /\ UNCHANGED <<feed, catalog, snap, got, todo, ghost, faults>>

(* UpdatePodcastCrawlNotModified *)
NotModified(c) ==
  /\ pc[c] = "unmodified"
  /\ row' = [row EXCEPT !.due = FALSE]
  /\ Goto(c, "idle")
  /\ UNCHANGED <<feed, catalog, snap, got, todo, ghost, faults>>

(* UpsertEpisode, its alias and its persons *)
UpsertEpisode(c, e) ==
  /\ pc[c] = "ingest" /\ e \in todo[c]
  /\ catalog' = catalog \cup {e}
  /\ todo' = [todo EXCEPT ![c] = @ \ {e}]
  /\ UNCHANGED <<feed, row, pc, snap, got, ghost, faults>>

(* Published after the latest episode that the row read earlier knew of. *)
FreshNow(c) ==                \* mutant: compared with the row as it is now
  {e \in 1 .. got[c] : row.latest # 0 /\ e > row.latest}
Fresh(c) == {e \in 1 .. got[c] : snap[c].latest # 0 /\ e > snap[c].latest}

(* UpdatePodcastCrawlSuccess *)
WriteNewestEtag(c) ==         \* mutant: an older etag never replaces a newer one
  /\ pc[c] = "ingest" /\ todo[c] = {}
  /\ row' = [status |-> "ok", etag |-> IF row.etag > got[c] THEN row.etag ELSE got[c],
             latest |-> got[c], due |-> FALSE]
  /\ silent' = IF snap[c].latest = 0 THEN silent \cup 1 .. got[c] ELSE silent
  /\ Goto(c, "notify")
  /\ UNCHANGED <<feed, catalog, snap, got, todo, announced, lost, faults>>
CrawlSuccess(c) ==
  /\ pc[c] = "ingest" /\ todo[c] = {}
  /\ row' = [status |-> "ok", etag |-> got[c], latest |-> got[c], due |-> FALSE]
  /\ silent' = IF snap[c].latest = 0 THEN silent \cup 1 .. got[c] ELSE silent
  /\ Goto(c, "notify")
  /\ UNCHANGED <<feed, catalog, snap, got, todo, announced, lost, faults>>

(* OnNewEpisodes: one task with all fresh episodes. *)
OnNewEpisodes(c) ==
  /\ pc[c] = "notify"
  /\ announced' = announced \cup Fresh(c)
  /\ Goto(c, "idle")
  /\ UNCHANGED <<feed, row, catalog, snap, got, todo, lost, silent, faults>>

(* The queue refuses the task: the crawl is over all the same. *)
EnqueueFails(c) ==
  /\ pc[c] = "notify" /\ Fault
  /\ lost' = lost \cup Fresh(c)
  /\ Goto(c, "idle")
  /\ UNCHANGED <<feed, row, catalog, snap, got, todo, announced, silent>>

(* A failing statement ends the crawl with nothing recorded on the row. *)
SkipsItem(c) ==               \* mutant: a failing item is skipped
  /\ pc[c] = "ingest" /\ todo[c] # {} /\ Fault
  /\ \E e \in todo[c] : todo' = [todo EXCEPT ![c] = @ \ {e}]
  /\ UNCHANGED <<feed, row, catalog, pc, snap, got, ghost>>
FailsMidway(c) ==             \* mutant: the failed crawl keeps its position
  /\ pc[c] \in {"unmodified", "failing", "ingest"} /\ Fault
  /\ Goto(c, "idle")
  /\ UNCHANGED <<feed, row, catalog, snap, got, todo, ghost>>
StatementFails(c) ==
  /\ pc[c] \in {"unmodified", "failing", "ingest"} /\ Fault
  /\ todo' = [todo EXCEPT ![c] = {}]
  /\ Goto(c, "idle")
  /\ UNCHANGED <<feed, row, catalog, snap, got, ghost>>

(* The process dies or the task's deadline passes. *)
Crash(c) ==
  /\ pc[c] # "idle" /\ Fault
  /\ lost' = IF pc[c] = "notify" THEN lost \cup Fresh(c) ELSE lost
  /\ todo' = [todo EXCEPT ![c] = {}]
  /\ Goto(c, "idle")
  /\ UNCHANGED <<feed, row, catalog, snap, got, announced, silent>>

----------------------------------------------------------------------------
(* The environment *)
Publish ==
  /\ feed < MaxEpisodes
  /\ feed' = feed + 1
  /\ UNCHANGED <<row, catalog, crawl, ghost, faults>>

(* next_refresh_at passes. *)
FallsDue ==
  /\ row.status # "none" /\ ~row.due
  /\ row' = [row EXCEPT !.due = TRUE]
  /\ UNCHANGED <<feed, catalog, crawl, ghost, faults>>

Next ==
  \/ \E c \in Crawler :
       \/ EnsurePodcast(c) \/ SweepDue(c) \/ Refresh(c)
       \/ Fetch(c) \/ FetchFails(c) \/ RecordFailure(c) \/ NotModified(c)
       \/ \E e \in Episode : UpsertEpisode(c, e)
       \/ CrawlSuccess(c) \/ OnNewEpisodes(c) \/ EnqueueFails(c)
       \/ StatementFails(c) \/ Crash(c)
  \/ Publish \/ FallsDue

Step(c) ==
  \/ Fetch(c) \/ RecordFailure(c) \/ NotModified(c)
  \/ \E e \in Episode : UpsertEpisode(c, e)
  \/ CrawlSuccess(c) \/ OnNewEpisodes(c)

(* A crawl runs to its end, a row falls due again, the sweep crawls what is
   due, and somebody asks for the feed in the first place. *)
Fairness ==
  /\ \A c \in Crawler : WF_vars(Step(c))
  /\ WF_vars(FallsDue)
  /\ WF_vars(\E c \in Crawler : SweepDue(c))
  /\ WF_vars(\E c \in Crawler : row.status = "none" /\ EnsurePodcast(c))

Spec == Init /\ [][Next]_vars /\ Fairness

----------------------------------------------------------------------------
(* Properties. *)

(* A 304 may be trusted: the etag that asks for it was stored with the
   latest episode of the same version, and every episode of that version is
   in the catalog, whichever crawls failed or overtook one another. *)
EtagNamesCatalog == row.latest = row.etag /\ 1 .. row.etag \subseteq catalog

(* OnNewEpisodes: "called after a successful crawl that found episodes
   published after the podcast's previous latest".  No episode the row knows
   of goes unannounced, unless a crawl that knew no latest episode brought
   it or its hand-over failed: crawls that overtake one another announce an
   episode more than once rather than never. *)
NewsDelivered ==
  \A e \in 1 .. row.latest :
    \/ e \in announced \cup lost \cup silent
    \/ \E c \in Crawler : pc[c] = "notify" /\ e \in Fresh(c)

(* A crawl with an older body may overwrite a newer one's row; the etag goes
   back with it, so the next due crawl repairs it: once the publisher stops,
   the row and the catalog end up with the whole feed. *)
CatchesUp == <>[](row.latest = feed /\ catalog = 1 .. feed)
=============================================================================
