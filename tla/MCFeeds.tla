-------------------------------- MODULE MCFeeds --------------------------------
(***************************************************************************)
(* Feeds on small instances: the crawls of a podcast (FeedCrawl, whose     *)
(* definitions are those of this module too) and the job that forces one.  *)
(* A behaviour follows the one that part names while the other keeps its   *)
(* initial state; a refresh job only sees whether its crawl succeeded.     *)
(***************************************************************************)
EXTENDS FeedCrawl

CONSTANTS Request, Job, None

ASSUME FeedsAssumption == None \notin Job

VARIABLES part, known, cooldown, status, task, request, job, missed, unread, outcome

Forced == INSTANCE RefreshJob WITH pc <- request

refreshVars == <<known, cooldown, status, task, request, job, missed, unread, outcome>>
feedVars == <<part, vars, refreshVars>>

FeedsInit ==
  /\ part \in {"crawl", "refresh"}
  /\ Init /\ Forced!Init
  /\ part = "crawl" => ~known

CrawlStep == part = "crawl" /\ Next /\ UNCHANGED <<part, refreshVars>>
RefreshStep ==
  /\ part = "refresh" /\ Forced!Next
  /\ UNCHANGED <<part, feed, row, catalog, crawl, ghost>>

FeedsNext == CrawlStep \/ RefreshStep

(* The fairness of FeedCrawl, which has no steps in the other part. *)
FeedsFairness ==
  /\ \A c \in Crawler : WF_vars(part = "crawl" /\ Step(c))
  /\ WF_vars(part = "crawl" /\ FallsDue)
  /\ WF_vars(part = "crawl" /\ \E c \in Crawler : SweepDue(c))
  /\ WF_vars(part = "crawl" /\ \E c \in Crawler : row.status = "none" /\ EnsurePodcast(c))

FeedsSpec == FeedsInit /\ [][FeedsNext]_feedVars /\ FeedsFairness

----------------------------------------------------------------------------
(* Crawls and refresh jobs have their types. *)
TypesOK == TypeOK /\ Forced!TypeOK

(* A job reported as completed was crawled successfully, or its podcast could
   not be looked up. *)
CompletedIsTrue == Forced!CompletedIsTrue
=============================================================================
