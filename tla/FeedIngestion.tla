---------------------------- MODULE FeedIngestion ----------------------------
(***************************************************************************)
(* The sync-driven ingestion dispatcher (ingestion.go), the receiver of    *)
(* the OnUnknownPodcast hook of SyncEngine.                                *)
(*                                                                         *)
(* Submit runs in the goroutine of a sync request.  Under the mutex it     *)
(* looks the feed up in inFlight, charges the user's token bucket and      *)
(* marks the feed (Refuse, Accept).  After the unlock the feed is in       *)
(* pending, until the select sends it to the buffered channel or gives up  *)
(* (Enqueue, DropFull, DropStopped).  Workers take jobs, ingest them under *)
(* a timeout and unmark them (Take, Finish).  Cancel ends the context.     *)
(*                                                                         *)
(* Time.  A Tick is the time in which a bucket gains one token, so an hour *)
(* is Burst ticks.  idle[u] is the age of lastSeen, counted up to the      *)
(* eviction age.                                                           *)
(***************************************************************************)
EXTENDS Naturals, Sequences, FiniteSets

CONSTANTS
  User, Feed, Worker,
  NoFeed,           \* what an idle worker ingests
  QueueSize,        \* capacity of the channel
  Burst,            \* unknownFeedsPerUserPerHour
  MaxUsers          \* buckets kept before idle ones are evicted

ASSUME FeedIngestionAssumption ==
  /\ NoFeed \notin Feed
  /\ QueueSize \in Nat \ {0}          \* the constructor raises it to the workers
  /\ Burst \in Nat \ {0}
  /\ MaxUsers \in Nat

VARIABLES
  inFlight,         \* feeds marked under the mutex
  pending,          \* feeds marked, whose Submit has not reached the select
  jobs,             \* the channel
  doing,            \* doing[w]: the feed worker w ingests
  known,            \* users with a bucket
  budget, idle,     \* tokens and age of lastSeen of each known user
  allowance,        \* history: what a bucket that is never evicted would hold
  cancelled, stopped   \* the context, and the workers that returned

vars == <<inFlight, pending, jobs, doing, known, budget, idle, allowance, cancelled, stopped>>
buckets == <<known, budget, idle, allowance>>

EvictionAge == 2 * Burst      \* two hours
Least(m, n) == IF m < n THEN m ELSE n

(* The state has its type. *)
TypeOK ==
  /\ inFlight \subseteq Feed /\ pending \subseteq Feed
  /\ jobs \in Seq(Feed) /\ Len(jobs) <= QueueSize
  /\ doing \in [Worker -> Feed \cup {NoFeed}]
  /\ known \subseteq User
  /\ budget \in [User -> 0 .. Burst] /\ allowance \in [User -> 0 .. Burst]
  /\ idle \in [User -> 0 .. EvictionAge + 1]
  /\ cancelled \in BOOLEAN
  /\ stopped \subseteq Worker

Init ==
  /\ inFlight = {} /\ pending = {} /\ jobs = <<>>
  /\ doing = [w \in Worker |-> NoFeed]
  /\ known = {}
  /\ budget = [u \in User |-> Burst] /\ allowance = [u \in User |-> Burst]
  /\ idle = [u \in User |-> 0]
  /\ cancelled = FALSE /\ stopped = {}

----------------------------------------------------------------------------
(* Submit. *)

Unmarked(f) == f \notin inFlight

(* A bucket is created full. *)
Tokens(u) == IF u \in known THEN budget[u] ELSE Burst

(* The buckets kept when u is charged: above MaxUsers the ones whose
   lastSeen is older than two hours are dropped. *)
KeptEarly(u) ==               \* mutant: evicted before the bucket can refill
  IF Cardinality(known \cup {u}) > MaxUsers
  THEN {v \in known \cup {u} : v = u \/ idle[v] = 0} ELSE known \cup {u}
Kept(u) ==
  IF Cardinality(known \cup {u}) > MaxUsers
  THEN {v \in known \cup {u} : v = u \/ idle[v] <= EvictionAge} ELSE known \cup {u}

Refuse(u, f) ==
  /\ Unmarked(f) /\ Tokens(u) = 0
  /\ idle' = [idle EXCEPT ![u] = 0]
  /\ UNCHANGED <<inFlight, pending, jobs, doing, known, budget, allowance, cancelled, stopped>>

AcceptMarked(u, f) ==         \* mutant: the feed is looked up outside the mutex
  /\ Tokens(u) > 0 /\ f \notin pending
  /\ budget' = [budget EXCEPT ![u] = Tokens(u) - 1]
  /\ allowance' = [allowance EXCEPT ![u] = IF @ = 0 THEN 0 ELSE @ - 1]
  /\ idle' = [idle EXCEPT ![u] = 0]
  /\ known' = Kept(u)
  /\ inFlight' = inFlight \cup {f} /\ pending' = pending \cup {f}
  /\ UNCHANGED <<jobs, doing, cancelled, stopped>>
Accept(u, f) ==
  /\ Unmarked(f) /\ Tokens(u) > 0
  /\ budget' = [budget EXCEPT ![u] = Tokens(u) - 1]
  /\ allowance' = [allowance EXCEPT ![u] = IF @ = 0 THEN 0 ELSE @ - 1]
  /\ idle' = [idle EXCEPT ![u] = 0]
  /\ known' = Kept(u)
  /\ inFlight' = inFlight \cup {f} /\ pending' = pending \cup {f}
  /\ UNCHANGED <<jobs, doing, cancelled, stopped>>

Enqueue(f) ==
  /\ f \in pending /\ Len(jobs) < QueueSize
  /\ jobs' = Append(jobs, f)
  /\ pending' = pending \ {f}
  /\ UNCHANGED <<inFlight, doing, buckets, cancelled, stopped>>

(* finish: the feed is unmarked. *)
Unsent(f) ==
  /\ f \in pending
  /\ pending' = pending \ {f} /\ inFlight' = inFlight \ {f}
  /\ UNCHANGED <<jobs, doing, buckets, cancelled, stopped>>

(* The default case is taken only when no other case is ready. *)
DropFull(f) == Len(jobs) = QueueSize /\ ~cancelled /\ Unsent(f)
DropStopped(f) == cancelled /\ Unsent(f)

----------------------------------------------------------------------------
(* worker.  Ingestion ends by itself or by the two-minute timeout, and the
   feed is unmarked whatever the outcome. *)
Take(w) ==
  /\ w \notin stopped /\ doing[w] = NoFeed /\ jobs # <<>>
  /\ doing' = [doing EXCEPT ![w] = Head(jobs)]
  /\ jobs' = Tail(jobs)
  /\ UNCHANGED <<inFlight, pending, buckets, cancelled, stopped>>

Finish(w) ==
  /\ doing[w] # NoFeed
  /\ inFlight' = inFlight \ {doing[w]}
  /\ doing' = [doing EXCEPT ![w] = NoFeed]
  /\ UNCHANGED <<pending, jobs, buckets, cancelled, stopped>>

Stop(w) ==
  /\ cancelled /\ w \notin stopped /\ doing[w] = NoFeed
  /\ stopped' = stopped \cup {w}
  /\ UNCHANGED <<inFlight, pending, jobs, doing, buckets, cancelled>>

Cancel ==
  /\ ~cancelled /\ cancelled' = TRUE
  /\ UNCHANGED <<inFlight, pending, jobs, doing, buckets, stopped>>

Tick ==
  /\ budget' = [u \in User |-> Least(budget[u] + 1, Burst)]
  /\ allowance' = [u \in User |-> Least(allowance[u] + 1, Burst)]
  /\ idle' = [u \in User |-> Least(idle[u] + 1, EvictionAge + 1)]
  /\ UNCHANGED <<inFlight, pending, jobs, doing, known, cancelled, stopped>>

Next ==
  \/ \E u \in User, f \in Feed : Refuse(u, f) \/ Accept(u, f)
  \/ \E f \in Feed : Enqueue(f) \/ DropFull(f) \/ DropStopped(f)
  \/ \E w \in Worker : Take(w) \/ Finish(w) \/ Stop(w)
  \/ Cancel
  \/ Tick

(* A goroutine past the unlock runs on, a worker with a job and one that
   waits for a job too; nobody is obliged to submit or to cancel. *)
Fairness ==
  /\ \A f \in Feed : WF_vars(Enqueue(f) \/ DropFull(f) \/ DropStopped(f))
  /\ \A w \in Worker : WF_vars(Take(w)) /\ WF_vars(Finish(w))

Spec == Init /\ [][Next]_vars /\ Fairness

----------------------------------------------------------------------------
(* Properties. *)

Elements(s) == {s[i] : i \in DOMAIN s}
Queued == Elements(jobs)
Ingesting == Elements(doing) \ {NoFeed}

(* The in-flight set is exact: a feed is marked if and only if a Submit, the
   channel or a worker holds it.  A feed marked by nobody could never be
   submitted again before a restart. *)
InFlightExact == inFlight = pending \cup Queued \cup Ingesting

(* "Global in-flight de-duplication": a feed is in one place only, so no two
   workers crawl it at once and it does not take two slots of the queue. *)
OneIngestionPerFeed ==
  /\ pending \cap Queued = {} /\ pending \cap Ingesting = {} /\ Queued \cap Ingesting = {}
  /\ \A i, j \in DOMAIN jobs : jobs[i] = jobs[j] => i = j
  /\ \A v, w \in Worker : doing[v] = doing[w] /\ doing[v] # NoFeed => v = w

(* Evicting buckets gives nobody tokens: each user has what a bucket that is
   kept forever would hold, because two idle hours refill any bucket. *)
LimiterExact == \A u \in User : Tokens(u) = allowance[u]

(* The strengthening for LimiterExact: an idle bucket has refilled, and an
   evicted one was full. *)
Refilled ==
  \A u \in User : /\ u \in known => allowance[u] >= Least(idle[u], Burst)
                  /\ u \notin known => allowance[u] = Burst

(* Every marked feed is released again while the process runs: neither a
   full queue nor a failing ingestion keeps it in flight. *)
Released == \A f \in Feed : f \in inFlight ~> (f \notin inFlight \/ cancelled)
=============================================================================
