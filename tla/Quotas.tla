------------------------------- MODULE Quotas -------------------------------
(***************************************************************************)
(* The limits on how often a client may do something: the daily quota of   *)
(* moderation reports (social.go), counted in the database under an        *)
(* advisory lock; the fixed window of redisLimit (distributed_limit.go),   *)
(* counted in Redis by all replicas; the token bucket of RateLimiter       *)
(* (ratelimit.go), in the memory of one process.                           *)
(***************************************************************************)
EXTENDS Naturals, FiniteSets, FiniteSetsExt

CONSTANTS
  Client,           \* reporters, rate-limit keys and addresses
  Request,          \* reports that may be under way at the same time
  ReportsPerDay, Day,
  Limit, Window,
  PerMinute, EvictAfter, SweepThreshold,
  MaxClock, MaxTries        \* bounds: the clock, requests

VARIABLES
  now, tries,
  reports,          \* moderation_reports: rows [id, by, created]
  lock,             \* the holders of LockRateLimitBucket
  report,           \* the transactions under way
  counter,          \* rate:<key> in Redis: [count, expires], Expired without the key
  allowed,          \* history: the requests let through, [key, at, nth of its window]
  clients,          \* RateLimiter.clients: [tokens, at, lastSeen], Unknown without one
  ideal             \* history: the bucket of each client had it never been evicted

quotaVars  == <<reports, lock, report>>
windowVars == <<counter, allowed>>
bucketVars == <<clients, ideal>>
vars == <<now, tries, quotaVars, windowVars, bucketVars>>

Expired == [count |-> 0, expires |-> 0]
Unknown == [tokens |-> 0, at |-> 0, lastSeen |-> 0]
Idle    == [op |-> "idle"]
Burst   == 2 * PerMinute
Full(t) == [tokens |-> Burst, at |-> t, lastSeen |-> t]

Try == tries < MaxTries /\ tries' = tries + 1 /\ UNCHANGED now

Init ==
  /\ now = 1 /\ tries = 0
  /\ reports = {} /\ lock = {} /\ report = [r \in Request |-> Idle]
  /\ counter = [c \in Client |-> Expired] /\ allowed = {}
  /\ clients = [c \in Client |-> Unknown] /\ ideal = [c \in Client |-> Full(1)]

----------------------------------------------------------------------------
(* PostSocialReport and withModerationReportQuota.  now() of the inserted row
   is the time at which the transaction began. *)
BeginReport(r, c) ==
  /\ report[r] = Idle /\ Try
  /\ report' = [report EXCEPT ![r] = [op |-> "lock", by |-> c, created |-> now]]
  /\ UNCHANGED <<reports, lock, windowVars, bucketVars>>

LockRateLimitBucket(r) ==
  /\ report[r].op = "lock"
  /\ ~\E q \in lock : report[q].by = report[r].by
  /\ lock' = lock \cup {r}
  /\ report' = [report EXCEPT ![r].op = "count"]
  /\ UNCHANGED <<now, tries, reports, windowVars, bucketVars>>

CountRecentModerationReportsByReporter(c, since) ==
  Cardinality({y \in reports : y.by = c /\ y.created + Day > since})
withModerationReportQuota(r) ==
  /\ report[r].op = "count"
  /\ IF CountRecentModerationReportsByReporter(report[r].by, now) >= ReportsPerDay
     THEN report' = [report EXCEPT ![r] = Idle] /\ lock' = lock \ {r}
     ELSE report' = [report EXCEPT ![r].op = "insert"] /\ UNCHANGED lock
  /\ UNCHANGED <<now, tries, reports, windowVars, bucketVars>>

(* The insert, committed, or rolled back. *)
InsertModerationReport(r) ==
  /\ report[r].op = "insert"
  /\ \/ reports' = reports \cup {[id |-> Cardinality(reports) + 1, by |-> report[r].by,
                                 created |-> report[r].created]}
     \/ UNCHANGED reports
  /\ report' = [report EXCEPT ![r] = Idle] /\ lock' = lock \ {r}
  /\ UNCHANGED <<now, tries, windowVars, bucketVars>>

----------------------------------------------------------------------------
(* redisLimit: the script counts, and starts the window with the first. *)
Count(c) == IF counter[c].expires > now THEN counter[c] ELSE Expired
Slides(c) ==                  \* mutant: every request starts the window again
  [count |-> Count(c).count + 1, expires |-> now + Window]
distributedFixedWindowScript(c) ==
  [count |-> Count(c).count + 1,
   expires |-> IF Count(c) = Expired THEN now + Window ELSE Count(c).expires]
redisLimit(c) ==
  /\ Try
  /\ counter' = [counter EXCEPT ![c] = distributedFixedWindowScript(c)]
  /\ allowed' = IF counter'[c].count > Limit THEN allowed
                ELSE allowed \cup {[key |-> c, at |-> now, nth |-> counter'[c].count]}
  /\ UNCHANGED <<quotaVars, bucketVars>>

----------------------------------------------------------------------------
(* allow: a new client may find the map full, which evicts the idle. *)
Refill(b, t) == [b EXCEPT !.tokens = Min({Burst, b.tokens + (t - b.at) * PerMinute}), !.at = t]
TakeToken(b, t) ==
  LET n == Refill(b, t).tokens
  IN [tokens |-> IF n >= 1 THEN n - 1 ELSE n, at |-> t, lastSeen |-> t]
Swept ==
  [c \in Client |-> IF now - clients[c].lastSeen > EvictAfter THEN Unknown ELSE clients[c]]
allow(c) ==
  /\ Try
  /\ LET known == {k \in Client : clients[k] # Unknown}
         after == IF c \notin known /\ Cardinality(known) >= SweepThreshold THEN Swept ELSE clients
         mine  == IF c \in known THEN clients[c] ELSE Full(now)
     IN /\ clients' = [after EXCEPT ![c] = TakeToken(mine, now)]
        /\ ideal' = [ideal EXCEPT ![c] = TakeToken(@, now)]
  /\ UNCHANGED <<quotaVars, windowVars>>

Tick ==
  /\ now < MaxClock /\ now' = now + 1
  /\ UNCHANGED <<tries, quotaVars, windowVars, bucketVars>>

ReportNext ==
  \E r \in Request :
    \/ (\E c \in Client : BeginReport(r, c)) \/ LockRateLimitBucket(r)
    \/ withModerationReportQuota(r) \/ InsertModerationReport(r)
LimitNext == \E c \in Client : redisLimit(c)
AllowNext == \E c \in Client : allow(c)

Next == ReportNext \/ LimitNext \/ AllowNext \/ Tick
Spec == Init /\ [][Next]_vars

----------------------------------------------------------------------------
(* The state has its type. *)
TypeOK ==
  /\ lock \subseteq {r \in Request : report[r].op \in {"count", "insert"}}
  /\ \A c \in Client : clients[c].tokens \in 0 .. Burst /\ clients[c].at <= now
  /\ \A x \in reports : x.by \in Client /\ x.created \in 1 .. MaxClock

(* At no time are there more reports of one user from the last day than the
   quota, however many requests count at once. *)
ReportQuota ==
  \A c \in Client : CountRecentModerationReportsByReporter(c, now) <= ReportsPerDay

(* A key gets through at most Limit times between two expiries, hence at most
   twice that often in any interval of the window's length. *)
Within(c, from) ==
  Cardinality({x \in allowed : x.key = c /\ x.at \in from .. from + Window - 1})
WindowLimit == \A c \in Client, from \in 1 .. MaxClock : Within(c, from) <= 2 * Limit

(* A key that is over its limit is let through again one window after a request
   that was, however often it asks in between. *)
WindowReopens ==
  \A c \in Client : counter[c].count > Limit =>
    \E x \in allowed : x.key = c /\ counter[c].expires = x.at + Window

(* Evicting a client forgives it nothing: an address that is not in the map
   would have a full bucket by now, one that is has the bucket it deserves. *)
EvictionExact ==
  \A c \in Client :
    LET b == IF clients[c] = Unknown THEN Full(now) ELSE Refill(clients[c], now)
    IN b.tokens = Refill(ideal[c], now).tokens
=============================================================================
