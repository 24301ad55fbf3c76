----------------------------- MODULE RefreshJob -----------------------------
(***************************************************************************)
(* The polling contract of a forced refresh of one podcast:                *)
(* GetUpdatePodcast and GetUpdatePodcastJob (update_podcast.go),           *)
(* EnqueuePodcastRefreshJob (tasks.go) and HandlePodcastRefreshTask        *)
(* (server.go).                                                            *)
(*                                                                         *)
(* A job is named by the podcast and the last episode the client knows, so *)
(* the same job comes back while the podcast has nothing new.  Redis holds *)
(* a cooldown key with the job that claimed it and one status per job,     *)
(* both with an expiry; the queue refuses a task whose ID it still holds,  *)
(* the finished tasks it retains included.                                 *)
(***************************************************************************)
EXTENDS Naturals

CONSTANTS
  Request,          \* concurrent GetUpdatePodcast requests
  Job,              \* jobs of the podcast, one per last known episode
  None,             \* no key, no job
  MaxFaults         \* bound: failing enqueues and lookups, dying workers

VARIABLES
  known,            \* the podcast is in the catalog
  cooldown,         \* refresh-cooldown: the job that claimed it
  status,           \* refresh-job: by job
  task,             \* the queue's task of each job
  pc, job,          \* each request: where it is and its job
  missed,           \* requests whose lookup of the podcast failed
  unread,           \* history: jobs completed because of such a lookup
  outcome,          \* history: how the last crawl of each job ended
  faults

statuses == <<status, unread>>
redis == <<cooldown, statuses>>
vars  == <<known, redis, task, pc, job, missed, outcome, faults>>

Live == {"waiting", "active"}

(* The state has its type; only a request that waits for an answer has a
   job. *)
TypeOK ==
  /\ known \in BOOLEAN
  /\ cooldown \in Job \cup {None}
  /\ status \in [Job -> {"absent", "queued", "running", "completed", "failed"}]
  /\ task \in [Job -> Live \cup {"none", "retained"}]
  /\ pc \in [Request -> {"idle", "claim", "adopt", "queue", "enqueue"}]
  /\ job \in [Request -> Job \cup {None}]
  /\ \A r \in Request : pc[r] = "idle" <=> job[r] = None
  /\ missed \subseteq {r \in Request : pc[r] # "idle"} /\ unread \subseteq Job
  /\ outcome \in [Job -> {"never", "ok", "failed"}]
  /\ faults \in 0 .. MaxFaults

Init ==
  /\ known \in BOOLEAN
  /\ cooldown = None /\ status = [j \in Job |-> "absent"]
  /\ task = [j \in Job |-> "none"]
  /\ pc = [r \in Request |-> "idle"] /\ job = [r \in Request |-> None]
  /\ missed = {} /\ unread = {}
  /\ outcome = [j \in Job |-> "never"] /\ faults = 0

Goto(r, where) == pc' = [pc EXCEPT ![r] = where]
Answer(r) == Goto(r, "idle") /\ job' = [job EXCEPT ![r] = None] /\ missed' = missed \ {r}
SetStatus(j, s) == status' = [status EXCEPT ![j] = s] /\ unread' = unread \ {j}
Fault == faults < MaxFaults /\ faults' = faults + 1

----------------------------------------------------------------------------
(* GetUpdatePodcast; a request that is answered at once changes nothing.  The
   lookup finds no podcast that is unknown, and it may fail for another. *)
Ask(r, j) ==
  /\ pc[r] = "idle"
  /\ \/ known /\ UNCHANGED <<missed, faults>>
     \/ missed' = missed \cup {r} /\ IF known THEN Fault ELSE UNCHANGED faults
  /\ job' = [job EXCEPT ![r] = j] /\ Goto(r, "claim")
  /\ UNCHANGED <<known, redis, task, outcome>>

Claim(r) ==
  /\ pc[r] = "claim"
  /\ IF cooldown = None THEN cooldown' = job[r] /\ Goto(r, "queue")
                        ELSE UNCHANGED cooldown /\ Goto(r, "adopt")
  /\ UNCHANGED <<known, statuses, task, job, missed, outcome, faults>>

(* Not claimed: the answer names the job that holds the cooldown, or the
   request's own if the cooldown has expired by now. *)
Adopt(r) ==
  /\ pc[r] = "adopt"
  /\ Answer(r)
  /\ UNCHANGED <<known, redis, task, outcome, faults>>

MarkQueued(r) ==
  /\ pc[r] = "queue"
  /\ SetStatus(job[r], "queued")
  /\ Goto(r, "enqueue")
  /\ UNCHANGED <<known, cooldown, task, job, missed, outcome, faults>>

(* A job is completed at once if the lookup failed, for whatever reason;
   otherwise the task is queued, and an ID the queue still holds counts as
   queued. *)
CompleteUnread(j) == status' = [status EXCEPT ![j] = "completed"] /\ unread' = unread \cup {j}
Enqueue(r) ==
  /\ pc[r] = "enqueue"
  /\ IF r \in missed
     THEN CompleteUnread(job[r]) /\ UNCHANGED task
     ELSE /\ task' = [task EXCEPT ![job[r]] = IF @ = "none" THEN "waiting" ELSE @]
          /\ UNCHANGED statuses
  /\ Answer(r)
  /\ UNCHANGED <<known, cooldown, outcome, faults>>

EnqueueFails(r) ==
  /\ pc[r] = "enqueue" /\ r \notin missed /\ Fault
  /\ cooldown' = None /\ SetStatus(job[r], "absent")
  /\ Answer(r)
  /\ UNCHANGED <<known, task, outcome>>

----------------------------------------------------------------------------
(* HandlePodcastRefreshTask *)
StartTask(j) ==
  /\ task[j] = "waiting"
  /\ task' = [task EXCEPT ![j] = "active"]
  /\ SetStatus(j, "running")
  /\ UNCHANGED <<known, cooldown, pc, job, missed, outcome, faults>>

FinishTask(j, s, how) ==
  /\ task[j] = "active"
  /\ task' = [task EXCEPT ![j] = "retained"]
  /\ SetStatus(j, s)
  /\ outcome' = [outcome EXCEPT ![j] = how]
  /\ UNCHANGED <<known, cooldown, pc, job, missed>>

CrawlSucceeds(j) == FinishTask(j, "completed", "ok") /\ UNCHANGED faults

(* A failing or timed-out crawl, or a row that is gone. *)
CompletesAnyway(j) ==         \* mutant: "completed" from a defer
  FinishTask(j, "completed", "failed") /\ Fault
CrawlFails(j) == FinishTask(j, "failed", "failed") /\ Fault

(* The lookup fails or the worker dies: "running" stays and the queue
   retries. *)
Retry(j) ==
  /\ task[j] = "active" /\ Fault
  /\ task' = [task EXCEPT ![j] = "waiting"]
  /\ UNCHANGED <<known, redis, pc, job, missed, outcome>>

----------------------------------------------------------------------------
(* Expiries: the cooldown, a status, and the retention of a finished task. *)
CooldownExpires ==
  /\ cooldown # None /\ cooldown' = None
  /\ UNCHANGED <<known, statuses, task, pc, job, missed, outcome, faults>>
StatusExpires(j) ==
  /\ status[j] # "absent" /\ SetStatus(j, "absent")
  /\ UNCHANGED <<known, cooldown, task, pc, job, missed, outcome, faults>>
RetentionEnds(j) ==
  /\ task[j] = "retained" /\ task' = [task EXCEPT ![j] = "none"]
  /\ UNCHANGED <<known, redis, pc, job, missed, outcome, faults>>

Next ==
  \/ \E r \in Request :
       \/ \E j \in Job : Ask(r, j)
       \/ Claim(r) \/ Adopt(r) \/ MarkQueued(r) \/ Enqueue(r) \/ EnqueueFails(r)
  \/ \E j \in Job :
       \/ StartTask(j) \/ CrawlSucceeds(j) \/ CrawlFails(j) \/ Retry(j)
       \/ StatusExpires(j) \/ RetentionEnds(j)
  \/ CooldownExpires

Spec == Init /\ [][Next]_vars

----------------------------------------------------------------------------
(* Properties. *)

(* "Terminal statuses are set explicitly on each outcome: reporting
   completed from a defer would tell the polling client a failed or
   timed-out refresh succeeded": a status says completed only if the last
   crawl of that job succeeded, through retries, claims of the same job and
   expiries; or if the request that set it could not look the podcast up,
   which GetUpdatePodcast calls completed for an unknown podcast and for an
   error of the database alike. *)
CompletedIsTrue ==
  \A j \in Job : status[j] = "completed" => outcome[j] = "ok" \/ j \in unread

(* GetUpdatePodcastJob: "202 while running, 200 when done": a client is told
   to poll on only while the job's task waits or runs, or is about to be
   queued. *)
PollingIsHonest ==
  \A j \in Job : status[j] \in {"queued", "running"} =>
    \/ task[j] \in Live
    \/ \E r \in Request : pc[r] \in {"queue", "enqueue"} /\ job[r] = j
=============================================================================
