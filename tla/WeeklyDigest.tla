----------------------------- MODULE WeeklyDigest -----------------------------
(***************************************************************************)
(* The weekly digest of one ISO week: runDigestSchedulerOnce and           *)
(* digestSweep of main.go, run by every replica at every tick of the       *)
(* Sunday window, with the lease and the watermark of ClaimDigestCandidates *)
(* and SetDigestSent.                                                      *)
(*                                                                         *)
(* Redis holds the completion key and a lock with an expiry; PostgreSQL    *)
(* holds digest_claimed_at (leased: claimed less than 15 minutes ago) and  *)
(* digest_sent_at (sent: within six days).  Expiries are steps of their    *)
(* own: a sweep may be slower than its lease and than its lock.  User is   *)
(* the set of accounts that qualify this week.  Users of a batch are taken *)
(* in any order.                                                           *)
(***************************************************************************)
EXTENDS Naturals, FiniteSets

CONSTANTS
  Replica, User,
  NoOne,            \* no lock holder, no user in hand
  Batch,            \* LIMIT of ClaimDigestCandidates
  MaxFaults         \* bound: crashes and failing statements

VARIABLES
  open,             \* the Sunday window
  doneKey, lock,    \* Redis
  leased, sent,     \* PostgreSQL
  pc, batch, cur,   \* the run of each replica: where it is, users left, user in hand
  overdue,          \* history: running replicas whose lock expired under them
  everOverdue,      \* history: there was such a replica
  failed,           \* history: users whose last delivery failed
  delivered,        \* history: pushes that reached a device, by user
  lost,             \* history: pushes the watermark does not know of, by user
  faults

redis == <<doneKey, lock>>
rows  == <<leased, sent>>
run   == <<pc, batch, cur>>
ghost == <<overdue, everOverdue, failed, delivered, lost>>
vars  == <<open, redis, rows, run, ghost, faults>>

Sweeping == {"claim", "send", "mark", "finish"}

(* The state has its type, and no run holds more users than one query
   claims. *)
TypeOK ==
  /\ open \in BOOLEAN /\ doneKey \in BOOLEAN /\ everOverdue \in BOOLEAN
  /\ lock \in Replica \cup {NoOne}
  /\ leased \subseteq User /\ sent \subseteq User /\ failed \subseteq User
  /\ pc \in [Replica -> Sweeping \cup {"idle", "checked", "release"}]
  /\ batch \in [Replica -> SUBSET User]
  /\ \A r \in Replica : Cardinality(batch[r]) <= Batch
  /\ cur \in [Replica -> User \cup {NoOne}]
  /\ overdue \subseteq Replica
  /\ delivered \in [User -> Nat] /\ lost \in [User -> Nat]
  /\ faults \in 0 .. MaxFaults

Init ==
  /\ open = TRUE /\ doneKey = FALSE /\ lock = NoOne
  /\ leased = {} /\ sent = {} /\ failed = {}
  /\ pc = [r \in Replica |-> "idle"] /\ batch = [r \in Replica |-> {}]
  /\ cur = [r \in Replica |-> NoOne]
  /\ overdue = {} /\ everOverdue = FALSE
  /\ delivered = [u \in User |-> 0] /\ lost = [u \in User |-> 0]
  /\ faults = 0

Goto(r, where) == pc' = [pc EXCEPT ![r] = where]
Fault == faults < MaxFaults /\ faults' = faults + 1

----------------------------------------------------------------------------
(* runDigestSchedulerOnce *)

CheckDone(r) ==
  /\ open /\ pc[r] = "idle" /\ ~doneKey
  /\ Goto(r, "checked")
  /\ UNCHANGED <<open, redis, rows, batch, cur, ghost, faults>>

(* SetNX; a lock held by another run ends this one. *)
AcquireLock(r) ==
  /\ pc[r] = "checked"
  /\ IF lock = NoOne THEN lock' = r /\ Goto(r, "claim")
                     ELSE UNCHANGED lock /\ Goto(r, "idle")
  /\ UNCHANGED <<open, doneKey, rows, batch, cur, ghost, faults>>

MarkDone(r) ==
  /\ pc[r] = "finish"
  /\ doneKey' = TRUE
  /\ Goto(r, "release")
  /\ UNCHANGED <<open, lock, rows, batch, cur, ghost, faults>>

(* The deferred compare and delete. *)
ReleaseAny(r) ==              \* mutant: DEL without comparing the owner
  /\ pc[r] = "release"
  /\ lock' = NoOne
  /\ overdue' = overdue \ {r}
  /\ Goto(r, "idle")
  /\ UNCHANGED <<open, doneKey, rows, batch, cur, everOverdue, failed, delivered, lost, faults>>
ReleaseLock(r) ==
  /\ pc[r] = "release"
  /\ lock' = IF lock = r THEN NoOne ELSE lock
  /\ overdue' = overdue \ {r}
  /\ Goto(r, "idle")
  /\ UNCHANGED <<open, doneKey, rows, batch, cur, everOverdue, failed, delivered, lost, faults>>

----------------------------------------------------------------------------
(* digestSweep *)

Candidates == User \ (leased \cup sent)

(* ClaimDigestCandidates; an empty batch ends the sweep. *)
ClaimAll(r) ==                \* mutant: no LIMIT
  /\ pc[r] = "claim"
  /\ leased' = leased \cup Candidates
  /\ batch' = [batch EXCEPT ![r] = Candidates]
  /\ Goto(r, IF Candidates = {} THEN "finish" ELSE "send")
  /\ UNCHANGED <<open, redis, sent, cur, ghost, faults>>
Claim(r) ==
  /\ pc[r] = "claim"
  /\ \E B \in SUBSET Candidates :
       /\ Cardinality(B) = IF Cardinality(Candidates) < Batch
                           THEN Cardinality(Candidates) ELSE Batch
       /\ leased' = leased \cup B
       /\ batch' = [batch EXCEPT ![r] = B]
       /\ Goto(r, IF B = {} THEN "finish" ELSE "send")
  /\ UNCHANGED <<open, redis, sent, cur, ghost, faults>>

NextBatch(r) ==
  /\ pc[r] = "send" /\ batch[r] = {}
  /\ Goto(r, "claim")
  /\ UNCHANGED <<open, redis, rows, batch, cur, ghost, faults>>

InHand(r, u) ==
  /\ pc[r] = "send" /\ u \in batch[r]
  /\ batch' = [batch EXCEPT ![r] = @ \ {u}]

(* The push reaches a device, or there is nothing to push: an empty body, a
   disabled type, no device. *)
Push(r, u) ==
  /\ InHand(r, u)
  /\ cur' = [cur EXCEPT ![r] = u]
  /\ delivered' = [delivered EXCEPT ![u] = @ + 1]
  /\ failed' = failed \ {u}
  /\ Goto(r, "mark")
  /\ UNCHANGED <<open, redis, rows, overdue, everOverdue, lost, faults>>
NothingToPush(r, u) ==
  /\ InHand(r, u)
  /\ cur' = [cur EXCEPT ![r] = u]
  /\ failed' = failed \ {u}
  /\ Goto(r, "mark")
  /\ UNCHANGED <<open, redis, rows, overdue, everOverdue, delivered, lost, faults>>

(* NotifyDigest returns an error: the sweep goes on with the next user.  A
   user with several devices may have been reached on some. *)
PushFails(r, u, reached) ==
  /\ InHand(r, u) /\ Fault
  /\ failed' = failed \cup {u}
  /\ delivered' = [delivered EXCEPT ![u] = @ + reached]
  /\ lost' = [lost EXCEPT ![u] = @ + reached]
  /\ UNCHANGED <<open, redis, rows, pc, cur, overdue, everOverdue>>

(* SetDigestSent *)
MarkSent(r) ==
  /\ pc[r] = "mark"
  /\ sent' = sent \cup {cur[r]} /\ leased' = leased \ {cur[r]}
  /\ cur' = [cur EXCEPT ![r] = NoOne]
  /\ Goto(r, "send")
  /\ UNCHANGED <<open, redis, batch, ghost, faults>>

(* The push in hand is forgotten. *)
Forget(r) ==
  /\ lost' = [u \in User |-> lost[u] + IF u = cur[r] THEN 1 ELSE 0]
  /\ batch' = [batch EXCEPT ![r] = {}] /\ cur' = [cur EXCEPT ![r] = NoOne]

(* A failing query, watermark or completion key ends the run; the deferred
   release still runs. *)
RunFails(r) ==
  /\ pc[r] \in Sweeping /\ Fault
  /\ Forget(r)
  /\ Goto(r, "release")
  /\ UNCHANGED <<open, redis, rows, overdue, everOverdue, failed, delivered>>

(* The process dies: nothing is released. *)
Crash(r) ==
  /\ pc[r] # "idle" /\ Fault
  /\ Forget(r)
  /\ overdue' = overdue \ {r}
  /\ Goto(r, "idle")
  /\ UNCHANGED <<open, redis, rows, everOverdue, failed, delivered>>

----------------------------------------------------------------------------
(* The environment: expiries and the end of Sunday. *)
LockExpires ==
  /\ lock # NoOne
  /\ lock' = NoOne
  /\ IF pc[lock] \in Sweeping
     THEN overdue' = overdue \cup {lock} /\ everOverdue' = TRUE
     ELSE UNCHANGED <<overdue, everOverdue>>
  /\ UNCHANGED <<open, doneKey, rows, run, failed, delivered, lost, faults>>

LeaseExpires(u) ==
  /\ u \in leased
  /\ leased' = leased \ {u}
  /\ UNCHANGED <<open, redis, sent, run, ghost, faults>>

CloseWindow ==
  /\ open /\ open' = FALSE
  /\ UNCHANGED <<redis, rows, run, ghost, faults>>

Next ==
  \/ \E r \in Replica :
       \/ CheckDone(r) \/ AcquireLock(r) \/ MarkDone(r) \/ ReleaseLock(r)
       \/ Claim(r) \/ NextBatch(r) \/ MarkSent(r)
       \/ \E u \in User : \/ Push(r, u) \/ NothingToPush(r, u)
                          \/ \E reached \in {0, 1} : PushFails(r, u, reached)
       \/ RunFails(r) \/ Crash(r)
  \/ LockExpires
  \/ \E u \in User : LeaseExpires(u)
  \/ CloseWindow

(* A run goes on, each replica ticks hourly while the window is open, and
   the lock expires. *)
RunGoesOn(r) ==
  \/ CheckDone(r) \/ AcquireLock(r) \/ MarkDone(r) \/ ReleaseLock(r)
  \/ Claim(r) \/ NextBatch(r) \/ MarkSent(r)
  \/ \E u \in User : Push(r, u) \/ NothingToPush(r, u)
Fairness == (\A r \in Replica : WF_vars(RunGoesOn(r))) /\ WF_vars(LockExpires)

Spec == Init /\ [][Next]_vars /\ Fairness

----------------------------------------------------------------------------
(* Properties. *)

(* "A unique value plus compare/delete prevents an expired owner from
   deleting a newer scheduler's lock": among the replicas whose lock has not
   expired under them at most one sweeps, and it holds the lock. *)
OneSweepAtATime == \A r \in Replica : pc[r] \in Sweeping => r \in overdue \/ lock = r

(* "Multiple application replicas no longer send the same weekly digest
   concurrently": unless a sweep outlives its two-hour lock, a user gets one
   digest, and one more only for each push whose watermark was lost. *)
OneDigestPerUser == ~everOverdue => \A u \in User : delivered[u] <= 1 + lost[u]

(* "A transient push failure can retry after the 15-minute lease instead of
   suppressing the digest for a week": once the week is marked done, nobody
   is left whose delivery failed. *)
FailedCanRetry == doneKey => failed \subseteq sent

(* "A crashed or failed sweep only pauses retries until the lock expires":
   while the window stays open, some run completes the week. *)
WeekCompletes == <>(doneKey \/ ~open)
=============================================================================
