-------------------------------- MODULE MCJobs --------------------------------
(***************************************************************************)
(* The background work on small instances: feed ingestion, the weekly      *)
(* digest and the cleanup of avatar objects.  They share no state, so that *)
(* a behaviour follows the one that part names while the others keep their *)
(* initial state.  The definitions of FeedIngestion are those of this      *)
(* module too.                                                             *)
(***************************************************************************)
EXTENDS FeedIngestion

CONSTANTS
  Replica, Batch,             \* WeeklyDigest
  Uploader, MaxKeys,          \* AvatarStore
  None,                       \* no replica, no user
  MaxFaults

ASSUME JobsAssumption ==
  /\ None \notin Replica \cup User /\ IsFiniteSet(User)
  /\ Batch \in Nat \ {0} /\ MaxKeys \in Nat /\ MaxFaults \in Nat

VARIABLES
  part, faults,
  open, doneKey, lock, leased, sent, run, batch, cur,
  overdue, everOverdue, failed, delivered, lost,
  objects, avatar, joined, outbox, used, upload, key, previous, hand, gone, untracked, doubtful

Digest  == INSTANCE WeeklyDigest WITH pc <- run, NoOne <- None
Avatar  == INSTANCE AvatarStore WITH pc <- upload

digestVars  == <<open, doneKey, lock, leased, sent, run, batch, cur,
                 overdue, everOverdue, failed, delivered, lost>>
avatarVars  == <<objects, avatar, joined, outbox, used, upload, key, previous,
                 hand, gone, untracked, doubtful>>
jobVars == <<part, faults, vars, digestVars, avatarVars>>

JobsInit ==
  /\ part \in {"ingestion", "digest", "avatar"}
  /\ Init /\ Digest!Init /\ Avatar!Init

IngestionStep ==
  /\ part = "ingestion" /\ Next
  /\ UNCHANGED <<part, faults, digestVars, avatarVars>>
DigestStep ==
  /\ part = "digest" /\ Digest!Next
  /\ UNCHANGED <<part, vars, avatarVars>>
AvatarStep ==
  /\ part = "avatar" /\ Avatar!Next
  /\ UNCHANGED <<part, vars, digestVars>>

(* A finished week has no further step. *)
WeekOver == part = "digest" /\ (doneKey \/ ~open) /\ UNCHANGED jobVars

JobsNext == IngestionStep \/ DigestStep \/ AvatarStep \/ WeekOver

(* The fairness of the part that runs; the other parts have no steps. *)
digest == <<faults, digestVars>>
avatars == <<faults, avatarVars>>
JobsFairness ==
  /\ \A f \in Feed :
       WF_vars(part = "ingestion" /\ (Enqueue(f) \/ DropFull(f) \/ DropStopped(f)))
  /\ \A w \in Worker : /\ WF_vars(part = "ingestion" /\ Take(w))
                       /\ WF_vars(part = "ingestion" /\ Finish(w))
  /\ \A r \in Replica : WF_digest(part = "digest" /\ Digest!RunGoesOn(r))
  /\ WF_digest(part = "digest" /\ Digest!LockExpires)
  /\ \A w \in Worker : WF_avatars(part = "avatar" /\ Avatar!CleanupGoesOn(w))
  /\ \A k \in 1 .. MaxKeys : WF_avatars(part = "avatar" /\ Avatar!LeaseExpires(k))

JobsSpec == JobsInit /\ [][JobsNext]_jobVars /\ JobsFairness

----------------------------------------------------------------------------
(* Ingestion, digest and cleanup have their types: the channel stays within its
   capacity and a claim within its batch. *)
TypesOK == TypeOK /\ Digest!TypeOK /\ Avatar!TypeOK

(* Replicas sweep one at a time unless a lock expired under a run, and nobody is
   pushed the digest of a week twice, but for a lost watermark. *)
DigestOnce == Digest!OneSweepAtATime /\ Digest!OneDigestPerUser
(* While the digest window stays open, some run completes the week. *)
WeekCompletes == <>(part # "digest" \/ doneKey \/ ~open)

(* The object of the current avatar is deleted only by an upload that mistook
   its commit for a failure; objects that are neither live nor queued are those
   of overlapping or dead uploads. *)
ObjectsAccounted == Avatar!LiveObjectKept /\ Avatar!NothingForgotten

(* No work is left lying: a claimed feed is ingested or released, the week's
   digest is completed, and a queued object is deleted in the end. *)
WorkCompletes == Released /\ WeekCompletes /\ Avatar!QueuedIsDeleted
=============================================================================
