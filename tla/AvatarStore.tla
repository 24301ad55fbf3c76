----------------------------- MODULE AvatarStore -----------------------------
(***************************************************************************)
(* One user's avatar objects: uploads, deletion and erasure in the web     *)
(* process (avatar.go, social.go) and the delete outbox that the workers   *)
(* drain (HandleObjectCleanupTask, server.go; ClaimObjectDeletes).         *)
(*                                                                         *)
(* An upload writes its object before the transaction that makes it the    *)
(* user's avatar.  That transaction reads the previous avatar without a    *)
(* lock; from its upsert on it holds the avatar row, so the rest is one    *)
(* step.  Keys are numbered in the order uploads start; 0 is no avatar.    *)
(***************************************************************************)
EXTENDS Naturals, FiniteSets

CONSTANTS
  Uploader,         \* concurrent uploads of the user
  Worker,           \* concurrent cleanup tasks
  MaxKeys,          \* bound: uploads
  MaxFaults         \* bound: failing calls and crashes

VARIABLES
  objects,          \* the object store
  avatar,           \* social_avatars: the live key, 0 for none
  joined,           \* there is a social profile
  outbox,           \* object_delete_outbox: state of each key
  used,             \* keys handed out
  pc, key, previous, \* each upload
  hand,             \* each worker: the claimed keys it still has to delete
  gone,             \* the key whose object it deleted last, 0 for none
  untracked,        \* history: keys dropped by a dead upload or an overlap
  doubtful,         \* history: keys whose transaction committed and was taken for a failure
  faults

upload == <<pc, key, previous>>
work   == <<hand, gone>>
vars   == <<objects, avatar, joined, outbox, used, upload, work, untracked, doubtful, faults>>

Key == 1 .. MaxKeys

(* The state has its type; what is queued for deletion was handed out. *)
TypeOK ==
  /\ objects \subseteq 1 .. used /\ avatar \in 0 .. used
  /\ joined \in BOOLEAN /\ used \in 0 .. MaxKeys
  /\ outbox \in [Key -> {"none", "available", "leased", "completed"}]
  /\ pc \in [Uploader -> {"idle", "put", "read", "commit", "undo"}]
  /\ key \in [Uploader -> 0 .. used] /\ previous \in [Uploader -> 0 .. used]
  /\ hand \in [Worker -> SUBSET Key] /\ gone \in [Worker -> 0 .. used]
  /\ \A k \in Key : outbox[k] # "none" => k <= used
  /\ untracked \cup doubtful \subseteq Key /\ faults \in 0 .. MaxFaults

Init ==
  /\ objects = {} /\ avatar = 0 /\ joined = TRUE /\ used = 0
  /\ outbox = [k \in Key |-> "none"]
  /\ pc = [u \in Uploader |-> "idle"] /\ key = [u \in Uploader |-> 0]
  /\ previous = [u \in Uploader |-> 0]
  /\ hand = [w \in Worker |-> {}] /\ gone = [w \in Worker |-> 0]
  /\ untracked = {} /\ doubtful = {} /\ faults = 0

Goto(u, where) == pc' = [pc EXCEPT ![u] = where]
Fault == faults < MaxFaults /\ faults' = faults + 1

(* EnqueueObjectDelete: ON CONFLICT DO NOTHING. *)
Enqueued(k) == IF k = 0 \/ outbox[k] # "none" THEN outbox ELSE [outbox EXCEPT ![k] = "available"]

----------------------------------------------------------------------------
(* PostSocialAvatar *)
SameKey  == 1                 \* mutant: one object key per user
FreshKey == used + 1

BeginUpload(u) ==
  /\ pc[u] = "idle" /\ joined /\ used < MaxKeys
  /\ used' = used + 1
  /\ key' = [key EXCEPT ![u] = FreshKey]
  /\ Goto(u, "put")
  /\ UNCHANGED <<objects, avatar, joined, outbox, previous, work, untracked, doubtful, faults>>

Put(u) ==
  /\ pc[u] = "put"
  /\ objects' = objects \cup {key[u]}
  /\ Goto(u, "read")
  /\ UNCHANGED <<avatar, joined, outbox, used, key, previous, work, untracked, doubtful, faults>>

ReadPrevious(u) ==
  /\ pc[u] = "read"
  /\ previous' = [previous EXCEPT ![u] = avatar]
  /\ Goto(u, "commit")
  /\ UNCHANGED <<objects, avatar, joined, outbox, used, key, work, untracked, doubtful, faults>>

(* UpsertSocialAvatar and the outbox row of the avatar read before; an
   avatar stored in between is dropped without one. *)
Replace(u) ==
  /\ pc[u] = "commit"
  /\ avatar' = key[u]
  /\ untracked' = IF avatar \notin {0, previous[u]} THEN untracked \cup {avatar} ELSE untracked
  /\ UNCHANGED <<objects, joined, used, key, previous, work>>
Commit(u) ==
  /\ Replace(u)
  /\ outbox' = IF previous[u] # key[u] THEN Enqueued(previous[u]) ELSE outbox
  /\ Goto(u, "idle")
  /\ UNCHANGED <<doubtful, faults>>

(* The database commits, but the answer is lost: the handler sees an error. *)
CommitUnknown(u) ==
  /\ Replace(u) /\ Fault
  /\ outbox' = IF previous[u] # key[u] THEN Enqueued(previous[u]) ELSE outbox
  /\ Goto(u, "undo") /\ doubtful' = doubtful \cup {key[u]}

(* The transaction fails and the new object is deleted again. *)
TransactionFails(u) ==
  /\ pc[u] \in {"read", "commit"} /\ Fault
  /\ Goto(u, "undo")
  /\ UNCHANGED <<objects, avatar, joined, outbox, used, key, previous, work, untracked, doubtful>>

Undo(u) ==
  /\ pc[u] = "undo"
  /\ objects' = objects \ {key[u]}
  /\ Goto(u, "idle")
  /\ UNCHANGED <<avatar, joined, outbox, used, key, previous, work, untracked, doubtful, faults>>

(* The upload dies, or its compensating delete fails. *)
UploadDies(u) ==
  /\ pc[u] # "idle" /\ Fault
  /\ untracked' = IF key[u] \in objects THEN untracked \cup {key[u]} ELSE untracked
  /\ Goto(u, "idle")
  /\ UNCHANGED <<objects, avatar, joined, outbox, used, key, previous, work, doubtful>>

----------------------------------------------------------------------------
(* DeleteSocialAvatar; erasure also removes the profile, and the user may
   join again. *)
DeleteAvatar ==
  /\ avatar # 0
  /\ avatar' = 0 /\ outbox' = Enqueued(avatar)
  /\ UNCHANGED <<objects, joined, used, upload, work, untracked, doubtful, faults>>

Erase ==
  /\ joined /\ joined' = FALSE
  /\ avatar' = 0 /\ outbox' = Enqueued(avatar)
  /\ UNCHANGED <<objects, used, upload, work, untracked, doubtful, faults>>

Join ==
  /\ ~joined /\ joined' = TRUE
  /\ UNCHANGED <<objects, avatar, outbox, used, upload, work, untracked, doubtful, faults>>

----------------------------------------------------------------------------
(* HandleObjectCleanupTask *)
Available == {k \in Key : outbox[k] = "available"}

ClaimForever(w) ==            \* mutant: claimed rows are marked as completed
  /\ hand[w] = {} /\ gone[w] = 0 /\ Available # {}
  /\ hand' = [hand EXCEPT ![w] = Available]
  /\ outbox' = [k \in Key |-> IF k \in Available THEN "completed" ELSE outbox[k]]
  /\ UNCHANGED <<objects, avatar, joined, used, upload, gone, untracked, doubtful, faults>>
ClaimDeletes(w) ==
  /\ hand[w] = {} /\ gone[w] = 0 /\ Available # {}
  /\ hand' = [hand EXCEPT ![w] = Available]
  /\ outbox' = [k \in Key |-> IF k \in Available THEN "leased" ELSE outbox[k]]
  /\ UNCHANGED <<objects, avatar, joined, used, upload, gone, untracked, doubtful, faults>>

DeleteObject(w, k) ==
  /\ gone[w] = 0 /\ k \in hand[w]
  /\ objects' = objects \ {k}
  /\ hand' = [hand EXCEPT ![w] = @ \ {k}] /\ gone' = [gone EXCEPT ![w] = k]
  /\ UNCHANGED <<avatar, joined, outbox, used, upload, untracked, doubtful, faults>>

CompleteDelete(w) ==
  /\ gone[w] # 0
  /\ outbox' = [outbox EXCEPT ![gone[w]] = "completed"]
  /\ gone' = [gone EXCEPT ![w] = 0]
  /\ UNCHANGED <<objects, avatar, joined, used, upload, hand, untracked, doubtful, faults>>

(* The store refuses: RetryObjectDelete moves available_at, a lease by
   another length. *)
DeleteFails(w, k) ==
  /\ gone[w] = 0 /\ k \in hand[w] /\ Fault
  /\ hand' = [hand EXCEPT ![w] = @ \ {k}]
  /\ UNCHANGED <<objects, avatar, joined, outbox, used, upload, gone, untracked, doubtful>>

(* CompleteObjectDelete fails or the worker dies: the rest of the batch
   stays leased. *)
WorkerStops(w) ==
  /\ hand[w] # {} \/ gone[w] # 0
  /\ Fault
  /\ hand' = [hand EXCEPT ![w] = {}] /\ gone' = [gone EXCEPT ![w] = 0]
  /\ UNCHANGED <<objects, avatar, joined, outbox, used, upload, untracked, doubtful>>

(* available_at passes, whoever still holds the batch. *)
LeaseExpires(k) ==
  /\ outbox[k] = "leased"
  /\ outbox' = [outbox EXCEPT ![k] = "available"]
  /\ UNCHANGED <<objects, avatar, joined, used, upload, work, untracked, doubtful, faults>>

Next ==
  \/ \E u \in Uploader :
       \/ BeginUpload(u) \/ Put(u) \/ ReadPrevious(u) \/ Commit(u)
       \/ CommitUnknown(u) \/ TransactionFails(u) \/ Undo(u) \/ UploadDies(u)
  \/ DeleteAvatar \/ Erase \/ Join
  \/ \E w \in Worker :
       \/ ClaimDeletes(w) \/ CompleteDelete(w) \/ WorkerStops(w)
       \/ \E k \in Key : DeleteObject(w, k) \/ DeleteFails(w, k)
  \/ \E k \in Key : LeaseExpires(k)

(* The scheduler queues a cleanup every five minutes, a cleanup goes on, and
   available_at passes. *)
CleanupGoesOn(w) ==
  ClaimDeletes(w) \/ CompleteDelete(w) \/ \E k \in Key : DeleteObject(w, k)
Fairness ==
  /\ \A w \in Worker : WF_vars(CleanupGoesOn(w))
  /\ \A k \in Key : WF_vars(LeaseExpires(k))

Spec == Init /\ [][Next]_vars /\ Fairness

----------------------------------------------------------------------------
(* Properties. *)

(* The cleanup never deletes the object of the user's current avatar: not
   by a stale lease, a retry, a second worker or an upload that read an
   avatar replaced since.  Only an upload that mistook its own commit for a
   failure deletes it. *)
LiveObjectKept == avatar # 0 => avatar \in objects \cup doubtful

(* Every object is the current avatar, on its way to become it or in the
   outbox; only uploads that overlap or die leave one behind. *)
NothingForgotten ==
  \A k \in objects :
    \/ k = avatar \/ outbox[k] # "none" \/ k \in untracked
    \/ \E u \in Uploader : pc[u] # "idle" /\ key[u] = k

(* ClaimObjectDeletes: "The UPDATE both leases the batch (moves available_at
   forward) and returns it, so the claim survives past this statement": a
   lease is not a promise, and a queued object is deleted in the end although
   deletes fail and workers die. *)
QueuedIsDeleted ==
  \A k \in Key : (outbox[k] \in {"available", "leased"}) ~> (k \notin objects)
=============================================================================
