-------------------------------- MODULE UpNext --------------------------------
(***************************************************************************)
(* The Up Next queue of one account: POST up_next/sync                     *)
(* (syncsvc/upnext.go) called by several devices.                          *)
(*                                                                         *)
(* A request carries the changes a device made since its last sync, maybe  *)
(* none.  Under the users row lock (BeginUpNext) the server reads the      *)
(* queue, applies the changes oldest first, rewrites the table and draws a *)
(* new up_next_modified (CommitUpNext); the response is the whole queue    *)
(* with that token.  An item is its episode: title, url and podcast only   *)
(* travel.  The primary key (user, episode) makes a queue with a repeated  *)
(* episode fail the rewrite and roll back.                                 *)
(***************************************************************************)
EXTENDS SyncToken, SequencesExt

CONSTANTS
  Device,
  Episodes,
  Stamp,            \* Modified of a change, the device's clock
  Clock,            \* the server's clock
  MaxToken,         \* bound: no change is sent at or past this token
  MaxChanges,       \* bound: changes in one request
  MaxReplace        \* bound: episodes of one replace

ASSUME UpNextAssumption ==
  /\ Stamp \subseteq Nat /\ Clock \subseteq Nat
  /\ MaxToken \in Nat /\ MaxChanges \in Nat /\ MaxReplace \in Nat

VARIABLES
  queue,            \* up_next_items by position
  upNextModified,   \* users.up_next_modified
  open,             \* devices whose transaction holds the users row
  batch, work,      \* their changes and the queue they computed
  reply,            \* reply[d]: the response on its way, <<>> or <<snapshot>>
  seen              \* seen[d]: the last snapshot d imported

vars == <<queue, upNextModified, open, batch, work, reply, seen>>

Move    == {"playNow", "playNext", "playLast"}
Change  == [action : Move \cup {"remove"}, uuid : Episodes, modified : Stamp]
           \cup [action : {"replace"}, episodes : BoundedSeq(Episodes, MaxReplace),
                 modified : Stamp]
Batches == BoundedSeq(Change, MaxChanges)

----------------------------------------------------------------------------
(* applyUpNextChange *)

RemoveFromQueue(q, uuid) == SelectSeq(q, LAMBDA e : e # uuid)

(* How many items stay in front of the inserted one. *)
InsertIndex(q, action) ==
  CASE action = "playNow"  -> 0
    [] action = "playNext" -> IF q = <<>> THEN 0 ELSE 1
    [] action = "playLast" -> Len(q)

ApplyUpNextChange(q, change) ==
  IF change.action = "replace" THEN change.episodes
  ELSE LET rest == RemoveFromQueue(q, change.uuid)
       IN IF change.action = "remove" THEN rest
          ELSE InsertAt(rest, InsertIndex(rest, change.action) + 1, change.uuid)

(* Oldest first; equal stamps keep the order of the request. *)
OldestFirst(changes) ==
  LET order == SetToSortSeq(DOMAIN changes,
                 LAMBDA i, j : \/ changes[i].modified < changes[j].modified
                               \/ changes[i].modified = changes[j].modified /\ i < j)
  IN [i \in DOMAIN changes |-> changes[order[i]]]

ApplyChanges(q, changes) == FoldLeft(ApplyUpNextChange, q, OldestFirst(changes))

Unique(q) == \A i, j \in DOMAIN q : q[i] = q[j] => i = j

----------------------------------------------------------------------------
Snapshot(q, t) == [queue |-> q, token |-> t]

Init ==
  /\ queue = <<>> /\ upNextModified = 0
  /\ open = {}
  /\ batch = [d \in Device |-> <<>>] /\ work = [d \in Device |-> <<>>]
  /\ reply = [d \in Device |-> <<>>]
  /\ seen = [d \in Device |-> Snapshot(<<>>, 0)]

(* GetUserForUpdate and GetUpNextItems. *)
LockFree == open = {}
BeginFromSeen(d, changes) ==                    \* mutant: changes the queue the device last saw
  /\ LockFree /\ d \notin open /\ reply[d] = <<>>
  /\ changes = <<>> \/ upNextModified < MaxToken
  /\ open' = open \cup {d}
  /\ batch' = [batch EXCEPT ![d] = changes]
  /\ work' = [work EXCEPT ![d] = ApplyChanges(seen[d].queue, changes)]
  /\ UNCHANGED <<queue, upNextModified, reply, seen>>
BeginUpNext(d, changes) ==
  /\ LockFree /\ d \notin open /\ reply[d] = <<>>
  /\ changes = <<>> \/ upNextModified < MaxToken
  /\ open' = open \cup {d}
  /\ batch' = [batch EXCEPT ![d] = changes]
  /\ work' = [work EXCEPT ![d] = ApplyChanges(queue, changes)]
  /\ UNCHANGED <<queue, upNextModified, reply, seen>>

Unlock(d) ==
  /\ open' = open \ {d}
  /\ batch' = [batch EXCEPT ![d] = <<>>]
  /\ work' = [work EXCEPT ![d] = <<>>]

(* rewriteUpNextQueue, then the token; without changes the queue is only read. *)
CommitUpNext(d, now) ==
  /\ d \in open /\ Unique(work[d])
  /\ queue' = work[d]
  /\ upNextModified' = IF batch[d] = <<>> THEN upNextModified
                       ELSE NextToken(upNextModified, now)
  /\ reply' = [reply EXCEPT ![d] = <<Snapshot(work[d], upNextModified')>>]
  /\ Unlock(d)
  /\ UNCHANGED seen

(* A statement fails: the insert of a repeated episode always does. *)
RollbackUpNext(d) ==
  /\ d \in open
  /\ Unlock(d)
  /\ UNCHANGED <<queue, upNextModified, reply, seen>>

DeliverReply(d) ==
  /\ reply[d] # <<>>
  /\ seen' = [seen EXCEPT ![d] = reply[d][1]]
  /\ reply' = [reply EXCEPT ![d] = <<>>]
  /\ UNCHANGED <<queue, upNextModified, open, batch, work>>

LoseReply(d) ==
  /\ reply[d] # <<>>
  /\ reply' = [reply EXCEPT ![d] = <<>>]
  /\ UNCHANGED <<queue, upNextModified, open, batch, work, seen>>

Next ==
  \E d \in Device :
    \/ \E changes \in Batches : BeginUpNext(d, changes)
    \/ \E now \in Clock : CommitUpNext(d, now)
    \/ RollbackUpNext(d)
    \/ DeliverReply(d)
    \/ LoseReply(d)

Spec == Init /\ [][Next]_vars

----------------------------------------------------------------------------
(* Properties. *)

Snapshots ==
  {Snapshot(queue, upNextModified)} \cup {seen[d] : d \in Device}
    \cup UNION {Range(reply[d]) : d \in Device}

(* serverModified names the queue: two snapshots with the same token, held
   by devices, on the wire or stored, are the same queue, and nobody holds a
   token the server has not issued yet.  A device may rely on it to skip an
   import. *)
TokenNamesQueue ==
  \A s, t \in Snapshots :
    /\ s.token = t.token => s.queue = t.queue
    /\ s.token <= upNextModified

(* The steps that rewrite the table. *)
Commits(d) == d \in open /\ reply'[d] # <<>>

(* "Apply changes oldest first so same-batch ordering matches the order the
   user performed the actions": the newest change of a committed batch has
   the last word on where its episode is. *)
Newest(changes) ==
  CHOOSE i \in DOMAIN changes : \A j \in DOMAIN changes :
    \/ changes[j].modified < changes[i].modified
    \/ changes[j].modified = changes[i].modified /\ j <= i
LastWord(q, change) ==
  CASE change.action = "replace"  -> q = change.episodes
    [] change.action = "remove"   -> change.uuid \notin Range(q)
    [] change.action = "playNow"  -> q[1] = change.uuid
    [] change.action = "playNext" -> change.uuid = IF Len(q) = 1 THEN q[1] ELSE q[2]
    [] change.action = "playLast" -> q[Len(q)] = change.uuid
NewestChangeDecides ==
  [][\A d \in Device : Commits(d) /\ batch[d] # <<>> =>
       LastWord(queue', batch[d][Newest(batch[d])])]_vars

(* A commit keeps every episode its batch does not name, in its order, even
   when other devices committed since the device last looked: nobody's
   concurrent change is lost unless the batch replaces the whole queue. *)
Named(changes) == {c.uuid : c \in Range(changes)}
OthersKeepTheirPlaces ==
  [][\A d \in Device :
       Commits(d) /\ (\A c \in Range(batch[d]) : c.action # "replace") =>
         LET others(q) == SelectSeq(q, LAMBDA e : e \notin Named(batch[d]))
         IN others(queue') = others(queue)]_vars

(* What a committed batch does to the queue: the newest change decides, and the
   episodes it does not name keep their order. *)
QueueFollowsChanges == NewestChangeDecides /\ OthersKeepTheirPlaces
=============================================================================
