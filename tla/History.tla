------------------------------- MODULE History -------------------------------
(***************************************************************************)
(* The listening history of one account: POST history/sync                 *)
(* (syncsvc/history.go) called by several devices.                         *)
(*                                                                         *)
(* BeginHistory takes the users row lock and reads its tokens;             *)
(* Add, Delete and ClearAll are its changes, in request order; Commit      *)
(* trims the table, draws history_modified and answers with the whole      *)
(* history, tombstones included.  Rollback is any failing statement.       *)
(* NextToken reads the clock anew each time it is called.                  *)
(***************************************************************************)
EXTENDS SyncToken, FiniteSetsExt, Functions

CONSTANTS
  Device,
  Episodes,
  Stamp,            \* ModifiedAt of a change; 0 is "not given"
  Clock,            \* the server's clock
  Cap,              \* maxHistoryItems
  MaxToken,         \* bound: no change is sent at or past this token
  MaxChanges        \* bound: changes in one request

VARIABLES
  rows,             \* table history: [mod, deleted] by episode
  historyModified, historyClearedAt,      \* columns of users
  open,             \* devices whose transaction holds the users row
  work, cleared,    \* the rows and lastCleared of the open transaction
  nchg,             \* changes applied so far
  reply, seen,      \* responses on their way (<<>> or <<snapshot>>) and imported
  sent,             \* history: changes of each episode since its row was last erased
  workSent, erased  \* history: those of the open transaction, and the rows it cleared

server == <<rows, historyModified, historyClearedAt, sent>>
txn    == <<work, cleared, nchg, workSent, erased>>
vars   == <<server, txn, open, reply, seen>>

HistoryChange == [episode : Episodes, mod : Stamp]      \* an add or a delete
NoRows   == [e \in {} |-> e]
NoChange == [e \in Episodes |-> {}]
Snapshot(r, c, t) == [rows |-> r, cleared |-> c, token |-> t]

Init ==
  /\ rows = NoRows /\ historyModified = 0 /\ historyClearedAt = 0
  /\ open = {}
  /\ work = [d \in Device |-> NoRows] /\ cleared = [d \in Device |-> 0]
  /\ nchg = [d \in Device |-> 0]
  /\ reply = [d \in Device |-> <<>>]
  /\ seen = [d \in Device |-> Snapshot(NoRows, 0, 0)]
  /\ sent = NoChange /\ workSent = [d \in Device |-> NoChange]
  /\ erased = [d \in Device |-> {}]

----------------------------------------------------------------------------
(* UpsertHistoryItem and TombstoneHistoryItem: strictly newer wins. *)
PutAlways(r, e, entry) ==                       \* mutant: ON CONFLICT without WHERE
  [x \in DOMAIN r \cup {e} |-> IF x = e THEN entry ELSE r[x]]
Put(r, e, entry) ==
  [x \in DOMAIN r \cup {e} |->
     IF x = e /\ (e \in DOMAIN r => entry.mod > r[e].mod) THEN entry ELSE r[x]]

(* DeleteHistoryBefore *)
After(r, t) == Restrict(r, {e \in DOMAIN r : r[e].mod > t})

(* TrimHistory: the newest Cap rows; among equal stamps the database picks. *)
Trimmed(r) ==
  {Restrict(r, K) : K \in {K \in SUBSET DOMAIN r :
     /\ Cardinality(K) = Min({Cap, Cardinality(DOMAIN r)})
     /\ \A k \in K, e \in DOMAIN r \ K : r[k].mod >= r[e].mod}}

(* The ghost forgets an episode whose row is gone. *)
Forget(s, r) == [e \in Episodes |-> IF e \in DOMAIN r THEN s[e] ELSE {}]

----------------------------------------------------------------------------
LockFree == open = {}

BeginHistory(d) ==
  /\ LockFree /\ d \notin open /\ reply[d] = <<>>
  /\ open' = open \cup {d}
  /\ work' = [work EXCEPT ![d] = rows]
  /\ cleared' = [cleared EXCEPT ![d] = historyClearedAt]
  /\ nchg' = [nchg EXCEPT ![d] = 0]
  /\ UNCHANGED <<server, workSent, erased, reply, seen>>

CanChange(d) ==
  d \in open /\ nchg[d] < MaxChanges /\ historyModified < MaxToken

Store(d, e, entry) ==
  /\ work' = [work EXCEPT ![d] = Put(@, e, entry)]
  /\ workSent' = [workSent EXCEPT ![d][e] = @ \cup {entry}]
  /\ nchg' = [nchg EXCEPT ![d] = @ + 1]
  /\ UNCHANGED <<server, open, cleared, erased, reply, seen>>

Add(d, e, mod) ==
  /\ CanChange(d)
  /\ Store(d, e, [mod |-> mod, deleted |-> FALSE])

Given(mod, now) == IF mod = 0 THEN NextToken(historyModified, now) ELSE mod

Delete(d, e, mod, now) ==
  /\ CanChange(d)
  /\ Store(d, e, [mod |-> Given(mod, now), deleted |-> TRUE])

ClearAll(d, mod, now) ==
  LET t == Given(mod, now)
      kept == After(work[d], t)
  IN /\ CanChange(d)
     /\ work' = [work EXCEPT ![d] = kept]
     /\ cleared' = [cleared EXCEPT ![d] = t]
     /\ workSent' = [workSent EXCEPT ![d] = Forget(@, kept)]
     /\ erased' = [erased EXCEPT ![d] = @ \cup (DOMAIN work[d] \ DOMAIN kept)]
     /\ nchg' = [nchg EXCEPT ![d] = @ + 1]
     /\ UNCHANGED <<server, open, reply, seen>>

Close(d) ==
  /\ open' = open \ {d}
  /\ work' = [work EXCEPT ![d] = NoRows]
  /\ cleared' = [cleared EXCEPT ![d] = 0]
  /\ nchg' = [nchg EXCEPT ![d] = 0]
  /\ workSent' = [workSent EXCEPT ![d] = NoChange]
  /\ erased' = [erased EXCEPT ![d] = {}]

(* The ghost after the commit: what others committed meanwhile counts. *)
SentBy(d) ==
  [e \in Episodes |-> (IF e \in erased[d] THEN {} ELSE sent[e]) \cup workSent[d][e]]

(* A request without changes only reads. *)
CommitHistory(d, now) ==
  /\ d \in open
  /\ IF nchg[d] = 0 THEN UNCHANGED server
     ELSE /\ rows' \in Trimmed(work[d])
          /\ sent' = Forget(SentBy(d), rows')
          /\ historyModified' = NextToken(historyModified, now)
          /\ historyClearedAt' = cleared[d]
  /\ reply' = [reply EXCEPT ![d] = <<Snapshot(rows', historyClearedAt', historyModified')>>]
  /\ Close(d)
  /\ UNCHANGED seen

RollbackHistory(d) ==
  /\ d \in open
  /\ Close(d)
  /\ UNCHANGED <<server, reply, seen>>

DeliverReply(d) ==
  /\ reply[d] # <<>>
  /\ seen' = [seen EXCEPT ![d] = reply[d][1]]
  /\ reply' = [reply EXCEPT ![d] = <<>>]
  /\ UNCHANGED <<server, txn, open>>

LoseReply(d) ==
  /\ reply[d] # <<>>
  /\ reply' = [reply EXCEPT ![d] = <<>>]
  /\ UNCHANGED <<server, txn, open, seen>>

Next ==
  \E d \in Device :
    \/ BeginHistory(d)
    \/ \E m \in HistoryChange : Add(d, m.episode, m.mod)
    \/ \E m \in HistoryChange, now \in Clock : Delete(d, m.episode, m.mod, now)
    \/ \E mod \in Stamp, now \in Clock : ClearAll(d, mod, now)
    \/ \E now \in Clock : CommitHistory(d, now)
    \/ RollbackHistory(d)
    \/ DeliverReply(d)
    \/ LoseReply(d)

Spec == Init /\ [][Next]_vars

----------------------------------------------------------------------------
(* Properties. *)

Snapshots ==
  {Snapshot(rows, historyClearedAt, historyModified)} \cup {seen[d] : d \in Device}
    \cup UNION {Range(reply[d]) : d \in Device}

(* serverModified names the history: two snapshots with the same token are
   the same rows, tombstones included, and nobody holds a future token. *)
TokenNamesHistory ==
  \A s, t \in Snapshots :
    /\ s.token = t.token => s = t
    /\ s.token <= historyModified

(* Adds and deletes of an episode, from any device and in any order, leave
   the newest one: a deletion is undone only by a newer add, for as long as
   the row is not erased by a clear or by the cap. *)
NewestChangeKept ==
  \A e \in Episodes :
    IF e \in DOMAIN rows
    THEN rows[e] \in sent[e] /\ \A c \in sent[e] : c.mod <= rows[e].mod
    ELSE sent[e] = {}

=============================================================================
