---------------------------- MODULE DevicesProofs ----------------------------
(***************************************************************************)
(* For any devices, clocks, stamps and bounds of MCDevices: a token names  *)
(* one Up Next queue and one history, and the newest change of an episode's*)
(* history stays.  What a batch does to the queue (QueueFollowsChanges) is *)
(* a fold over its changes, and stays with the model checker.              *)
(***************************************************************************)
EXTENDS MCDevices, TLAPS

LEMMA NextTokenGrows ==
  ASSUME NEW prev \in Nat, NEW now \in Nat
  PROVE  NextToken(prev, now) \in Nat /\ NextToken(prev, now) > prev
BY DEF NextToken

----------------------------------------------------------------------------
(* Up Next.  A transaction without changes holds the queue that it read. *)
QueueTypes ==
  /\ upNextModified \in Nat
  /\ \A d, c \in open : d = c
  /\ DOMAIN batch = Device /\ DOMAIN work = Device /\ DOMAIN reply = Device /\ DOMAIN seen = Device
  /\ \A d \in Device : reply[d] # <<>> => 1 \in DOMAIN reply[d]
  /\ \A s \in Snapshots : s.token \in Nat
OnlyReads == \A d \in open : batch[d] = <<>> => work[d] = queue
QueueInv == QueueTypes /\ OnlyReads /\ TokenNamesQueue

LEMMA SnapshotParts ==
  /\ \A q, t : Snapshot(q, t).queue = q /\ Snapshot(q, t).token = t
  /\ \A s : s \in Snapshots <=>
       \/ s = Snapshot(queue, upNextModified)
       \/ \E d \in Device : s = seen[d]
       \/ \E d \in Device : s \in Range(reply[d])
BY DEF Snapshot, Snapshots

LEMMA OneSnapshot ==
  /\ Range(<<>>) = {}
  /\ \A s : Range(<<s>>) = {s} /\ 1 \in DOMAIN <<s>> /\ <<s>> # <<>>
  /\ \A f : 1 \in DOMAIN f => f[1] \in Range(f)
BY DEF Range

LEMMA NoChanges == \A q : ApplyChanges(q, <<>>) = q
<1> TAKE q
<1> DEFINE s == OldestFirst(<<>>)
<1>1. DOMAIN s = {}
  BY DEF OldestFirst
<1> HIDE DEF s
<1>2. FoldLeft(ApplyUpNextChange, q, s) = q
  BY <1>1 DEF FoldLeft, MapThenFoldSet
<1>3. QED
  BY <1>2 DEF ApplyChanges, s

(* A token that was not issued yet cannot name two queues. *)
LEMMA QueueTokens ==
  ASSUME QueueInv, Snapshots' \subseteq Snapshots \cup {Snapshot(queue', upNextModified')},
         \/ queue' = queue /\ upNextModified' = upNextModified
         \/ upNextModified' \in Nat /\ upNextModified' > upNextModified
  PROVE  TokenNamesQueue' /\ \A s \in Snapshots' : s.token \in Nat
<1>1. /\ upNextModified \in Nat
      /\ \A s \in Snapshots : s.token \in Nat /\ s.token <= upNextModified
      /\ \A s, t \in Snapshots : s.token = t.token => s.queue = t.queue
  BY DEF QueueInv, QueueTypes, TokenNamesQueue
<1> DEFINE new == Snapshot(queue', upNextModified')
<1>2. new.queue = queue' /\ new.token = upNextModified'
  BY SnapshotParts
<1>3. CASE queue' = queue /\ upNextModified' = upNextModified
  <2>1. new \in Snapshots
    BY <1>3, SnapshotParts
  <2>2. Snapshots' \subseteq Snapshots
    BY <2>1
  <2>3. QED
    BY <1>1, <1>3, <2>2 DEF TokenNamesQueue
<1>4. CASE upNextModified' \in Nat /\ upNextModified' > upNextModified
  <2> HIDE DEF new
  <2>1. \A s \in Snapshots : s.token # new.token /\ s.token <= upNextModified'
    BY <1>1, <1>2, <1>4
  <2>2. \A s \in Snapshots' : s \in Snapshots \/ s = new
    BY DEF new
  <2>3. \A s \in Snapshots' : s.token \in Nat /\ s.token <= upNextModified'
    BY <1>1, <1>2, <1>4, <2>1, <2>2
  <2>4. \A s, t \in Snapshots' : s.token = t.token => s.queue = t.queue
    BY <1>1, <2>1, <2>2
  <2>5. QED
    BY <2>3, <2>4 DEF TokenNamesQueue
<1>5. QED
  BY <1>3, <1>4

LEMMA QueueInitInv == Init => QueueInv
<1> SUFFICES ASSUME Init PROVE QueueInv
  OBVIOUS
<1>1. \A s \in Snapshots : s = Snapshot(<<>>, 0)
  BY SnapshotParts, OneSnapshot DEF Init
<1>2. QueueTypes
  BY <1>1, SnapshotParts DEF Init, QueueTypes
<1>3. OnlyReads
  BY DEF Init, OnlyReads
<1>4. TokenNamesQueue
  BY <1>1, SnapshotParts DEF Init, TokenNamesQueue
<1>5. QED
  BY <1>2, <1>3, <1>4 DEF QueueInv

LEMMA BeginQueueKept ==
  ASSUME QueueInv, NEW d \in Device, NEW changes, BeginUpNext(d, changes) PROVE QueueInv'
<1>1. /\ open = {} /\ open' = {d}
      /\ batch' = [batch EXCEPT ![d] = changes]
      /\ work' = [work EXCEPT ![d] = ApplyChanges(queue, changes)]
      /\ UNCHANGED <<queue, upNextModified, reply, seen>>
  BY DEF BeginUpNext, LockFree
<1>2. Snapshots' = Snapshots
  BY <1>1 DEF Snapshots, Snapshot
<1>3. TokenNamesQueue' /\ \A s \in Snapshots' : s.token \in Nat
  BY <1>1, <1>2, QueueTokens
<1>4. QueueTypes'
  BY <1>1, <1>3 DEF QueueInv, QueueTypes
<1>5. OnlyReads'
  <2>1. batch'[d] = changes /\ work'[d] = ApplyChanges(queue, changes)
    BY <1>1 DEF QueueInv, QueueTypes
  <2>2. QED
    BY <1>1, <2>1, NoChanges DEF OnlyReads
<1>6. QED
  BY <1>3, <1>4, <1>5 DEF QueueInv

LEMMA CommitQueueKept ==
  ASSUME QueueInv, NEW d \in Device, NEW now \in Clock, CommitUpNext(d, now) PROVE QueueInv'
<1>1. /\ d \in open /\ queue' = work[d] /\ open' = open \ {d}
      /\ upNextModified' = IF batch[d] = <<>> THEN upNextModified ELSE NextToken(upNextModified, now)
      /\ reply' = [reply EXCEPT ![d] = <<Snapshot(queue', upNextModified')>>]
      /\ seen' = seen
      /\ batch' = [batch EXCEPT ![d] = <<>>] /\ work' = [work EXCEPT ![d] = <<>>]
  BY DEF CommitUpNext, Unlock
<1>2. upNextModified \in Nat /\ now \in Nat /\ DOMAIN reply = Device
  BY UpNextAssumption DEF QueueInv, QueueTypes
<1>3. \/ queue' = queue /\ upNextModified' = upNextModified
      \/ upNextModified' \in Nat /\ upNextModified' > upNextModified
  <2>1. CASE batch[d] = <<>>
    BY <1>1, <2>1 DEF QueueInv, OnlyReads
  <2>2. CASE batch[d] # <<>>
    BY <1>1, <1>2, <2>2, NextTokenGrows
  <2>3. QED
    BY <2>1, <2>2
<1> DEFINE new == Snapshot(queue', upNextModified')
<1>4. reply'[d] = <<new>> /\ \A c \in Device \ {d} : reply'[c] = reply[c]
  BY <1>1, <1>2
<1>5. Snapshots' \subseteq Snapshots \cup {new}
  <2>1. \A s \in Snapshots' : \/ s = new
                              \/ \E c \in Device : s = seen[c]
                              \/ \E c \in Device : s \in Range(reply'[c])
    BY <1>1 DEF Snapshots, Snapshot
  <2>2. Range(reply'[d]) = {new}
    BY <1>4, OneSnapshot
  <2>3. \A c \in Device \ {d} : Range(reply'[c]) = Range(reply[c])
    BY <1>4
  <2> HIDE DEF new
  <2>4. QED
    BY <2>1, <2>2, <2>3, SnapshotParts
<1>6. TokenNamesQueue' /\ \A s \in Snapshots' : s.token \in Nat
  BY <1>3, <1>5, QueueTokens
<1>7. QueueTypes'
  <2>1. upNextModified' \in Nat
    BY <1>2, <1>3
  <2>2. \A c \in Device : reply'[c] # <<>> => 1 \in DOMAIN reply'[c]
    BY <1>4, OneSnapshot DEF QueueInv, QueueTypes
  <2>3. /\ DOMAIN batch' = Device /\ DOMAIN work' = Device /\ DOMAIN reply' = Device
        /\ DOMAIN seen' = Device /\ \A c, e \in open' : c = e
    BY <1>1 DEF QueueInv, QueueTypes
  <2>4. QED
    BY <1>6, <2>1, <2>2, <2>3 DEF QueueTypes
<1>8. OnlyReads'
  <2>1. open' = {}
    BY <1>1 DEF QueueInv, QueueTypes
  <2>2. QED
    BY <2>1 DEF OnlyReads
<1>9. QED
  BY <1>6, <1>7, <1>8 DEF QueueInv

LEMMA RollbackQueueKept == ASSUME QueueInv, NEW d \in Device, RollbackUpNext(d) PROVE QueueInv'
<1>1. /\ d \in open /\ open' = open \ {d}
      /\ batch' = [batch EXCEPT ![d] = <<>>] /\ work' = [work EXCEPT ![d] = <<>>]
      /\ UNCHANGED <<queue, upNextModified, reply, seen>>
  BY DEF RollbackUpNext, Unlock
<1>2. Snapshots' = Snapshots
  BY <1>1 DEF Snapshots, Snapshot
<1>3. TokenNamesQueue' /\ \A s \in Snapshots' : s.token \in Nat
  BY <1>1, <1>2, QueueTokens
<1>4. QueueTypes'
  BY <1>1, <1>3 DEF QueueInv, QueueTypes
<1>5. open' = {}
  BY <1>1 DEF QueueInv, QueueTypes
<1>6. QED
  BY <1>3, <1>4, <1>5 DEF QueueInv, OnlyReads

LEMMA ResponseQueueKept ==
  ASSUME QueueInv, NEW d \in Device, DeliverReply(d) \/ LoseReply(d) PROVE QueueInv'
<1>1. /\ reply[d] # <<>> /\ reply' = [reply EXCEPT ![d] = <<>>]
      /\ seen' = seen \/ seen' = [seen EXCEPT ![d] = reply[d][1]]
      /\ UNCHANGED <<queue, upNextModified, open, batch, work>>
  BY DEF DeliverReply, LoseReply
<1>2. DOMAIN reply = Device /\ DOMAIN seen = Device /\ 1 \in DOMAIN reply[d]
  BY <1>1 DEF QueueInv, QueueTypes
<1>3. reply[d][1] \in Range(reply[d])
  BY <1>2, OneSnapshot
<1>4. Snapshots' \subseteq Snapshots
  <2>1. \A s \in Snapshots' : \/ s = Snapshot(queue, upNextModified)
                              \/ \E c \in Device : s = seen'[c]
                              \/ \E c \in Device : s \in Range(reply'[c])
    BY <1>1 DEF Snapshots, Snapshot
  <2>2. \A c \in Device : seen'[c] = seen[c] \/ seen'[c] \in Range(reply[d])
    BY <1>1, <1>2, <1>3
  <2>3. \A c \in Device : reply'[c] = <<>> \/ reply'[c] = reply[c]
    BY <1>1, <1>2
  <2>4. \A c \in Device : Range(reply'[c]) \subseteq Range(reply[c])
    BY <2>3, OneSnapshot
  <2>5. QED
    BY <2>1, <2>2, <2>4, SnapshotParts
<1>5. TokenNamesQueue' /\ \A s \in Snapshots' : s.token \in Nat
  BY <1>1, <1>4, QueueTokens
<1>6. QueueTypes'
  <2>1. \A c \in Device : reply'[c] # <<>> => 1 \in DOMAIN reply'[c]
    BY <1>1, <1>2 DEF QueueInv, QueueTypes
  <2>2. DOMAIN reply' = Device /\ DOMAIN seen' = Device
    BY <1>1, <1>2
  <2>3. QED
    BY <1>1, <1>5, <2>1, <2>2 DEF QueueInv, QueueTypes
<1>7. OnlyReads'
  BY <1>1 DEF QueueInv, OnlyReads
<1>8. QED
  BY <1>5, <1>6, <1>7 DEF QueueInv

LEMMA QueueStepInv == QueueInv /\ [Next]_vars => QueueInv'
<1> SUFFICES ASSUME QueueInv, [Next]_vars PROVE QueueInv'
  OBVIOUS
<1>1. ASSUME NEW d \in Device, NEW changes \in Batches, BeginUpNext(d, changes) PROVE QueueInv'
  BY <1>1, BeginQueueKept
<1>2. ASSUME NEW d \in Device, NEW now \in Clock, CommitUpNext(d, now) PROVE QueueInv'
  BY <1>2, CommitQueueKept
<1>3. ASSUME NEW d \in Device, RollbackUpNext(d) \/ DeliverReply(d) \/ LoseReply(d) PROVE QueueInv'
  BY <1>3, RollbackQueueKept, ResponseQueueKept
<1>4. CASE UNCHANGED vars
  <2>1. UNCHANGED <<queue, upNextModified, open, batch, work, reply, seen>>
    BY <1>4 DEF vars
  <2>2. Snapshots' = Snapshots
    BY <2>1 DEF Snapshots, Snapshot
  <2>3. QED
    BY <2>1, <2>2 DEF QueueInv, QueueTypes, OnlyReads, TokenNamesQueue
<1>5. QED
  BY <1>1, <1>2, <1>3, <1>4 DEF Next

----------------------------------------------------------------------------
(* History.  Entry(r, e) is what r has of e, and NewestIn(r, s) says that it is the
   newest of the changes s. *)
Entries == [mod : Nat, deleted : BOOLEAN]
IsTable(r) == DOMAIN r \subseteq Episodes /\ \A e \in DOMAIN r : r[e] \in Entries
NewestIn(r, s) ==
  \A e \in Episodes :
    IF e \in DOMAIN r THEN r[e] \in s[e] /\ \A c \in s[e] : c.mod <= r[e].mod
    ELSE s[e] = {}
Changes(d) ==
  [e \in Episodes |-> (IF e \in erased[d] THEN {} ELSE sent[e]) \cup workSent[d][e]]

HistoryTypes ==
  /\ historyModified \in Nat
  /\ \A d, c \in hopen : d = c
  /\ DOMAIN hreply = Device /\ DOMAIN hseen = Device
  /\ DOMAIN hwork = Device /\ DOMAIN cleared = Device
  /\ erased \in [Device -> SUBSET Episodes]
  /\ workSent \in [Device -> [Episodes -> SUBSET Entries]]
  /\ sent \in [Episodes -> SUBSET Entries]
  /\ IsTable(rows) /\ \A d \in hopen : IsTable(hwork[d])
  /\ \A d \in Device : hreply[d] # <<>> => 1 \in DOMAIN hreply[d]
  /\ \A s \in Listened!Snapshots : s.token \in Nat
Closed == \A d \in Device \ hopen : erased[d] = {} /\ workSent[d] = Listened!NoChange
NewestHeld == NewestIn(rows, sent) /\ \A d \in hopen : NewestIn(hwork[d], Changes(d))
HistoryInv == HistoryTypes /\ Closed /\ NewestHeld /\ Listened!TokenNamesHistory

LEMMA HistorySnapshots ==
  /\ \A r, c, t : Listened!Snapshot(r, c, t).token = t
  /\ \A s : s \in Listened!Snapshots <=>
       \/ s = Listened!Snapshot(rows, historyClearedAt, historyModified)
       \/ \E d \in Device : s = hseen[d]
       \/ \E d \in Device : s \in Listened!Range(hreply[d])
BY DEF Listened!Snapshot, Listened!Snapshots

LEMMA OneHistory ==
  /\ Listened!Range(<<>>) = {}
  /\ \A s : Listened!Range(<<s>>) = {s} /\ 1 \in DOMAIN <<s>> /\ <<s>> # <<>>
  /\ \A f : 1 \in DOMAIN f => f[1] \in Listened!Range(f)
BY DEF Listened!Range

LEMMA StampFacts ==
  /\ \A p \in Nat, n \in Clock : Listened!NextToken(p, n) \in Nat /\ Listened!NextToken(p, n) > p
  /\ \A m \in Stamp \cup {0}, n \in Clock : historyModified \in Nat => Listened!Given(m, n) \in Nat
  /\ Stamp \cup {0} \subseteq Nat
<1>1. Stamp \subseteq Nat /\ Clock \subseteq Nat
  BY UpNextAssumption
<1>2. \A p \in Nat, n \in Clock : Listened!NextToken(p, n) \in Nat /\ Listened!NextToken(p, n) > p
  BY <1>1 DEF Listened!NextToken
<1>3. \A m \in Stamp \cup {0}, n \in Clock : historyModified \in Nat => Listened!Given(m, n) \in Nat
  BY <1>1, <1>2 DEF Listened!Given
<1>4. QED
  BY <1>1, <1>2, <1>3

LEMMA HistoryTokens ==
  ASSUME HistoryInv,
         Listened!Snapshots' \subseteq Listened!Snapshots
           \cup {Listened!Snapshot(rows', historyClearedAt', historyModified')},
         \/ UNCHANGED <<rows, historyClearedAt, historyModified>>
         \/ historyModified' \in Nat /\ historyModified' > historyModified
  PROVE  Listened!TokenNamesHistory' /\ \A s \in Listened!Snapshots' : s.token \in Nat
<1>1. /\ historyModified \in Nat
      /\ \A s \in Listened!Snapshots : s.token \in Nat /\ s.token <= historyModified
      /\ \A s, t \in Listened!Snapshots : s.token = t.token => s = t
  BY DEF HistoryInv, HistoryTypes, Listened!TokenNamesHistory
<1> DEFINE new == Listened!Snapshot(rows', historyClearedAt', historyModified')
<1>2. new.token = historyModified'
  BY HistorySnapshots
<1>3. CASE UNCHANGED <<rows, historyClearedAt, historyModified>>
  <2>1. new \in Listened!Snapshots
    BY <1>3, HistorySnapshots
  <2>2. Listened!Snapshots' \subseteq Listened!Snapshots
    BY <2>1
  <2>3. QED
    BY <1>1, <1>3, <2>2 DEF Listened!TokenNamesHistory
<1>4. CASE historyModified' \in Nat /\ historyModified' > historyModified
  <2> HIDE DEF new
  <2>1. \A s \in Listened!Snapshots : s.token # new.token /\ s.token <= historyModified'
    BY <1>1, <1>2, <1>4
  <2>2. \A s \in Listened!Snapshots' : s \in Listened!Snapshots \/ s = new
    BY DEF new
  <2>3. \A s \in Listened!Snapshots' : s.token \in Nat /\ s.token <= historyModified'
    BY <1>1, <1>2, <1>4, <2>1, <2>2
  <2>4. \A s, t \in Listened!Snapshots' : s.token = t.token => s = t
    BY <1>1, <2>1, <2>2
  <2>5. QED
    BY <2>3, <2>4 DEF Listened!TokenNamesHistory
<1>5. QED
  BY <1>3, <1>4

LEMMA HistoryInitInv == Listened!Init => HistoryInv
<1> SUFFICES ASSUME Listened!Init PROVE HistoryInv
  OBVIOUS
<1>1. /\ rows = Listened!NoRows /\ historyModified = 0 /\ historyClearedAt = 0 /\ hopen = {}
      /\ hwork = [d \in Device |-> Listened!NoRows] /\ cleared = [d \in Device |-> 0]
      /\ nchg = [d \in Device |-> 0] /\ hreply = [d \in Device |-> <<>>]
      /\ hseen = [d \in Device |-> Listened!Snapshot(Listened!NoRows, 0, 0)]
      /\ sent = Listened!NoChange /\ workSent = [d \in Device |-> Listened!NoChange]
      /\ erased = [d \in Device |-> {}]
  BY DEF Listened!Init
<1>2. \A s \in Listened!Snapshots : s = Listened!Snapshot(Listened!NoRows, 0, 0)
  BY <1>1, HistorySnapshots, OneHistory
<1>3. DOMAIN Listened!NoRows = {} /\ Listened!NoChange \in [Episodes -> SUBSET Entries]
  BY DEF Listened!NoRows, Listened!NoChange
<1>4. HistoryTypes
  BY <1>1, <1>2, <1>3, HistorySnapshots DEF HistoryTypes, IsTable
<1>5. Closed
  BY <1>1 DEF Closed
<1>6. NewestHeld
  BY <1>1, <1>3 DEF NewestHeld, NewestIn, Listened!NoChange
<1>7. Listened!TokenNamesHistory
  BY <1>1, <1>2, HistorySnapshots DEF Listened!TokenNamesHistory
<1>8. QED
  BY <1>4, <1>5, <1>6, <1>7 DEF HistoryInv

(* What the statements do to a table and to the newest of its changes. *)
LEMMA PutKeepsNewest ==
  ASSUME NEW r, IsTable(r), NEW s \in [Episodes -> SUBSET Entries], NewestIn(r, s),
         NEW e \in Episodes, NEW x \in Entries, NEW t,
         \A y \in Episodes : t[y] = IF y = e THEN s[y] \cup {x} ELSE s[y]
  PROVE  IsTable(Listened!Put(r, e, x)) /\ NewestIn(Listened!Put(r, e, x), t)
<1> DEFINE p == Listened!Put(r, e, x)
<1>1. /\ DOMAIN p = DOMAIN r \cup {e}
      /\ \A y \in DOMAIN r \cup {e} :
           p[y] = IF y = e /\ (e \in DOMAIN r => x.mod > r[e].mod) THEN x ELSE r[y]
  BY DEF Listened!Put
<1>2. DOMAIN r \subseteq Episodes /\ \A y \in DOMAIN r : r[y] \in Entries
  BY DEF IsTable
<1>3. \A z \in Entries : z.mod \in Nat
  BY DEF Entries
<1>4. \A y \in Episodes : \A c \in s[y] : c \in Entries
  OBVIOUS
<1>5. \A y \in Episodes :
        IF y \in DOMAIN r THEN r[y] \in s[y] /\ \A c \in s[y] : c.mod <= r[y].mod ELSE s[y] = {}
  BY DEF NewestIn
<1> HIDE DEF p
<1>6. IsTable(p)
  BY <1>1, <1>2 DEF IsTable
<1>7. ASSUME NEW y \in Episodes
      PROVE  IF y \in DOMAIN p THEN p[y] \in t[y] /\ \A c \in t[y] : c.mod <= p[y].mod ELSE t[y] = {}
  <2>1. CASE y # e
    BY <1>1, <1>5, <2>1
  <2>2. CASE y = e /\ e \notin DOMAIN r
    <3>1. s[e] = {} /\ t[e] = {x} /\ p[e] = x
      BY <1>1, <1>5, <2>2
    <3>2. x.mod \in Nat
      BY <1>3
    <3>3. QED
      BY <1>1, <2>2, <3>1, <3>2
  <2>3. CASE y = e /\ e \in DOMAIN r
    <3>1. /\ t[e] = s[e] \cup {x} /\ r[e] \in s[e] /\ \A c \in s[e] : c.mod <= r[e].mod /\ c.mod \in Nat
          /\ r[e].mod \in Nat /\ x.mod \in Nat
      BY <1>2, <1>3, <1>4, <1>5, <2>3
    <3>2. CASE x.mod > r[e].mod
      <4>1. p[e] = x
        BY <1>1, <2>3, <3>2
      <4>2. QED
        BY <1>1, <2>3, <3>1, <3>2, <4>1
    <3>3. CASE ~(x.mod > r[e].mod)
      <4>1. p[e] = r[e]
        BY <1>1, <2>3, <3>3
      <4>2. QED
        BY <1>1, <2>3, <3>1, <3>3, <4>1
    <3>4. QED
      BY <3>2, <3>3
  <2>4. QED
    BY <2>1, <2>2, <2>3
<1>8. QED
  BY <1>6, <1>7 DEF NewestIn, p

LEMMA AfterKeepsNewest ==
  ASSUME NEW r, IsTable(r), NEW s, NewestIn(r, s), NEW c, NEW u,
         \A y \in Episodes : u[y] = IF y \in DOMAIN Listened!After(r, c) THEN s[y] ELSE {}
  PROVE  /\ IsTable(Listened!After(r, c)) /\ NewestIn(Listened!After(r, c), u)
         /\ DOMAIN Listened!After(r, c) \subseteq DOMAIN r
<1> DEFINE p == Listened!After(r, c)
<1>1. DOMAIN p \subseteq DOMAIN r /\ \A y \in DOMAIN p : p[y] = r[y]
  BY DEF Listened!After, Listened!Restrict
<1> HIDE DEF p
<1>2. IsTable(p)
  BY <1>1 DEF IsTable
<1>3. NewestIn(p, u)
  BY <1>1 DEF NewestIn, p
<1>4. QED
  BY <1>1, <1>2, <1>3 DEF p

(* The statements of a transaction change its own table only. *)
LEMMA TransactionKept ==
  ASSUME HistoryInv, NEW d \in hopen, d \in Device,
         UNCHANGED <<rows, historyModified, historyClearedAt, sent, hopen, hreply, hseen>>,
         DOMAIN hwork' = Device, DOMAIN cleared' = Device,
         erased' \in [Device -> SUBSET Episodes],
         workSent' \in [Device -> [Episodes -> SUBSET Entries]],
         \A c \in Device \ {d} : erased'[c] = erased[c] /\ workSent'[c] = workSent[c],
         IsTable(hwork'[d]), NewestIn(hwork'[d], Changes(d)')
  PROVE  HistoryInv'
<1>1. HistoryTypes /\ Closed /\ NewestHeld
  BY DEF HistoryInv
<1>2. hopen = {d} /\ hopen' = {d}
  BY <1>1 DEF HistoryTypes
<1>3. Listened!Snapshots' = Listened!Snapshots
  BY DEF Listened!Snapshots, Listened!Snapshot
<1>4. Listened!TokenNamesHistory' /\ \A s \in Listened!Snapshots' : s.token \in Nat
  BY <1>3, HistoryTokens
<1>5. HistoryTypes'
  <2>1. IsTable(rows') /\ \A c \in hopen' : IsTable(hwork'[c])
    BY <1>1, <1>2 DEF HistoryTypes
  <2>2. /\ historyModified' \in Nat /\ DOMAIN hreply' = Device /\ DOMAIN hseen' = Device
        /\ sent' \in [Episodes -> SUBSET Entries]
        /\ \A c \in Device : hreply'[c] # <<>> => 1 \in DOMAIN hreply'[c]
    BY <1>1 DEF HistoryTypes
  <2>3. QED
    BY <1>2, <1>4, <2>1, <2>2 DEF HistoryTypes, IsTable
<1>6. Closed'
  BY <1>1, <1>2 DEF Closed, Listened!NoChange
<1>7. NewestHeld'
  <2>1. NewestIn(rows, sent)'
    BY <1>1 DEF NewestHeld, NewestIn
  <2>2. \A c \in hopen' : NewestIn(hwork[c], Changes(c))'
    BY <1>2 DEF NewestIn
  <2>3. QED
    BY <2>1, <2>2 DEF NewestHeld
<1>8. QED
  BY <1>4, <1>5, <1>6, <1>7 DEF HistoryInv

LEMMA BeginHistoryKept == ASSUME HistoryInv, NEW d \in Device, Listened!BeginHistory(d) PROVE HistoryInv'
<1>1. /\ hopen = {} /\ hopen' = {d} /\ hwork' = [hwork EXCEPT ![d] = rows]
      /\ cleared' = [cleared EXCEPT ![d] = historyClearedAt]
      /\ UNCHANGED <<rows, historyModified, historyClearedAt, sent, workSent, erased, hreply, hseen>>
  BY DEF Listened!BeginHistory, Listened!LockFree, Listened!server
<1>2. HistoryTypes /\ Closed /\ NewestHeld
  BY DEF HistoryInv
<1>3. Listened!Snapshots' = Listened!Snapshots
  BY <1>1 DEF Listened!Snapshots, Listened!Snapshot
<1>4. Listened!TokenNamesHistory' /\ \A s \in Listened!Snapshots' : s.token \in Nat
  BY <1>1, <1>3, HistoryTokens
<1>5. hwork'[d] = rows
  BY <1>1, <1>2 DEF HistoryTypes
<1>6. HistoryTypes'
  <2>1. IsTable(rows)' /\ \A c \in hopen' : IsTable(hwork[c])'
    BY <1>1, <1>2, <1>5 DEF HistoryTypes, IsTable
  <2>2. QED
    BY <1>1, <1>2, <1>4, <2>1 DEF HistoryTypes
<1>7. Closed'
  BY <1>1, <1>2 DEF Closed, Listened!NoChange
<1>8. NewestHeld'
  <2>1. erased[d] = {} /\ workSent[d] = Listened!NoChange
    BY <1>1, <1>2 DEF Closed
  <2>2. \A e \in Episodes : Changes(d)'[e] = sent[e]
    BY <1>1, <2>1 DEF Changes, Listened!NoChange
  <2>3. NewestIn(rows, sent)' /\ NewestIn(hwork[d], Changes(d))'
    BY <1>1, <1>2, <1>5, <2>2 DEF NewestHeld, NewestIn
  <2>4. QED
    BY <1>1, <2>3 DEF NewestHeld
<1>9. QED
  BY <1>4, <1>6, <1>7, <1>8 DEF HistoryInv

LEMMA StoreKept ==
  ASSUME HistoryInv, NEW d \in Device, d \in hopen, NEW e \in Episodes, NEW x \in Entries,
         Listened!Store(d, e, x)
  PROVE  HistoryInv'
<1>1. /\ hwork' = [hwork EXCEPT ![d] = Listened!Put(hwork[d], e, x)]
      /\ workSent' = [workSent EXCEPT ![d][e] = workSent[d][e] \cup {x}]
      /\ UNCHANGED <<rows, historyModified, historyClearedAt, sent, hopen, cleared, erased, hreply, hseen>>
  BY DEF Listened!Store, Listened!server
<1>2. HistoryTypes /\ NewestHeld
  BY DEF HistoryInv
<1>3. /\ DOMAIN hwork = Device /\ DOMAIN cleared = Device /\ sent \in [Episodes -> SUBSET Entries]
      /\ erased \in [Device -> SUBSET Episodes] /\ workSent \in [Device -> [Episodes -> SUBSET Entries]]
      /\ IsTable(hwork[d])
  BY <1>2 DEF HistoryTypes
<1>4. hwork'[d] = Listened!Put(hwork[d], e, x) /\ DOMAIN hwork' = Device
  BY <1>1, <1>3
<1>5. /\ workSent' \in [Device -> [Episodes -> SUBSET Entries]]
      /\ \A c \in Device \ {d} : workSent'[c] = workSent[c]
      /\ \A y \in Episodes : workSent'[d][y] = IF y = e THEN workSent[d][y] \cup {x} ELSE workSent[d][y]
  BY <1>1, <1>3
<1>6. Changes(d) \in [Episodes -> SUBSET Entries]
  BY <1>3 DEF Changes
<1>7. \A y \in Episodes : Changes(d)'[y] = IF y = e THEN Changes(d)[y] \cup {x} ELSE Changes(d)[y]
  BY <1>1, <1>5 DEF Changes
<1>8. NewestIn(hwork[d], Changes(d))
  BY <1>2 DEF NewestHeld
<1>9. IsTable(hwork'[d]) /\ NewestIn(hwork'[d], Changes(d)')
  <2> DEFINE r == hwork[d]
             s == Changes(d)
             t == Changes(d)'
  <2>1. IsTable(r) /\ s \in [Episodes -> SUBSET Entries] /\ NewestIn(r, s)
    BY <1>3, <1>6, <1>8
  <2>2. \A y \in Episodes : t[y] = IF y = e THEN s[y] \cup {x} ELSE s[y]
    BY <1>7
  <2>3. hwork'[d] = Listened!Put(r, e, x)
    BY <1>4
  <2> HIDE DEF r, s, t
  <2>4. IsTable(Listened!Put(r, e, x)) /\ NewestIn(Listened!Put(r, e, x), t)
    BY <2>1, <2>2, PutKeepsNewest
  <2>5. QED
    BY <2>3, <2>4 DEF t
<1>10. QED
  BY <1>1, <1>3, <1>4, <1>5, <1>9, TransactionKept

LEMMA ClearAllKept ==
  ASSUME HistoryInv, NEW d \in Device, NEW m \in Stamp \cup {0}, NEW now \in Clock, Listened!ClearAll(d, m, now)
  PROVE  HistoryInv'
<1> DEFINE c == Listened!Given(m, now)
           kept == Listened!After(hwork[d], c)
<1>1. /\ d \in hopen /\ hwork' = [hwork EXCEPT ![d] = kept] /\ cleared' = [cleared EXCEPT ![d] = c]
      /\ workSent' = [workSent EXCEPT ![d] = Listened!Forget(workSent[d], kept)]
      /\ erased' = [erased EXCEPT ![d] = erased[d] \cup (DOMAIN hwork[d] \ DOMAIN kept)]
      /\ UNCHANGED <<rows, historyModified, historyClearedAt, sent, hopen, hreply, hseen>>
  BY DEF Listened!ClearAll, Listened!CanChange, Listened!server
<1>2. HistoryTypes /\ NewestHeld
  BY DEF HistoryInv
<1>3. /\ DOMAIN hwork = Device /\ DOMAIN cleared = Device /\ sent \in [Episodes -> SUBSET Entries]
      /\ erased \in [Device -> SUBSET Episodes] /\ workSent \in [Device -> [Episodes -> SUBSET Entries]]
      /\ IsTable(hwork[d]) /\ NewestIn(hwork[d], Changes(d))
  BY <1>1, <1>2 DEF HistoryTypes, NewestHeld
<1>4. kept = Listened!After(hwork[d], c)
  OBVIOUS
<1> HIDE DEF kept, c
<1>5. /\ hwork'[d] = kept /\ DOMAIN hwork' = Device /\ DOMAIN cleared' = Device
      /\ workSent'[d] = Listened!Forget(workSent[d], kept)
      /\ erased'[d] = erased[d] \cup (DOMAIN hwork[d] \ DOMAIN kept)
      /\ \A b \in Device \ {d} : erased'[b] = erased[b] /\ workSent'[b] = workSent[b]
  BY <1>1, <1>3
<1>6. DOMAIN kept \subseteq DOMAIN hwork[d]
  BY <1>4 DEF Listened!After, Listened!Restrict
<1>7. Listened!Forget(workSent[d], kept) \in [Episodes -> SUBSET Entries]
  BY <1>3 DEF Listened!Forget
<1>8. workSent' \in [Device -> [Episodes -> SUBSET Entries]] /\ erased' \in [Device -> SUBSET Episodes]
  BY <1>1, <1>3, <1>7 DEF IsTable
<1>9. \A y \in Episodes : Changes(d)'[y] = IF y \in DOMAIN kept THEN Changes(d)[y] ELSE {}
  <2>1. ASSUME NEW y \in Episodes, y \in DOMAIN kept PROVE Changes(d)'[y] = Changes(d)[y]
    BY <1>1, <1>5, <1>6, <2>1 DEF Changes, Listened!Forget
  <2>2. ASSUME NEW y \in Episodes, y \notin DOMAIN kept PROVE Changes(d)'[y] = {}
    <3>1. workSent'[d][y] = {}
      BY <1>5, <2>2 DEF Listened!Forget
    <3>2. CASE y \in DOMAIN hwork[d]
      BY <1>5, <2>2, <3>1, <3>2 DEF Changes
    <3>3. CASE y \notin DOMAIN hwork[d]
      <4>1. Changes(d)[y] = {}
        BY <1>3, <3>3 DEF NewestIn
      <4>2. y \in erased[d] \/ sent[y] = {}
        BY <4>1 DEF Changes
      <4>3. QED
        BY <1>1, <1>5, <3>1, <4>2 DEF Changes
    <3>4. QED
      BY <3>2, <3>3
  <2>3. QED
    BY <2>1, <2>2
<1>10. IsTable(hwork'[d]) /\ NewestIn(hwork'[d], Changes(d)')
  <2> DEFINE r == hwork[d]
             s == Changes(d)
             u == Changes(d)'
  <2>1. IsTable(r) /\ NewestIn(r, s) /\ kept = Listened!After(r, c)
    BY <1>3, <1>4
  <2>2. \A y \in Episodes : u[y] = IF y \in DOMAIN Listened!After(r, c) THEN s[y] ELSE {}
    BY <1>9, <2>1
  <2> HIDE DEF r, s, u
  <2>3. IsTable(kept) /\ NewestIn(kept, u)
    BY <2>1, <2>2, AfterKeepsNewest
  <2>4. QED
    BY <1>5, <2>3 DEF u
<1>11. QED
  BY <1>1, <1>5, <1>8, <1>10, TransactionKept

LEMMA CommitHistoryKept ==
  ASSUME HistoryInv, NEW d \in Device, NEW now \in Clock, Listened!CommitHistory(d, now) PROVE HistoryInv'
<1> DEFINE new == Listened!Snapshot(rows', historyClearedAt', historyModified')
<1>1. /\ d \in hopen /\ hopen' = hopen \ {d} /\ hseen' = hseen
      /\ hreply' = [hreply EXCEPT ![d] = <<new>>]
      /\ hwork' = [hwork EXCEPT ![d] = Listened!NoRows] /\ cleared' = [cleared EXCEPT ![d] = 0]
      /\ workSent' = [workSent EXCEPT ![d] = Listened!NoChange]
      /\ erased' = [erased EXCEPT ![d] = {}]
  BY DEF Listened!CommitHistory, Listened!Close
<1>2. \/ UNCHANGED <<rows, historyModified, historyClearedAt, sent>>
      \/ /\ rows' \in Listened!Trimmed(hwork[d]) /\ sent' = Listened!Forget(Changes(d), rows')
         /\ historyModified' = Listened!NextToken(historyModified, now)
  <2>1. Changes(d) = Listened!SentBy(d)
    BY DEF Changes, Listened!SentBy
  <2>2. QED
    BY <2>1 DEF Listened!CommitHistory, Listened!server
<1>3. HistoryTypes /\ Closed /\ NewestHeld
  BY DEF HistoryInv
<1>4. /\ historyModified \in Nat /\ DOMAIN hwork = Device /\ DOMAIN cleared = Device
      /\ DOMAIN hreply = Device /\ DOMAIN hseen = Device
      /\ sent \in [Episodes -> SUBSET Entries] /\ erased \in [Device -> SUBSET Episodes]
      /\ workSent \in [Device -> [Episodes -> SUBSET Entries]]
      /\ IsTable(rows) /\ IsTable(hwork[d]) /\ hopen = {d}
      /\ NewestIn(rows, sent) /\ NewestIn(hwork[d], Changes(d))
  BY <1>1, <1>3 DEF HistoryTypes, NewestHeld
<1>5. IsTable(rows') /\ NewestIn(rows', sent') /\ sent' \in [Episodes -> SUBSET Entries]
  <2>1. CASE UNCHANGED <<rows, historyModified, historyClearedAt, sent>>
    BY <1>4, <2>1 DEF IsTable, NewestIn
  <2>2. CASE rows' \in Listened!Trimmed(hwork[d]) /\ sent' = Listened!Forget(Changes(d), rows')
    <3>1. DOMAIN rows' \subseteq DOMAIN hwork[d] /\ \A e \in DOMAIN rows' : rows'[e] = hwork[d][e]
      BY <2>2 DEF Listened!Trimmed, Listened!Restrict
    <3>2. \A e \in Episodes : sent'[e] = IF e \in DOMAIN rows' THEN Changes(d)[e] ELSE {}
      BY <2>2 DEF Listened!Forget
    <3>3. Changes(d) \in [Episodes -> SUBSET Entries]
      BY <1>4 DEF Changes
    <3>4. sent' \in [Episodes -> SUBSET Entries]
      BY <2>2, <3>3 DEF Listened!Forget
    <3>5. QED
      BY <1>4, <3>1, <3>2, <3>4 DEF IsTable, NewestIn
  <2>3. QED
    BY <1>2, <2>1, <2>2
<1>6. \/ UNCHANGED <<rows, historyClearedAt, historyModified>>
      \/ historyModified' \in Nat /\ historyModified' > historyModified
  BY <1>2, <1>4, StampFacts
<1>7. hreply'[d] = <<new>> /\ \A c \in Device \ {d} : hreply'[c] = hreply[c]
  BY <1>1, <1>4
<1>8. Listened!Snapshots' \subseteq Listened!Snapshots \cup {new}
  <2>1. \A s \in Listened!Snapshots' : \/ s = new
                                       \/ \E c \in Device : s = hseen[c]
                                       \/ \E c \in Device : s \in Listened!Range(hreply'[c])
    BY <1>1 DEF Listened!Snapshots, Listened!Snapshot
  <2>2. Listened!Range(hreply'[d]) = {new}
    BY <1>7, OneHistory
  <2>3. \A c \in Device \ {d} : Listened!Range(hreply'[c]) = Listened!Range(hreply[c])
    BY <1>7
  <2> HIDE DEF new
  <2>4. QED
    BY <2>1, <2>2, <2>3, HistorySnapshots
<1>9. Listened!TokenNamesHistory' /\ \A s \in Listened!Snapshots' : s.token \in Nat
  BY <1>6, <1>8, HistoryTokens
<1>10. hopen' = {}
  BY <1>1, <1>4
<1>11. HistoryTypes'
  <2>1. historyModified' \in Nat
    BY <1>4, <1>6
  <2>2. \A c \in Device : hreply'[c] # <<>> => 1 \in DOMAIN hreply'[c]
    BY <1>3, <1>7, OneHistory DEF HistoryTypes
  <2>3. Listened!NoChange \in [Episodes -> SUBSET Entries]
    BY DEF Listened!NoChange
  <2>4. /\ DOMAIN hreply' = Device /\ DOMAIN hseen' = Device /\ DOMAIN hwork' = Device
        /\ DOMAIN cleared' = Device /\ erased' \in [Device -> SUBSET Episodes]
        /\ workSent' \in [Device -> [Episodes -> SUBSET Entries]]
    BY <1>1, <1>4, <2>3
  <2>5. IsTable(rows)'
    BY <1>5 DEF IsTable
  <2>6. QED
    BY <1>5, <1>9, <1>10, <2>1, <2>2, <2>4, <2>5 DEF HistoryTypes
<1>12. Closed'
  BY <1>1, <1>3, <1>4 DEF Closed, Listened!NoChange
<1>13. NewestHeld'
  <2>1. NewestIn(rows, sent)'
    BY <1>5 DEF NewestIn
  <2>2. QED
    BY <1>10, <2>1 DEF NewestHeld
<1>14. QED
  BY <1>9, <1>11, <1>12, <1>13 DEF HistoryInv

LEMMA RollbackHistoryKept == ASSUME HistoryInv, NEW d \in Device, Listened!RollbackHistory(d) PROVE HistoryInv'
<1>1. /\ d \in hopen /\ hopen' = hopen \ {d}
      /\ hwork' = [hwork EXCEPT ![d] = Listened!NoRows] /\ cleared' = [cleared EXCEPT ![d] = 0]
      /\ workSent' = [workSent EXCEPT ![d] = Listened!NoChange]
      /\ erased' = [erased EXCEPT ![d] = {}]
      /\ UNCHANGED <<rows, historyModified, historyClearedAt, sent, hreply, hseen>>
  BY DEF Listened!RollbackHistory, Listened!Close, Listened!server
<1>2. HistoryTypes /\ Closed /\ NewestHeld
  BY DEF HistoryInv
<1>3. hopen = {d} /\ hopen' = {}
  BY <1>1, <1>2 DEF HistoryTypes
<1>4. Listened!Snapshots' = Listened!Snapshots
  BY <1>1 DEF Listened!Snapshots, Listened!Snapshot
<1>5. Listened!TokenNamesHistory' /\ \A s \in Listened!Snapshots' : s.token \in Nat
  BY <1>1, <1>4, HistoryTokens
<1>6. HistoryTypes'
  <2>1. Listened!NoChange \in [Episodes -> SUBSET Entries]
    BY DEF Listened!NoChange
  <2>2. /\ erased' \in [Device -> SUBSET Episodes]
        /\ workSent' \in [Device -> [Episodes -> SUBSET Entries]]
    BY <1>1, <1>2, <2>1 DEF HistoryTypes
  <2>3. IsTable(rows)'
    BY <1>1, <1>2 DEF HistoryTypes, IsTable
  <2>4. QED
    BY <1>1, <1>2, <1>3, <1>5, <2>2, <2>3 DEF HistoryTypes
<1>7. Closed'
  BY <1>1, <1>2, <1>3 DEF Closed, HistoryTypes, Listened!NoChange
<1>8. NewestHeld'
  BY <1>1, <1>2, <1>3 DEF NewestHeld, NewestIn
<1>9. QED
  BY <1>5, <1>6, <1>7, <1>8 DEF HistoryInv

LEMMA ResponseHistoryKept ==
  ASSUME HistoryInv, NEW d \in Device, Listened!DeliverReply(d) \/ Listened!LoseReply(d) PROVE HistoryInv'
<1>1. /\ hreply[d] # <<>> /\ hreply' = [hreply EXCEPT ![d] = <<>>]
      /\ hseen' = hseen \/ hseen' = [hseen EXCEPT ![d] = hreply[d][1]]
      /\ UNCHANGED <<rows, historyModified, historyClearedAt, sent, hopen, hwork, cleared, workSent, erased>>
  BY DEF Listened!DeliverReply, Listened!LoseReply, Listened!server, Listened!txn
<1>2. HistoryTypes /\ Closed /\ NewestHeld
  BY DEF HistoryInv
<1>3. DOMAIN hreply = Device /\ DOMAIN hseen = Device /\ 1 \in DOMAIN hreply[d]
  BY <1>1, <1>2 DEF HistoryTypes
<1>4. hreply[d][1] \in Listened!Range(hreply[d])
  BY <1>3, OneHistory
<1>5. Listened!Snapshots' \subseteq Listened!Snapshots
  <2>1. \A s \in Listened!Snapshots' : \/ s = Listened!Snapshot(rows, historyClearedAt, historyModified)
                                       \/ \E c \in Device : s = hseen'[c]
                                       \/ \E c \in Device : s \in Listened!Range(hreply'[c])
    BY <1>1 DEF Listened!Snapshots, Listened!Snapshot
  <2>2. \A c \in Device : hseen'[c] = hseen[c] \/ hseen'[c] \in Listened!Range(hreply[d])
    BY <1>1, <1>3, <1>4
  <2>3. \A c \in Device : hreply'[c] = <<>> \/ hreply'[c] = hreply[c]
    BY <1>1, <1>3
  <2>4. \A c \in Device : Listened!Range(hreply'[c]) \subseteq Listened!Range(hreply[c])
    BY <2>3, OneHistory
  <2>5. QED
    BY <2>1, <2>2, <2>4, HistorySnapshots
<1>6. Listened!TokenNamesHistory' /\ \A s \in Listened!Snapshots' : s.token \in Nat
  BY <1>1, <1>5, HistoryTokens
<1>7. HistoryTypes'
  <2>1. \A c \in Device : hreply'[c] # <<>> => 1 \in DOMAIN hreply'[c]
    BY <1>1, <1>2, <1>3 DEF HistoryTypes
  <2>2. DOMAIN hreply' = Device /\ DOMAIN hseen' = Device
    BY <1>1, <1>3
  <2>3. QED
    BY <1>1, <1>2, <1>6, <2>1, <2>2 DEF HistoryTypes, IsTable
<1>8. Closed'
  BY <1>1, <1>2 DEF Closed, Listened!NoChange
<1>9. NewestHeld'
  BY <1>1, <1>2 DEF NewestHeld, NewestIn, Changes
<1>10. QED
  BY <1>6, <1>7, <1>8, <1>9 DEF HistoryInv

LEMMA HistoryStepInv == HistoryInv /\ [Listened!Next]_Listened!vars => HistoryInv'
<1> SUFFICES ASSUME HistoryInv, [Listened!Next]_Listened!vars PROVE HistoryInv'
  OBVIOUS
<1>1. historyModified \in Nat
  BY DEF HistoryInv, HistoryTypes
<1>2. ASSUME NEW d \in Device, NEW m \in Listened!HistoryChange, Listened!Add(d, m.episode, m.mod)
      PROVE  HistoryInv'
  <2> DEFINE x == [mod |-> m.mod, deleted |-> FALSE]
  <2>1. m.episode \in Episodes /\ m.mod \in Nat
    BY StampFacts DEF Listened!HistoryChange
  <2>2. x \in Entries
    BY <2>1 DEF Entries
  <2>3. d \in hopen /\ Listened!Store(d, m.episode, x)
    BY <1>2 DEF Listened!Add, Listened!CanChange
  <2> HIDE DEF x
  <2>4. QED
    BY <2>1, <2>2, <2>3, StoreKept
<1>3. ASSUME NEW d \in Device, NEW m \in Listened!HistoryChange, NEW now \in Clock,
             Listened!Delete(d, m.episode, m.mod, now)
      PROVE  HistoryInv'
  <2> DEFINE x == [mod |-> Listened!Given(m.mod, now), deleted |-> TRUE]
  <2>1. m.episode \in Episodes /\ m.mod \in Stamp \cup {0}
    BY DEF Listened!HistoryChange
  <2>2. x \in Entries
    BY <1>1, <2>1, StampFacts DEF Entries
  <2>3. d \in hopen /\ Listened!Store(d, m.episode, x)
    BY <1>3 DEF Listened!Delete, Listened!CanChange
  <2> HIDE DEF x
  <2>4. QED
    BY <2>1, <2>2, <2>3, StoreKept
<1>4. ASSUME NEW d \in Device, NEW m \in Stamp \cup {0}, NEW now \in Clock, Listened!ClearAll(d, m, now)
      PROVE  HistoryInv'
  BY <1>4, ClearAllKept
<1>5. ASSUME NEW d \in Device, NEW now \in Clock, Listened!CommitHistory(d, now) PROVE HistoryInv'
  BY <1>5, CommitHistoryKept
<1>6. ASSUME NEW d \in Device, \/ Listened!BeginHistory(d) \/ Listened!RollbackHistory(d)
                               \/ Listened!DeliverReply(d) \/ Listened!LoseReply(d)
      PROVE  HistoryInv'
  BY <1>6, BeginHistoryKept, RollbackHistoryKept, ResponseHistoryKept
<1>7. CASE UNCHANGED Listened!vars
  <2>1. UNCHANGED <<rows, historyModified, historyClearedAt, sent, hopen, hwork, cleared, workSent,
                    erased, hreply, hseen>>
    BY <1>7 DEF Listened!vars, Listened!server, Listened!txn
  <2>2. Listened!Snapshots' = Listened!Snapshots
    BY <2>1 DEF Listened!Snapshots, Listened!Snapshot
  <2>3. QED
    BY <2>1, <2>2 DEF HistoryInv, HistoryTypes, IsTable, Closed, Listened!NoChange, NewestHeld, NewestIn,
       Changes, Listened!TokenNamesHistory
<1>8. QED
  BY <1>2, <1>3, <1>4, <1>5, <1>6, <1>7 DEF Listened!Next

----------------------------------------------------------------------------
DevicesInv == QueueInv /\ HistoryInv

LEMMA DevicesInvHolds == DevicesSpec => []DevicesInv
<1>1. DevicesInit => DevicesInv
  BY QueueInitInv, HistoryInitInv DEF DevicesInit, DevicesInv
<1>2. DevicesInv /\ [DevicesNext]_deviceVars => DevicesInv'
  <2> SUFFICES ASSUME DevicesInv, [DevicesNext]_deviceVars PROVE DevicesInv'
    OBVIOUS
  <2>1. historyVars' = historyVars => UNCHANGED Listened!vars
    BY DEF historyVars, Listened!vars, Listened!server, Listened!txn
  <2>2. CASE QueueStep
    BY <2>1, <2>2, QueueStepInv, HistoryStepInv DEF QueueStep, DevicesInv
  <2>3. CASE HistoryStep
    BY <2>3, QueueStepInv, HistoryStepInv DEF HistoryStep, DevicesInv
  <2>4. CASE UNCHANGED deviceVars
    BY <2>1, <2>4, QueueStepInv, HistoryStepInv DEF deviceVars, DevicesInv
  <2>5. QED
    BY <2>2, <2>3, <2>4 DEF DevicesNext
<1>3. QED
  BY <1>1, <1>2, PTL DEF DevicesSpec

(* serverModified names the list: whatever devices hold, have on the wire or
   will be sent under one token is one Up Next queue (SyncUpNext in syncsvc)
   and one history with its tombstones (SyncHistory), and nobody holds a token
   that was not issued, for any devices, clocks, batches and lost responses. *)
THEOREM TokensAlwaysName == DevicesSpec => []TokensNameLists
<1>1. DevicesInv => TokensNameLists
  BY DEF DevicesInv, QueueInv, HistoryInv, TokensNameLists
<1>2. QED
  BY <1>1, DevicesInvHolds, PTL

(* The row of an episode is the newest of the adds and deletes it received
   since it was last erased by a clear or by the cap (SyncHistory in syncsvc,
   UpsertHistoryItem and TombstoneHistoryItem), for any devices, stamps, clears
   and cap: no older change, from whatever device, undoes a newer one. *)
THEOREM NewestChangeStays == DevicesSpec => []NewestChangeKept
<1>1. DevicesInv => NewestChangeKept
  BY DEF DevicesInv, HistoryInv, NewestHeld, NewestIn, NewestChangeKept, Listened!NewestChangeKept
<1>2. QED
  BY <1>1, DevicesInvHolds, PTL
=============================================================================
