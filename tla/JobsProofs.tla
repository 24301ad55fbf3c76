------------------------------ MODULE JobsProofs ------------------------------
(***************************************************************************)
(* The background work, for any number of users, feeds, replicas, workers  *)
(* and uploads: an exact in-flight set and limiter of the ingestion        *)
(* dispatcher, one weekly digest per user, and avatar objects that are     *)
(* neither deleted while live nor forgotten.                               *)
(***************************************************************************)
EXTENDS MCJobs, FiniteSetTheorems, TLAPS

----------------------------------------------------------------------------
(* The ingestion dispatcher (FeedIngestion). *)

(* What the eviction of Accept keeps: the user being charged, nobody new,
   and every bucket whose owner was seen within two hours. *)
LEMMA KeptFacts ==
  ASSUME TypeOK, NEW u \in User
  PROVE  /\ Kept(u) \subseteq known \cup {u} /\ u \in Kept(u)
         /\ \A v \in User : v \in known \ Kept(u) => idle[v] > EvictionAge
BY FeedIngestionAssumption DEF Kept, TypeOK, EvictionAge

(* The type invariant is inductive. *)
LEMMA TypeStep == FeedIngestionAssumption /\ TypeOK /\ [Next]_vars => TypeOK'
<1> SUFFICES ASSUME FeedIngestionAssumption, TypeOK, [Next]_vars PROVE TypeOK'
  OBVIOUS
<1> USE FeedIngestionAssumption DEF TypeOK, buckets, EvictionAge, Least
<1>1. ASSUME NEW u \in User, NEW f \in Feed, Refuse(u, f) PROVE TypeOK'
  BY <1>1 DEF Refuse
<1>2. ASSUME NEW u \in User, NEW f \in Feed, Accept(u, f) PROVE TypeOK'
  <2>1. known' \subseteq User
    BY <1>2, KeptFacts DEF Accept
  <2>2. Tokens(u) - 1 \in 0 .. Burst
    BY <1>2 DEF Accept, Tokens
  <2>3. budget' \in [User -> 0 .. Burst] /\ allowance' \in [User -> 0 .. Burst]
    BY <1>2, <2>2 DEF Accept
  <2> QED
    BY <1>2, <2>1, <2>3 DEF Accept
<1>3. ASSUME NEW f \in Feed, Enqueue(f) PROVE TypeOK'
  <2>1. jobs' \in Seq(Feed) /\ Len(jobs') = Len(jobs) + 1
    BY <1>3 DEF Enqueue
  <2> QED
    BY <1>3, <2>1 DEF Enqueue
<1>4. ASSUME NEW f \in Feed, DropFull(f) \/ DropStopped(f) PROVE TypeOK'
  BY <1>4 DEF DropFull, DropStopped, Unsent
<1>5. ASSUME NEW w \in Worker, Take(w) PROVE TypeOK'
  <2>1. Head(jobs) \in Feed /\ Tail(jobs) \in Seq(Feed) /\ Len(Tail(jobs)) = Len(jobs) - 1
    BY <1>5 DEF Take
  <2> QED
    BY <1>5, <2>1 DEF Take
<1>6. ASSUME NEW w \in Worker, Finish(w) PROVE TypeOK'
  BY <1>6 DEF Finish
<1>7. ASSUME NEW w \in Worker, Stop(w) PROVE TypeOK'
  BY <1>7 DEF Stop
<1>8. CASE Cancel
  BY <1>8 DEF Cancel
<1>9. CASE Tick
  BY <1>9 DEF Tick
<1>10. CASE UNCHANGED vars
  BY <1>10 DEF vars
<1> QED
  BY <1>1, <1>2, <1>3, <1>4, <1>5, <1>6, <1>7, <1>8, <1>9, <1>10 DEF Next

(* Where a feed can be, after a job was appended or taken. *)
LEMMA AppendFacts ==
  ASSUME NEW q \in Seq(Feed), NEW f \in Feed
  PROVE  /\ Elements(Append(q, f)) = Elements(q) \cup {f}
         /\ f \notin Elements(q) /\ (\A i, j \in DOMAIN q : q[i] = q[j] => i = j) =>
            \A i, j \in DOMAIN Append(q, f) : Append(q, f)[i] = Append(q, f)[j] => i = j
<1> DEFINE p == Append(q, f)
<1>1. /\ DOMAIN p = 1 .. Len(q) + 1 /\ DOMAIN q = 1 .. Len(q) /\ Len(q) \in Nat
      /\ p[Len(q) + 1] = f /\ \A i \in 1 .. Len(q) : p[i] = q[i]
  OBVIOUS
<1> HIDE DEF p
<1>2. {p[i] : i \in DOMAIN p} \subseteq {q[i] : i \in DOMAIN q} \cup {f}
  BY <1>1
<1>3. {q[i] : i \in DOMAIN q} \cup {f} \subseteq {p[i] : i \in DOMAIN p}
  <2>1. Len(q) + 1 \in DOMAIN p /\ \A i \in DOMAIN q : i \in DOMAIN p /\ p[i] = q[i]
    BY <1>1
  <2> QED
    BY <1>1, <2>1
<1>4. ASSUME f \notin {q[i] : i \in DOMAIN q}, \A i, j \in DOMAIN q : q[i] = q[j] => i = j
      PROVE  \A i, j \in DOMAIN p : p[i] = p[j] => i = j
  BY <1>1, <1>4
<1> QED
  BY <1>2, <1>3, <1>4 DEF p, Elements

LEMMA TailFacts ==
  ASSUME NEW q \in Seq(Feed), q # <<>>, \A i, j \in DOMAIN q : q[i] = q[j] => i = j
  PROVE  /\ Elements(Tail(q)) = Elements(q) \ {Head(q)} /\ Head(q) \in Elements(q)
         /\ \A i, j \in DOMAIN Tail(q) : Tail(q)[i] = Tail(q)[j] => i = j
<1> DEFINE p == Tail(q)
<1>1. /\ DOMAIN p = 1 .. Len(q) - 1 /\ DOMAIN q = 1 .. Len(q) /\ Len(q) \in Nat \ {0}
      /\ Head(q) = q[1] /\ \A i \in 1 .. Len(q) - 1 : p[i] = q[i + 1]
  OBVIOUS
<1> HIDE DEF p
<1>2. \A i \in DOMAIN p : i + 1 \in DOMAIN q /\ p[i] = q[i + 1] /\ q[i + 1] # q[1]
  <2>1. \A i \in DOMAIN p : i + 1 \in DOMAIN q /\ p[i] = q[i + 1] /\ 1 \in DOMAIN q /\ i + 1 # 1
    BY <1>1
  <2> QED
    BY <2>1
<1>3. \A j \in DOMAIN q : j # 1 => j - 1 \in DOMAIN p /\ p[j - 1] = q[j]
  BY <1>1
<1>4. {p[i] : i \in DOMAIN p} = {q[i] : i \in DOMAIN q} \ {q[1]}
  <2>1. {p[i] : i \in DOMAIN p} \subseteq {q[i] : i \in DOMAIN q} \ {q[1]}
    BY <1>2
  <2>2. {q[i] : i \in DOMAIN q} \ {q[1]} \subseteq {p[i] : i \in DOMAIN p}
    BY <1>3
  <2> QED
    BY <2>1, <2>2
<1>5. \A i, j \in DOMAIN p : p[i] = p[j] => i = j
  BY <1>1, <1>2
<1>6. 1 \in DOMAIN q
  BY <1>1
<1> QED
  BY <1>1, <1>4, <1>5, <1>6 DEF p, Elements

(* Every step keeps the places of the feeds disjoint and the in-flight set
   equal to their union. *)
LEMMA PlacesStep ==
  FeedIngestionAssumption /\ TypeOK /\ InFlightExact /\ OneIngestionPerFeed /\ [Next]_vars
  => InFlightExact' /\ OneIngestionPerFeed'
<1> SUFFICES ASSUME FeedIngestionAssumption, TypeOK, InFlightExact, OneIngestionPerFeed,
                    [Next]_vars
             PROVE  InFlightExact' /\ OneIngestionPerFeed'
  OBVIOUS
<1> USE FeedIngestionAssumption DEF TypeOK, InFlightExact, OneIngestionPerFeed, Queued, Ingesting
<1>1. ASSUME NEW u \in User, NEW f \in Feed, Refuse(u, f)
      PROVE  InFlightExact' /\ OneIngestionPerFeed'
  BY <1>1 DEF Refuse
<1>2. ASSUME NEW u \in User, NEW f \in Feed, Accept(u, f)
      PROVE  InFlightExact' /\ OneIngestionPerFeed'
  BY <1>2 DEF Accept, Unmarked
<1>3. ASSUME NEW f \in Feed, Enqueue(f)
      PROVE  InFlightExact' /\ OneIngestionPerFeed'
  <2>1. /\ jobs' = Append(jobs, f) /\ pending' = pending \ {f} /\ f \in pending
        /\ inFlight' = inFlight /\ doing' = doing
    BY <1>3 DEF Enqueue
  <2>2. f \notin Queued
    BY <2>1
  <2>3. Queued' = Queued \cup {f}
    BY <2>1, AppendFacts
  <2>4. \A i, j \in DOMAIN jobs' : jobs'[i] = jobs'[j] => i = j
    BY <2>1, <2>2, AppendFacts
  <2>5. Ingesting' = Ingesting
    BY <2>1
  <2> HIDE DEF Queued, Ingesting
  <2> QED
    BY <2>1, <2>2, <2>3, <2>4, <2>5
<1>4. ASSUME NEW f \in Feed, DropFull(f) \/ DropStopped(f)
      PROVE  InFlightExact' /\ OneIngestionPerFeed'
  BY <1>4 DEF DropFull, DropStopped, Unsent
<1>5. ASSUME NEW w \in Worker, Take(w)
      PROVE  InFlightExact' /\ OneIngestionPerFeed'
  <2> DEFINE h == Head(jobs)
  <2>1. /\ jobs # <<>> /\ jobs' = Tail(jobs) /\ doing' = [doing EXCEPT ![w] = h]
        /\ doing[w] = NoFeed /\ pending' = pending /\ inFlight' = inFlight
    BY <1>5 DEF Take
  <2>2. Queued' = Queued \ {h} /\ h \in Queued
    BY <2>1, TailFacts
  <2>3. \A i, j \in DOMAIN jobs' : jobs'[i] = jobs'[j] => i = j
    BY <2>1, TailFacts
  <2>4. h \in Feed
    BY <2>1
  <2> HIDE DEF h
  <2>5. Ingesting' = Ingesting \cup {h}
    BY <2>1, <2>4 DEF Elements
  <2>6. \A v, x \in Worker : doing'[v] = doing'[x] /\ doing'[v] # NoFeed => v = x
    <3>1. h \notin Ingesting
      BY <2>2
    <3>2. \A v \in Worker : v # w => doing'[v] = doing[v] /\ doing[v] # h
      BY <2>1, <2>4, <3>1 DEF Elements
    <3>3. doing'[w] = h
      BY <2>1
    <3> QED
      BY <3>2, <3>3
  <2> HIDE DEF Queued, Ingesting
  <2> QED
    BY <2>1, <2>2, <2>3, <2>5, <2>6
<1>6. ASSUME NEW w \in Worker, Finish(w)
      PROVE  InFlightExact' /\ OneIngestionPerFeed'
  <2>1. Ingesting' = Ingesting \ {doing[w]}
    BY <1>6 DEF Finish, Elements
  <2>2. doing[w] \in Ingesting
    BY <1>6 DEF Finish, Elements
  <2>3. \A v, x \in Worker : doing'[v] = doing'[x] /\ doing'[v] # NoFeed => v = x
    BY <1>6 DEF Finish
  <2>4. Queued' = Queued /\ jobs' = jobs /\ pending' = pending
        /\ inFlight' = inFlight \ {doing[w]}
    BY <1>6 DEF Finish
  <2> HIDE DEF Queued, Ingesting
  <2> QED
    BY <2>1, <2>2, <2>3, <2>4
<1>7. ASSUME NEW w \in Worker, Stop(w)
      PROVE  InFlightExact' /\ OneIngestionPerFeed'
  BY <1>7 DEF Stop
<1>8. CASE Cancel
  BY <1>8 DEF Cancel
<1>9. CASE Tick
  BY <1>9 DEF Tick
<1>10. CASE UNCHANGED vars
  BY <1>10 DEF vars
<1> QED
  BY <1>1, <1>2, <1>3, <1>4, <1>5, <1>6, <1>7, <1>8, <1>9, <1>10 DEF Next

(* Every step keeps the buckets equal to ideal ones. *)
LEMMA LimiterStep ==
  FeedIngestionAssumption /\ TypeOK /\ LimiterExact /\ Refilled /\ [Next]_vars
  => LimiterExact' /\ Refilled'
<1> SUFFICES ASSUME FeedIngestionAssumption, TypeOK, LimiterExact, Refilled, [Next]_vars
             PROVE  LimiterExact' /\ Refilled'
  OBVIOUS
<1> USE FeedIngestionAssumption DEF TypeOK, LimiterExact, Refilled, Tokens, buckets, Least,
        EvictionAge
<1>1. ASSUME NEW u \in User, NEW f \in Feed, Refuse(u, f) PROVE LimiterExact' /\ Refilled'
  BY <1>1 DEF Refuse
<1>2. ASSUME NEW u \in User, NEW f \in Feed, Accept(u, f) PROVE LimiterExact' /\ Refilled'
  <2>1. /\ known' \subseteq known \cup {u} /\ u \in known'
        /\ \A v \in User : v \in known \ known' => idle[v] > EvictionAge
    BY <1>2, KeptFacts DEF Accept
  <2>2. /\ budget'[u] = Tokens(u) - 1 /\ allowance'[u] = allowance[u] - 1 /\ idle'[u] = 0
        /\ \A v \in User \ {u} : /\ budget'[v] = budget[v] /\ allowance'[v] = allowance[v]
                                 /\ idle'[v] = idle[v]
    BY <1>2 DEF Accept
  <2>3. ASSUME NEW v \in User, v \in known \ known' PROVE allowance[v] = Burst
    BY <2>1, <2>3
  <2>4. ASSUME NEW v \in User \ {u}
        PROVE  Tokens(v)' = allowance'[v] /\ (v \notin known' => allowance'[v] = Burst)
    BY <2>1, <2>2, <2>3
  <2>5. ASSUME NEW v \in User \ {u}, v \in known'
        PROVE  allowance'[v] >= Least(idle'[v], Burst)
    BY <2>1, <2>2, <2>5
  <2>6. Tokens(u)' = allowance'[u] /\ allowance'[u] >= Least(idle'[u], Burst)
    BY <1>2, <2>1, <2>2 DEF Accept
  <2> QED
    BY <2>1, <2>4, <2>5, <2>6
<1>3. ASSUME NEW f \in Feed, Enqueue(f) \/ DropFull(f) \/ DropStopped(f)
      PROVE  LimiterExact' /\ Refilled'
  BY <1>3 DEF Enqueue, DropFull, DropStopped, Unsent
<1>4. ASSUME NEW w \in Worker, Take(w) \/ Finish(w) \/ Stop(w) PROVE LimiterExact' /\ Refilled'
  BY <1>4 DEF Take, Finish, Stop
<1>5. CASE Cancel
  BY <1>5 DEF Cancel
<1>6. CASE Tick
  BY <1>6 DEF Tick
<1>7. CASE UNCHANGED vars
  BY <1>7 DEF vars
<1> QED
  BY <1>1, <1>2, <1>3, <1>4, <1>5, <1>6, <1>7 DEF Next

LEMMA InitType == Init => TypeOK
<1> SUFFICES ASSUME Init PROVE TypeOK
  OBVIOUS
<1>1. Len(jobs) = 0 /\ jobs \in Seq(Feed)
  BY DEF Init
<1>2. Len(jobs) <= QueueSize
  BY <1>1, FeedIngestionAssumption
<1>3. /\ budget \in [User -> 0 .. Burst] /\ allowance \in [User -> 0 .. Burst]
      /\ idle \in [User -> 0 .. EvictionAge + 1]
  BY FeedIngestionAssumption DEF Init, EvictionAge
<1>4. /\ doing \in [Worker -> Feed \cup {NoFeed}] /\ cancelled \in BOOLEAN
      /\ inFlight = {} /\ pending = {} /\ known = {} /\ stopped = {}
  BY DEF Init
<1> QED
  BY <1>1, <1>2, <1>3, <1>4 DEF TypeOK

(* The state of the dispatcher always has its type. *)
THEOREM IngestionTypeCorrect == Spec => []TypeOK
BY InitType, TypeStep, FeedIngestionAssumption, PTL DEF Spec

(* The in-flight set of the dispatcher is exact and no feed is in two places
   at once, whatever Submit calls and workers interleave. *)
THEOREM DispatchCorrect == Spec => [](InFlightExact /\ OneIngestionPerFeed)
<1>1. Init => InFlightExact /\ OneIngestionPerFeed
  BY DEF Init, InFlightExact, OneIngestionPerFeed, Queued, Ingesting, Elements
<1> QED
  BY <1>1, PlacesStep, IngestionTypeCorrect, FeedIngestionAssumption, PTL DEF Spec

(* The rate limit is the one of buckets that are never evicted. *)
THEOREM LimiterCorrect == Spec => []LimiterExact
<1>1. Init => LimiterExact /\ Refilled
  BY FeedIngestionAssumption DEF Init, LimiterExact, Refilled, Tokens, Least
<1> QED
  BY <1>1, LimiterStep, IngestionTypeCorrect, FeedIngestionAssumption, PTL DEF Spec

----------------------------------------------------------------------------

(* The instances' operators on finite sets are the ones the theorems speak of. *)
LEMMA SameCardinality ==
  \A S : Digest!Cardinality(S) = Cardinality(S)
BY Zenon DEF Digest!Cardinality, Cardinality, Digest!IsFiniteSet, IsFiniteSet

----------------------------------------------------------------------------
(* The weekly digest (WeeklyDigest, here Digest). *)

LEMMA DigestInitType == Digest!Init => Digest!TypeOK
<1> SUFFICES ASSUME Digest!Init PROVE Digest!TypeOK
  OBVIOUS
<1>1. \A r \in Replica : Digest!Cardinality(batch[r]) <= Batch
  BY SameCardinality, FS_EmptySet, JobsAssumption DEF Digest!Init
<1>2. /\ run \in [Replica -> Digest!Sweeping \cup {"idle", "checked", "release"}]
      /\ batch \in [Replica -> SUBSET User] /\ cur \in [Replica -> User \cup {None}]
      /\ delivered \in [User -> Nat] /\ lost \in [User -> Nat]
  BY DEF Digest!Init
<1>3. /\ open = TRUE /\ doneKey = FALSE /\ everOverdue = FALSE /\ lock = None
      /\ leased = {} /\ sent = {} /\ failed = {} /\ overdue = {} /\ faults \in 0 .. MaxFaults
  BY JobsAssumption DEF Digest!Init
<1>4. QED
  BY <1>1, <1>2, <1>3 DEF Digest!TypeOK

(* The steps of one replica, and those of its environment. *)
LEMMA DigestCases ==
  ASSUME [Digest!Next]_Digest!vars
  PROVE  \/ \E r \in Replica :
              \/ Digest!CheckDone(r) \/ Digest!AcquireLock(r) \/ Digest!MarkDone(r)
              \/ Digest!ReleaseLock(r) \/ Digest!Claim(r) \/ Digest!NextBatch(r)
              \/ Digest!MarkSent(r)
         \/ \E r \in Replica, u \in User : Digest!Push(r, u) \/ Digest!NothingToPush(r, u)
         \/ \E r \in Replica, u \in User, reached \in {0, 1} : Digest!PushFails(r, u, reached)
         \/ \E r \in Replica : Digest!RunFails(r) \/ Digest!Crash(r)
         \/ Digest!LockExpires \/ (\E u \in User : Digest!LeaseExpires(u))
         \/ Digest!CloseWindow \/ UNCHANGED Digest!vars
BY DEF Digest!Next

(* Where a run has users: the one in hand between its push and its watermark,
   the rest of the batch until the next claim. *)
HandsFull ==
  \A r \in Replica : /\ cur[r] # None <=> run[r] = "mark"
                     /\ batch[r] # {} => run[r] \in {"send", "mark"}

(* Batches never exceed the LIMIT of the query that claims them. *)
LEMMA DigestTypeStep == Digest!TypeOK /\ HandsFull /\ [Digest!Next]_Digest!vars => Digest!TypeOK'
<1> SUFFICES ASSUME Digest!TypeOK, HandsFull, [Digest!Next]_Digest!vars PROVE Digest!TypeOK'
  OBVIOUS
<1> USE JobsAssumption DEF Digest!TypeOK, Digest!Goto, Digest!Fault, Digest!Forget, Digest!redis,
        Digest!rows, Digest!run, Digest!ghost, Digest!Sweeping
<1>1. ASSUME NEW S, S \subseteq User, NEW T, T \subseteq S
      PROVE  /\ Digest!Cardinality(S) \in Nat /\ Digest!Cardinality(T) \in Nat
             /\ Digest!Cardinality(T) <= Digest!Cardinality(S)
  <2>1. IsFiniteSet(S)
    BY <1>1, FS_Subset
  <2>2. Cardinality(S) \in Nat /\ IsFiniteSet(T) /\ Cardinality(T) <= Cardinality(S)
    BY <1>1, <2>1, FS_Subset, FS_CardinalityType
  <2>3. QED
    BY <2>2, FS_CardinalityType, SameCardinality
<1>2. Digest!Cardinality({}) <= Batch
  BY SameCardinality, FS_EmptySet
<1>3. ASSUME NEW r \in Replica,
             \/ Digest!CheckDone(r) \/ Digest!AcquireLock(r) \/ Digest!MarkDone(r)
             \/ Digest!ReleaseLock(r) \/ Digest!NextBatch(r)
      PROVE  Digest!TypeOK'
  BY <1>3 DEF Digest!CheckDone, Digest!AcquireLock, Digest!MarkDone, Digest!ReleaseLock,
              Digest!NextBatch
<1>4. ASSUME NEW r \in Replica, Digest!Claim(r) PROVE Digest!TypeOK'
  <2>1. PICK B \in SUBSET Digest!Candidates :
           /\ Digest!Cardinality(B) = IF Digest!Cardinality(Digest!Candidates) < Batch
                                      THEN Digest!Cardinality(Digest!Candidates) ELSE Batch
           /\ leased' = leased \cup B /\ batch' = [batch EXCEPT ![r] = B]
           /\ run' = [run EXCEPT ![r] = IF B = {} THEN "finish" ELSE "send"]
    BY <1>4 DEF Digest!Claim
  <2>2. B \subseteq User /\ Digest!Candidates \subseteq User
    BY DEF Digest!Candidates
  <2>3. Digest!Cardinality(B) <= Batch
    BY <1>1, <2>1, <2>2
  <2>4. QED
    BY <1>4, <2>1, <2>2, <2>3 DEF Digest!Claim
<1>5. ASSUME NEW r \in Replica, NEW u \in User, Digest!InHand(r, u)
      PROVE  /\ batch' \in [Replica -> SUBSET User]
             /\ \A s \in Replica : Digest!Cardinality(batch'[s]) <= Batch
  <2>1. batch' = [batch EXCEPT ![r] = batch[r] \ {u}]
    BY <1>5 DEF Digest!InHand
  <2>2. Digest!Cardinality(batch[r] \ {u}) <= Batch
    BY <1>1
  <2>3. QED
    BY <2>1, <2>2
<1>6. ASSUME NEW r \in Replica, NEW u \in User, Digest!Push(r, u) \/ Digest!NothingToPush(r, u)
      PROVE  Digest!TypeOK'
  BY <1>5, <1>6 DEF Digest!Push, Digest!NothingToPush
<1>7. ASSUME NEW r \in Replica, NEW u \in User, NEW reached \in {0, 1},
             Digest!PushFails(r, u, reached)
      PROVE  Digest!TypeOK'
  BY <1>5, <1>7 DEF Digest!PushFails
<1>8. ASSUME NEW r \in Replica, Digest!MarkSent(r) PROVE Digest!TypeOK'
  BY <1>8 DEF Digest!MarkSent, HandsFull
<1>9. ASSUME NEW r \in Replica, Digest!RunFails(r) \/ Digest!Crash(r) PROVE Digest!TypeOK'
  <2>1. /\ lost' = [u \in User |-> lost[u] + IF u = cur[r] THEN 1 ELSE 0]
        /\ batch' = [batch EXCEPT ![r] = {}] /\ cur' = [cur EXCEPT ![r] = None]
        /\ run' = [run EXCEPT ![r] = IF Digest!RunFails(r) THEN "release" ELSE "idle"]
        /\ faults' \in 0 .. MaxFaults /\ overdue' \subseteq overdue
        /\ UNCHANGED <<open, doneKey, lock, leased, sent, everOverdue, failed, delivered>>
    BY <1>9 DEF Digest!RunFails, Digest!Crash
  <2>2. lost' \in [User -> Nat]
    BY <2>1
  <2>3. batch' \in [Replica -> SUBSET User]
        /\ \A s \in Replica : Digest!Cardinality(batch'[s]) <= Batch
    BY <1>2, <2>1
  <2>4. QED
    BY <2>1, <2>2, <2>3
<1>10. CASE \/ Digest!LockExpires \/ (\E u \in User : Digest!LeaseExpires(u))
            \/ Digest!CloseWindow \/ UNCHANGED Digest!vars
  BY <1>10 DEF Digest!LockExpires, Digest!LeaseExpires, Digest!CloseWindow, Digest!vars
<1> QED
  BY <1>3, <1>4, <1>6, <1>7, <1>8, <1>9, <1>10, DigestCases

LEMMA HandsFullStep ==
  ASSUME Digest!TypeOK, HandsFull, [Digest!Next]_Digest!vars PROVE HandsFull'
<1> USE JobsAssumption DEF Digest!TypeOK, HandsFull, Digest!Goto, Digest!run, Digest!Forget,
        Digest!Sweeping
<1>1. ASSUME NEW r \in Replica,
             \/ Digest!CheckDone(r) \/ Digest!AcquireLock(r) \/ Digest!MarkDone(r)
             \/ Digest!ReleaseLock(r) \/ Digest!NextBatch(r) \/ Digest!MarkSent(r)
      PROVE  HandsFull'
  BY <1>1 DEF Digest!CheckDone, Digest!AcquireLock, Digest!MarkDone, Digest!ReleaseLock,
              Digest!NextBatch, Digest!MarkSent
<1>2. ASSUME NEW r \in Replica, Digest!Claim(r) PROVE HandsFull'
  <2>1. PICK B \in SUBSET User :
           /\ batch' = [batch EXCEPT ![r] = B]
           /\ run' = [run EXCEPT ![r] = IF B = {} THEN "finish" ELSE "send"]
    BY <1>2 DEF Digest!Claim, Digest!Candidates
  <2>2. cur' = cur /\ run[r] = "claim"
    BY <1>2 DEF Digest!Claim
  <2>3. QED
    BY <2>1, <2>2
<1>3. ASSUME NEW r \in Replica, NEW u \in User, Digest!Push(r, u) \/ Digest!NothingToPush(r, u)
      PROVE  HandsFull'
  BY <1>3 DEF Digest!Push, Digest!NothingToPush, Digest!InHand
<1>4. ASSUME NEW r \in Replica, NEW u \in User, NEW reached \in {0, 1},
             Digest!PushFails(r, u, reached)
      PROVE  HandsFull'
  BY <1>4 DEF Digest!PushFails, Digest!InHand
<1>5. ASSUME NEW r \in Replica, Digest!RunFails(r) \/ Digest!Crash(r) PROVE HandsFull'
  BY <1>5 DEF Digest!RunFails, Digest!Crash
<1>6. CASE \/ Digest!LockExpires \/ (\E u \in User : Digest!LeaseExpires(u))
           \/ Digest!CloseWindow \/ UNCHANGED Digest!vars
  BY <1>6 DEF Digest!LockExpires, Digest!LeaseExpires, Digest!CloseWindow, Digest!vars
<1> QED
  BY <1>1, <1>2, <1>3, <1>4, <1>5, <1>6, DigestCases

(* The lock: a run sweeps under it unless it expired under that run. *)
LEMMA LockStep ==
  ASSUME Digest!TypeOK, Digest!OneSweepAtATime, [Digest!Next]_Digest!vars
  PROVE  Digest!OneSweepAtATime'
<1> USE JobsAssumption DEF Digest!TypeOK, Digest!OneSweepAtATime, Digest!Goto, Digest!redis,
        Digest!rows, Digest!run, Digest!ghost, Digest!Sweeping
<1>1. ASSUME NEW r \in Replica,
             \/ Digest!CheckDone(r) \/ Digest!MarkDone(r)
             \/ Digest!ReleaseLock(r) \/ Digest!NextBatch(r) \/ Digest!MarkSent(r)
      PROVE  Digest!OneSweepAtATime'
  BY <1>1 DEF Digest!CheckDone, Digest!MarkDone, Digest!ReleaseLock, Digest!NextBatch,
              Digest!MarkSent
<1>2. ASSUME NEW r \in Replica, Digest!AcquireLock(r) PROVE Digest!OneSweepAtATime'
  BY <1>2 DEF Digest!AcquireLock
<1>3. ASSUME NEW r \in Replica, Digest!Claim(r) PROVE Digest!OneSweepAtATime'
  BY <1>3 DEF Digest!Claim
<1>4. ASSUME NEW r \in Replica, NEW u \in User, Digest!Push(r, u) \/ Digest!NothingToPush(r, u)
      PROVE  Digest!OneSweepAtATime'
  BY <1>4 DEF Digest!Push, Digest!NothingToPush, Digest!InHand
<1>5. ASSUME NEW r \in Replica, NEW u \in User, NEW reached \in {0, 1},
             Digest!PushFails(r, u, reached)
      PROVE  Digest!OneSweepAtATime'
  BY <1>5 DEF Digest!PushFails, Digest!InHand
<1>6. ASSUME NEW r \in Replica, Digest!RunFails(r) \/ Digest!Crash(r)
      PROVE  Digest!OneSweepAtATime'
  BY <1>6 DEF Digest!RunFails, Digest!Crash
<1>7. CASE Digest!LockExpires
  BY <1>7 DEF Digest!LockExpires
<1>8. CASE \/ (\E u \in User : Digest!LeaseExpires(u)) \/ Digest!CloseWindow
           \/ UNCHANGED Digest!vars
  BY <1>8 DEF Digest!LeaseExpires, Digest!CloseWindow, Digest!vars
<1> QED
  BY <1>1, <1>2, <1>3, <1>4, <1>5, <1>6, <1>7, <1>8, DigestCases

(* While no lock expired under a run, whoever sweeps holds the lock, what is in
   its hands has not been marked as sent, and a delivery is a lost one, one that
   was marked or the one in hand. *)
InAnyHand(u) == \E r \in Replica : cur[r] = u
DigestLedger ==
  ~everOverdue =>
    /\ overdue = {}
    /\ \A r \in Replica : /\ batch[r] \cap sent = {} /\ cur[r] \notin batch[r]
                          /\ cur[r] \notin sent
    /\ \A u \in User : delivered[u] <= lost[u] + (IF u \in sent \/ InAnyHand(u) THEN 1 ELSE 0)

LEMMA OneHand ==
  ASSUME HandsFull, Digest!OneSweepAtATime, DigestLedger, ~everOverdue,
         NEW r \in Replica, run[r] \in Digest!Sweeping, NEW s \in Replica, s # r
  PROVE  batch[s] = {} /\ cur[s] = None
BY DEF HandsFull, Digest!OneSweepAtATime, DigestLedger, Digest!Sweeping

(* The ledger of one user, when nothing is sent and no hand emptied. *)
LEMMA DigestLedgerStep ==
  ASSUME Digest!TypeOK, HandsFull, Digest!OneSweepAtATime, DigestLedger,
         [Digest!Next]_Digest!vars
  PROVE  DigestLedger'
<1> SUFFICES ASSUME ~everOverdue, ~everOverdue' PROVE DigestLedger'
  <2>1. everOverdue \in BOOLEAN /\ (everOverdue => everOverdue')
    <3>1. ASSUME NEW r \in Replica, NEW u \in User,
                 Digest!Push(r, u) \/ Digest!NothingToPush(r, u)
          PROVE  everOverdue' = everOverdue
      BY <3>1 DEF Digest!Push, Digest!NothingToPush
    <3>2. ASSUME NEW r \in Replica, NEW u \in User, NEW reached \in {0, 1},
                 Digest!PushFails(r, u, reached)
          PROVE  everOverdue' = everOverdue
      BY <3>2 DEF Digest!PushFails
    <3>3. ASSUME NEW r \in Replica,
                 \/ Digest!CheckDone(r) \/ Digest!AcquireLock(r) \/ Digest!MarkDone(r)
                 \/ Digest!ReleaseLock(r) \/ Digest!Claim(r) \/ Digest!NextBatch(r)
                 \/ Digest!MarkSent(r) \/ Digest!RunFails(r) \/ Digest!Crash(r)
          PROVE  everOverdue' = everOverdue
      BY <3>3 DEF Digest!CheckDone, Digest!AcquireLock, Digest!MarkDone, Digest!ReleaseLock,
                  Digest!Claim, Digest!NextBatch, Digest!MarkSent, Digest!RunFails, Digest!Crash,
                  Digest!ghost
    <3>4. QED
      BY <3>1, <3>2, <3>3, DigestCases
         DEF Digest!TypeOK, Digest!LockExpires, Digest!LeaseExpires, Digest!CloseWindow,
             Digest!vars, Digest!ghost
  <2>2. QED
    BY <2>1 DEF DigestLedger
<1> USE JobsAssumption DEF Digest!Goto, Digest!redis, Digest!rows, Digest!run, Digest!ghost
<1>1. /\ overdue = {}
      /\ \A r \in Replica : batch[r] \cap sent = {} /\ cur[r] \notin batch[r] /\ cur[r] \notin sent
      /\ \A u \in User : delivered[u] <= lost[u] + (IF u \in sent \/ InAnyHand(u) THEN 1 ELSE 0)
  BY DEF DigestLedger
<1>2. /\ sent \subseteq User /\ batch \in [Replica -> SUBSET User]
      /\ cur \in [Replica -> User \cup {None}] /\ overdue \subseteq Replica
      /\ delivered \in [User -> Nat] /\ lost \in [User -> Nat]
      /\ DOMAIN run = Replica
  BY DEF Digest!TypeOK
<1>3. ASSUME NEW r \in Replica,
             \/ Digest!CheckDone(r) \/ Digest!AcquireLock(r) \/ Digest!MarkDone(r)
             \/ Digest!ReleaseLock(r) \/ Digest!NextBatch(r)
      PROVE  DigestLedger'
  <2>1. /\ overdue' = {} /\ UNCHANGED <<batch, cur, sent, delivered, lost>>
    BY <1>1, <1>3 DEF Digest!CheckDone, Digest!AcquireLock, Digest!MarkDone, Digest!ReleaseLock,
                Digest!NextBatch
  <2>2. QED
    BY <1>1, <2>1 DEF DigestLedger, InAnyHand
<1>4. ASSUME NEW r \in Replica, Digest!Claim(r) PROVE DigestLedger'
  <2>1. PICK B \in SUBSET Digest!Candidates : batch' = [batch EXCEPT ![r] = B]
    BY <1>4 DEF Digest!Claim
  <2>2. B \subseteq User /\ B \cap sent = {}
    BY DEF Digest!Candidates
  <2>3. UNCHANGED <<cur, sent, overdue, delivered, lost>> /\ cur[r] = None
    BY <1>4 DEF Digest!Claim, HandsFull
  <2>4. \A s \in Replica : batch'[s] \cap sent = {} /\ cur[s] \notin batch'[s]
    BY <1>1, <1>2, <2>1, <2>2, <2>3
  <2>5. QED
    BY <1>1, <2>3, <2>4 DEF DigestLedger, InAnyHand
<1>5. ASSUME NEW r \in Replica, NEW u \in User, Digest!Push(r, u) \/ Digest!NothingToPush(r, u)
      PROVE  DigestLedger'
  <2>1. /\ run[r] = "send" /\ u \in batch[r] /\ batch' = [batch EXCEPT ![r] = batch[r] \ {u}]
        /\ cur' = [cur EXCEPT ![r] = u] /\ UNCHANGED <<sent, overdue, lost>>
        /\ delivered' = delivered \/ delivered' = [delivered EXCEPT ![u] = delivered[u] + 1]
    BY <1>5 DEF Digest!Push, Digest!NothingToPush, Digest!InHand
  <2>2. \A s \in Replica : cur[s] # u
    BY <2>1, OneHand DEF Digest!Sweeping, HandsFull
  <2>3. delivered[u] <= lost[u] /\ delivered'[u] <= lost[u] + 1
    BY <1>1, <1>2, <2>1, <2>2 DEF InAnyHand
  <2>4. cur[r] = None
    BY <2>1 DEF HandsFull
  <2>5. \A v \in User : InAnyHand(v) => InAnyHand(v)'
    BY <1>2, <2>1, <2>4 DEF InAnyHand
  <2>6. InAnyHand(u)'
    BY <1>2, <2>1 DEF InAnyHand
  <2>7. \A v \in User : delivered'[v] <= lost'[v] + (IF v \in sent' \/ InAnyHand(v)' THEN 1 ELSE 0)
    <3>1. ASSUME NEW v \in User, v # u
          PROVE  delivered'[v] <= lost'[v] + (IF v \in sent' \/ InAnyHand(v)' THEN 1 ELSE 0)
      <4>1. delivered'[v] = delivered[v] /\ lost'[v] = lost[v] /\ lost[v] \in Nat
            /\ delivered[v] \in Nat
        BY <1>2, <2>1, <3>1
      <4>2. delivered[v] <= lost[v] + (IF v \in sent \/ InAnyHand(v) THEN 1 ELSE 0)
        BY <1>1
      <4>3. QED
        BY <2>1, <2>5, <4>1, <4>2
    <3>2. QED
      BY <1>2, <2>1, <2>3, <2>6, <3>1
  <2>8. \A s \in Replica : /\ batch'[s] \cap sent' = {} /\ cur'[s] \notin batch'[s]
                           /\ cur'[s] \notin sent'
    BY <1>1, <1>2, <2>1
  <2>9. QED
    BY <1>1, <2>1, <2>7, <2>8 DEF DigestLedger
<1>6. ASSUME NEW r \in Replica, NEW u \in User, NEW reached \in {0, 1},
             Digest!PushFails(r, u, reached)
      PROVE  DigestLedger'
  <2>1. /\ batch' = [batch EXCEPT ![r] = batch[r] \ {u}] /\ UNCHANGED <<cur, sent, overdue>>
        /\ delivered' = [delivered EXCEPT ![u] = delivered[u] + reached]
        /\ lost' = [lost EXCEPT ![u] = lost[u] + reached]
    BY <1>6 DEF Digest!PushFails, Digest!InHand
  <2>2. \A v \in User : InAnyHand(v)' = InAnyHand(v)
    BY <2>1 DEF InAnyHand
  <2>3. \A v \in User : delivered'[v] <= lost'[v] + (IF v \in sent' \/ InAnyHand(v)' THEN 1 ELSE 0)
    BY <1>1, <1>2, <2>1, <2>2
  <2>4. \A s \in Replica : /\ batch'[s] \cap sent' = {} /\ cur'[s] \notin batch'[s]
                           /\ cur'[s] \notin sent'
    BY <1>1, <1>2, <2>1
  <2>5. QED
    BY <1>1, <2>1, <2>3, <2>4 DEF DigestLedger
<1>7. ASSUME NEW r \in Replica, Digest!MarkSent(r) PROVE DigestLedger'
  <2>1. /\ run[r] = "mark" /\ sent' = sent \cup {cur[r]} /\ cur' = [cur EXCEPT ![r] = None]
        /\ UNCHANGED <<batch, overdue, delivered, lost>>
    BY <1>7 DEF Digest!MarkSent
  <2>2. \A s \in Replica : s # r => batch[s] = {} /\ cur[s] = None
    BY <2>1, OneHand DEF Digest!Sweeping
  <2>3. \A s \in Replica : /\ batch'[s] \cap sent' = {} /\ cur'[s] \notin batch'[s]
                           /\ cur'[s] \notin sent'
    <3>1. cur[r] \in User
      BY <1>2, <2>1 DEF HandsFull
    <3>2. QED
      BY <1>1, <1>2, <2>1, <2>2, <3>1
  <2>4. \A v \in User : v \in sent \/ InAnyHand(v) => v \in sent'
    BY <2>1, <2>2 DEF InAnyHand
  <2>5. \A v \in User : delivered'[v] <= lost'[v] + (IF v \in sent' \/ InAnyHand(v)' THEN 1 ELSE 0)
    BY <1>1, <1>2, <2>1, <2>4
  <2>6. QED
    BY <1>1, <2>1, <2>3, <2>5 DEF DigestLedger
<1>8. ASSUME NEW r \in Replica, Digest!RunFails(r) \/ Digest!Crash(r) PROVE DigestLedger'
  <2>1. /\ lost' = [u \in User |-> lost[u] + IF u = cur[r] THEN 1 ELSE 0]
        /\ batch' = [batch EXCEPT ![r] = {}] /\ cur' = [cur EXCEPT ![r] = None]
        /\ overdue' \subseteq overdue /\ UNCHANGED <<sent, delivered>>
    BY <1>8 DEF Digest!RunFails, Digest!Crash, Digest!Forget
  <2>2. \A v \in User : v # cur[r] => (InAnyHand(v) => InAnyHand(v)')
    BY <1>2, <2>1 DEF InAnyHand
  <2>3. \A v \in User : delivered'[v] <= lost'[v] + (IF v \in sent' \/ InAnyHand(v)' THEN 1 ELSE 0)
    BY <1>1, <1>2, <2>1, <2>2
  <2>4. \A s \in Replica : /\ batch'[s] \cap sent' = {} /\ cur'[s] \notin batch'[s]
                           /\ cur'[s] \notin sent'
    BY <1>1, <1>2, <2>1
  <2>5. QED
    BY <1>1, <2>1, <2>3, <2>4 DEF DigestLedger
<1>9. CASE \/ Digest!LockExpires \/ (\E u \in User : Digest!LeaseExpires(u))
           \/ Digest!CloseWindow \/ UNCHANGED Digest!vars
  <2>1. UNCHANGED <<batch, cur, sent, overdue, delivered, lost>>
    BY <1>9 DEF Digest!LockExpires, Digest!LeaseExpires, Digest!CloseWindow, Digest!vars
  <2>2. QED
    BY <1>1, <2>1 DEF DigestLedger, InAnyHand
<1> QED
  BY <1>3, <1>4, <1>5, <1>6, <1>7, <1>8, <1>9, DigestCases

----------------------------------------------------------------------------
(* Avatars (AvatarStore, here Avatar): the type, said with sets of keys. *)
Handed == 1 .. used
KeyOrNone == Handed \cup {0}
AvatarShape ==
  /\ objects \subseteq Handed /\ avatar \in KeyOrNone /\ joined \in BOOLEAN
  /\ outbox \in [Avatar!Key -> {"none", "available", "leased", "completed"}]
  /\ upload \in [Uploader -> {"idle", "put", "read", "commit", "undo"}]
  /\ key \in [Uploader -> KeyOrNone] /\ previous \in [Uploader -> KeyOrNone]
  /\ hand \in [Worker -> SUBSET Avatar!Key] /\ gone \in [Worker -> KeyOrNone]
  /\ \A k \in Avatar!Key : outbox[k] # "none" => k \in Handed
  /\ untracked \cup doubtful \subseteq Avatar!Key /\ faults \in 0 .. MaxFaults

LEMMA ShapeIsType ==
  /\ Avatar!TypeOK <=> AvatarShape /\ used \in 0 .. MaxKeys
  /\ Avatar!TypeOK' <=> AvatarShape' /\ used' \in 0 .. MaxKeys
<1>1. ASSUME NEW n \in 0 .. MaxKeys
      PROVE  0 .. n = (1 .. n) \cup {0} /\ \A k \in Avatar!Key : k <= n <=> k \in 1 .. n
  BY <1>1, JobsAssumption DEF Avatar!Key
<1>2. ASSUME used \in 0 .. MaxKeys PROVE Avatar!TypeOK <=> AvatarShape
  BY <1>1, <1>2 DEF Avatar!TypeOK, AvatarShape, Handed, KeyOrNone
<1>3. ASSUME used' \in 0 .. MaxKeys PROVE Avatar!TypeOK' <=> AvatarShape'
  BY <1>1, <1>3 DEF Avatar!TypeOK, AvatarShape, Handed, KeyOrNone
<1>4. QED
  BY <1>2, <1>3 DEF Avatar!TypeOK

LEMMA KeyNumbers ==
  ASSUME used \in 0 .. MaxKeys
  PROVE  /\ Handed \subseteq Avatar!Key /\ 0 \notin Avatar!Key
         /\ used < MaxKeys => /\ used + 1 \in Avatar!Key \ Handed /\ used + 1 # 0
                              /\ used' = used + 1 => Handed' = Handed \cup {used + 1}
BY JobsAssumption DEF Handed, Avatar!Key

LEMMA AvatarInitType == Avatar!Init => Avatar!TypeOK
<1> SUFFICES ASSUME Avatar!Init PROVE AvatarShape /\ used \in 0 .. MaxKeys
  BY ShapeIsType
<1>1. used \in 0 .. MaxKeys /\ faults \in 0 .. MaxFaults
  BY JobsAssumption DEF Avatar!Init
<1>2. /\ key \in [Uploader -> KeyOrNone] /\ previous \in [Uploader -> KeyOrNone]
      /\ gone \in [Worker -> KeyOrNone] /\ avatar \in KeyOrNone
  BY DEF Avatar!Init, KeyOrNone
<1>3. QED
  BY <1>1, <1>2 DEF Avatar!Init, AvatarShape

(* The key of an upload that has not committed is nobody's: no avatar, not
   queued, read by no other upload.  What is queued or about to be deleted is not
   the avatar, nor is what a failed upload deletes, unless it was committed. *)
Unpublished(u) == upload[u] \in {"put", "read", "commit"}
KeysApart ==
  /\ \A u, v \in Uploader : key[u] = key[v] /\ key[u] # 0 => u = v
  /\ \A u \in Uploader : upload[u] # "idle" => key[u] # 0
  /\ \A u \in Uploader : Unpublished(u) =>
       /\ key[u] # avatar /\ outbox[key[u]] = "none"
       /\ \A v \in Uploader : previous[v] # key[u]
  /\ \A u \in Uploader : upload[u] \in {"read", "commit"} => key[u] \in objects
  /\ \A u \in Uploader : upload[u] = "undo" => key[u] # avatar \/ key[u] \in doubtful
  /\ \A k \in Avatar!Key : outbox[k] # "none" => k # avatar
  /\ \A w \in Worker : /\ \A k \in hand[w] : outbox[k] # "none"
                       /\ gone[w] # 0 => outbox[gone[w]] # "none"

LEMMA AvatarCases ==
  ASSUME [Avatar!Next]_Avatar!vars
  PROVE  \/ \E u \in Uploader :
              \/ Avatar!BeginUpload(u) \/ Avatar!Put(u) \/ Avatar!ReadPrevious(u)
              \/ Avatar!Commit(u) \/ Avatar!CommitUnknown(u) \/ Avatar!TransactionFails(u)
              \/ Avatar!Undo(u) \/ Avatar!UploadDies(u)
         \/ Avatar!DeleteAvatar \/ Avatar!Erase \/ Avatar!Join
         \/ \E w \in Worker : Avatar!ClaimDeletes(w) \/ Avatar!CompleteDelete(w)
                              \/ Avatar!WorkerStops(w)
         \/ \E w \in Worker, k \in Avatar!Key : Avatar!DeleteObject(w, k) \/ Avatar!DeleteFails(w, k)
         \/ (\E k \in Avatar!Key : Avatar!LeaseExpires(k)) \/ UNCHANGED Avatar!vars
BY DEF Avatar!Next

(* Queueing a key makes it no longer "none" and touches no other. *)
LEMMA EnqueuedFacts ==
  ASSUME AvatarShape, used \in 0 .. MaxKeys, NEW k \in KeyOrNone
  PROVE  /\ Avatar!Enqueued(k) \in [Avatar!Key -> {"none", "available", "leased", "completed"}]
         /\ \A j \in Avatar!Key : j # k => Avatar!Enqueued(k)[j] = outbox[j]
         /\ \A j \in Avatar!Key : Avatar!Enqueued(k)[j] # "none" => outbox[j] # "none" \/ j = k
         /\ k # 0 => Avatar!Enqueued(k)[k] # "none"
BY KeyNumbers DEF AvatarShape, KeyOrNone, Avatar!Enqueued

LEMMA AvatarTypeStep ==
  Avatar!TypeOK /\ KeysApart /\ [Avatar!Next]_Avatar!vars => Avatar!TypeOK'
<1> SUFFICES ASSUME AvatarShape, used \in 0 .. MaxKeys, KeysApart, [Avatar!Next]_Avatar!vars
             PROVE  AvatarShape' /\ used' \in 0 .. MaxKeys
  BY ShapeIsType
<1> USE DEF Avatar!Goto, Avatar!Fault, Avatar!upload, Avatar!work
<1>1. Handed \subseteq Avatar!Key /\ 0 \notin Avatar!Key
  BY KeyNumbers
<1>2. ASSUME used' = used PROVE Handed' = Handed /\ KeyOrNone' = KeyOrNone
  BY <1>2 DEF Handed, KeyOrNone
<1>3. ASSUME faults < MaxFaults, faults' = faults + 1 PROVE faults' \in 0 .. MaxFaults
  BY <1>3, JobsAssumption DEF AvatarShape
<1>4. ASSUME NEW u \in Uploader, Avatar!BeginUpload(u) PROVE AvatarShape' /\ used' \in 0 .. MaxKeys
  <2>1. /\ used < MaxKeys /\ used' = used + 1 /\ key' = [key EXCEPT ![u] = used + 1]
        /\ upload' = [upload EXCEPT ![u] = "put"]
        /\ UNCHANGED <<objects, avatar, joined, outbox, previous, hand, gone, untracked, doubtful, faults>>
    BY <1>4 DEF Avatar!BeginUpload, Avatar!FreshKey
  <2>2. Handed' = Handed \cup {used + 1} /\ KeyOrNone' = KeyOrNone \cup {used + 1}
    BY <2>1, KeyNumbers DEF KeyOrNone
  <2>3. used' \in 0 .. MaxKeys
    BY <2>1, JobsAssumption
  <2>4. QED
    BY <2>1, <2>2, <2>3 DEF AvatarShape
<1>5. ASSUME NEW u \in Uploader, Avatar!Put(u) \/ Avatar!ReadPrevious(u) \/ Avatar!Undo(u)
      PROVE  AvatarShape' /\ used' \in 0 .. MaxKeys
  <2>1. CASE Avatar!Put(u)
    BY <1>2, <2>1 DEF Avatar!Put, AvatarShape, KeysApart, KeyOrNone
  <2>2. CASE Avatar!ReadPrevious(u)
    BY <1>2, <2>2 DEF Avatar!ReadPrevious, AvatarShape
  <2>3. CASE Avatar!Undo(u)
    BY <1>2, <2>3 DEF Avatar!Undo, AvatarShape
  <2>4. QED
    BY <1>5, <2>1, <2>2, <2>3
<1>6. ASSUME NEW u \in Uploader, Avatar!Commit(u) \/ Avatar!CommitUnknown(u)
      PROVE  AvatarShape' /\ used' \in 0 .. MaxKeys
  <2>1. /\ key[u] \in Handed /\ previous[u] \in KeyOrNone /\ upload[u] = "commit"
        /\ avatar' = key[u] /\ UNCHANGED <<objects, joined, used, key, previous, hand, gone>>
        /\ outbox' = IF previous[u] # key[u] THEN Avatar!Enqueued(previous[u]) ELSE outbox
    BY <1>6 DEF Avatar!Commit, Avatar!CommitUnknown, Avatar!Replace, AvatarShape, KeysApart, KeyOrNone
  <2>2. untracked' \subseteq untracked \cup ({avatar} \ {0})
    BY <1>6 DEF Avatar!Commit, Avatar!CommitUnknown, Avatar!Replace
  <2>3. doubtful' \subseteq doubtful \cup {key[u]} /\ faults' \in 0 .. MaxFaults
    BY <1>3, <1>6 DEF Avatar!Commit, Avatar!CommitUnknown, AvatarShape
  <2>4. upload' \in [Uploader -> {"idle", "put", "read", "commit", "undo"}]
    BY <1>6 DEF Avatar!Commit, Avatar!CommitUnknown, AvatarShape
  <2>5. /\ outbox' \in [Avatar!Key -> {"none", "available", "leased", "completed"}]
        /\ \A k \in Avatar!Key : outbox'[k] # "none" => k \in Handed
    BY <1>1, <2>1, EnqueuedFacts DEF AvatarShape, KeyOrNone
  <2>6. untracked' \cup doubtful' \subseteq Avatar!Key
    BY <1>1, <2>1, <2>2, <2>3 DEF AvatarShape, KeyOrNone
  <2>7. QED
    BY <1>2, <2>1, <2>3, <2>4, <2>5, <2>6 DEF AvatarShape, KeyOrNone
<1>7. ASSUME NEW u \in Uploader, Avatar!TransactionFails(u) \/ Avatar!UploadDies(u)
      PROVE  AvatarShape' /\ used' \in 0 .. MaxKeys
  <2>1. /\ UNCHANGED <<objects, avatar, joined, outbox, used, key, previous, hand, gone, doubtful>>
        /\ faults' \in 0 .. MaxFaults /\ untracked' \subseteq untracked \cup objects
        /\ upload' \in [Uploader -> {"idle", "put", "read", "commit", "undo"}]
    BY <1>3, <1>7 DEF Avatar!TransactionFails, Avatar!UploadDies, AvatarShape
  <2>2. QED
    BY <1>1, <1>2, <2>1 DEF AvatarShape
<1>8. CASE Avatar!DeleteAvatar \/ Avatar!Erase \/ Avatar!Join
  <2>1. /\ UNCHANGED <<objects, used, upload, key, previous, hand, gone, untracked, doubtful, faults>>
        /\ joined' \in BOOLEAN /\ avatar' \in KeyOrNone
        /\ outbox' = outbox \/ outbox' = Avatar!Enqueued(avatar)
    BY <1>8 DEF Avatar!DeleteAvatar, Avatar!Erase, Avatar!Join, AvatarShape, KeyOrNone
  <2>2. /\ outbox' \in [Avatar!Key -> {"none", "available", "leased", "completed"}]
        /\ \A k \in Avatar!Key : outbox'[k] # "none" => k \in Handed
    BY <1>1, <2>1, EnqueuedFacts DEF AvatarShape, KeyOrNone
  <2>3. QED
    BY <1>2, <2>1, <2>2 DEF AvatarShape
<1>9. ASSUME NEW w \in Worker,
             Avatar!ClaimDeletes(w) \/ Avatar!CompleteDelete(w) \/ Avatar!WorkerStops(w)
      PROVE  AvatarShape' /\ used' \in 0 .. MaxKeys
  <2>1. CASE Avatar!ClaimDeletes(w)
    BY <1>2, <2>1 DEF Avatar!ClaimDeletes, Avatar!Available, AvatarShape
  <2>2. CASE Avatar!CompleteDelete(w)
    BY <1>1, <1>2, <2>2 DEF Avatar!CompleteDelete, AvatarShape, KeyOrNone
  <2>3. CASE Avatar!WorkerStops(w)
    BY <1>2, <1>3, <2>3 DEF Avatar!WorkerStops, AvatarShape, KeyOrNone
  <2>4. QED
    BY <1>9, <2>1, <2>2, <2>3
<1>10. ASSUME NEW w \in Worker, NEW k \in Avatar!Key,
              Avatar!DeleteObject(w, k) \/ Avatar!DeleteFails(w, k)
       PROVE  AvatarShape' /\ used' \in 0 .. MaxKeys
  <2>1. k \in hand[w] /\ k \in Handed
    BY <1>10 DEF Avatar!DeleteObject, Avatar!DeleteFails, KeysApart, AvatarShape
  <2>2. CASE Avatar!DeleteObject(w, k)
    BY <1>2, <2>1, <2>2 DEF Avatar!DeleteObject, AvatarShape, KeyOrNone
  <2>3. CASE Avatar!DeleteFails(w, k)
    BY <1>2, <1>3, <2>3 DEF Avatar!DeleteFails, AvatarShape
  <2>4. QED
    BY <1>10, <2>2, <2>3
<1>11. ASSUME NEW k \in Avatar!Key, Avatar!LeaseExpires(k)
       PROVE  AvatarShape' /\ used' \in 0 .. MaxKeys
  BY <1>2, <1>11 DEF Avatar!LeaseExpires, AvatarShape
<1>12. CASE UNCHANGED Avatar!vars
  BY <1>2, <1>12 DEF Avatar!vars, AvatarShape
<1> QED
  BY <1>4, <1>5, <1>6, <1>7, <1>8, <1>9, <1>10, <1>11, <1>12, AvatarCases

LEMMA KeysApartStep ==
  ASSUME AvatarShape, used \in 0 .. MaxKeys, KeysApart, [Avatar!Next]_Avatar!vars
  PROVE  KeysApart'
<1> USE DEF Avatar!Goto, Avatar!upload, Avatar!work, Unpublished
<1>1. Handed \subseteq Avatar!Key /\ 0 \notin Avatar!Key
  BY KeyNumbers
<1>2. /\ upload \in [Uploader -> {"idle", "put", "read", "commit", "undo"}]
      /\ key \in [Uploader -> KeyOrNone] /\ previous \in [Uploader -> KeyOrNone]
      /\ hand \in [Worker -> SUBSET Avatar!Key] /\ gone \in [Worker -> KeyOrNone]
      /\ avatar \in KeyOrNone /\ KeyOrNone = Handed \cup {0}
      /\ outbox \in [Avatar!Key -> {"none", "available", "leased", "completed"}]
      /\ \A k \in Avatar!Key : outbox[k] # "none" => k \in Handed
  BY DEF AvatarShape, KeyOrNone
<1>3. ASSUME NEW u \in Uploader, Avatar!BeginUpload(u) PROVE KeysApart'
  <2>1. /\ used < MaxKeys /\ key' = [key EXCEPT ![u] = used + 1] /\ upload[u] = "idle"
        /\ upload' = [upload EXCEPT ![u] = "put"]
        /\ UNCHANGED <<objects, avatar, outbox, previous, hand, gone, doubtful>>
    BY <1>3 DEF Avatar!BeginUpload, Avatar!FreshKey
  <2>2. used + 1 \in Avatar!Key /\ used + 1 \notin Handed \cup {0}
    BY <2>1, KeyNumbers
  <2>3. outbox[used + 1] = "none"
    BY <1>2, <2>2
  <2>4. QED
    BY <1>2, <2>1, <2>2, <2>3 DEF KeysApart
<1>4. ASSUME NEW u \in Uploader, Avatar!Put(u) \/ Avatar!ReadPrevious(u) PROVE KeysApart'
  <2>1. CASE Avatar!Put(u)
    BY <1>2, <2>1 DEF Avatar!Put, KeysApart
  <2>2. CASE Avatar!ReadPrevious(u)
    BY <1>2, <2>2 DEF Avatar!ReadPrevious, KeysApart
  <2>3. QED
    BY <1>4, <2>1, <2>2
<1>5. ASSUME NEW k \in KeyOrNone,
             \A u \in Uploader : Unpublished(u) => key[u] # k
      PROVE  /\ \A u \in Uploader : Unpublished(u) => Avatar!Enqueued(k)[key[u]] = "none"
             /\ \A j \in Avatar!Key : Avatar!Enqueued(k)[j] # "none" => outbox[j] # "none" \/ j = k
             /\ \A j \in Avatar!Key : outbox[j] # "none" => Avatar!Enqueued(k)[j] # "none"
  <2>1. \A u \in Uploader : Unpublished(u) => key[u] \in Avatar!Key
    BY <1>1, <1>2 DEF KeysApart
  <2>2. /\ \A j \in Avatar!Key : j # k => Avatar!Enqueued(k)[j] = outbox[j]
        /\ \A j \in Avatar!Key : Avatar!Enqueued(k)[j] # "none" => outbox[j] # "none" \/ j = k
        /\ k # 0 => Avatar!Enqueued(k)[k] # "none"
    BY EnqueuedFacts
  <2>3. \A u \in Uploader : Unpublished(u) => outbox[key[u]] = "none"
    BY DEF KeysApart
  <2>4. QED
    BY <1>1, <1>5, <2>1, <2>2, <2>3
<1>6. ASSUME NEW u \in Uploader, Avatar!Commit(u) \/ Avatar!CommitUnknown(u) PROVE KeysApart'
  <2>1. /\ upload[u] = "commit" /\ avatar' = key[u]
        /\ UNCHANGED <<objects, key, previous, hand, gone>>
        /\ outbox' = Avatar!Enqueued(previous[u])
        /\ key[u] # 0 /\ key[u] \in Avatar!Key /\ previous[u] # key[u]
    BY <1>1, <1>2, <1>6 DEF Avatar!Commit, Avatar!CommitUnknown, Avatar!Replace, KeysApart
  <2>2. /\ upload' = [upload EXCEPT ![u] = IF Avatar!Commit(u) THEN "idle" ELSE "undo"]
        /\ doubtful \subseteq doubtful'
        /\ ~Avatar!Commit(u) => key[u] \in doubtful'
    BY <1>6 DEF Avatar!Commit, Avatar!CommitUnknown
  <2>3. /\ \A v \in Uploader : Unpublished(v) => outbox'[key[v]] = "none"
        /\ \A j \in Avatar!Key : outbox'[j] # "none" => outbox[j] # "none" \/ j = previous[u]
        /\ \A j \in Avatar!Key : outbox[j] # "none" => outbox'[j] # "none"
    <3>1. previous[u] \in KeyOrNone /\ \A v \in Uploader : Unpublished(v) => key[v] # previous[u]
      BY <1>2 DEF KeysApart
    <3>2. QED
      BY <1>5, <2>1, <3>1
  <2>4. \A v \in Uploader : Unpublished(v)' => v # u /\ Unpublished(v) /\ key[v] # key[u]
    BY <1>2, <2>1, <2>2 DEF KeysApart
  <2>5. \A k \in Avatar!Key : outbox'[k] # "none" => k # avatar'
    BY <2>1, <2>3 DEF KeysApart
  <2>6. \A v \in Uploader : upload'[v] = "undo" => key[v] # avatar' \/ key[v] \in doubtful'
    BY <1>2, <2>1, <2>2 DEF KeysApart
  <2>7. \A w \in Worker : /\ \A k \in hand[w] : outbox'[k] # "none"
                          /\ gone[w] # 0 => outbox'[gone[w]] # "none"
    BY <1>1, <1>2, <2>3 DEF KeysApart
  <2>8. \A v \in Uploader : /\ upload'[v] # "idle" => upload[v] # "idle"
                            /\ upload'[v] \in {"read", "commit"} => upload[v] \in {"read", "commit"}
    BY <1>2, <2>1, <2>2
  <2>9. QED
    BY <2>1, <2>3, <2>4, <2>5, <2>6, <2>7, <2>8 DEF KeysApart
<1>7. ASSUME NEW u \in Uploader, Avatar!TransactionFails(u) \/ Avatar!UploadDies(u)
      PROVE  KeysApart'
  BY <1>2, <1>7 DEF Avatar!TransactionFails, Avatar!UploadDies, KeysApart
<1>8. ASSUME NEW u \in Uploader, Avatar!Undo(u) PROVE KeysApart'
  BY <1>2, <1>8 DEF Avatar!Undo, KeysApart
<1>9. CASE Avatar!DeleteAvatar \/ Avatar!Erase
  <2>1. /\ avatar' = 0 /\ outbox' = Avatar!Enqueued(avatar)
        /\ UNCHANGED <<objects, upload, key, previous, hand, gone, doubtful>>
    BY <1>9 DEF Avatar!DeleteAvatar, Avatar!Erase
  <2>2. \A v \in Uploader : Unpublished(v) => key[v] # avatar
    BY DEF KeysApart
  <2>3. /\ \A v \in Uploader : Unpublished(v) => outbox'[key[v]] = "none"
        /\ \A j \in Avatar!Key : outbox[j] # "none" => outbox'[j] # "none"
    BY <1>2, <1>5, <2>1, <2>2
  <2>4. \A w \in Worker : /\ \A k \in hand[w] : outbox'[k] # "none"
                          /\ gone[w] # 0 => outbox'[gone[w]] # "none"
    BY <1>1, <1>2, <2>3 DEF KeysApart
  <2>5. \A k \in Avatar!Key : outbox'[k] # "none" => k # avatar'
    BY <1>1, <2>1
  <2>6. QED
    BY <2>1, <2>3, <2>4, <2>5 DEF KeysApart
<1>10. ASSUME NEW w \in Worker, Avatar!ClaimDeletes(w) PROVE KeysApart'
  <2>1. /\ hand' = [hand EXCEPT ![w] = Avatar!Available]
        /\ outbox' = [k \in Avatar!Key |-> IF k \in Avatar!Available THEN "leased" ELSE outbox[k]]
        /\ UNCHANGED <<objects, avatar, upload, key, previous, gone, doubtful>>
    BY <1>10 DEF Avatar!ClaimDeletes
  <2>2. \A k \in Avatar!Key : outbox'[k] # "none" <=> outbox[k] # "none"
    BY <2>1 DEF Avatar!Available
  <2>3. \A u \in Uploader : Unpublished(u) => outbox'[key[u]] = "none"
    BY <1>1, <1>2, <2>2 DEF KeysApart
  <2>4. \A v \in Worker : /\ \A k \in hand'[v] : outbox'[k] # "none"
                          /\ gone[v] # 0 => outbox'[gone[v]] # "none"
    <3>1. \A k \in Avatar!Available : k \in Avatar!Key /\ outbox'[k] # "none"
      BY <2>1 DEF Avatar!Available
    <3>2. QED
      BY <1>1, <1>2, <2>1, <2>2, <3>1 DEF KeysApart
  <2>5. QED
    BY <2>1, <2>2, <2>3, <2>4 DEF KeysApart
<1>11. ASSUME NEW k \in Avatar!Key, outbox[k] # "none", NEW s \in {"available", "completed"},
              outbox' = [outbox EXCEPT ![k] = s]
       PROVE  /\ \A j \in Avatar!Key : outbox'[j] # "none" <=> outbox[j] # "none"
              /\ \A u \in Uploader : Unpublished(u) => outbox'[key[u]] = "none"
  BY <1>1, <1>2, <1>11 DEF KeysApart
<1>12. ASSUME NEW w \in Worker, Avatar!CompleteDelete(w) PROVE KeysApart'
  <2>1. /\ gone[w] \in Avatar!Key /\ outbox[gone[w]] # "none"
        /\ outbox' = [outbox EXCEPT ![gone[w]] = "completed"] /\ gone' = [gone EXCEPT ![w] = 0]
        /\ UNCHANGED <<objects, avatar, upload, key, previous, hand, doubtful>>
    BY <1>1, <1>2, <1>12 DEF Avatar!CompleteDelete, KeysApart
  <2>2. /\ \A j \in Avatar!Key : outbox'[j] # "none" <=> outbox[j] # "none"
        /\ \A u \in Uploader : Unpublished(u) => outbox'[key[u]] = "none"
    BY <1>11, <2>1
  <2>3. \A v \in Worker : /\ \A k \in hand[v] : outbox'[k] # "none"
                          /\ gone'[v] # 0 => outbox'[gone'[v]] # "none"
    BY <1>1, <1>2, <2>1, <2>2 DEF KeysApart
  <2>4. QED
    BY <2>1, <2>2, <2>3 DEF KeysApart
<1>13. ASSUME NEW w \in Worker, NEW k \in Avatar!Key, Avatar!DeleteObject(w, k) PROVE KeysApart'
  <2>1. /\ objects' = objects \ {k} /\ outbox[k] # "none"
        /\ hand' = [hand EXCEPT ![w] = hand[w] \ {k}] /\ gone' = [gone EXCEPT ![w] = k]
        /\ UNCHANGED <<avatar, outbox, upload, key, previous, doubtful>>
    BY <1>13 DEF Avatar!DeleteObject, KeysApart
  <2>2. \A u \in Uploader : upload[u] \in {"read", "commit"} => key[u] \in objects'
    BY <2>1 DEF KeysApart
  <2>3. \A v \in Worker : /\ \A j \in hand'[v] : outbox[j] # "none"
                          /\ gone'[v] # 0 => outbox[gone'[v]] # "none"
    BY <1>2, <2>1 DEF KeysApart
  <2>4. QED
    BY <2>1, <2>2, <2>3 DEF KeysApart
<1>14. ASSUME NEW w \in Worker,
              Avatar!WorkerStops(w) \/ \E k \in Avatar!Key : Avatar!DeleteFails(w, k)
       PROVE  KeysApart'
  BY <1>2, <1>14 DEF Avatar!WorkerStops, Avatar!DeleteFails, KeysApart
<1>15. ASSUME NEW k \in Avatar!Key, Avatar!LeaseExpires(k) PROVE KeysApart'
  <2>1. /\ outbox[k] # "none" /\ outbox' = [outbox EXCEPT ![k] = "available"]
        /\ UNCHANGED <<objects, avatar, upload, key, previous, hand, gone, doubtful>>
    BY <1>15 DEF Avatar!LeaseExpires
  <2>2. /\ \A j \in Avatar!Key : outbox'[j] # "none" <=> outbox[j] # "none"
        /\ \A u \in Uploader : Unpublished(u) => outbox'[key[u]] = "none"
    BY <1>11, <2>1
  <2>3. \A v \in Worker : /\ \A j \in hand[v] : outbox'[j] # "none"
                          /\ gone[v] # 0 => outbox'[gone[v]] # "none"
    BY <1>1, <1>2, <2>2 DEF KeysApart
  <2>4. QED
    BY <2>1, <2>2, <2>3 DEF KeysApart
<1>16. CASE Avatar!Join \/ UNCHANGED Avatar!vars
  BY <1>16 DEF Avatar!Join, Avatar!vars, KeysApart
<1> QED
  BY <1>3, <1>4, <1>6, <1>7, <1>8, <1>9, <1>10, <1>12, <1>13, <1>14, <1>15, <1>16, AvatarCases

(* The object of the current avatar is there, or its upload took its own commit
   for a failure. *)
LEMMA LiveKeptStep ==
  ASSUME AvatarShape, used \in 0 .. MaxKeys, KeysApart, Avatar!LiveObjectKept,
         [Avatar!Next]_Avatar!vars
  PROVE  Avatar!LiveObjectKept'
<1> USE DEF Avatar!LiveObjectKept, Avatar!upload, Avatar!work
<1>1. ASSUME NEW u \in Uploader,
             \/ Avatar!BeginUpload(u) \/ Avatar!Put(u) \/ Avatar!ReadPrevious(u)
             \/ Avatar!TransactionFails(u) \/ Avatar!UploadDies(u)
      PROVE  Avatar!LiveObjectKept'
  BY <1>1 DEF Avatar!BeginUpload, Avatar!Put, Avatar!ReadPrevious, Avatar!TransactionFails,
              Avatar!UploadDies
<1>2. ASSUME NEW u \in Uploader, Avatar!Commit(u) \/ Avatar!CommitUnknown(u)
      PROVE  Avatar!LiveObjectKept'
  BY <1>2 DEF Avatar!Commit, Avatar!CommitUnknown, Avatar!Replace, KeysApart
<1>3. ASSUME NEW u \in Uploader, Avatar!Undo(u) PROVE Avatar!LiveObjectKept'
  BY <1>3 DEF Avatar!Undo, KeysApart
<1>4. ASSUME NEW w \in Worker, NEW k \in Avatar!Key,
             Avatar!DeleteObject(w, k) \/ Avatar!DeleteFails(w, k)
      PROVE  Avatar!LiveObjectKept'
  BY <1>4 DEF Avatar!DeleteObject, Avatar!DeleteFails, KeysApart
<1>5. ASSUME NEW w \in Worker,
             Avatar!ClaimDeletes(w) \/ Avatar!CompleteDelete(w) \/ Avatar!WorkerStops(w)
      PROVE  Avatar!LiveObjectKept'
  BY <1>5 DEF Avatar!ClaimDeletes, Avatar!CompleteDelete, Avatar!WorkerStops
<1>6. CASE \/ Avatar!DeleteAvatar \/ Avatar!Erase \/ Avatar!Join
           \/ (\E k \in Avatar!Key : Avatar!LeaseExpires(k)) \/ UNCHANGED Avatar!vars
  BY <1>6 DEF Avatar!DeleteAvatar, Avatar!Erase, Avatar!Join, Avatar!LeaseExpires, Avatar!vars
<1> QED
  BY <1>1, <1>2, <1>3, <1>4, <1>5, <1>6, AvatarCases

(* Why an object is accounted for: it is live, queued, known to be left behind
   or in the hands of its upload. *)
Accounted(k) ==
  \/ k = avatar \/ outbox[k] # "none" \/ k \in untracked
  \/ \E u \in Uploader : upload[u] # "idle" /\ key[u] = k

LEMMA AccountedStep ==
  ASSUME AvatarShape, used \in 0 .. MaxKeys, KeysApart, \A k \in objects : Accounted(k),
         [Avatar!Next]_Avatar!vars
  PROVE  \A k \in objects' : Accounted(k)'
<1> USE DEF Avatar!Goto, Avatar!upload, Avatar!work, Accounted
<1>1. /\ \A k \in objects : k \in Avatar!Key /\ k # 0
      /\ upload \in [Uploader -> {"idle", "put", "read", "commit", "undo"}]
      /\ key \in [Uploader -> KeyOrNone] /\ previous \in [Uploader -> KeyOrNone]
      /\ avatar \in KeyOrNone
      /\ outbox \in [Avatar!Key -> {"none", "available", "leased", "completed"}]
  BY KeyNumbers DEF AvatarShape
<1>2. ASSUME NEW u \in Uploader, Avatar!BeginUpload(u) PROVE \A k \in objects' : Accounted(k)'
  <2>1. /\ upload[u] = "idle" /\ UNCHANGED <<objects, avatar, outbox, untracked>>
        /\ \A v \in Uploader \ {u} : upload'[v] = upload[v] /\ key'[v] = key[v]
    BY <1>1, <1>2 DEF Avatar!BeginUpload
  <2>2. QED
    BY <2>1
<1>3. ASSUME NEW u \in Uploader,
             Avatar!Put(u) \/ Avatar!ReadPrevious(u) \/ Avatar!TransactionFails(u)
      PROVE  \A k \in objects' : Accounted(k)'
  <2>1. /\ UNCHANGED <<avatar, outbox, untracked, key>> /\ objects' \subseteq objects \cup {key[u]}
        /\ upload[u] # "idle" /\ upload'[u] # "idle"
        /\ \A v \in Uploader \ {u} : upload'[v] = upload[v]
    BY <1>1, <1>3 DEF Avatar!Put, Avatar!ReadPrevious, Avatar!TransactionFails
  <2>2. QED
    BY <2>1
<1>4. ASSUME NEW u \in Uploader, Avatar!Undo(u) \/ Avatar!UploadDies(u)
      PROVE  \A k \in objects' : Accounted(k)'
  <2>1. /\ UNCHANGED <<avatar, outbox, key>> /\ untracked \subseteq untracked'
        /\ objects' \subseteq objects
        /\ key[u] \in objects' => key[u] \in untracked'
        /\ \A v \in Uploader \ {u} : upload'[v] = upload[v]
    BY <1>1, <1>4 DEF Avatar!Undo, Avatar!UploadDies
  <2>2. QED
    BY <2>1
<1>5. ASSUME NEW k \in KeyOrNone
      PROVE  /\ \A j \in Avatar!Key : outbox[j] # "none" => Avatar!Enqueued(k)[j] # "none"
             /\ k # 0 => Avatar!Enqueued(k)[k] # "none"
  <2>1. /\ \A j \in Avatar!Key : j # k => Avatar!Enqueued(k)[j] = outbox[j]
        /\ k # 0 => Avatar!Enqueued(k)[k] # "none"
    BY EnqueuedFacts
  <2>2. 0 \notin Avatar!Key
    BY KeyNumbers
  <2>3. QED
    BY <2>1, <2>2
<1>6. ASSUME NEW u \in Uploader, Avatar!Commit(u) \/ Avatar!CommitUnknown(u)
      PROVE  \A k \in objects' : Accounted(k)'
  <2>1. /\ avatar' = key[u] /\ UNCHANGED <<objects, key>>
        /\ outbox' = Avatar!Enqueued(previous[u])
        /\ untracked \subseteq untracked'
        /\ avatar \notin {0, previous[u]} => avatar \in untracked'
        /\ \A v \in Uploader \ {u} : upload'[v] = upload[v]
    BY <1>1, <1>6 DEF Avatar!Commit, Avatar!CommitUnknown, Avatar!Replace, KeysApart, Unpublished
  <2>2. /\ \A j \in Avatar!Key : outbox[j] # "none" => outbox'[j] # "none"
        /\ previous[u] # 0 => outbox'[previous[u]] # "none"
    BY <1>1, <1>5, <2>1
  <2>3. QED
    BY <1>1, <2>1, <2>2
<1>7. CASE Avatar!DeleteAvatar \/ Avatar!Erase
  <2>1. UNCHANGED <<objects, upload, key, untracked>> /\ outbox' = Avatar!Enqueued(avatar)
    BY <1>7 DEF Avatar!DeleteAvatar, Avatar!Erase
  <2>2. /\ \A j \in Avatar!Key : outbox[j] # "none" => outbox'[j] # "none"
        /\ avatar # 0 => outbox'[avatar] # "none"
    BY <1>1, <1>5, <2>1
  <2>3. QED
    BY <1>1, <2>1, <2>2
<1>8. ASSUME NEW w \in Worker,
             \/ Avatar!ClaimDeletes(w) \/ Avatar!CompleteDelete(w) \/ Avatar!WorkerStops(w)
             \/ \E k \in Avatar!Key : Avatar!DeleteObject(w, k) \/ Avatar!DeleteFails(w, k)
      PROVE  \A k \in objects' : Accounted(k)'
  <2>1. /\ UNCHANGED <<avatar, upload, key, untracked>> /\ objects' \subseteq objects
        /\ \A j \in Avatar!Key : outbox[j] # "none" => outbox'[j] # "none"
    BY <1>1, <1>8 DEF Avatar!ClaimDeletes, Avatar!CompleteDelete, Avatar!WorkerStops,
                      Avatar!DeleteObject, Avatar!DeleteFails
  <2>2. QED
    BY <1>1, <2>1
<1>9. ASSUME NEW k \in Avatar!Key, Avatar!LeaseExpires(k)
      PROVE  \A j \in objects' : Accounted(j)'
  BY <1>1, <1>9 DEF Avatar!LeaseExpires
<1>10. CASE Avatar!Join \/ UNCHANGED Avatar!vars
  BY <1>10 DEF Avatar!Join, Avatar!vars
<1> QED
  BY <1>2, <1>3, <1>4, <1>6, <1>7, <1>8, <1>9, <1>10, AvatarCases

----------------------------------------------------------------------------
(* The three parts together. *)
DigestInv == Digest!TypeOK /\ HandsFull /\ Digest!OneSweepAtATime /\ DigestLedger
AvatarInv ==
  Avatar!TypeOK /\ KeysApart /\ Avatar!LiveObjectKept /\ \A k \in objects : Accounted(k)
JobsInv == TypeOK /\ DigestInv /\ AvatarInv

LEMMA JobsInitInv == JobsInit => JobsInv
<1> SUFFICES ASSUME JobsInit PROVE JobsInv
  OBVIOUS
<1>1. TypeOK
  BY InitType DEF JobsInit
<1>2. Digest!TypeOK /\ Avatar!TypeOK
  BY DigestInitType, AvatarInitType DEF JobsInit
<1>3. HandsFull /\ Digest!OneSweepAtATime
  BY DEF JobsInit, Digest!Init, HandsFull, Digest!OneSweepAtATime, Digest!Sweeping
<1>4. DigestLedger
  BY JobsAssumption DEF JobsInit, Digest!Init, DigestLedger, InAnyHand
<1>5. KeysApart
  BY DEF JobsInit, Avatar!Init, KeysApart, Unpublished
<1>6. Avatar!LiveObjectKept /\ \A k \in objects : Accounted(k)
  BY DEF JobsInit, Avatar!Init, Avatar!LiveObjectKept
<1>7. QED
  BY <1>1, <1>2, <1>3, <1>4, <1>5, <1>6 DEF JobsInv, DigestInv, AvatarInv

LEMMA DigestInvStep == DigestInv /\ [Digest!Next]_Digest!vars => DigestInv'
BY DigestTypeStep, HandsFullStep, LockStep, DigestLedgerStep DEF DigestInv

LEMMA AvatarInvStep == AvatarInv /\ [Avatar!Next]_Avatar!vars => AvatarInv'
<1> SUFFICES ASSUME AvatarInv, [Avatar!Next]_Avatar!vars PROVE AvatarInv'
  OBVIOUS
<1>1. AvatarShape /\ used \in 0 .. MaxKeys
  BY ShapeIsType DEF AvatarInv
<1>2. Avatar!TypeOK' /\ KeysApart' /\ Avatar!LiveObjectKept' /\ \A k \in objects' : Accounted(k)'
  BY <1>1, AvatarTypeStep, KeysApartStep, LiveKeptStep, AccountedStep DEF AvatarInv
<1>3. QED
  BY <1>2 DEF AvatarInv

(* Digest and avatars share the bound on faults; what one part spends leaves
   the state of the other alone. *)
LEMMA DigestUntouched ==
  ASSUME DigestInv, UNCHANGED digestVars, faults' \in 0 .. MaxFaults PROVE DigestInv'
BY DEF DigestInv, digestVars, Digest!TypeOK, HandsFull, Digest!OneSweepAtATime, DigestLedger,
       InAnyHand
LEMMA AvatarUntouched ==
  ASSUME AvatarInv, UNCHANGED avatarVars, faults' \in 0 .. MaxFaults PROVE AvatarInv'
BY DEF AvatarInv, avatarVars, Avatar!TypeOK, KeysApart, Unpublished, Avatar!LiveObjectKept,
       Accounted

LEMMA JobsStepInv == JobsInv /\ [JobsNext]_jobVars => JobsInv'
<1> SUFFICES ASSUME JobsInv, [JobsNext]_jobVars PROVE JobsInv'
  OBVIOUS
<1>1. faults \in 0 .. MaxFaults
  BY DEF JobsInv, DigestInv, Digest!TypeOK
<1>2. CASE IngestionStep
  <2>1. TypeOK'
    BY <1>2, TypeStep, FeedIngestionAssumption DEF JobsInv, IngestionStep
  <2>2. UNCHANGED digestVars /\ UNCHANGED avatarVars /\ faults' \in 0 .. MaxFaults
    BY <1>1, <1>2 DEF IngestionStep
  <2>3. QED
    BY <2>1, <2>2, DigestUntouched, AvatarUntouched DEF JobsInv
<1>3. CASE DigestStep
  <2>1. UNCHANGED vars /\ UNCHANGED avatarVars /\ Digest!Next
    BY <1>3 DEF DigestStep
  <2>2. DigestInv'
    BY <2>1, DigestInvStep DEF JobsInv
  <2>3. faults' \in 0 .. MaxFaults
    BY <2>2 DEF DigestInv, Digest!TypeOK
  <2>4. TypeOK'
    BY <2>1 DEF JobsInv, TypeOK, vars
  <2>5. QED
    BY <2>1, <2>2, <2>3, <2>4, AvatarUntouched DEF JobsInv
<1>4. CASE AvatarStep
  <2>1. UNCHANGED vars /\ UNCHANGED digestVars /\ Avatar!Next
    BY <1>4 DEF AvatarStep
  <2>2. AvatarInv'
    BY <2>1, AvatarInvStep DEF JobsInv
  <2>3. faults' \in 0 .. MaxFaults
    BY <2>2 DEF AvatarInv, Avatar!TypeOK
  <2>4. TypeOK'
    BY <2>1 DEF JobsInv, TypeOK, vars
  <2>5. QED
    BY <2>1, <2>2, <2>3, <2>4, DigestUntouched DEF JobsInv
<1>5. CASE UNCHANGED jobVars
  <2>1. UNCHANGED vars /\ UNCHANGED digestVars /\ UNCHANGED avatarVars /\ faults' \in 0 .. MaxFaults
    BY <1>1, <1>5 DEF jobVars
  <2>2. TypeOK'
    BY <2>1 DEF JobsInv, TypeOK, vars
  <2>3. QED
    BY <2>1, <2>2, DigestUntouched, AvatarUntouched DEF JobsInv
<1> QED
  BY <1>2, <1>3, <1>4, <1>5 DEF JobsNext, WeekOver

LEMMA JobsHold == JobsSpec => []JobsInv
BY JobsInitInv, JobsStepInv, PTL DEF JobsSpec

(* Dispatcher, digest and cleanup have their types: no batch exceeds its LIMIT,
   and nothing is queued for deletion that was never uploaded. *)
THEOREM JobsTypeCorrect == JobsSpec => []TypesOK
<1>1. JobsInv => TypesOK
  BY DEF JobsInv, DigestInv, AvatarInv, TypesOK
<1>2. QED
  BY <1>1, JobsHold, PTL

(* One replica sweeps at a time unless a lock expired under a run, and until one
   did nobody is pushed more than one digest, but for lost watermarks. *)
THEOREM DigestSentOnce == JobsSpec => []DigestOnce
<1>1. JobsInv => DigestOnce
  <2> SUFFICES ASSUME JobsInv PROVE Digest!OneSweepAtATime /\ Digest!OneDigestPerUser
    BY DEF DigestOnce
  <2>1. Digest!OneSweepAtATime
    BY DEF JobsInv, DigestInv
  <2>2. ASSUME ~everOverdue, NEW u \in User PROVE delivered[u] <= 1 + lost[u]
    <3>1. /\ delivered[u] \in Nat /\ lost[u] \in Nat
          /\ delivered[u] <= lost[u] + (IF u \in sent \/ InAnyHand(u) THEN 1 ELSE 0)
      BY <2>2 DEF JobsInv, DigestInv, Digest!TypeOK, DigestLedger
    <3>2. QED
      BY <3>1
  <2>3. QED
    BY <2>1, <2>2 DEF Digest!OneDigestPerUser
<1>2. QED
  BY <1>1, JobsHold, PTL

(* The object of the current avatar is deleted only by an upload that took its
   own commit for a failure, and every object in the store is live, queued, in
   an upload's hands or one that an overlap or a dead upload left behind. *)
THEOREM AvatarObjectsAccounted == JobsSpec => []ObjectsAccounted
<1>1. JobsInv => ObjectsAccounted
  BY DEF JobsInv, AvatarInv, ObjectsAccounted, Avatar!NothingForgotten, Accounted
<1>2. QED
  BY <1>1, JobsHold, PTL
===============================================================================
