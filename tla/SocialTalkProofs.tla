--------------------------- MODULE SocialTalkProofs ---------------------------
(***************************************************************************)
(* For any users and overlapping requests of MCSocial: the comments of an  *)
(* episode, the posts of a group and what is sent, reviewed and rated have *)
(* their types, are empty once removed, leave nothing of an erased user    *)
(* but what was under way, and agree with the counts, pages and alerts     *)
(* that announce them.                                                     *)
(***************************************************************************)
EXTENDS SocialProofs, Sequences

----------------------------------------------------------------------------
(* The comments of an episode (Comments, here Thread).  What a sequence of
   comments keeps is said of any two sequences, so that every step that writes
   one is a case of the same three lemmas. *)
LEMMA CommentTombstone ==
  ASSUME NEW c \in Thread!EpisodeComment
  PROVE  /\ Thread!Tombstone(c) \in Thread!EpisodeComment
         /\ Thread!Tombstone(c).ep = c.ep /\ Thread!Tombstone(c).parent = c.parent
         /\ Thread!Tombstone(c).root = c.root
         /\ Thread!Tombstone(c).by = Thread!NoOne /\ Thread!Tombstone(c).removed = TRUE
         /\ Thread!Tombstone(c).text = ""
         /\ Thread!Tombstone(Thread!Tombstone(c)) = Thread!Tombstone(c)
BY DEF Thread!Tombstone, Thread!EpisodeComment

LEMMA CommentParent ==
  ASSUME NEW c \in Thread!EpisodeComment
  PROVE  c.parent \in Nat
<1>1. MaxComments \in Nat
  BY TalkAssumption
<1>2. c.parent \in {0} \cup 1 .. MaxComments
  BY DEF Thread!EpisodeComment, Thread!Id
<1>3. QED
  BY <1>1, <1>2

RootIn(S, p) == IF S[p].root = 0 THEN p ELSE S[p].root

(* A reply follows its parent and belongs to its episode and thread; a row is
   empty or has an author. *)
Threaded(S) ==
  /\ S \in Seq(Thread!EpisodeComment) /\ Len(S) <= MaxComments
  /\ \A i \in 1 .. Len(S) :
       /\ S[i].parent # 0 =>
            /\ S[i].parent < i /\ S[S[i].parent].ep = S[i].ep
            /\ S[i].root = RootIn(S, S[i].parent)
       /\ S[i].removed => S[i] = Thread!Tombstone(S[i])
       /\ ~S[i].removed => S[i].by \in User

(* T is a later state of the comments S. *)
Outlives(T, S) ==
  /\ Len(S) <= Len(T)
  /\ \A i \in 1 .. Len(S) :
       /\ T[i].ep = S[i].ep /\ T[i].parent = S[i].parent /\ T[i].root = S[i].root
       /\ T[i].by = S[i].by \/ T[i].removed
  /\ \A i \in 1 .. Len(T) : i > Len(S) => T[i].by \in User

(* The row that a submission is going to insert. *)
Fits(S, c) ==
  /\ c \in Thread!EpisodeComment /\ c.by \in User /\ c.text = "posted" /\ ~c.removed
  /\ c.parent # 0 =>
       /\ c.parent \in 1 .. Len(S) /\ S[c.parent].ep = c.ep /\ c.root = RootIn(S, c.parent)

LEMMA AppendedThread ==
  ASSUME NEW S, NEW c, Threaded(S), Fits(S, c), Len(S) < MaxComments
  PROVE  Threaded(Append(S, c)) /\ Outlives(Append(S, c), S)
<1> DEFINE T == Append(S, c)
<1>1. /\ S \in Seq(Thread!EpisodeComment) /\ c \in Thread!EpisodeComment
      /\ Len(S) \in Nat /\ MaxComments \in Nat
  <2>1. MaxComments \in Nat
    BY TalkAssumption
  <2>2. S \in Seq(Thread!EpisodeComment) /\ c \in Thread!EpisodeComment
    BY DEF Threaded, Fits
  <2>3. QED
    BY <2>1, <2>2
<1>2. /\ T \in Seq(Thread!EpisodeComment) /\ Len(T) = Len(S) + 1 /\ T[Len(S) + 1] = c
      /\ \A i \in 1 .. Len(S) : T[i] = S[i]
  BY <1>1
<1> HIDE DEF T
<1>3. \A i \in 1 .. Len(S) : S[i] \in Thread!EpisodeComment /\ S[i].parent \in Nat
  <2>1. \A i \in 1 .. Len(S) : S[i] \in Thread!EpisodeComment
    BY <1>1
  <2>2. QED
    BY <2>1, CommentParent
<1>4. Outlives(T, S)
  BY <1>1, <1>2 DEF Outlives, Fits
<1>5. ASSUME NEW i \in 1 .. Len(T), T[i].parent # 0
      PROVE  /\ T[i].parent < i /\ T[T[i].parent].ep = T[i].ep
             /\ T[i].root = RootIn(T, T[i].parent)
  <2>1. CASE i \in 1 .. Len(S)
    <3>1. S[i].parent \in 1 .. Len(S)
      BY <1>1, <1>2, <1>3, <1>5, <2>1 DEF Threaded
    <3>2. QED
      BY <1>2, <1>5, <2>1, <3>1 DEF Threaded, RootIn
  <2>2. CASE i = Len(S) + 1
    BY <1>1, <1>2, <1>5, <2>2 DEF Fits, RootIn
  <2>3. QED
    BY <1>1, <1>2, <2>1, <2>2
<1>6. ASSUME NEW i \in 1 .. Len(T)
      PROVE  /\ T[i].removed => T[i] = Thread!Tombstone(T[i])
             /\ ~T[i].removed => T[i].by \in User
  <2>1. CASE i \in 1 .. Len(S)
    BY <1>2, <2>1 DEF Threaded
  <2>2. CASE i = Len(S) + 1
    BY <1>2, <2>2 DEF Fits
  <2>3. QED
    BY <1>1, <1>2, <2>1, <2>2
<1>7. Threaded(T)
  BY <1>1, <1>2, <1>5, <1>6 DEF Threaded
<1>8. QED
  BY <1>4, <1>7 DEF T

(* Rows that were emptied, or rewritten while they had an author. *)
LEMMA RewrittenThread ==
  ASSUME NEW S, NEW T, Threaded(S), T \in Seq(Thread!EpisodeComment), Len(T) = Len(S),
         \A i \in 1 .. Len(S) :
           \/ T[i] \in {S[i], Thread!Tombstone(S[i])}
           \/ ~S[i].removed /\ T[i] = [S[i] EXCEPT !.text = "edited"]
  PROVE  Threaded(T) /\ Outlives(T, S)
<1>1. Len(S) \in Nat /\ \A i \in 1 .. Len(S) : S[i] \in Thread!EpisodeComment
  BY DEF Threaded
<1>2. ASSUME NEW i \in 1 .. Len(S)
      PROVE  /\ T[i].ep = S[i].ep /\ T[i].parent = S[i].parent /\ T[i].root = S[i].root
             /\ T[i].by = S[i].by \/ T[i].removed
             /\ T[i].removed => T[i] = Thread!Tombstone(T[i])
             /\ ~T[i].removed => T[i].by \in User
  <2>1. CASE T[i] = S[i]
    BY <2>1 DEF Threaded
  <2>2. CASE T[i] = Thread!Tombstone(S[i])
    <3>1. S[i] \in Thread!EpisodeComment
      BY <1>1
    <3>2. QED
      BY <2>2, <3>1, CommentTombstone
  <2>3. CASE ~S[i].removed /\ T[i] = [S[i] EXCEPT !.text = "edited"]
    BY <1>1, <2>3 DEF Threaded, Thread!EpisodeComment
  <2>4. QED
    BY <2>1, <2>2, <2>3
<1>3. Outlives(T, S)
  BY <1>1, <1>2 DEF Outlives
<1>4. ASSUME NEW i \in 1 .. Len(T), T[i].parent # 0
      PROVE  /\ T[i].parent < i /\ T[T[i].parent].ep = T[i].ep
             /\ T[i].root = RootIn(T, T[i].parent)
  <2>1. S[i].parent \in 1 .. Len(S)
    <3>1. S[i] \in Thread!EpisodeComment /\ S[i].parent < i
      BY <1>1, <1>2, <1>4 DEF Threaded
    <3>2. S[i].parent \in Nat
      BY <3>1, CommentParent
    <3>3. QED
      BY <1>1, <1>2, <1>4, <3>1, <3>2
  <2>2. QED
    BY <1>2, <1>4, <2>1 DEF Threaded, RootIn
<1>5. QED
  BY <1>2, <1>3, <1>4 DEF Threaded

(* What a request under way has read is still true of a later state. *)
Grounded(S, q) ==
  /\ q.op = "insert" => Fits(S, q.row)
  /\ q.op = "notify" =>
       /\ q.reply \in 1 .. Len(S) /\ S[q.reply].parent # 0
       /\ S[q.reply].by \in {q.by, Thread!NoOne}
  /\ q.op = "edit" =>
       /\ q.id \in 1 .. Len(S) /\ q.before <= Len(S)
       /\ \A j \in 1 .. Len(S) : S[j].parent = q.id => j > q.before

(* A reply that was pushed answered the user it was pushed to. *)
Answered(S, p) ==
  /\ p \in User \X Thread!Id /\ p[2] \in 1 .. Len(S) /\ S[p[2]].parent # 0
  /\ S[p[2]].by # p[1]
  /\ S[S[p[2]].parent].by = p[1] \/ S[S[p[2]].parent].removed

LEMMA RemovedHasNoAuthor ==
  ASSUME NEW S, Threaded(S), NEW i \in 1 .. Len(S), S[i].removed
  PROVE  S[i].by = Thread!NoOne
<1>1. S[i] \in Thread!EpisodeComment /\ S[i] = Thread!Tombstone(S[i])
  BY DEF Threaded
<1>2. QED
  BY <1>1, CommentTombstone

LEMMA GroundedOutlives ==
  ASSUME NEW S, NEW T, Threaded(S), Threaded(T), Outlives(T, S),
         NEW q \in Thread!ReqType, Grounded(S, q)
  PROVE  Grounded(T, q)
<1>1. Len(S) \in Nat /\ Len(T) \in Nat /\ 1 .. Len(S) \subseteq 1 .. Len(T)
  BY DEF Threaded, Outlives
<1>2. q.op = "insert" => Fits(T, q.row)
  BY <1>1 DEF Grounded, Outlives, Fits, RootIn
<1>3. q.op = "notify" => T[q.reply].by \in {q.by, Thread!NoOne}
  BY <1>1, RemovedHasNoAuthor DEF Grounded, Outlives
<1>4. ASSUME q.op = "edit"
      PROVE  /\ q.id \in 1 .. Len(T) /\ q.before <= Len(T)
             /\ \A j \in 1 .. Len(T) : T[j].parent = q.id => j > q.before
  <2>1. q.before \in Nat
    BY <1>4 DEF Thread!ReqType, Thread!Idle
  <2>2. QED
    BY <1>1, <1>4, <2>1 DEF Grounded, Outlives
<1>5. QED
  BY <1>1, <1>2, <1>3, <1>4 DEF Grounded, Outlives

LEMMA AnsweredOutlives ==
  ASSUME NEW S, NEW T, Threaded(S), Threaded(T), Outlives(T, S), NEW p, Answered(S, p)
  PROVE  Answered(T, p)
<1>1. Len(S) \in Nat /\ Len(T) \in Nat /\ 1 .. Len(S) \subseteq 1 .. Len(T)
  BY DEF Threaded, Outlives
<1>2. S[p[2]].parent \in 1 .. Len(S)
  <2>1. /\ S[p[2]] \in Thread!EpisodeComment /\ p[2] \in 1 .. Len(S)
        /\ S[p[2]].parent < p[2] /\ S[p[2]].parent # 0
    BY DEF Answered, Threaded
  <2>2. S[p[2]].parent \in Nat
    BY <2>1, CommentParent
  <2>3. QED
    BY <1>1, <2>1, <2>2
<1>3. p[1] \in User /\ Thread!NoOne \notin User
  BY Zenon, UserAssumption DEF Answered, Thread!NoOne
<1>4. T[p[2]].by # p[1]
  BY <1>1, <1>3, RemovedHasNoAuthor DEF Answered, Outlives
<1>5. S[S[p[2]].parent].removed => S[S[p[2]].parent].by = Thread!NoOne
  BY <1>2, RemovedHasNoAuthor
<1>6. T[S[p[2]].parent].by = p[1] \/ T[S[p[2]].parent].removed
  BY <1>1, <1>2, <1>3, <1>5, RemovedHasNoAuthor DEF Answered, Outlives, Threaded
<1>7. QED
  BY <1>1, <1>2, <1>4, <1>6 DEF Answered, Outlives

ThreadInv ==
  /\ Threaded(comments)
  /\ joined \subseteq User /\ bridged \in BOOLEAN /\ seen \in [User -> 0 .. MaxComments]
  /\ late \subseteq Thread!Id
  /\ req \in [Request -> Thread!ReqType]
  /\ \A r \in Request : Grounded(comments, req[r])
  /\ \A p \in told : Answered(comments, p)
  /\ Thread!ErasedSaysNothing

(* The steps that change no more than the state of their request, and those
   that leave the comments and the requests alone. *)
ThreadAsks(r) ==
  \/ \E m \in Thread!CommentSubmitRequest : Thread!PostCommentSubmit(r, m)
  \/ \E m \in Thread!CommentEditRequest : Thread!PostCommentEdit(r, m)
  \/ Thread!RequestFails(r)
ThreadQuiet ==
  \/ \E u \in User : \/ Thread!PostInboxRepliesSeen(u) \/ Thread!JoinAgain(u)
                     \/ \E v \in User : Thread!Relate(u, v)
  \/ Thread!StoreAlias \/ UNCHANGED Thread!vars

LEMMA ThreadCases ==
  ASSUME [Thread!Next]_Thread!vars
  PROVE  \/ \E r \in Request : ThreadAsks(r)
         \/ \E r \in Request :
              Thread!InsertComment(r) \/ Thread!NotifyParent(r) \/ Thread!EditComment(r)
         \/ \E m \in Thread!CommentDeleteRequest : Thread!PostCommentDelete(m)
         \/ \E u \in User : Thread!Erase(u)
         \/ ThreadQuiet
BY DEF Thread!Next, Thread!Submit, Thread!Step, ThreadAsks, ThreadQuiet

LEMMA ThreadAsksKeeps ==
  ASSUME NEW r \in Request, ThreadAsks(r)
  PROVE  UNCHANGED <<comments, joined, bridged, seen, told, late>>
BY DEF ThreadAsks, Thread!PostCommentSubmit, Thread!PostCommentEdit, Thread!RequestFails,
       Thread!rows, Thread!people, Thread!catalog, Thread!history

LEMMA ThreadQuietKeeps ==
  ASSUME ThreadQuiet
  PROVE  UNCHANGED <<comments, req, told, late>> /\ joined \subseteq joined'
BY DEF ThreadQuiet, Thread!PostInboxRepliesSeen, Thread!JoinAgain, Thread!Relate,
       Thread!StoreAlias, Thread!Once, Thread!vars, Thread!rows, Thread!people,
       Thread!catalog, Thread!history

(* Every step leaves a thread, in which the rows there were are where they were. *)
LEMMA ThreadRows ==
  ASSUME ThreadInv, [Thread!Next]_Thread!vars
  PROVE  Threaded(comments') /\ Outlives(comments', comments)
<1>1. Threaded(comments) /\ comments \in Seq(Thread!EpisodeComment) /\ Len(comments) \in Nat
  BY DEF ThreadInv, Threaded
<1>2. \A i \in 1 .. Len(comments) : comments[i] \in Thread!EpisodeComment
  BY <1>1
<1>3. ASSUME NEW r \in Request, Thread!InsertComment(r)
      PROVE  Threaded(comments') /\ Outlives(comments', comments)
  <2>1. /\ comments' = Append(comments, req[r].row) /\ Len(comments) < MaxComments
        /\ Fits(comments, req[r].row)
    BY <1>3 DEF Thread!InsertComment, ThreadInv, Grounded
  <2>2. QED
    BY <1>1, <2>1, AppendedThread
<1>4. ASSUME NEW r \in Request, Thread!EditComment(r)
      PROVE  Threaded(comments') /\ Outlives(comments', comments)
  <2>1. PICK i : comments' = IF i \in 1 .. Len(comments) /\ ~comments[i].removed
                                /\ comments[i].by = req[r].by
                             THEN [comments EXCEPT ![i].text = "edited"] ELSE comments
    BY <1>4 DEF Thread!EditComment, Thread!Live, Thread!Ids
  <2>2. /\ comments' \in Seq(Thread!EpisodeComment) /\ Len(comments') = Len(comments)
        /\ \A j \in 1 .. Len(comments) :
             \/ comments'[j] = comments[j]
             \/ ~comments[j].removed /\ comments'[j] = [comments[j] EXCEPT !.text = "edited"]
    <3>1. CASE comments' = comments
      BY <1>1, <3>1
    <3>2. CASE /\ i \in 1 .. Len(comments) /\ ~comments[i].removed
               /\ comments' = [comments EXCEPT ![i].text = "edited"]
      <4>1. [comments[i] EXCEPT !.text = "edited"] \in Thread!EpisodeComment
        BY <1>2, <3>2 DEF Thread!EpisodeComment
      <4>2. comments' = [comments EXCEPT ![i] = [comments[i] EXCEPT !.text = "edited"]]
        BY <3>2
      <4>3. QED
        BY <1>1, <3>2, <4>1, <4>2
    <3>3. QED
      BY <2>1, <3>1, <3>2
  <2>3. QED
    BY <1>1, <2>2, RewrittenThread
<1>5. ASSUME NEW m \in Thread!CommentDeleteRequest, Thread!PostCommentDelete(m)
      PROVE  Threaded(comments') /\ Outlives(comments', comments)
  <2>1. PICK i \in 1 .. Len(comments) :
           comments' = [comments EXCEPT ![i] = Thread!Tombstone(comments[i])]
    BY <1>5 DEF Thread!PostCommentDelete, Thread!TombstoneComment, Thread!Live, Thread!Ids
  <2>2. Thread!Tombstone(comments[i]) \in Thread!EpisodeComment
    BY <1>2, CommentTombstone
  <2>3. /\ comments' \in Seq(Thread!EpisodeComment) /\ Len(comments') = Len(comments)
        /\ \A j \in 1 .. Len(comments) :
             comments'[j] \in {comments[j], Thread!Tombstone(comments[j])}
    BY <1>1, <2>1, <2>2
  <2>4. QED
    BY <1>1, <2>3, RewrittenThread
<1>6. ASSUME NEW u \in User, Thread!Erase(u)
      PROVE  Threaded(comments') /\ Outlives(comments', comments)
  <2>1. comments' = [i \in 1 .. Len(comments) |->
                       IF comments[i].by = u THEN Thread!Tombstone(comments[i]) ELSE comments[i]]
    BY <1>6 DEF Thread!Erase, Thread!TombstoneCommentsForUser, Thread!Ids
  <2>2. \A i \in 1 .. Len(comments) :
           /\ comments'[i] \in {comments[i], Thread!Tombstone(comments[i])}
           /\ comments'[i] \in Thread!EpisodeComment
    BY <1>2, <2>1, CommentTombstone
  <2>3. comments' \in Seq(Thread!EpisodeComment) /\ Len(comments') = Len(comments)
    BY <1>1, <2>1, <2>2
  <2>4. QED
    BY <1>1, <2>2, <2>3, RewrittenThread
<1>7. CASE UNCHANGED comments
  BY <1>1, <1>7, RewrittenThread
<1> QED
  BY <1>3, <1>4, <1>5, <1>6, <1>7, ThreadCases, ThreadAsksKeeps, ThreadQuietKeeps
     DEF Thread!NotifyParent, Thread!rows

(* What a request reads before it changes its state is true when it does. *)
LEMMA ThreadRequests ==
  ASSUME ThreadInv, [Thread!Next]_Thread!vars
  PROVE  req' \in [Request -> Thread!ReqType] /\ \A r \in Request : Grounded(comments', req'[r])
<1> DEFINE Becomes(r, q) == req' = [req EXCEPT ![r] = q] /\ q \in Thread!ReqType
                            /\ Grounded(comments', q)
<1>1. /\ Threaded(comments) /\ Threaded(comments') /\ Outlives(comments', comments)
      /\ req \in [Request -> Thread!ReqType] /\ \A r \in Request : Grounded(comments, req[r])
      /\ Len(comments) \in Nat /\ MaxComments \in Nat /\ Len(comments) <= MaxComments
      /\ \A i \in 1 .. Len(comments) : comments[i] \in Thread!EpisodeComment
  <2>1. Threaded(comments) /\ Threaded(comments') /\ Outlives(comments', comments)
    BY ThreadRows DEF ThreadInv
  <2>2. MaxComments \in Nat
    BY TalkAssumption
  <2>3. QED
    BY <2>1, <2>2 DEF ThreadInv, Threaded
<1>2. \A r \in Request : Grounded(comments', req[r])
  BY <1>1, GroundedOutlives
<1>3. ASSUME NEW r \in Request, NEW q, Becomes(r, q)
      PROVE  req' \in [Request -> Thread!ReqType] /\ \A x \in Request : Grounded(comments', req'[x])
  BY <1>1, <1>2, <1>3
<1>4. Thread!Idle \in Thread!ReqType /\ \A S : Grounded(S, Thread!Idle)
  BY DEF Thread!ReqType, Thread!Idle, Grounded
<1>5. ASSUME NEW r \in Request, NEW m \in Thread!CommentSubmitRequest,
             Thread!PostCommentSubmit(r, m)
      PROVE  \E q : Becomes(r, q)
  <2> DEFINE e == Thread!canonicalEpisodeUuid(m.ep)
             row == [ep |-> e, by |-> m.by, parent |-> m.parent, root |-> Thread!RootOf(m.parent),
                     text |-> "posted", quote |-> m.quote, removed |-> FALSE]
             q == [op |-> "insert", by |-> m.by, row |-> row]
  <2>1. /\ req' = [req EXCEPT ![r] = q] /\ comments' = comments
        /\ m.parent # 0 => Thread!MayReply(m.by, e, m.parent)
    BY <1>5 DEF Thread!PostCommentSubmit, Thread!Spend, Thread!rows
  <2>2. /\ m.by \in User /\ m.ep \in Thread!Uuid /\ m.quote \in BOOLEAN
        /\ m.parent \in {0} \cup Thread!Id
    BY DEF Thread!CommentSubmitRequest
  <2>3. e \in Thread!Uuid
    BY <2>2 DEF Thread!canonicalEpisodeUuid, Thread!Uuid
  <2>4. m.parent # 0 => m.parent \in 1 .. Len(comments) /\ comments[m.parent].ep = e
    BY <2>1 DEF Thread!MayReply, Thread!Live, Thread!Ids
  <2>5. /\ Thread!RootOf(m.parent) \in {0} \cup Thread!Id
        /\ m.parent # 0 => Thread!RootOf(m.parent) = RootIn(comments, m.parent)
    BY <1>1, <2>2, <2>4 DEF Thread!RootOf, RootIn, Thread!EpisodeComment
  <2>6. row \in Thread!EpisodeComment
    BY <2>2, <2>3, <2>5 DEF Thread!EpisodeComment
  <2>7. Fits(comments, row)
    BY <2>2, <2>4, <2>5, <2>6 DEF Fits
  <2> HIDE DEF row, e
  <2>8. q \in Thread!ReqType /\ Grounded(comments, q)
    BY <2>2, <2>6, <2>7 DEF Thread!ReqType, Grounded
  <2>9. QED
    BY <2>1, <2>8
<1>6. ASSUME NEW r \in Request, NEW m \in Thread!CommentEditRequest, Thread!PostCommentEdit(r, m)
      PROVE  \E q : Becomes(r, q)
  <2> DEFINE q == [op |-> "edit", by |-> m.by, id |-> m.comment, before |-> Len(comments)]
  <2>1. /\ req' = [req EXCEPT ![r] = q] /\ comments' = comments
        /\ m.comment \in 1 .. Len(comments)
        /\ \A j \in 1 .. Len(comments) : comments[j].parent # m.comment
    BY <1>6 DEF Thread!PostCommentEdit, Thread!Spend, Thread!rows, Thread!Live, Thread!Ids,
                Thread!HasReplies, Thread!Replies
  <2>2. q \in Thread!ReqType
    BY <1>1 DEF Thread!CommentEditRequest, Thread!ReqType
  <2>3. Grounded(comments, q)
    BY <1>1, <2>1 DEF Grounded
  <2>4. QED
    BY <2>1, <2>2, <2>3
<1>7. ASSUME NEW r \in Request, Thread!InsertComment(r)
      PROVE  \E q : Becomes(r, q)
  <2>1. /\ req[r].op = "insert" /\ Len(comments) < MaxComments
        /\ comments' = Append(comments, req[r].row)
        /\ req' = [req EXCEPT ![r] =
                     IF req[r].row.parent = 0 THEN Thread!Idle
                     ELSE [op |-> "notify", by |-> req[r].row.by, reply |-> Len(comments) + 1]]
    BY <1>7 DEF Thread!InsertComment, Thread!Go
  <2>2. Fits(comments, req[r].row)
    BY <1>1, <2>1 DEF Grounded
  <2>3. CASE req[r].row.parent = 0
    BY <1>4, <2>1, <2>3
  <2>4. CASE req[r].row.parent # 0
    <3> DEFINE q == [op |-> "notify", by |-> req[r].row.by, reply |-> Len(comments) + 1]
    <3>1. q \in Thread!ReqType
      BY <1>1, <2>1, <2>2 DEF Fits, Thread!ReqType, Thread!Id
    <3>2. /\ Len(comments') = Len(comments) + 1
          /\ comments'[Len(comments) + 1] = req[r].row
      BY <2>1, <2>2 DEF Fits
    <3>3. Grounded(comments', q)
      BY <1>1, <2>4, <3>2 DEF Grounded
    <3>4. QED
      BY <2>1, <2>4, <3>1, <3>3
  <2>5. QED
    BY <2>3, <2>4
<1>8. ASSUME NEW r \in Request,
             Thread!RequestFails(r) \/ Thread!NotifyParent(r) \/ Thread!EditComment(r)
      PROVE  Becomes(r, Thread!Idle)
  BY <1>4, <1>8 DEF Thread!RequestFails, Thread!NotifyParent, Thread!EditComment, Thread!Go
<1>9. CASE UNCHANGED req
  BY <1>1, <1>2, <1>9
<1> HIDE DEF Becomes
<1> QED
  BY <1>3, <1>5, <1>6, <1>7, <1>8, <1>9, ThreadCases, ThreadQuietKeeps
     DEF ThreadAsks, Thread!PostCommentDelete, Thread!Erase, Thread!Once

(* A push tells the author of the row that was answered. *)
LEMMA ThreadPushes ==
  ASSUME ThreadInv, [Thread!Next]_Thread!vars
  PROVE  \A p \in told' : Answered(comments', p)
<1>1. /\ Threaded(comments) /\ Threaded(comments') /\ Outlives(comments', comments)
      /\ \A p \in told : Answered(comments, p)
  BY ThreadRows DEF ThreadInv
<1>2. \A p \in told : Answered(comments', p)
  BY <1>1, AnsweredOutlives
<1>3. ASSUME NEW r \in Request, Thread!NotifyParent(r)
      PROVE  \A p \in told' : Answered(comments', p)
  <2> DEFINE i == req[r].reply
             a == comments[comments[i].parent].by
  <2>1. /\ req[r].op = "notify" /\ comments' = comments
        /\ told' = told \/ (told' = told \cup {<<a, i>>} /\ a \notin {Thread!NoOne, req[r].by})
    BY <1>3 DEF Thread!NotifyParent, Thread!rows
  <2>2. /\ i \in 1 .. Len(comments) /\ comments[i].parent # 0
        /\ comments[i].by \in {req[r].by, Thread!NoOne}
    BY <2>1 DEF ThreadInv, Grounded
  <2>3. /\ Len(comments) \in Nat /\ MaxComments \in Nat /\ Len(comments) <= MaxComments
        /\ \A j \in 1 .. Len(comments) : comments[j] \in Thread!EpisodeComment
    <3>1. MaxComments \in Nat
      BY TalkAssumption
    <3>2. QED
      BY <1>1, <3>1 DEF Threaded
  <2>4. comments[i].parent \in 1 .. Len(comments)
    <3>1. comments[i].parent \in Nat /\ comments[i].parent < i
      BY <1>1, <2>2, <2>3, CommentParent DEF Threaded
    <3>2. QED
      BY <2>2, <2>3, <3>1
  <2>5. a \in User \cup {Thread!NoOne}
    BY <2>3, <2>4 DEF Thread!EpisodeComment
  <2>6. CASE told' = told \cup {<<a, i>>} /\ a \notin {Thread!NoOne, req[r].by}
    <3>1. Answered(comments, <<a, i>>)
      BY <2>2, <2>3, <2>5, <2>6 DEF Answered, Thread!Id
    <3>2. QED
      BY <1>2, <2>1, <2>6, <3>1
  <2>7. QED
    BY <1>2, <2>1, <2>6
<1>4. CASE UNCHANGED told
  BY <1>2, <1>4
<1> QED
  BY <1>3, <1>4, ThreadCases, ThreadAsksKeeps, ThreadQuietKeeps
     DEF Thread!InsertComment, Thread!EditComment, Thread!PostCommentDelete, Thread!Erase,
         Thread!history

(* A row of a user who is not joined was under way when that user was erased. *)
LEMMA ThreadErased ==
  ASSUME ThreadInv, [Thread!Next]_Thread!vars
  PROVE  Thread!ErasedSaysNothing'
<1> DEFINE Named(T, J, L) == \A i \in 1 .. Len(T) : T[i].by # Thread!NoOne /\ T[i].by \notin J => i \in L
<1>1. /\ Threaded(comments) /\ Threaded(comments') /\ Outlives(comments', comments)
      /\ Len(comments) \in Nat /\ comments \in Seq(Thread!EpisodeComment)
      /\ Named(comments, joined, late)
  BY ThreadRows DEF ThreadInv, Thread!ErasedSaysNothing, Thread!Ids, Threaded
<1>2. ASSUME Len(comments') = Len(comments), joined \subseteq joined', late' = late
      PROVE  Named(comments', joined', late')
  BY <1>1, <1>2, RemovedHasNoAuthor DEF Outlives
<1>3. ASSUME NEW r \in Request, Thread!InsertComment(r)
      PROVE  Named(comments', joined', late')
  <2>1. /\ comments' = Append(comments, req[r].row) /\ joined' = joined
        /\ late' = IF req[r].row.by \in joined THEN late ELSE late \cup {Len(comments) + 1}
    BY <1>3 DEF Thread!InsertComment, Thread!people
  <2>2. /\ Len(comments') = Len(comments) + 1 /\ comments'[Len(comments) + 1] = req[r].row
        /\ \A i \in 1 .. Len(comments) : comments'[i] = comments[i]
    BY <1>1, <2>1
  <2>3. QED
    BY <1>1, <2>1, <2>2
<1>4. ASSUME NEW u \in User, Thread!Erase(u)
      PROVE  Named(comments', joined', late')
  <2>1. /\ joined' = joined \ {u} /\ late' = late
        /\ comments' = [i \in 1 .. Len(comments) |->
                          IF comments[i].by = u THEN Thread!Tombstone(comments[i]) ELSE comments[i]]
    BY <1>4 DEF Thread!Erase, Thread!TombstoneCommentsForUser, Thread!Ids, Thread!history
  <2>2. Len(comments') = Len(comments)
    BY <1>1, <2>1
  <2>3. \A i \in 1 .. Len(comments) :
           comments'[i].by = Thread!NoOne \/ (comments'[i] = comments[i] /\ comments[i].by # u)
    <3>1. \A i \in 1 .. Len(comments) : comments[i] \in Thread!EpisodeComment
      BY <1>1
    <3>2. QED
      BY <2>1, <3>1, CommentTombstone
  <2>4. QED
    BY <1>1, <2>1, <2>2, <2>3
<1>5. ASSUME \/ \E r \in Request : Thread!EditComment(r)
             \/ \E m \in Thread!CommentDeleteRequest : Thread!PostCommentDelete(m)
      PROVE  Named(comments', joined', late')
  <2>1. UNCHANGED <<joined, late>>
    BY <1>5 DEF Thread!EditComment, Thread!PostCommentDelete, Thread!people, Thread!history
  <2>2. Len(comments') = Len(comments)
    <3>1. ASSUME NEW r \in Request, Thread!EditComment(r) PROVE Len(comments') = Len(comments)
      BY <1>1, <3>1 DEF Thread!EditComment
    <3>2. ASSUME NEW m, Thread!PostCommentDelete(m) PROVE Len(comments') = Len(comments)
      BY <1>1, <3>2 DEF Thread!PostCommentDelete, Thread!TombstoneComment
    <3>3. QED
      BY <1>5, <3>1, <3>2
  <2>3. QED
    BY <1>2, <2>1, <2>2
<1>6. ASSUME UNCHANGED comments, joined \subseteq joined', UNCHANGED late
      PROVE  Named(comments', joined', late')
  BY <1>2, <1>6
<1>7. Named(comments', joined', late')
  <2> HIDE DEF Named
  <2>1. ASSUME NEW r \in Request, Thread!NotifyParent(r)
        PROVE  Named(comments', joined', late')
    BY <1>6, <2>1 DEF Thread!NotifyParent, Thread!rows, Thread!people
  <2>2. ASSUME NEW r \in Request, ThreadAsks(r) PROVE Named(comments', joined', late')
    BY <1>6, <2>2, ThreadAsksKeeps
  <2>3. ASSUME ThreadQuiet PROVE Named(comments', joined', late')
    BY <1>6, <2>3, ThreadQuietKeeps
  <2> QED
    BY <1>3, <1>4, <1>5, <2>1, <2>2, <2>3, ThreadCases
<1> QED
  BY <1>7 DEF Thread!ErasedSaysNothing, Thread!Ids

LEMMA ThreadRest ==
  ASSUME ThreadInv, [Thread!Next]_Thread!vars
  PROVE  /\ joined' \subseteq User /\ bridged' \in BOOLEAN /\ late' \subseteq Thread!Id
         /\ seen' \in [User -> 0 .. MaxComments]
<1>1. /\ joined \subseteq User /\ bridged \in BOOLEAN /\ late \subseteq Thread!Id
      /\ seen \in [User -> 0 .. MaxComments]
      /\ Len(comments) \in Nat /\ MaxComments \in Nat /\ Len(comments) <= MaxComments
  <2>1. MaxComments \in Nat
    BY TalkAssumption
  <2>2. QED
    BY <2>1 DEF ThreadInv, Threaded
<1>2. ASSUME NEW r \in Request, Thread!InsertComment(r)
      PROVE  UNCHANGED <<joined, bridged, seen>> /\ late' \subseteq Thread!Id
  BY <1>1, <1>2 DEF Thread!InsertComment, Thread!people, Thread!catalog, Thread!Id
<1>3. ASSUME NEW u \in User, Thread!Erase(u)
      PROVE  joined' \subseteq User /\ UNCHANGED <<bridged, seen, late>>
  BY <1>1, <1>3 DEF Thread!Erase, Thread!catalog, Thread!history
<1>4. ASSUME \/ \E r \in Request : Thread!NotifyParent(r) \/ Thread!EditComment(r)
             \/ \E m \in Thread!CommentDeleteRequest : Thread!PostCommentDelete(m)
      PROVE  UNCHANGED <<joined, bridged, seen, late>>
  BY <1>4 DEF Thread!NotifyParent, Thread!EditComment, Thread!PostCommentDelete,
              Thread!rows, Thread!people, Thread!catalog, Thread!history
<1>5. CASE ThreadQuiet
  <2>1. ASSUME NEW u \in User, Thread!PostInboxRepliesSeen(u) \/ Thread!JoinAgain(u)
        PROVE  /\ joined' \subseteq User /\ UNCHANGED <<bridged, late>>
               /\ seen' = [seen EXCEPT ![u] = Len(comments)]
    BY <1>1, <2>1 DEF Thread!PostInboxRepliesSeen, Thread!JoinAgain, Thread!SetRepliesSeen,
                      Thread!people, Thread!catalog, Thread!history
  <2>2. CASE \/ \E u, v \in User : Thread!Relate(u, v)
             \/ Thread!StoreAlias \/ UNCHANGED Thread!vars
    BY <1>1, <2>2 DEF Thread!Relate, Thread!StoreAlias, Thread!vars, Thread!rows, Thread!people,
                      Thread!catalog, Thread!history
  <2>3. Len(comments) \in 0 .. MaxComments
    BY <1>1
  <2>4. QED
    BY <1>1, <1>5, <2>1, <2>2, <2>3 DEF ThreadQuiet
<1> QED
  BY <1>1, <1>2, <1>3, <1>4, <1>5, ThreadCases, ThreadAsksKeeps

LEMMA ThreadStepInv == ThreadInv /\ [Thread!Next]_Thread!vars => ThreadInv'
BY ThreadRows, ThreadRequests, ThreadPushes, ThreadErased, ThreadRest DEF ThreadInv

LEMMA ThreadInitInv == Thread!Init => ThreadInv
<1> SUFFICES ASSUME Thread!Init PROVE ThreadInv
  OBVIOUS
<1>1. comments = << >> /\ Len(comments) = 0 /\ MaxComments \in Nat
  BY TalkAssumption DEF Thread!Init
<1>2. Threaded(comments) /\ Thread!ErasedSaysNothing
  BY <1>1 DEF Threaded, Thread!ErasedSaysNothing, Thread!Ids
<1>3. Thread!Idle \in Thread!ReqType /\ Grounded(comments, Thread!Idle)
  BY DEF Thread!ReqType, Thread!Idle, Grounded
<1>4. /\ req \in [Request -> Thread!ReqType] /\ \A r \in Request : Grounded(comments, req[r])
      /\ seen \in [User -> 0 .. MaxComments]
  BY <1>1, <1>3 DEF Thread!Init
<1>5. told = {} /\ late = {} /\ bridged = FALSE /\ joined = User
  BY DEF Thread!Init
<1>6. QED
  BY <1>2, <1>4, <1>5 DEF ThreadInv

(* The properties of the comments follow. *)
LEMMA ThreadTyped == ThreadInv => Thread!TypeOK /\ Thread!TombstonesAreEmpty
<1> SUFFICES ASSUME ThreadInv PROVE Thread!TypeOK /\ Thread!TombstonesAreEmpty
  OBVIOUS
<1>1. /\ comments \in Seq(Thread!EpisodeComment) /\ Len(comments) \in Nat
      /\ \A i \in 1 .. Len(comments) : comments[i] \in Thread!EpisodeComment
  BY DEF ThreadInv, Threaded
<1>2. ASSUME NEW i \in 1 .. Len(comments), comments[i].parent # 0
      PROVE  comments[i].root = Thread!RootOf(comments[i].parent)
  BY <1>2 DEF ThreadInv, Threaded, RootIn, Thread!RootOf
<1>3. told \subseteq User \X Thread!Id
  BY DEF ThreadInv, Answered
<1>4. QED
  BY <1>1, <1>2, <1>3 DEF ThreadInv, Threaded, Thread!TypeOK, Thread!TombstonesAreEmpty, Thread!Ids

LEMMA ThreadCardinality == \A S : Thread!Cardinality(S) = Cardinality(S)
BY Zenon DEF Thread!Cardinality, Cardinality

LEMMA ImageSize ==
  ASSUME NEW S, IsFiniteSet(S), NEW f, DOMAIN f = S,
         \A x, y \in S : f[x] = f[y] => x = y
  PROVE  Cardinality({f[x] : x \in S}) = Cardinality(S)
<1> DEFINE T == {f[x] : x \in S}
           g == [x \in S |-> f[x]]
<1>1. g \in Surjection(S, T)
  BY DEF Surjection
<1>2. g \in Injection(S, T)
  BY DEF Injection, IsInjective
<1> HIDE DEF g, T
<1>3. Cardinality(T) = Cardinality(S)
  BY <1>1, <1>2, FS_Surjection
<1> QED BY <1>3 DEF T

(* A page lists as many comments as ids, for each names its id. *)
LEMMA CommentPages ==
  ASSUME NEW v, NEW S \in SUBSET Thread!Ids, Len(comments) \in Nat
  PROVE  /\ IsFiniteSet(S)
         /\ Thread!Cardinality({Thread!SocialComment(v, i) : i \in S}) = Thread!Cardinality(S)
<1> DEFINE f == [i \in S |-> Thread!SocialComment(v, i)]
<1>1. IsFiniteSet(S)
  <2>1. IsFiniteSet(1 .. Len(comments))
    BY FS_Interval
  <2>2. QED
    BY <2>1, FS_Subset DEF Thread!Ids
<1>2. \A i \in S : f[i].id = i
  BY DEF Thread!SocialComment
<1>3. {Thread!SocialComment(v, i) : i \in S} = {f[i] : i \in S}
  OBVIOUS
<1>4. DOMAIN f = S /\ \A x, y \in S : f[x] = f[y] => x = y
  BY <1>2
<1> HIDE DEF f
<1>5. Cardinality({f[i] : i \in S}) = Cardinality(S)
  BY <1>1, <1>4, ImageSize
<1> QED
  BY <1>1, <1>3, <1>5, ThreadCardinality

LEMMA ThreadCounts == ThreadInv => Thread!CountsMatchPages
<1> SUFFICES ASSUME ThreadInv PROVE Thread!CountsMatchPages
  OBVIOUS
<1>1. Len(comments) \in Nat /\ \A i \in Thread!Ids : comments[i] \in Thread!EpisodeComment
  BY DEF ThreadInv, Threaded, Thread!Ids
<1>2. ASSUME NEW m \in Thread!CommentRepliesRequest, m.parent \in Thread!Ids
      PROVE  LET page == Thread!PostCommentReplies(m)
             IN /\ Thread!Cardinality(page.comments) = page.total
                /\ Thread!SocialComment(m.by, m.parent).replyCount = page.total
  <2> DEFINE S == {i \in Thread!Replies(m.parent) : Thread!ShownTo(m.by, i)}
  <2>1. S \in SUBSET Thread!Ids
    BY DEF Thread!Replies
  <2> HIDE DEF S
  <2>2. Thread!Cardinality({Thread!SocialComment(m.by, i) : i \in S}) = Thread!Cardinality(S)
    BY <1>1, <2>1, CommentPages
  <2>3. /\ Thread!GetCommentReplies(m.by, m.parent) = S
        /\ Thread!CountCommentReplies(m.by, m.parent) = Thread!Cardinality(S)
        /\ Thread!ReplyCount(m.by, m.parent) = Thread!Cardinality(S)
    BY DEF S, Thread!GetCommentReplies, Thread!CountCommentReplies, Thread!ReplyCount
  <2>4. Thread!SocialComment(m.by, m.parent).replyCount = Thread!ReplyCount(m.by, m.parent)
    BY DEF Thread!SocialComment
  <2>5. QED
    BY <2>2, <2>3, <2>4 DEF Thread!PostCommentReplies, Thread!CommentsResponse
<1>3. ASSUME NEW m \in Thread!EpisodeCommentsRequest
      PROVE  LET page == Thread!PostEpisodeComments(m)
             IN page.total = Thread!Cardinality(page.comments)
  <2> DEFINE e == Thread!canonicalEpisodeUuid(m.ep)
             S == {i \in Thread!Ids : /\ comments[i].ep = e /\ comments[i].parent = 0
                                      /\ Thread!ShownTo(m.by, i)}
  <2>1. S \in SUBSET Thread!Ids
    OBVIOUS
  <2>2. /\ Thread!GetEpisodeComments(m.by, e) = S
        /\ Thread!CountEpisodeComments(m.by, e) = Thread!Cardinality(S)
    BY DEF Thread!GetEpisodeComments, Thread!CountEpisodeComments
  <2> HIDE DEF S
  <2>3. Thread!Cardinality({Thread!SocialComment(m.by, i) : i \in S}) = Thread!Cardinality(S)
    BY <1>1, <2>1, CommentPages
  <2>4. QED
    BY <2>2, <2>3 DEF Thread!PostEpisodeComments, Thread!CommentsResponse
<1>4. ASSUME NEW u \in joined
      PROVE  LET inbox == Thread!PostInboxReplies(u)
             IN /\ inbox.unread <= inbox.total
                /\ late = {} => inbox.total = Thread!Cardinality(inbox.replies)
  <2> DEFINE All == {i \in Thread!Ids : Thread!ToCaller(u, i)}
             New == {i \in Thread!Ids : Thread!ToCaller(u, i) /\ i > seen[u]}
  <2>1. /\ Thread!CountInboxReplies(u) = Thread!Cardinality(All)
        /\ Thread!CountUnreadInboxReplies(u) = Thread!Cardinality(New)
    BY DEF Thread!CountInboxReplies, Thread!CountUnreadInboxReplies
  <2>2. All \in SUBSET Thread!Ids /\ New \subseteq All
    OBVIOUS
  <2>3. late = {} => Thread!GetInboxReplies(u) = All
    <3>1. ASSUME late = {}, NEW i \in Thread!Ids, Thread!ToCaller(u, i)
          PROVE  comments[i].by \in joined
      <4>1. ~comments[i].removed
        BY <3>1 DEF Thread!ToCaller
      <4>2. comments[i].by \in User
        BY <4>1 DEF ThreadInv, Threaded, Thread!Ids
      <4>3. Thread!NoOne \notin User
        BY Zenon, UserAssumption DEF Thread!NoOne
      <4>4. QED
        BY <3>1, <4>2, <4>3 DEF ThreadInv, Thread!ErasedSaysNothing
    <3>2. QED
      BY <3>1 DEF Thread!GetInboxReplies
  <2> HIDE DEF All, New
  <2>4. IsFiniteSet(All) /\ Thread!Cardinality({Thread!SocialComment(u, i) : i \in All})
                              = Thread!Cardinality(All)
    BY <1>1, <2>2, CommentPages
  <2>5. Thread!Cardinality(New) <= Thread!Cardinality(All)
    BY <2>2, <2>4, FS_Subset, ThreadCardinality
  <2>6. QED
    BY <2>1, <2>3, <2>4, <2>5 DEF Thread!PostInboxReplies, Thread!InboxRepliesResponse
<1>5. QED
  BY <1>2, <1>3, <1>4 DEF Thread!CountsMatchPages

LEMMA ThreadPushed == ThreadInv => Thread!PushedIsListed
<1> SUFFICES ASSUME ThreadInv, NEW p \in told,
                    ~comments[p[2]].removed, Thread!ShownTo(p[1], p[2]),
                    comments[p[2]].by \in joined,
                    ~comments[comments[p[2]].parent].removed
             PROVE  p[2] \in Thread!GetInboxReplies(p[1])
  BY DEF Thread!PushedIsListed
<1>1. Answered(comments, p)
  BY DEF ThreadInv
<1>2. QED
  BY <1>1 DEF Answered, Thread!GetInboxReplies, Thread!ToCaller, Thread!Ids

(* A text changes while the replies there are came after the edit's check. *)
LEMMA ThreadEdits ==
  ASSUME ThreadInv, [Thread!Next]_Thread!vars, NEW i \in Thread!Ids,
         comments'[i].text = "edited", comments[i].text = "posted"
  PROVE  \E r \in Request : /\ req[r].op = "edit" /\ req[r].id = i
                            /\ \A j \in Thread!Replies(i) : j > req[r].before
<1>1. /\ comments \in Seq(Thread!EpisodeComment) /\ Len(comments) \in Nat
      /\ i \in 1 .. Len(comments) /\ comments[i] \in Thread!EpisodeComment
  BY DEF ThreadInv, Threaded, Thread!Ids
<1>2. Thread!Tombstone(comments[i]).text = ""
  BY <1>1, CommentTombstone
<1>3. ASSUME NEW r \in Request, Thread!EditComment(r)
      PROVE  /\ req[r].op = "edit" /\ req[r].id = i
             /\ \A j \in Thread!Replies(i) : j > req[r].before
  <2>1. req[r].op = "edit" /\ req[r].id = i
    BY <1>1, <1>3 DEF Thread!EditComment
  <2>2. QED
    BY <2>1 DEF ThreadInv, Grounded, Thread!Replies, Thread!Ids
<1>4. ASSUME NEW r \in Request, Thread!InsertComment(r) PROVE FALSE
  BY <1>1, <1>4 DEF Thread!InsertComment
<1>5. ASSUME NEW m, Thread!PostCommentDelete(m) PROVE FALSE
  <2>1. comments'[i] \in {comments[i], Thread!Tombstone(comments[i])}
    BY <1>1, <1>5 DEF Thread!PostCommentDelete, Thread!TombstoneComment
  <2>2. QED
    BY <1>2, <2>1
<1>6. ASSUME NEW u, Thread!Erase(u) PROVE FALSE
  BY <1>1, <1>2, <1>6 DEF Thread!Erase, Thread!TombstoneCommentsForUser, Thread!Ids
<1>7. ASSUME UNCHANGED comments PROVE FALSE
  BY <1>7
<1> QED
  BY <1>3, <1>4, <1>5, <1>6, <1>7, ThreadCases, ThreadAsksKeeps, ThreadQuietKeeps
     DEF Thread!NotifyParent, Thread!rows

----------------------------------------------------------------------------
(* The posts of a group (GroupPosts, here Post), in the same way. *)
LEMMA PostTombstone ==
  ASSUME NEW p \in Post!SocialGroupPost
  PROVE  /\ Post!Tombstone(p) \in Post!SocialGroupPost
         /\ Post!Tombstone(p).parent = p.parent /\ Post!Tombstone(p).by = Post!NoOne
         /\ Post!Tombstone(p).removed = TRUE /\ Post!Tombstone(p).text = ""
         /\ Post!Tombstone(Post!Tombstone(p)) = Post!Tombstone(p)
BY DEF Post!Tombstone, Post!SocialGroupPost

Written(S) ==
  /\ S \in Seq(Post!SocialGroupPost) /\ Len(S) <= MaxPosts
  /\ \A i \in 1 .. Len(S) : S[i].removed => S[i] = Post!Tombstone(S[i])

(* T is a later state of the posts S. *)
Outlasts(T, S) ==
  /\ Len(S) <= Len(T)
  /\ \A i \in 1 .. Len(S) :
       /\ T[i].parent = S[i].parent
       /\ T[i].by = S[i].by \/ T[i].by = Post!NoOne

LEMMA AppendedPost ==
  ASSUME NEW S, NEW p \in Post!SocialGroupPost, Written(S), ~p.removed, Len(S) < MaxPosts
  PROVE  Written(Append(S, p)) /\ Outlasts(Append(S, p), S)
<1>1. S \in Seq(Post!SocialGroupPost) /\ Len(S) \in Nat /\ MaxPosts \in Nat
  <2>1. MaxPosts \in Nat
    BY TalkAssumption
  <2>2. QED
    BY <2>1 DEF Written
<1>2. /\ Append(S, p) \in Seq(Post!SocialGroupPost) /\ Len(Append(S, p)) = Len(S) + 1
      /\ Append(S, p)[Len(S) + 1] = p /\ \A i \in 1 .. Len(S) : Append(S, p)[i] = S[i]
  BY <1>1
<1>3. QED
  BY <1>1, <1>2 DEF Written, Outlasts

LEMMA RewrittenPosts ==
  ASSUME NEW S, NEW T, Written(S), T \in Seq(Post!SocialGroupPost), Len(T) = Len(S),
         \A i \in 1 .. Len(S) :
           \/ T[i] \in {S[i], Post!Tombstone(S[i])}
           \/ ~S[i].removed /\ T[i] = [S[i] EXCEPT !.text = "edited"]
  PROVE  Written(T) /\ Outlasts(T, S)
<1>1. Len(S) \in Nat /\ \A i \in 1 .. Len(S) : S[i] \in Post!SocialGroupPost
  BY DEF Written
<1>2. ASSUME NEW i \in 1 .. Len(S)
      PROVE  /\ T[i].parent = S[i].parent
             /\ T[i].by = S[i].by \/ T[i].by = Post!NoOne
             /\ T[i].removed => T[i] = Post!Tombstone(T[i])
  <2>1. CASE T[i] = S[i]
    BY <2>1 DEF Written
  <2>2. CASE T[i] = Post!Tombstone(S[i])
    <3>1. S[i] \in Post!SocialGroupPost
      BY <1>1
    <3>2. QED
      BY <2>2, <3>1, PostTombstone
  <2>3. CASE ~S[i].removed /\ T[i] = [S[i] EXCEPT !.text = "edited"]
    BY <1>1, <2>3 DEF Post!SocialGroupPost
  <2>4. QED
    BY <2>1, <2>2, <2>3
<1>3. QED
  BY <1>1, <1>2 DEF Written, Outlasts

(* What a request under way has read is still true of a later state. *)
Begun(S, q) ==
  /\ q.op = "insert" =>
       /\ q.row \in Post!SocialGroupPost /\ q.row.by \in User /\ q.row.text = "posted"
       /\ ~q.row.removed
       /\ q.row.parent # 0 => q.row.parent \in 1 .. Len(S)
  /\ q.op = "after" => q.post \in 1 .. Len(S)
  /\ q.op = "edit" =>
       /\ q.id \in 1 .. Len(S) /\ q.before <= Len(S)
       /\ \A j \in 1 .. Len(S) : S[j].parent = q.id => j > q.before

LEMMA BegunOutlasts ==
  ASSUME NEW S, NEW T, Written(S), Written(T), Outlasts(T, S),
         NEW q \in Post!ReqType, Begun(S, q)
  PROVE  Begun(T, q)
<1>1. Len(S) \in Nat /\ Len(T) \in Nat /\ 1 .. Len(S) \subseteq 1 .. Len(T)
  BY DEF Written, Outlasts
<1>2. ASSUME q.op = "edit"
      PROVE  /\ q.id \in 1 .. Len(T) /\ q.before <= Len(T)
             /\ \A j \in 1 .. Len(T) : T[j].parent = q.id => j > q.before
  <2>1. q.before \in Nat
    BY <1>2 DEF Post!ReqType, Post!Idle
  <2>2. QED
    BY <1>1, <1>2, <2>1 DEF Begun, Outlasts
<1>3. QED
  BY <1>1, <1>2 DEF Begun

(* The steps that change no more than the state of their request, those that
   change no more than who is who, and the announcement of a reply. *)
PostAsks(r) ==
  \/ \E m \in Post!GroupPostRequest : Post!PostGroupPostSubmit(r, m)
  \/ \E m \in Post!GroupPostEditRequest : Post!PostGroupPostEdit(r, m)
  \/ Post!RequestFails(r)
PostPeople ==
  \/ \E m \in Post!GroupAlertRequest : Post!PostGroupAlert(m)
  \/ \E u \in User : Post!RemoveMember(u) \/ (\E v \in User : Post!Relate(u, v))

LEMMA PostCases ==
  ASSUME [Post!Next]_Post!vars
  PROVE  \/ \E r \in Request : PostAsks(r)
         \/ \E r \in Request : Post!InsertGroupPost(r)
         \/ \E r \in Request : Post!AnnounceReply(r) \/ Post!dispatchGroupPostFanout(r)
         \/ \E r \in Request : Post!EditGroupPost(r)
         \/ \E m \in Post!GroupPostDeleteRequest : Post!PostGroupPostDelete(m)
         \/ \E u \in User : Post!EraseMember(u)
         \/ \E f \in fanout : Post!Fan(f)
         \/ PostPeople \/ UNCHANGED Post!vars
BY DEF Post!Next, Post!Step, PostAsks, PostPeople

LEMMA PostAsksKeeps ==
  ASSUME NEW r \in Request, PostAsks(r)
  PROVE  UNCHANGED <<posts, role, notify, joined, blocks, mutes, queue, fanout, done,
                     tried, steady, late>>
BY DEF PostAsks, Post!PostGroupPostSubmit, Post!PostGroupPostEdit, Post!RequestFails,
       Post!people, Post!running, Post!history

LEMMA PostPeopleKeeps ==
  ASSUME PostPeople
  PROVE  /\ UNCHANGED <<posts, joined, req, queue, fanout, done, tried, late>> /\ Post!KeepSteady
         /\ started' = started + 1 /\ started < MaxTalk
BY DEF PostPeople, Post!PostGroupAlert, Post!RemoveMember, Post!Relate, Post!Once,
       Post!running

LEMMA FanKeeps ==
  ASSUME NEW f \in fanout, Post!Fan(f)
  PROVE  UNCHANGED <<posts, role, notify, joined, blocks, mutes, req, queue, steady, late>>
BY DEF Post!Fan, Post!ReadTargets, Post!NotifyTarget, Post!FanoutEnds,
       Post!FanoutInterrupted, Post!Once, Post!people, Post!history

(* The posts and the requests. *)
PostRowsInv ==
  /\ Written(posts) /\ started \in 0 .. MaxTalk
  /\ role \in [User -> {"none", "member", "owner"}] /\ notify \subseteq User
  /\ req \in [Request -> Post!ReqType]
  /\ \A r \in Request : Begun(posts, req[r])
  /\ Post!ErasedSaysNothing

LEMMA PostRowsFacts ==
  ASSUME PostRowsInv
  PROVE  /\ Written(posts) /\ posts \in Seq(Post!SocialGroupPost)
         /\ Len(posts) \in Nat /\ MaxPosts \in Nat /\ Len(posts) <= MaxPosts
         /\ \A i \in 1 .. Len(posts) : posts[i] \in Post!SocialGroupPost
<1>1. MaxPosts \in Nat
  BY TalkAssumption
<1>2. QED
  BY <1>1 DEF PostRowsInv, Written

LEMMA PostRows ==
  ASSUME PostRowsInv, [Post!Next]_Post!vars
  PROVE  Written(posts') /\ Outlasts(posts', posts)
<1>1. /\ Written(posts) /\ posts \in Seq(Post!SocialGroupPost) /\ Len(posts) \in Nat
      /\ \A i \in 1 .. Len(posts) : posts[i] \in Post!SocialGroupPost
  BY PostRowsFacts
<1>2. ASSUME NEW r \in Request, Post!InsertGroupPost(r)
      PROVE  Written(posts') /\ Outlasts(posts', posts)
  <2>1. /\ posts' = Append(posts, req[r].row) /\ Len(posts) < MaxPosts
        /\ req[r].row \in Post!SocialGroupPost /\ ~req[r].row.removed
    BY <1>2 DEF Post!InsertGroupPost, PostRowsInv, Begun
  <2>2. QED
    BY <1>1, <2>1, AppendedPost
<1>3. ASSUME NEW r \in Request, Post!EditGroupPost(r)
      PROVE  Written(posts') /\ Outlasts(posts', posts)
  <2>1. PICK i : posts' = IF i \in 1 .. Len(posts) /\ ~posts[i].removed /\ posts[i].by = req[r].by
                          THEN [posts EXCEPT ![i].text = "edited"] ELSE posts
    BY <1>3 DEF Post!EditGroupPost, Post!Live, Post!Ids
  <2>2. /\ posts' \in Seq(Post!SocialGroupPost) /\ Len(posts') = Len(posts)
        /\ \A j \in 1 .. Len(posts) :
             \/ posts'[j] = posts[j]
             \/ ~posts[j].removed /\ posts'[j] = [posts[j] EXCEPT !.text = "edited"]
    <3>1. CASE posts' = posts
      BY <1>1, <3>1
    <3>2. CASE /\ i \in 1 .. Len(posts) /\ ~posts[i].removed
               /\ posts' = [posts EXCEPT ![i].text = "edited"]
      <4>1. [posts[i] EXCEPT !.text = "edited"] \in Post!SocialGroupPost
        BY <1>1, <3>2 DEF Post!SocialGroupPost
      <4>2. posts' = [posts EXCEPT ![i] = [posts[i] EXCEPT !.text = "edited"]]
        BY <3>2
      <4>3. QED
        BY <1>1, <3>2, <4>1, <4>2
    <3>3. QED
      BY <2>1, <3>1, <3>2
  <2>3. QED
    BY <1>1, <2>2, RewrittenPosts
<1>4. ASSUME NEW m \in Post!GroupPostDeleteRequest, Post!PostGroupPostDelete(m)
      PROVE  Written(posts') /\ Outlasts(posts', posts)
  <2>1. PICK i \in 1 .. Len(posts) : posts' = [posts EXCEPT ![i] = Post!Tombstone(posts[i])]
    BY <1>4 DEF Post!PostGroupPostDelete, Post!TombstoneGroupPost,
                Post!TombstoneGroupPostAsOwner, Post!Live, Post!Ids
  <2>2. Post!Tombstone(posts[i]) \in Post!SocialGroupPost
    BY <1>1, PostTombstone
  <2>3. /\ posts' \in Seq(Post!SocialGroupPost) /\ Len(posts') = Len(posts)
        /\ \A j \in 1 .. Len(posts) : posts'[j] \in {posts[j], Post!Tombstone(posts[j])}
    BY <1>1, <2>1, <2>2
  <2>4. QED
    BY <1>1, <2>3, RewrittenPosts
<1>5. ASSUME NEW u \in User, Post!EraseMember(u)
      PROVE  Written(posts') /\ Outlasts(posts', posts)
  <2>1. posts' = [i \in 1 .. Len(posts) |->
                    IF posts[i].by = u THEN Post!Tombstone(posts[i]) ELSE posts[i]]
    BY <1>5 DEF Post!EraseMember, Post!TombstoneGroupPostsForUser, Post!Ids
  <2>2. \A i \in 1 .. Len(posts) : /\ posts'[i] \in {posts[i], Post!Tombstone(posts[i])}
                                   /\ posts'[i] \in Post!SocialGroupPost
    BY <1>1, <2>1, PostTombstone
  <2>3. posts' \in Seq(Post!SocialGroupPost) /\ Len(posts') = Len(posts)
    BY <1>1, <2>1, <2>2
  <2>4. QED
    BY <1>1, <2>2, <2>3, RewrittenPosts
<1>6. CASE UNCHANGED posts
  BY <1>1, <1>6, RewrittenPosts
<1> QED
  BY <1>2, <1>3, <1>4, <1>5, <1>6, PostCases, PostAsksKeeps, PostPeopleKeeps, FanKeeps
     DEF Post!AnnounceReply, Post!dispatchGroupPostFanout, Post!vars

(* The announcement that a submission is left with is of the row it inserted. *)
LEMMA PostRequests ==
  ASSUME PostRowsInv, [Post!Next]_Post!vars
  PROVE  req' \in [Request -> Post!ReqType] /\ \A r \in Request : Begun(posts', req'[r])
<1> DEFINE Becomes(r, q) == /\ req' = [req EXCEPT ![r] = q] /\ q \in Post!ReqType
                            /\ Begun(posts', q)
<1>1. /\ req \in [Request -> Post!ReqType] /\ \A r \in Request : Begun(posts', req[r])
      /\ \A r \in Request : Begun(posts, req[r])
  BY PostRows, PostRowsFacts, BegunOutlasts DEF PostRowsInv
<1>2. /\ Len(posts) \in Nat /\ MaxPosts \in Nat /\ Len(posts) <= MaxPosts
      /\ \A i \in 1 .. Len(posts) : posts[i] \in Post!SocialGroupPost
      /\ posts \in Seq(Post!SocialGroupPost)
  BY PostRowsFacts
<1>3. ASSUME NEW r \in Request, NEW q, Becomes(r, q)
      PROVE  req' \in [Request -> Post!ReqType] /\ \A x \in Request : Begun(posts', req'[x])
  BY <1>1, <1>3
<1>4. Post!Idle \in Post!ReqType /\ \A S : Begun(S, Post!Idle)
  BY DEF Post!ReqType, Post!Idle, Begun
<1>5. ASSUME NEW r \in Request, NEW m \in Post!GroupPostRequest, Post!PostGroupPostSubmit(r, m)
      PROVE  \E q : Becomes(r, q)
  <2> DEFINE row == [by |-> m.by, parent |-> m.parent, root |-> Post!RootOf(m.parent),
                     text |-> "posted", removed |-> FALSE]
             a == IF m.parent = 0 THEN Post!NoOne ELSE posts[m.parent].by
             q == [op |-> "insert", by |-> m.by, row |-> row, parentAuthor |-> a]
  <2>1. /\ req' = [req EXCEPT ![r] = q] /\ posts' = posts
        /\ m.parent # 0 => m.parent \in 1 .. Len(posts)
    BY <1>5 DEF Post!PostGroupPostSubmit, Post!Spend, Post!MayReply, Post!Live, Post!Ids
  <2>2. m.by \in User /\ m.parent \in {0} \cup Post!Id
    BY DEF Post!GroupPostRequest
  <2>3. Post!RootOf(m.parent) \in {0} \cup Post!Id
    BY <1>2, <2>1, <2>2 DEF Post!RootOf, Post!SocialGroupPost
  <2>4. row \in Post!SocialGroupPost
    BY <2>2, <2>3 DEF Post!SocialGroupPost
  <2>5. /\ row.by = m.by /\ row.parent = m.parent /\ row.text = "posted" /\ row.removed = FALSE
    OBVIOUS
  <2>8. a \in User \cup {Post!NoOne}
    BY <1>2, <2>1 DEF Post!SocialGroupPost
  <2> HIDE DEF row, a
  <2>6. q \in Post!ReqType /\ Begun(posts, q)
    BY <2>1, <2>2, <2>4, <2>5, <2>8 DEF Post!ReqType, Begun
  <2>7. QED
    BY <2>1, <2>6
<1>6. ASSUME NEW r \in Request, NEW m \in Post!GroupPostEditRequest, Post!PostGroupPostEdit(r, m)
      PROVE  \E q : Becomes(r, q)
  <2> DEFINE q == [op |-> "edit", by |-> m.by, id |-> m.post, before |-> Len(posts)]
  <2>1. /\ req' = [req EXCEPT ![r] = q] /\ posts' = posts /\ m.post \in 1 .. Len(posts)
        /\ \A j \in 1 .. Len(posts) : posts[j].parent # m.post
    BY <1>6 DEF Post!PostGroupPostEdit, Post!Spend, Post!Live, Post!Ids, Post!HasReplies
  <2>2. q \in Post!ReqType
    BY <1>2 DEF Post!GroupPostEditRequest, Post!ReqType
  <2>3. Begun(posts, q)
    BY <1>2, <2>1 DEF Begun
  <2>4. QED
    BY <2>1, <2>2, <2>3
<1>7. ASSUME NEW r \in Request, Post!InsertGroupPost(r)
      PROVE  \E q : Becomes(r, q)
  <2> DEFINE p == req[r].row
             a == req[r].parentAuthor
             q == [op |-> "after", by |-> p.by, post |-> Len(posts) + 1, parentAuthor |-> a]
  <2>1. /\ req[r].op = "insert" /\ Len(posts) < MaxPosts
        /\ posts' = Append(posts, p) /\ req' = [req EXCEPT ![r] = q]
    BY <1>7 DEF Post!InsertGroupPost, Post!Go
  <2>2. /\ p \in Post!SocialGroupPost /\ p.by \in User
        /\ p.parent # 0 => p.parent \in 1 .. Len(posts)
    BY <1>1, <2>1 DEF Begun
  <2>3. a \in User \cup {Post!NoOne}
    BY <1>1, <2>1 DEF Post!ReqType, Post!Idle
  <2>4. Len(posts') = Len(posts) + 1
    BY <1>2, <2>1, <2>2
  <2> HIDE DEF a, p
  <2>5. q \in Post!ReqType /\ Begun(posts', q)
    BY <1>2, <2>1, <2>2, <2>3, <2>4 DEF Post!ReqType, Post!Id, Begun
  <2>6. QED
    BY <2>1, <2>5
<1>8. ASSUME NEW r \in Request,
             \/ Post!RequestFails(r) \/ Post!AnnounceReply(r)
             \/ Post!dispatchGroupPostFanout(r) \/ Post!EditGroupPost(r)
      PROVE  Becomes(r, Post!Idle)
  BY <1>4, <1>8 DEF Post!RequestFails, Post!AnnounceReply, Post!dispatchGroupPostFanout,
                    Post!EditGroupPost, Post!Go
<1>9. ASSUME UNCHANGED req
      PROVE  req' \in [Request -> Post!ReqType] /\ \A x \in Request : Begun(posts', req'[x])
  BY <1>1, <1>9
<1> HIDE DEF Becomes
<1> QED
  BY <1>3, <1>5, <1>6, <1>7, <1>8, <1>9, PostCases, PostPeopleKeeps, FanKeeps
     DEF PostAsks, Post!PostGroupPostDelete, Post!EraseMember, Post!Once, Post!vars

(* A post of a user who is not joined was under way when that user was erased. *)
LEMMA PostErased ==
  ASSUME PostRowsInv, [Post!Next]_Post!vars
  PROVE  Post!ErasedSaysNothing'
<1> DEFINE Named(T, J, L) == \A i \in 1 .. Len(T) : T[i].by # Post!NoOne /\ T[i].by \notin J => i \in L
<1>1. /\ Outlasts(posts', posts) /\ Len(posts) \in Nat /\ posts \in Seq(Post!SocialGroupPost)
      /\ \A i \in 1 .. Len(posts) : posts[i] \in Post!SocialGroupPost
      /\ Named(posts, joined, late)
  BY PostRows, PostRowsFacts DEF PostRowsInv, Post!ErasedSaysNothing, Post!Ids
<1>2. ASSUME Len(posts') = Len(posts), UNCHANGED <<joined, late>>
      PROVE  Named(posts', joined', late')
  BY <1>1, <1>2 DEF Outlasts
<1>3. ASSUME NEW r \in Request, Post!InsertGroupPost(r)
      PROVE  Named(posts', joined', late')
  <2>1. /\ posts' = Append(posts, req[r].row) /\ joined' = joined
        /\ late' = IF req[r].row.by \in joined THEN late ELSE late \cup {Len(posts) + 1}
    BY <1>3 DEF Post!InsertGroupPost, Post!people
  <2>2. /\ Len(posts') = Len(posts) + 1 /\ posts'[Len(posts) + 1] = req[r].row
        /\ \A i \in 1 .. Len(posts) : posts'[i] = posts[i]
    BY <1>1, <2>1
  <2>3. QED
    BY <1>1, <2>1, <2>2
<1>4. ASSUME NEW u \in User, Post!EraseMember(u)
      PROVE  Named(posts', joined', late')
  <2>1. /\ joined' = joined \ {u} /\ late' = late
        /\ posts' = [i \in 1 .. Len(posts) |->
                       IF posts[i].by = u THEN Post!Tombstone(posts[i]) ELSE posts[i]]
    BY <1>4 DEF Post!EraseMember, Post!TombstoneGroupPostsForUser, Post!Ids
  <2>2. Len(posts') = Len(posts)
    BY <1>1, <2>1
  <2>3. \A i \in 1 .. Len(posts) :
           posts'[i].by = Post!NoOne \/ (posts'[i] = posts[i] /\ posts[i].by # u)
    BY <1>1, <2>1, PostTombstone
  <2>4. QED
    BY <1>1, <2>1, <2>2, <2>3
<1>5. ASSUME \/ \E r \in Request : Post!EditGroupPost(r)
             \/ \E m \in Post!GroupPostDeleteRequest : Post!PostGroupPostDelete(m)
      PROVE  Named(posts', joined', late')
  <2>1. UNCHANGED <<joined, late>>
    BY <1>5 DEF Post!EditGroupPost, Post!PostGroupPostDelete, Post!people, Post!history
  <2>2. Len(posts') = Len(posts)
    <3>1. ASSUME NEW r \in Request, Post!EditGroupPost(r) PROVE Len(posts') = Len(posts)
      BY <1>1, <3>1 DEF Post!EditGroupPost
    <3>2. ASSUME NEW m, Post!PostGroupPostDelete(m) PROVE Len(posts') = Len(posts)
      BY <1>1, <3>2 DEF Post!PostGroupPostDelete, Post!TombstoneGroupPost,
                        Post!TombstoneGroupPostAsOwner
    <3>3. QED
      BY <1>5, <3>1, <3>2
  <2>3. QED
    BY <1>2, <2>1, <2>2
<1>6. ASSUME UNCHANGED <<posts, joined, late>>
      PROVE  Named(posts', joined', late')
  BY <1>1, <1>6
<1>7. Named(posts', joined', late')
  <2> HIDE DEF Named
  <2>1. ASSUME NEW r \in Request, Post!AnnounceReply(r) \/ Post!dispatchGroupPostFanout(r)
        PROVE  Named(posts', joined', late')
    BY <1>6, <2>1 DEF Post!AnnounceReply, Post!dispatchGroupPostFanout, Post!people
  <2>2. ASSUME NEW r \in Request, PostAsks(r) PROVE Named(posts', joined', late')
    BY <1>6, <2>2, PostAsksKeeps
  <2>3. ASSUME NEW f \in fanout, Post!Fan(f) PROVE Named(posts', joined', late')
    BY <1>6, <2>3, FanKeeps
  <2>4. CASE UNCHANGED Post!vars
    BY <1>6, <2>4 DEF Post!vars, Post!people, Post!history
  <2> QED
    BY <1>3, <1>4, <1>5, <1>6, <2>1, <2>2, <2>3, <2>4, PostCases, PostPeopleKeeps
<1> QED
  BY <1>7 DEF Post!ErasedSaysNothing, Post!Ids

LEMMA PostRest ==
  ASSUME PostRowsInv, [Post!Next]_Post!vars
  PROVE  /\ started' \in 0 .. MaxTalk /\ notify' \subseteq User
         /\ role' \in [User -> {"none", "member", "owner"}]
<1>1. /\ started \in 0 .. MaxTalk /\ role \in [User -> {"none", "member", "owner"}]
      /\ notify \subseteq User /\ MaxTalk \in Nat
  <2>1. MaxTalk \in Nat
    BY TalkAssumption
  <2>2. QED
    BY <2>1 DEF PostRowsInv
<1>2. started' = started \/ (started < MaxTalk /\ started' = started + 1)
  BY DEF Post!Next, Post!Step, Post!Fan, Post!InsertGroupPost, Post!AnnounceReply,
     Post!dispatchGroupPostFanout, Post!EditGroupPost, Post!RequestFails,
     Post!PostGroupPostSubmit, Post!PostGroupPostEdit, Post!ReadTargets, Post!NotifyTarget,
     Post!FanoutEnds, Post!FanoutInterrupted, Post!PostGroupPostDelete, Post!PostGroupAlert,
     Post!RemoveMember, Post!EraseMember, Post!Relate, Post!Spend, Post!Go, Post!Once, Post!vars
<1> DEFINE Typed == notify' \subseteq User /\ role' \in [User -> {"none", "member", "owner"}]
<1>3. ASSUME UNCHANGED <<role, notify>> PROVE Typed
  BY <1>1, <1>3
<1>4. ASSUME NEW m \in Post!GroupAlertRequest, Post!PostGroupAlert(m) PROVE Typed
  BY <1>1, <1>4 DEF Post!PostGroupAlert, Post!GroupAlertRequest, Post!SetGroupMemberNotify
<1>5. ASSUME NEW u \in User, Post!RemoveMember(u) \/ Post!EraseMember(u) PROVE Typed
  <2>1. role' = [role EXCEPT ![u] = "none"] /\ notify' = notify \ {u}
    BY <1>5 DEF Post!RemoveMember, Post!EraseMember
  <2>2. QED
    BY <1>1, <2>1
<1>6. ASSUME NEW r \in Request, \/ Post!InsertGroupPost(r) \/ Post!AnnounceReply(r)
                                \/ Post!dispatchGroupPostFanout(r) \/ Post!EditGroupPost(r)
      PROVE  Typed
  BY <1>3, <1>6 DEF Post!InsertGroupPost, Post!AnnounceReply, Post!dispatchGroupPostFanout,
                    Post!EditGroupPost, Post!people
<1>7. ASSUME NEW m, Post!PostGroupPostDelete(m) PROVE Typed
  BY <1>3, <1>7 DEF Post!PostGroupPostDelete, Post!people
<1>8. ASSUME NEW u, NEW v, Post!Relate(u, v) PROVE Typed
  BY <1>3, <1>8 DEF Post!Relate
<1>9. ASSUME UNCHANGED Post!vars PROVE Typed
  BY <1>3, <1>9 DEF Post!vars, Post!people
<1>10. Typed
  <2> HIDE DEF Typed
  <2>1. ASSUME NEW r \in Request, PostAsks(r) PROVE Typed
    BY <1>3, <2>1, PostAsksKeeps
  <2>2. ASSUME NEW f \in fanout, Post!Fan(f) PROVE Typed
    BY <1>3, <2>2, FanKeeps
  <2>3. ASSUME PostPeople PROVE Typed
    BY <1>4, <1>5, <1>8, <2>3 DEF PostPeople
  <2> QED
    BY <1>5, <1>6, <1>7, <1>9, <2>1, <2>2, <2>3, PostCases
<1>11. started' \in 0 .. MaxTalk
  BY <1>1, <1>2
<1> QED
  BY <1>10, <1>11

LEMMA PostRowsStep == PostRowsInv /\ [Post!Next]_Post!vars => PostRowsInv'
BY PostRows, PostRequests, PostErased, PostRest DEF PostRowsInv

----------------------------------------------------------------------------
(* The fan-out of new posts.  FanoutReachesAudience is not inductive: while a
   fan-out runs, those it has yet to tell are among the targets it has left,
   once it has read them; and a post is fanned out by the request that inserted
   it, so that no fan-out of it ended before it began. *)
FanoutRow == [post : Post!Id, actor : User, read : BOOLEAN, left : SUBSET User]

Fresh(i) ==
  i \notin done /\ (\A f \in fanout : f.post # i) /\ (\A s \in steady : s[3] # i)
After(r) == req[r].op = "after"

FanInv ==
  /\ fanout \subseteq FanoutRow /\ IsFiniteSet(fanout)
  /\ ~queue => Cardinality(fanout) <= Slots
  /\ (\A f \in fanout : f.post \in Post!Ids) /\ done \subseteq Post!Ids
  /\ \A s \in steady : s[3] \in Post!Ids /\ s[1] \in Post!Audience(s[2])
  /\ \A s \in steady, f \in fanout : f.post = s[3] =>
       f.actor = s[2] /\ (f.read => s[1] \in f.left \/ <<s[1], s[3]>> \in tried)
  /\ Post!FanoutReachesAudience
  /\ \A r \in Request : After(r) => Fresh(req[r].post)
  /\ \A q, r \in Request : After(q) /\ After(r) /\ req[q].post = req[r].post => q = r

LEMMA AudienceIsTargets ==
  ASSUME notify \subseteq User, NEW a \in User
  PROVE  Post!Audience(a) = Post!GetGroupNotifyTargets(a)
BY DEF Post!Audience, Post!GetGroupNotifyTargets, Post!IsBlockedEither, Post!mutedBy

LEMMA AudienceKept ==
  ASSUME UNCHANGED <<role, notify, blocks, mutes>>
  PROVE  \A a : Post!Audience(a)' = Post!Audience(a)
BY DEF Post!Audience, Post!Seated

LEMMA IdsGrow ==
  ASSUME Len(posts) \in Nat, Len(posts') \in Nat, Len(posts) <= Len(posts')
  PROVE  Post!Ids \subseteq Post!Ids'
BY DEF Post!Ids

(* The steps that start no fan-out and leave those there are alone. *)
LEMMA FanQuiet ==
  ASSUME FanInv, Post!Ids \subseteq Post!Ids', UNCHANGED <<fanout, queue, done>>,
         tried \subseteq tried', steady' \subseteq steady,
         \A s \in steady' : s[1] \in Post!Audience(s[2])',
         \A r \in Request : After(r)' => req'[r] = req[r]
  PROVE  FanInv'
<1>1. \A i : Fresh(i) => Fresh(i)'
  BY DEF Fresh
<1>2. \A r \in Request : After(r)' => After(r)
  BY DEF After
<1>3. Post!FanoutReachesAudience'
  BY DEF FanInv, Post!FanoutReachesAudience
<1>4. \A s \in steady', f \in fanout' : f.post = s[3] =>
        f.actor = s[2] /\ (f.read => s[1] \in f.left \/ <<s[1], s[3]>> \in tried')
  BY DEF FanInv
<1>5. \A r \in Request : After(r)' => Fresh(req[r].post)'
  <2> SUFFICES ASSUME NEW r \in Request, After(r)' PROVE Fresh(req[r].post)'
    OBVIOUS
  <2>1. req'[r] = req[r] /\ After(r)
    BY DEF After
  <2>2. Fresh(req[r].post)
    BY <2>1 DEF FanInv
  <2>3. QED
    BY <2>1, <2>2 DEF Fresh
<1>6. \A q, r \in Request : After(q)' /\ After(r)' /\ req'[q].post = req'[r].post => q = r
  BY <1>2 DEF FanInv
<1>7. \A s \in steady' : s[3] \in Post!Ids' /\ s[1] \in Post!Audience(s[2])'
  BY DEF FanInv
<1>8. QED
  BY <1>3, <1>4, <1>5, <1>6, <1>7 DEF FanInv

LEMMA SwapSize ==
  ASSUME NEW S, IsFiniteSet(S), NEW x \in S, NEW G, G = {} \/ (\E g : G = {g})
  PROVE  IsFiniteSet((S \ {x}) \cup G) /\ Cardinality((S \ {x}) \cup G) <= Cardinality(S)
<1> DEFINE R == S \ {x}
<1>1. /\ IsFiniteSet(R) /\ Cardinality(R) = Cardinality(S) - 1
      /\ Cardinality(S) \in Nat /\ Cardinality(R) \in Nat
  BY FS_RemoveElement, FS_CardinalityType
<1> HIDE DEF R
<1>2. CASE G = {}
  <2>1. R \cup G = R
    BY <1>2
  <2>2. IsFiniteSet(R \cup G) /\ Cardinality(R \cup G) <= Cardinality(S)
    <3>1. IsFiniteSet(R \cup G) /\ Cardinality(R \cup G) = Cardinality(R)
      BY <1>1, <2>1, Zenon
    <3>2. QED
      BY <1>1, <3>1
  <2>3. QED
    BY <2>2 DEF R
<1>3. ASSUME NEW g, G = {g}
      PROVE  IsFiniteSet(R \cup G) /\ Cardinality(R \cup G) <= Cardinality(S)
  <2>1. /\ IsFiniteSet(R \cup {g})
        /\ \/ Cardinality(R \cup {g}) = Cardinality(R)
           \/ Cardinality(R \cup {g}) = Cardinality(R) + 1
    BY <1>1, FS_AddElement
  <2>2. QED
    BY <1>1, <1>3, <2>1
<1>4. QED
  BY <1>2, <1>3 DEF R

(* One fan-out takes a step: it is replaced by G, or gone. *)
LEMMA FanReplaced ==
  ASSUME FanInv, NEW f \in fanout, NEW G \in SUBSET FanoutRow, G = {} \/ (\E g : G = {g}),
         \A g \in G : g.post = f.post /\ g.actor = f.actor,
         \A g \in G, s \in steady :
           g.read /\ s[3] = f.post => s[1] \in g.left \/ <<s[1], s[3]>> \in tried',
         fanout' = (fanout \ {f}) \cup G,
         UNCHANGED <<posts, role, notify, blocks, mutes, req, queue, steady>>,
         tried \subseteq tried',
         done' = done \/ (done' = done \cup {f.post} /\ f.read /\ f.left = {})
  PROVE  FanInv'
<1>1. fanout' \subseteq FanoutRow
  BY DEF FanInv
<1>2. IsFiniteSet(fanout') /\ (~queue' => Cardinality(fanout') <= Slots)
  <2>1. IsFiniteSet(fanout)
    BY DEF FanInv
  <2>2. /\ IsFiniteSet((fanout \ {f}) \cup G)
        /\ Cardinality((fanout \ {f}) \cup G) <= Cardinality(fanout)
    BY <2>1, SwapSize
  <2>3. /\ Cardinality((fanout \ {f}) \cup G) \in Nat /\ Cardinality(fanout) \in Nat
        /\ Slots \in Nat
    <3>1. Slots \in Nat
      BY TalkAssumption
    <3>2. QED
      BY <2>1, <2>2, <3>1, FS_CardinalityType
  <2> DEFINE Swapped == (fanout \ {f}) \cup G
  <2>4. fanout' = Swapped
    OBVIOUS
  <2>5. IsFiniteSet(Swapped) /\ (~queue => Cardinality(Swapped) <= Slots)
    <3>1. ~queue => Cardinality(fanout) <= Slots
      BY DEF FanInv
    <3>2. QED
      BY <2>2, <2>3, <3>1
  <2> HIDE DEF Swapped
  <2>6. QED
    BY <2>4, <2>5
<1>3. Post!Ids' = Post!Ids /\ \A a : Post!Audience(a)' = Post!Audience(a)
  BY AudienceKept DEF Post!Ids
<1>4. (\A g \in fanout' : g.post \in Post!Ids') /\ done' \subseteq Post!Ids'
  BY <1>3 DEF FanInv
<1>5. \A s \in steady' : s[3] \in Post!Ids' /\ s[1] \in Post!Audience(s[2])'
  BY <1>3 DEF FanInv
<1>6. \A s \in steady, g \in fanout' : g.post = s[3] =>
        g.actor = s[2] /\ (g.read => s[1] \in g.left \/ <<s[1], s[3]>> \in tried')
  <2> SUFFICES ASSUME NEW s \in steady, NEW g \in fanout', g.post = s[3]
               PROVE  g.actor = s[2] /\ (g.read => s[1] \in g.left \/ <<s[1], s[3]>> \in tried')
    OBVIOUS
  <2>1. CASE g \in fanout
    BY <2>1 DEF FanInv
  <2>2. CASE g \in G
    <3>1. g.post = f.post /\ g.actor = f.actor /\ f.actor = s[2]
      BY <2>2 DEF FanInv
    <3>2. QED
      BY <2>2, <3>1
  <2>3. QED
    BY <2>1, <2>2
<1>7. Post!FanoutReachesAudience'
  <2>1. ASSUME NEW s \in steady, s[3] \in done' PROVE <<s[1], s[3]>> \in tried'
    <3>1. CASE s[3] \in done
      BY <3>1 DEF FanInv, Post!FanoutReachesAudience
    <3>2. CASE s[3] \notin done
      BY <2>1, <3>2 DEF FanInv
    <3>3. QED
      BY <3>1, <3>2
  <2>2. QED
    BY <2>1 DEF Post!FanoutReachesAudience
<1>8. \A r \in Request : After(r)' => Fresh(req[r].post)'
  <2>1. \A i : Fresh(i) => Fresh(i)'
    BY DEF Fresh
  <2>2. \A r \in Request : req'[r] = req[r] /\ (After(r)' => After(r))
    BY DEF After
  <2>3. QED
    BY <2>1, <2>2 DEF FanInv
<1>9. \A q, r \in Request : After(q)' /\ After(r)' /\ req'[q].post = req'[r].post => q = r
  BY DEF FanInv, After
<1>10. QED
  BY <1>1, <1>2, <1>4, <1>5, <1>6, <1>7, <1>8, <1>9 DEF FanInv

LEMMA FanSteps ==
  ASSUME PostRowsInv, FanInv, NEW f \in fanout, Post!Fan(f)
  PROVE  FanInv'
<1>1. /\ UNCHANGED <<posts, role, notify, blocks, mutes, req, queue, steady>>
      /\ f \in FanoutRow
  BY FanKeeps DEF FanInv
<1>2. f.actor \in User /\ f.left \in SUBSET User /\ f.read \in BOOLEAN
  BY <1>1 DEF FanoutRow
<1>3. CASE Post!ReadTargets(f)
  <2> DEFINE X == Post!GetGroupNotifyTargets(f.actor)
             g == [f EXCEPT !.read = TRUE, !.left = X]
  <2>1. X = Post!Audience(f.actor) /\ X \in SUBSET User
    BY <1>2, AudienceIsTargets DEF PostRowsInv, Post!Audience
  <2>2. /\ fanout' = (fanout \ {f}) \cup {g} /\ UNCHANGED <<tried, done>>
    BY <1>3 DEF Post!ReadTargets, Post!history
  <2>3. g \in FanoutRow /\ g.post = f.post /\ g.actor = f.actor /\ g.left = X
    <3> HIDE DEF X
    <3>1. QED
      BY <1>1, <2>1 DEF FanoutRow
  <2>4. \A s \in steady : s[3] = f.post => s[1] \in g.left
    BY <2>1, <2>3 DEF FanInv
  <2> DEFINE G == {g}
  <2>5. G \in SUBSET FanoutRow /\ (G = {} \/ (\E h : G = {h}))
    BY <2>3
  <2>6. /\ \A h \in G : h.post = f.post /\ h.actor = f.actor
        /\ \A h \in G, s \in steady :
             h.read /\ s[3] = f.post => s[1] \in h.left \/ <<s[1], s[3]>> \in tried'
    BY <2>3, <2>4
  <2>7. fanout' = (fanout \ {f}) \cup G /\ tried \subseteq tried' /\ done' = done
    BY <2>2
  <2> HIDE DEF G, g
  <2>8. QED
    BY <1>1, <2>5, <2>6, <2>7, FanReplaced
<1>4. CASE Post!NotifyTarget(f)
  <2>1. PICK u \in f.left : /\ tried' = tried \cup {<<u, f.post>>}
                            /\ fanout' = (fanout \ {f}) \cup {[f EXCEPT !.left = f.left \ {u}]}
    BY <1>4 DEF Post!NotifyTarget
  <2>2. done' = done
    BY <1>4 DEF Post!NotifyTarget
  <2> DEFINE g == [f EXCEPT !.left = f.left \ {u}]
  <2>3. /\ g \in FanoutRow /\ g.post = f.post /\ g.actor = f.actor /\ g.read = f.read
        /\ g.left = f.left \ {u}
    BY <1>1 DEF FanoutRow
  <2>4. \A s \in steady : g.read /\ s[3] = f.post =>
          s[1] \in g.left \/ <<s[1], s[3]>> \in tried'
    BY <2>1, <2>3 DEF FanInv
  <2>5. fanout' = (fanout \ {f}) \cup {g} /\ tried \subseteq tried'
    BY <2>1
  <2> DEFINE G == {g}
  <2>6. G \in SUBSET FanoutRow /\ (G = {} \/ (\E h : G = {h}))
    BY <2>3
  <2>7. /\ \A h \in G : h.post = f.post /\ h.actor = f.actor
        /\ \A h \in G, s \in steady :
             h.read /\ s[3] = f.post => s[1] \in h.left \/ <<s[1], s[3]>> \in tried'
    BY <2>3, <2>4
  <2>8. fanout' = (fanout \ {f}) \cup G
    BY <2>5
  <2> HIDE DEF G, g
  <2>9. QED
    BY <1>1, <2>2, <2>5, <2>6, <2>7, <2>8, FanReplaced
<1>5. CASE Post!FanoutEnds(f)
  <2>1. /\ fanout' = (fanout \ {f}) \cup {} /\ done' = done \cup {f.post} /\ f.read /\ f.left = {}
        /\ tried' = tried
    BY <1>5 DEF Post!FanoutEnds, Post!history
  <2>2. QED
    BY <1>1, <2>1, FanReplaced
<1>6. CASE Post!FanoutInterrupted(f)
  <2> DEFINE g == [f EXCEPT !.read = FALSE, !.left = {}]
             G == IF queue THEN {g} ELSE {}
  <2>1. g \in FanoutRow /\ g.post = f.post /\ g.actor = f.actor /\ g.read = FALSE
    BY <1>1 DEF FanoutRow
  <2>2. UNCHANGED <<tried, done>> /\ fanout' = (fanout \ {f}) \cup G
    BY <1>6 DEF Post!FanoutInterrupted, Post!history
  <2> HIDE DEF g
  <2>3. G \in SUBSET FanoutRow /\ (G = {} \/ (\E h : G = {h}))
    BY <2>1
  <2>4. /\ \A h \in G : h.post = f.post /\ h.actor = f.actor
        /\ \A h \in G, s \in steady :
             h.read /\ s[3] = f.post => s[1] \in h.left \/ <<s[1], s[3]>> \in tried'
    BY <2>1
  <2> HIDE DEF G
  <2>5. QED
    BY <1>1, <2>2, <2>3, <2>4, FanReplaced
<1> QED
  BY <1>3, <1>4, <1>5, <1>6 DEF Post!Fan

(* A fan-out begins: its post is fresh, and no other request begins another. *)
LEMMA FanBegins ==
  ASSUME PostRowsInv, FanInv, NEW r \in Request, Post!dispatchGroupPostFanout(r),
         queue \/ Post!Cardinality(fanout) < Slots
  PROVE  FanInv'
<1> PICK i, a : i = req[r].post /\ a = req[r].by
  OBVIOUS
<1> PICK g : g = [post |-> i, actor |-> a, read |-> FALSE, left |-> {}]
  OBVIOUS
<1>1. /\ After(r)
      /\ fanout' = fanout \cup {g}
      /\ steady' = steady \cup {<<u, a, i>> : u \in Post!Audience(a)}
      /\ req' = [req EXCEPT ![r] = Post!Idle]
      /\ UNCHANGED <<posts, role, notify, blocks, mutes, queue, done, tried>>
  BY DEF Post!dispatchGroupPostFanout, Post!Go, Post!people, After
<1>2. i \in Post!Ids /\ Fresh(i)
  BY <1>1 DEF FanInv, PostRowsInv, Begun, After, Post!Ids
<1>3. g \in FanoutRow /\ g.post = i /\ g.actor = a /\ g.read = FALSE
  <2>1. a \in User /\ i \in Post!Id
    <3>1. req[r] \in Post!ReqType
      BY DEF PostRowsInv
    <3>2. QED
      BY <1>1, <3>1 DEF Post!ReqType, After, Post!Idle
  <2>2. QED
    BY <1>1, <2>1 DEF FanoutRow
<1>4. Post!Ids' = Post!Ids /\ \A b : Post!Audience(b)' = Post!Audience(b)
  BY <1>1, AudienceKept DEF Post!Ids
<1>5. IsFiniteSet(fanout') /\ (~queue' => Cardinality(fanout') <= Slots)
  <2>1. IsFiniteSet(fanout) /\ (queue \/ Cardinality(fanout) < Slots)
    <3>1. Post!Cardinality(fanout) = Cardinality(fanout)
      BY Zenon DEF Post!Cardinality, Cardinality
    <3>2. QED
      BY <3>1 DEF FanInv
  <2>2. /\ IsFiniteSet(fanout \cup {g})
        /\ \/ Cardinality(fanout \cup {g}) = Cardinality(fanout)
           \/ Cardinality(fanout \cup {g}) = Cardinality(fanout) + 1
    BY <2>1, FS_AddElement
  <2>3. Cardinality(fanout) \in Nat /\ Slots \in Nat
    <3>1. Slots \in Nat
      BY TalkAssumption
    <3>2. QED
      BY <2>1, <3>1, FS_CardinalityType
  <2>4. queue' = queue /\ fanout' = fanout \cup {g}
    BY <1>1
  <2>5. ~queue => Cardinality(fanout \cup {g}) <= Slots
    BY <2>1, <2>2, <2>3
  <2> DEFINE More == fanout \cup {g}
  <2>6. fanout' = More /\ IsFiniteSet(More) /\ (~queue => Cardinality(More) <= Slots)
    BY <2>2, <2>4, <2>5
  <2> HIDE DEF More
  <2>7. QED
    BY <2>4, <2>6
<1>6. /\ fanout' \subseteq FanoutRow
      /\ (\A f \in fanout' : f.post \in Post!Ids') /\ done' \subseteq Post!Ids'
  BY <1>1, <1>2, <1>3, <1>4 DEF FanInv
<1>7. \A s \in steady' : s \in steady \/ (s[1] \in Post!Audience(a) /\ s[2] = a /\ s[3] = i)
  BY <1>1
<1>8. \A s \in steady' : s[3] \in Post!Ids' /\ s[1] \in Post!Audience(s[2])'
  <2>1. ASSUME NEW s \in steady'
        PROVE  s[3] \in Post!Ids /\ s[1] \in Post!Audience(s[2])
    BY <1>2, <1>7 DEF FanInv
  <2>2. QED
    BY <1>4, <2>1
<1>9. \A s \in steady', f \in fanout' : f.post = s[3] =>
        f.actor = s[2] /\ (f.read => s[1] \in f.left \/ <<s[1], s[3]>> \in tried')
  <2> SUFFICES ASSUME NEW s \in steady', NEW f \in fanout', f.post = s[3]
               PROVE  f.actor = s[2] /\ (f.read => s[1] \in f.left \/ <<s[1], s[3]>> \in tried')
    OBVIOUS
  <2>1. CASE s \in steady /\ f \in fanout
    BY <1>1, <2>1 DEF FanInv
  <2>2. CASE f = g
    <3>1. s[2] = a
      BY <1>2, <1>3, <1>7, <2>2 DEF Fresh
    <3>2. QED
      BY <1>3, <2>2, <3>1
  <2>3. CASE f \in fanout /\ s \notin steady
    BY <1>2, <1>7, <2>3 DEF Fresh
  <2>4. QED
    BY <1>1, <2>1, <2>2, <2>3
<1>10. Post!FanoutReachesAudience'
  <2>1. \A s \in steady' : s[3] \in done => s \in steady
    BY <1>2, <1>7 DEF Fresh
  <2>2. QED
    BY <1>1, <2>1 DEF FanInv, Post!FanoutReachesAudience
<1>11. \A q \in Request : After(q)' => After(q) /\ q # r /\ req'[q] = req[q]
  BY <1>1 DEF PostRowsInv, After, Post!Idle
<1>12. \A q \in Request : After(q)' => Fresh(req[q].post)'
  <2> SUFFICES ASSUME NEW q \in Request, After(q)' PROVE Fresh(req[q].post)'
    OBVIOUS
  <2>1. /\ After(q) /\ q # r /\ req'[q] = req[q]
        /\ Fresh(req[q].post) /\ req[q].post # i
    BY <1>1, <1>11 DEF FanInv
  <2>2. /\ req'[q].post \notin done' /\ \A f \in fanout' : f.post # req'[q].post
        /\ \A s \in steady' : s[3] # req'[q].post
    BY <1>1, <1>3, <1>7, <2>1 DEF Fresh
  <2>3. QED
    BY <2>2 DEF Fresh
<1>14. \A p, q \in Request : After(p)' /\ After(q)' /\ req'[p].post = req'[q].post => p = q
  BY <1>11 DEF FanInv
<1>15. QED
  BY <1>5, <1>6, <1>8, <1>9, <1>10, <1>12, <1>14 DEF FanInv

(* A row that is inserted is fresh. *)
LEMMA FanInserts ==
  ASSUME PostRowsInv, FanInv, NEW r \in Request, Post!InsertGroupPost(r)
  PROVE  FanInv'
<1> PICK i : i = Len(posts) + 1
  OBVIOUS
<1> PICK q : q = [op |-> "after", by |-> req[r].row.by, post |-> Len(posts) + 1,
                  parentAuthor |-> req[r].parentAuthor]
  OBVIOUS
<1>1. /\ posts' = Append(posts, req[r].row) /\ q.op = "after" /\ q.post = i
      /\ req' = [req EXCEPT ![r] = q] /\ i = Len(posts) + 1
      /\ UNCHANGED <<role, notify, blocks, mutes, queue, fanout, done, tried, steady>>
  BY DEF Post!InsertGroupPost, Post!Go, Post!people, Post!running
<1>2. Len(posts) \in Nat /\ posts \in Seq(Post!SocialGroupPost) /\ Len(posts') = Len(posts) + 1
  BY <1>1, PostRowsFacts
<1>3. i \notin Post!Ids /\ Post!Ids \subseteq Post!Ids'
  BY <1>1, <1>2 DEF Post!Ids
<1>4. Fresh(i)
  BY <1>3 DEF FanInv, Fresh
<1>5. \A j : Fresh(j)' = Fresh(j)
  BY <1>1 DEF Fresh
<1>6. \A b : Post!Audience(b)' = Post!Audience(b)
  BY <1>1, AudienceKept
<1>7. \A p \in Request : p # r => req'[p] = req[p] /\ After(p)' = After(p)
  BY <1>1 DEF PostRowsInv, After
<1>8. req'[r] = q
  BY <1>1 DEF PostRowsInv
<1>9. \A p \in Request : After(p) => req[p].post \in Post!Ids
  BY DEF PostRowsInv, Begun, After, Post!Ids
<1>10. \A p \in Request : After(p)' => Fresh(req'[p].post)
  BY <1>1, <1>4, <1>7, <1>8 DEF FanInv
<1>11. \A p, x \in Request : After(p)' /\ After(x)' /\ req'[p].post = req'[x].post => p = x
  BY <1>1, <1>3, <1>7, <1>8, <1>9 DEF FanInv
<1>12. Post!FanoutReachesAudience'
  BY <1>1 DEF FanInv, Post!FanoutReachesAudience
<1>13. /\ fanout' \subseteq FanoutRow /\ IsFiniteSet(fanout')
       /\ ~queue' => Cardinality(fanout') <= Slots
  BY <1>1 DEF FanInv
<1>14. /\ (\A f \in fanout' : f.post \in Post!Ids') /\ done' \subseteq Post!Ids'
       /\ \A s \in steady' : s[3] \in Post!Ids' /\ s[1] \in Post!Audience(s[2])'
  BY <1>1, <1>3, <1>6 DEF FanInv
<1>15. \A s \in steady', f \in fanout' : f.post = s[3] =>
         f.actor = s[2] /\ (f.read => s[1] \in f.left \/ <<s[1], s[3]>> \in tried')
  BY <1>1 DEF FanInv
<1>16. \A p \in Request : After(p)' => Fresh(req[p].post)'
  BY <1>1, <1>10 DEF Fresh
<1>17. QED
  BY <1>11, <1>12, <1>13, <1>14, <1>15, <1>16 DEF FanInv

LEMMA FanStep ==
  ASSUME PostRowsInv, FanInv, [Post!Next]_Post!vars
  PROVE  FanInv'
<1>1. Post!Ids \subseteq Post!Ids'
  <2>1. Len(posts) \in Nat /\ Len(posts') \in Nat /\ Len(posts) <= Len(posts')
    BY PostRows, PostRowsFacts DEF Written, Outlasts
  <2>2. QED
    BY <2>1, IdsGrow
<1>2. Post!Idle.op # "after" /\ req \in [Request -> Post!ReqType]
  BY DEF Post!Idle, PostRowsInv
(* Who is in an audience stays there where nobody's standing changes. *)
<1>3. ASSUME UNCHANGED <<role, notify, blocks, mutes, steady>>
      PROVE  steady' \subseteq steady /\ \A s \in steady' : s[1] \in Post!Audience(s[2])'
  BY <1>3, AudienceKept DEF FanInv
<1>4. ASSUME NEW r \in Request, NEW q, req' = [req EXCEPT ![r] = q], q.op # "after",
             UNCHANGED <<role, notify, blocks, mutes, fanout, queue, done, steady>>,
             tried \subseteq tried'
      PROVE  FanInv'
  <2>1. \A x \in Request : After(x)' => req'[x] = req[x]
    BY <1>2, <1>4 DEF After
  <2>2. QED
    BY <1>1, <1>3, <1>4, <2>1, FanQuiet
<1>5. ASSUME UNCHANGED <<req, fanout, queue, done, tried>>, steady' \subseteq steady,
             \A s \in steady' : s[1] \in Post!Audience(s[2])'
      PROVE  FanInv'
  BY <1>1, <1>5, FanQuiet
<1>6. ASSUME NEW r \in Request, PostAsks(r) PROVE FanInv'
  <2>1. PICK q : req' = [req EXCEPT ![r] = q] /\ q.op # "after"
    <3>1. ASSUME NEW m \in Post!GroupPostRequest, Post!PostGroupPostSubmit(r, m)
          PROVE  \E q : req' = [req EXCEPT ![r] = q] /\ q.op # "after"
      <4> DEFINE q == [op |-> "insert", by |-> m.by,
                       row |-> [by |-> m.by, parent |-> m.parent,
                                root |-> Post!RootOf(m.parent),
                                text |-> "posted", removed |-> FALSE],
                       parentAuthor |-> IF m.parent = 0 THEN Post!NoOne ELSE posts[m.parent].by]
      <4>1. req' = [req EXCEPT ![r] = q]
        BY <3>1 DEF Post!PostGroupPostSubmit, Post!Spend
      <4>2. q.op # "after"
        OBVIOUS
      <4> HIDE DEF q
      <4>3. QED
        BY <4>1, <4>2
    <3>2. ASSUME NEW m \in Post!GroupPostEditRequest, Post!PostGroupPostEdit(r, m)
          PROVE  \E q : req' = [req EXCEPT ![r] = q] /\ q.op # "after"
      <4> DEFINE q == [op |-> "edit", by |-> m.by, id |-> m.post, before |-> Len(posts)]
      <4>1. req' = [req EXCEPT ![r] = q]
        BY <3>2 DEF Post!PostGroupPostEdit, Post!Spend
      <4>2. q.op # "after"
        OBVIOUS
      <4> HIDE DEF q
      <4>3. QED
        BY <4>1, <4>2
    <3>3. CASE Post!RequestFails(r)
      BY <1>2, <3>3 DEF Post!RequestFails, Post!Go
    <3>4. QED
      BY <1>6, <3>1, <3>2, <3>3 DEF PostAsks
  <2>2. QED
    BY <1>4, <1>6, <2>1, PostAsksKeeps
<1>7. ASSUME NEW r \in Request, Post!AnnounceReply(r) \/ Post!EditGroupPost(r) PROVE FanInv'
  <2>1. /\ req' = [req EXCEPT ![r] = Post!Idle]
        /\ UNCHANGED <<role, notify, blocks, mutes, fanout, queue, done, steady>>
        /\ tried \subseteq tried'
    BY <1>7 DEF Post!AnnounceReply, Post!EditGroupPost, Post!Go, Post!people, Post!running,
                Post!history
  <2>2. QED
    BY <1>2, <1>4, <2>1
<1>8. ASSUME NEW r \in Request, Post!dispatchGroupPostFanout(r) PROVE FanInv'
  <2>1. CASE queue \/ Post!Cardinality(fanout) < Slots
    BY <1>8, <2>1, FanBegins
  <2>2. CASE ~(queue \/ Post!Cardinality(fanout) < Slots)
    <3>1. /\ req' = [req EXCEPT ![r] = Post!Idle]
          /\ UNCHANGED <<role, notify, blocks, mutes, fanout, queue, done, steady, tried>>
      BY <1>8, <2>2 DEF Post!dispatchGroupPostFanout, Post!Go, Post!people
    <3>2. QED
      BY <1>2, <1>4, <3>1
  <2>3. QED
    BY <2>1, <2>2
<1>9. ASSUME NEW m, Post!PostGroupPostDelete(m) PROVE FanInv'
  <2>1. UNCHANGED <<role, notify, blocks, mutes, req, fanout, queue, done, steady, tried>>
    BY <1>9 DEF Post!PostGroupPostDelete, Post!Once, Post!people, Post!running, Post!history
  <2>2. QED
    BY <1>3, <1>5, <2>1
<1>10. ASSUME \/ PostPeople
              \/ \E u \in User : Post!EraseMember(u)
       PROVE  FanInv'
  <2>1. UNCHANGED <<req, queue, fanout, done, tried>> /\ Post!KeepSteady
    <3>1. ASSUME NEW u \in User, Post!EraseMember(u)
          PROVE  UNCHANGED <<req, queue, fanout, done, tried>> /\ Post!KeepSteady
      BY <3>1 DEF Post!EraseMember, Post!Once, Post!running
    <3>2. QED
      BY <1>10, <3>1, PostPeopleKeeps
  <2>2. steady' \subseteq steady /\ \A s \in steady' : s[1] \in Post!Audience(s[2])'
    BY <2>1 DEF Post!KeepSteady
  <2>3. QED
    BY <1>5, <2>1, <2>2
<1>11. ASSUME UNCHANGED Post!vars PROVE FanInv'
  <2>1. UNCHANGED <<role, notify, blocks, mutes, req, fanout, queue, done, steady, tried>>
    BY <1>11 DEF Post!vars, Post!people, Post!running, Post!history
  <2>2. QED
    BY <1>3, <1>5, <2>1
<1> QED
  BY <1>6, <1>7, <1>8, <1>9, <1>10, <1>11, PostCases, FanInserts, FanSteps

PostInv == PostRowsInv /\ FanInv

LEMMA PostStepInv == PostInv /\ [Post!Next]_Post!vars => PostInv'
BY PostRowsStep, FanStep DEF PostInv

LEMMA PostInitInv == Post!Init => PostInv
<1> SUFFICES ASSUME Post!Init PROVE PostInv
  OBVIOUS
<1>1. /\ posts = << >> /\ Len(posts) = 0 /\ MaxPosts \in Nat /\ MaxTalk \in Nat /\ Slots \in Nat
      /\ fanout = {} /\ done = {} /\ steady = {} /\ notify = User /\ started = 0
  BY TalkAssumption DEF Post!Init
<1>2. Written(posts) /\ Post!ErasedSaysNothing
  BY <1>1 DEF Written, Post!ErasedSaysNothing, Post!Ids
<1>3. Post!Idle \in Post!ReqType /\ Begun(posts, Post!Idle) /\ Post!Idle.op # "after"
  BY DEF Post!ReqType, Post!Idle, Begun
<1>4. /\ req \in [Request -> Post!ReqType] /\ \A r \in Request : req[r] = Post!Idle
      /\ role \in [User -> {"none", "member", "owner"}]
  BY <1>3 DEF Post!Init
<1>5. IsFiniteSet(fanout) /\ Cardinality(fanout) <= Slots
  BY <1>1, FS_EmptySet
<1>6. Post!FanoutReachesAudience
  BY <1>1 DEF Post!FanoutReachesAudience
<1>7. PostRowsInv
  BY <1>1, <1>2, <1>3, <1>4 DEF PostRowsInv
<1>8. FanInv
  BY <1>1, <1>3, <1>4, <1>5, <1>6 DEF FanInv, After
<1>9. QED
  BY <1>7, <1>8 DEF PostInv

(* The properties of the posts follow. *)
LEMMA PostTyped == PostInv => Post!TypeOK /\ Post!TombstonesAreEmpty
<1> SUFFICES ASSUME PostInv PROVE Post!TypeOK /\ Post!TombstonesAreEmpty
  OBVIOUS
<1>1. Post!Cardinality(fanout) = Cardinality(fanout)
  BY Zenon DEF Post!Cardinality, Cardinality
<1>2. /\ fanout \subseteq [post : Post!Id, actor : User, read : BOOLEAN, left : SUBSET User]
      /\ ~queue => Post!Cardinality(fanout) <= Slots
  BY <1>1 DEF PostInv, FanInv, FanoutRow
<1>3. QED
  BY <1>2 DEF PostInv, PostRowsInv, Written, Post!TypeOK, Post!TombstonesAreEmpty, Post!Ids

LEMMA PostCounts == PostInv => Post!CountsMatchPages
<1> SUFFICES ASSUME PostInv, NEW m \in Post!GroupPostsRequest, NEW vis \in {"private", "public"},
                    Post!MayRead(m.by, vis)
             PROVE  LET page == Post!PostGroupPosts(m, vis)
                    IN /\ page.total = Post!Cardinality(page.posts)
                       /\ m.parent \in Post!Ids => Post!GroupPost(m.by, m.parent).replyCount = page.total
  BY DEF Post!CountsMatchPages
<1> DEFINE S == {i \in Post!Ids : posts[i].parent = m.parent /\ Post!ShownTo(m.by, i)}
           f == [i \in S |-> Post!GroupPost(m.by, i)]
<1>1. IsFiniteSet(S)
  <2>1. Len(posts) \in Nat
    BY DEF PostInv, PostRowsInv, Written
  <2>2. IsFiniteSet(1 .. Len(posts)) /\ S \in SUBSET (1 .. Len(posts))
    BY <2>1, FS_Interval DEF Post!Ids
  <2> HIDE DEF S
  <2>3. QED
    BY <2>2, FS_Subset
<1>2. /\ Post!GetGroupPosts(m.by, m.parent) = S
      /\ Post!CountGroupPosts(m.by, m.parent) = Post!Cardinality(S)
      /\ Post!ReplyCount(m.by, m.parent) = Post!Cardinality(S)
  BY DEF Post!GetGroupPosts, Post!CountGroupPosts, Post!ReplyCount
<1> HIDE DEF S
<1>3. Post!Cardinality({Post!GroupPost(m.by, i) : i \in S}) = Post!Cardinality(S)
  <2>1. \A i \in S : f[i].id = i
    BY DEF Post!GroupPost
  <2>2. {Post!GroupPost(m.by, i) : i \in S} = {f[i] : i \in S}
    OBVIOUS
  <2>3. DOMAIN f = S /\ \A x, y \in S : f[x] = f[y] => x = y
    BY <2>1
  <2> HIDE DEF f
  <2>4. Cardinality({f[i] : i \in S}) = Cardinality(S)
    BY <1>1, <2>3, ImageSize
  <2>5. \A T : Post!Cardinality(T) = Cardinality(T)
    BY Zenon DEF Post!Cardinality, Cardinality
  <2>6. QED
    BY <2>2, <2>4, <2>5
<1>4. Post!GroupPost(m.by, m.parent).replyCount = Post!ReplyCount(m.by, m.parent)
  BY DEF Post!GroupPost
<1>5. QED
  BY <1>2, <1>3, <1>4 DEF Post!PostGroupPosts, Post!GroupPostsResponse

LEMMA PostEdits ==
  ASSUME PostInv, [Post!Next]_Post!vars, NEW i \in Post!Ids,
         posts'[i].text = "edited", posts[i].text = "posted"
  PROVE  \E r \in Request : /\ req[r].op = "edit" /\ req[r].id = i
                            /\ \A j \in Post!Ids : posts[j].parent = i => j > req[r].before
<1>1. /\ posts \in Seq(Post!SocialGroupPost) /\ Len(posts) \in Nat
      /\ i \in 1 .. Len(posts) /\ posts[i] \in Post!SocialGroupPost
  BY DEF PostInv, PostRowsInv, Written, Post!Ids
<1>2. Post!Tombstone(posts[i]).text = ""
  BY <1>1, PostTombstone
<1>3. ASSUME NEW r \in Request, Post!EditGroupPost(r)
      PROVE  /\ req[r].op = "edit" /\ req[r].id = i
             /\ \A j \in Post!Ids : posts[j].parent = i => j > req[r].before
  <2>1. req[r].op = "edit" /\ req[r].id = i
    BY <1>1, <1>3 DEF Post!EditGroupPost
  <2>2. QED
    BY <2>1 DEF PostInv, PostRowsInv, Begun, Post!Ids
<1>4. ASSUME NEW r \in Request, Post!InsertGroupPost(r) PROVE FALSE
  BY <1>1, <1>4 DEF Post!InsertGroupPost
<1>5. ASSUME NEW m, Post!PostGroupPostDelete(m) PROVE FALSE
  <2>1. posts'[i] \in {posts[i], Post!Tombstone(posts[i])}
    BY <1>1, <1>5 DEF Post!PostGroupPostDelete, Post!TombstoneGroupPost,
                      Post!TombstoneGroupPostAsOwner
  <2>2. QED
    BY <1>2, <2>1
<1>6. ASSUME NEW u, Post!EraseMember(u) PROVE FALSE
  BY <1>1, <1>2, <1>6 DEF Post!EraseMember, Post!TombstoneGroupPostsForUser, Post!Ids
<1>7. ASSUME UNCHANGED posts PROVE FALSE
  BY <1>7
<1> QED
  BY <1>3, <1>4, <1>5, <1>6, <1>7, PostCases, PostAsksKeeps, PostPeopleKeeps, FanKeeps
     DEF Post!AnnounceReply, Post!dispatchGroupPostFanout, Post!vars

----------------------------------------------------------------------------
(* What users send, review and rate (Sharing, here Share). *)
Slot == Share!SharedItem \cup {Share!Gone}

(* An item keeps its sender and recipient until it is deleted. *)
Survives(T, S) ==
  /\ Len(S) <= Len(T)
  /\ \A i \in 1 .. Len(S) :
       \/ T[i] = Share!Gone
       \/ S[i] # Share!Gone /\ T[i].from = S[i].from /\ T[i].to = S[i].to

(* An arrival that is pushed, or is going to be, is of an item of that recipient. *)
Addressed(S, u, i) == i \in 1 .. Len(S) /\ (S[i] = Share!Gone \/ S[i].to = u)

ShareInv ==
  /\ items \in Seq(Slot) /\ Len(items) <= MaxItems
  /\ joined \subseteq User /\ reviews \subseteq User /\ bridged \in BOOLEAN
  /\ ratings \in [User -> {0, 1, 5}] /\ reactions \in [Share!Uuid -> SUBSET User]
  /\ req \in [Request -> Share!ReqType]
  /\ \A r \in Request : req[r].op = "push" => Addressed(items, req[r].to, req[r].item)
  /\ \A p \in told : Addressed(items, p[1], p[2])
  /\ Share!ErasedSaysNothing
  /\ late \cap User \subseteq reviews
  /\ \A u \in User : <<u, u>> \notin blocks /\ <<u, u>> \notin mutes

LEMMA ShareFacts ==
  ASSUME ShareInv
  PROVE  /\ items \in Seq(Slot) /\ Len(items) \in Nat /\ MaxItems \in Nat /\ Len(items) <= MaxItems
         /\ \A i \in 1 .. Len(items) : items[i] \in Slot
         /\ \A i \in Share!Ids : i \in 1 .. Len(items) /\ items[i] \in Share!SharedItem
<1>1. MaxItems \in Nat
  BY TalkAssumption
<1>2. items \in Seq(Slot) /\ Len(items) \in Nat /\ Len(items) <= MaxItems
  BY DEF ShareInv
<1>3. \A i \in 1 .. Len(items) : items[i] \in Slot
  BY <1>2
<1>4. QED
  BY <1>1, <1>2, <1>3 DEF Slot, Share!Ids

LEMMA AddressedSurvives ==
  ASSUME NEW S, NEW T, Len(S) \in Nat, Len(T) \in Nat, Survives(T, S), NEW u, NEW i,
         Addressed(S, u, i)
  PROVE  Addressed(T, u, i)
BY DEF Survives, Addressed

(* The steps by what they write. *)
ShareAsks(r) ==
  \/ \E m \in Share!SharedItemSendRequest : Share!PostShareSend(r, m)
  \/ \E m \in Share!PodcastReviewSubmitRequest : Share!PostReviewSubmit(r, m)
  \/ Share!RequestFails(r)
ShareMarks ==
  \/ \E m \in Share!InboxMarkReadRequest : Share!PostInboxRead(m)
  \/ \E m \in Share!InboxDeleteRequest : Share!PostInboxDelete(m)
ShareOpinion ==
  \/ \E m \in Share!PodcastRatingAddRequest : Share!PostPodcastRatingAdd(m)
  \/ \E m \in Share!EpisodeReactionSetRequest : Share!PostReactionSet(m)
  \/ Share!StoreAlias

LEMMA ShareCases ==
  ASSUME [Share!Next]_Share!vars
  PROVE  \/ \E r \in Request : ShareAsks(r)
         \/ \E r \in Request : Share!InsertSharedItem(r)
         \/ \E r \in Request : Share!PushSharedItem(r)
         \/ \E r \in Request : Share!UpsertPodcastReview(r)
         \/ ShareMarks
         \/ \E m \in Share!PodcastReviewDeleteRequest : Share!PostReviewDelete(m)
         \/ ShareOpinion
         \/ \E u \in User : Share!Erase(u)
         \/ \E u \in User : Share!JoinAgain(u) \/ (\E v \in User : Share!Relate(u, v))
         \/ UNCHANGED Share!vars
BY DEF Share!Next, Share!Step, ShareAsks, ShareMarks, ShareOpinion

(* What each kind of step leaves alone. *)
LEMMA ShareAsksKeeps ==
  ASSUME NEW r \in Request, ShareAsks(r)
  PROVE  /\ UNCHANGED <<items, reviews, ratings, reactions, heard, bridged, joined, blocks, mutes,
                        told, late>>
         /\ \E q \in Share!ReqType : q.op # "push" /\ req' = [req EXCEPT ![r] = q]
<1>1. UNCHANGED <<items, reviews, ratings, reactions, heard, bridged, joined, blocks, mutes,
                  told, late>>
  BY DEF ShareAsks, Share!PostShareSend, Share!PostReviewSubmit, Share!RequestFails,
         Share!said, Share!people, Share!history
<1>2. ASSUME NEW m \in Share!SharedItemSendRequest, Share!PostShareSend(r, m)
      PROVE  \E q \in Share!ReqType : q.op # "push" /\ req' = [req EXCEPT ![r] = q]
  <2> DEFINE row == [from |-> m.by, to |-> m.recipient, ep |-> Share!canonicalEpisodeUuid(m.ep),
                     read |-> FALSE]
             q == [op |-> "send", by |-> m.by, row |-> row]
  <2>1. /\ m.by \in User /\ m.recipient \in User
        /\ Share!canonicalEpisodeUuid(m.ep) \in Share!Uuid \cup {"show"}
    BY DEF Share!SharedItemSendRequest, Share!canonicalEpisodeUuid, Share!Uuid
  <2>2. row \in Share!SharedItem
    BY <2>1 DEF Share!SharedItem
  <2>3. req' = [req EXCEPT ![r] = q]
    BY <1>2 DEF Share!PostShareSend, Share!Spend
  <2> HIDE DEF row
  <2>4. q \in Share!ReqType /\ q.op # "push"
    BY <2>1, <2>2 DEF Share!ReqType
  <2> HIDE DEF q
  <2>5. QED
    BY <2>3, <2>4
<1>3. ASSUME NEW m \in Share!PodcastReviewSubmitRequest, Share!PostReviewSubmit(r, m)
      PROVE  \E q \in Share!ReqType : q.op # "push" /\ req' = [req EXCEPT ![r] = q]
  <2> DEFINE q == [op |-> "review", by |-> m.by]
  <2>1. q \in Share!ReqType /\ q.op # "push"
    BY DEF Share!ReqType, Share!PodcastReviewSubmitRequest
  <2>2. req' = [req EXCEPT ![r] = q]
    BY <1>3 DEF Share!PostReviewSubmit, Share!Spend
  <2> HIDE DEF q
  <2>3. QED
    BY <2>1, <2>2
<1>4. ASSUME Share!RequestFails(r)
      PROVE  \E q \in Share!ReqType : q.op # "push" /\ req' = [req EXCEPT ![r] = q]
  BY <1>4 DEF Share!RequestFails, Share!Go, Share!ReqType, Share!Idle
<1>5. QED
  BY <1>1, <1>2, <1>3, <1>4 DEF ShareAsks

LEMMA ShareOpinionKeeps ==
  ASSUME ShareInv, ShareOpinion
  PROVE  /\ UNCHANGED <<items, reviews, joined, blocks, mutes, req, told, late>>
         /\ bridged' \in BOOLEAN
         /\ ratings' \in [User -> {0, 1, 5}] /\ reactions' \in [Share!Uuid -> SUBSET User]
<1>1. UNCHANGED <<items, reviews, joined, blocks, mutes, req, told, late>>
  BY DEF ShareOpinion, Share!PostPodcastRatingAdd, Share!PostReactionSet, Share!StoreAlias,
         Share!Once, Share!people, Share!history
<1>2. /\ bridged \in BOOLEAN /\ ratings \in [User -> {0, 1, 5}]
      /\ reactions \in [Share!Uuid -> SUBSET User]
  BY DEF ShareInv
<1>3. ASSUME NEW m \in Share!PodcastRatingAddRequest, Share!PostPodcastRatingAdd(m)
      PROVE  ratings' \in [User -> {0, 1, 5}] /\ UNCHANGED <<reactions, bridged>>
  BY <1>2, <1>3 DEF Share!PostPodcastRatingAdd, Share!UpsertPodcastRating,
                    Share!PodcastRatingAddRequest
<1>4. ASSUME NEW m \in Share!EpisodeReactionSetRequest, Share!PostReactionSet(m)
      PROVE  reactions' \in [Share!Uuid -> SUBSET User] /\ UNCHANGED <<ratings, bridged>>
  <2>1. m.by \in User /\ Share!canonicalEpisodeUuid(m.ep) \in Share!Uuid
    BY DEF Share!EpisodeReactionSetRequest, Share!canonicalEpisodeUuid, Share!Uuid
  <2>2. QED
    BY <1>2, <1>4, <2>1 DEF Share!PostReactionSet, Share!UpsertEpisodeReaction,
                            Share!DeleteEpisodeReaction
<1>5. ASSUME Share!StoreAlias
      PROVE  bridged' = TRUE /\ ratings' = ratings /\ reactions' = reactions
  BY <1>5 DEF Share!StoreAlias
<1>6. CASE Share!StoreAlias
  <2>1. bridged' \in BOOLEAN
    BY <1>5, <1>6
  <2>2. QED
    BY <1>1, <1>2, <1>5, <1>6, <2>1
<1>7. QED
  BY <1>1, <1>2, <1>3, <1>4, <1>6 DEF ShareOpinion

(* The items after a step. *)
LEMMA ShareItems ==
  ASSUME ShareInv, [Share!Next]_Share!vars
  PROVE  items' \in Seq(Slot) /\ Len(items') <= MaxItems /\ Survives(items', items)
<1>1. /\ items \in Seq(Slot) /\ Len(items) \in Nat /\ MaxItems \in Nat /\ Len(items) <= MaxItems
      /\ \A i \in 1 .. Len(items) : items[i] \in Slot /\ DOMAIN items = 1 .. Len(items)
      /\ \A i \in Share!Ids : items[i] \in Share!SharedItem
  BY ShareFacts
<1>2. ASSUME NEW T, DOMAIN T = 1 .. Len(items), T = [i \in 1 .. Len(items) |-> T[i]],
             \A i \in 1 .. Len(items) :
               \/ T[i] \in {Share!Gone, items[i]}
               \/ i \in Share!Ids /\ T[i] = [items[i] EXCEPT !.read = TRUE],
             items' = T
      PROVE  items' \in Seq(Slot) /\ Len(items') <= MaxItems /\ Survives(items', items)
  <2>1. ASSUME NEW i \in 1 .. Len(items)
        PROVE  /\ T[i] \in Slot
               /\ \/ T[i] = Share!Gone
                  \/ items[i] # Share!Gone /\ T[i].from = items[i].from /\ T[i].to = items[i].to
    <3>1. CASE T[i] \in {Share!Gone, items[i]}
      BY <1>1, <3>1 DEF Slot
    <3>2. CASE i \in Share!Ids /\ T[i] = [items[i] EXCEPT !.read = TRUE]
      <4>1. items[i] # Share!Gone
        BY <3>2 DEF Share!Ids
      <4>2. items[i] \in Share!SharedItem
        BY <1>1, <3>2
      <4>3. T[i] \in Share!SharedItem /\ T[i].from = items[i].from /\ T[i].to = items[i].to
        BY <3>2, <4>2 DEF Share!SharedItem
      <4>4. QED
        BY <4>1, <4>3 DEF Slot
    <3>3. QED
      BY <1>2, <3>1, <3>2
  <2>2. T \in Seq(Slot) /\ Len(T) = Len(items)
    BY <1>1, <1>2, <2>1
  <2>3. QED
    BY <1>1, <1>2, <2>1, <2>2 DEF Survives
<1>3. ASSUME NEW r \in Request, Share!InsertSharedItem(r)
      PROVE  items' \in Seq(Slot) /\ Len(items') <= MaxItems /\ Survives(items', items)
  <2>1. /\ items' = Append(items, req[r].row) /\ Len(items) < MaxItems /\ req[r].op = "send"
    BY <1>3 DEF Share!InsertSharedItem
  <2>2. req[r].row \in Slot
    <3>1. req[r] \in Share!ReqType
      BY DEF ShareInv
    <3>2. QED
      BY <2>1, <3>1 DEF Share!ReqType, Share!Idle, Slot
  <2>3. /\ items' \in Seq(Slot) /\ Len(items') = Len(items) + 1
        /\ \A i \in 1 .. Len(items) : items'[i] = items[i]
    BY <1>1, <2>1, <2>2
  <2>4. QED
    BY <1>1, <2>1, <2>3 DEF Survives
<1>4. ASSUME NEW m, Share!PostInboxRead(m)
      PROVE  items' \in Seq(Slot) /\ Len(items') <= MaxItems /\ Survives(items', items)
  <2>1. items' = [i \in 1 .. Len(items) |->
                    IF i \in m.ids /\ i \in Share!Ids /\ items[i].to = m.by
                    THEN [items[i] EXCEPT !.read = TRUE] ELSE items[i]]
    BY <1>1, <1>4 DEF Share!PostInboxRead, Share!MarkInboxItemsRead
  <2> DEFINE T == [i \in 1 .. Len(items) |->
                    IF i \in m.ids /\ i \in Share!Ids /\ items[i].to = m.by
                    THEN [items[i] EXCEPT !.read = TRUE] ELSE items[i]]
  <2>2. DOMAIN T = 1 .. Len(items) /\ T = [i \in 1 .. Len(items) |-> T[i]]
    OBVIOUS
  <2>3. \A i \in 1 .. Len(items) :
          \/ T[i] \in {Share!Gone, items[i]}
          \/ i \in Share!Ids /\ T[i] = [items[i] EXCEPT !.read = TRUE]
    OBVIOUS
  <2>4. items' = T
    BY <2>1
  <2> HIDE DEF T
  <2>5. QED
    BY <1>2, <2>2, <2>3, <2>4
<1>5. ASSUME NEW m, Share!PostInboxDelete(m)
      PROVE  items' \in Seq(Slot) /\ Len(items') <= MaxItems /\ Survives(items', items)
  <2>1. items' = [i \in 1 .. Len(items) |->
                    IF i = m.id /\ i \in Share!Ids /\ items[i].to = m.by
                    THEN Share!Gone ELSE items[i]]
    BY <1>1, <1>5 DEF Share!PostInboxDelete, Share!DeleteInboxItem
  <2>2. QED
    BY <1>2, <2>1
<1>6. ASSUME NEW u, Share!Erase(u)
      PROVE  items' \in Seq(Slot) /\ Len(items') <= MaxItems /\ Survives(items', items)
  <2>1. items' = [i \in 1 .. Len(items) |->
                    IF i \in Share!Ids /\ u \in {items[i].from, items[i].to}
                    THEN Share!Gone ELSE items[i]]
    BY <1>1, <1>6 DEF Share!Erase, Share!DeleteSharedItemsForUser
  <2>2. QED
    BY <1>2, <2>1
<1>7. ASSUME UNCHANGED items
      PROVE  items' \in Seq(Slot) /\ Len(items') <= MaxItems /\ Survives(items', items)
  BY <1>1, <1>7 DEF Survives
<1> QED
  BY <1>3, <1>4, <1>5, <1>6, <1>7, ShareCases, ShareAsksKeeps, ShareOpinionKeeps
     DEF ShareMarks, Share!PushSharedItem, Share!UpsertPodcastReview, Share!PostReviewDelete,
         Share!JoinAgain, Share!Relate, Share!vars

(* Requests and the arrivals pushed after a step. *)
LEMMA ShareRequests ==
  ASSUME ShareInv, [Share!Next]_Share!vars
  PROVE  /\ req' \in [Request -> Share!ReqType]
         /\ \A r \in Request : req'[r].op = "push" => Addressed(items', req'[r].to, req'[r].item)
         /\ \A p \in told' : Addressed(items', p[1], p[2])
<1>1. /\ req \in [Request -> Share!ReqType]
      /\ \A r \in Request : req[r].op = "push" => Addressed(items, req[r].to, req[r].item)
      /\ \A p \in told : Addressed(items, p[1], p[2])
  BY DEF ShareInv
<1>2. /\ items \in Seq(Slot) /\ Len(items) \in Nat /\ MaxItems \in Nat
      /\ \A i \in 1 .. Len(items) : items[i] \in Slot
  BY ShareFacts
<1>3. items' \in Seq(Slot) /\ Len(items') \in Nat /\ Survives(items', items)
  BY ShareItems
<1>4. /\ \A r \in Request : req[r].op = "push" => Addressed(items', req[r].to, req[r].item)
      /\ \A p \in told : Addressed(items', p[1], p[2])
  BY <1>1, <1>2, <1>3, AddressedSurvives
<1>5. ASSUME NEW r \in Request, NEW q \in Share!ReqType, req' = [req EXCEPT ![r] = q],
             q.op = "push" => Addressed(items', q.to, q.item)
      PROVE  /\ req' \in [Request -> Share!ReqType]
             /\ \A s \in Request : req'[s].op = "push" => Addressed(items', req'[s].to, req'[s].item)
  <2>1. \A s \in Request : req'[s] = IF s = r THEN q ELSE req[s]
    BY <1>1, <1>5
  <2>2. req' \in [Request -> Share!ReqType]
    BY <1>1, <1>5
  <2>3. QED
    BY <1>4, <1>5, <2>1, <2>2
<1>6. ASSUME NEW r \in Request, Share!InsertSharedItem(r)
      PROVE  /\ req' \in [Request -> Share!ReqType] /\ told' = told
             /\ \A s \in Request : req'[s].op = "push" => Addressed(items', req'[s].to, req'[s].item)
  <2> DEFINE q == [op |-> "push", by |-> req[r].by, to |-> req[r].row.to, item |-> Len(items')]
  <2>1. /\ items' = Append(items, req[r].row) /\ Len(items) < MaxItems /\ req[r].op = "send"
        /\ req' = [req EXCEPT ![r] = q] /\ told' = told
    BY <1>6 DEF Share!InsertSharedItem, Share!Go
  <2>2. req[r] \in Share!ReqType
    BY <1>1
  <2>3. req[r].by \in User /\ req[r].row \in Share!SharedItem
    BY <2>1, <2>2 DEF Share!ReqType, Share!Idle
  <2>4. req[r].row.to \in User /\ req[r].row \in Slot
    BY <2>3 DEF Share!SharedItem, Slot
  <2>5. /\ Len(items') = Len(items) + 1 /\ items'[Len(items')] = req[r].row
        /\ Len(items') \in Share!Id
    BY <1>2, <2>1, <2>4 DEF Share!Id
  <2>6. q \in Share!ReqType /\ q.op = "push" /\ q.to = req[r].row.to /\ q.item = Len(items')
    BY <2>3, <2>4, <2>5 DEF Share!ReqType
  <2>7. Addressed(items', req[r].row.to, Len(items'))
    BY <1>2, <2>5 DEF Addressed
  <2> HIDE DEF q
  <2>8. QED
    BY <1>5, <2>1, <2>6, <2>7
<1>7. ASSUME NEW r \in Request, Share!PushSharedItem(r)
      PROVE  /\ req' \in [Request -> Share!ReqType]
             /\ \A s \in Request : req'[s].op = "push" => Addressed(items', req'[s].to, req'[s].item)
             /\ \A p \in told' : Addressed(items', p[1], p[2])
  <2>1. /\ req[r].op = "push" /\ req' = [req EXCEPT ![r] = Share!Idle]
        /\ told' \in {told, told \cup {<<req[r].to, req[r].item>>}}
    BY <1>7 DEF Share!PushSharedItem, Share!Go
  <2>2. Share!Idle \in Share!ReqType /\ Share!Idle.op # "push"
    BY DEF Share!ReqType, Share!Idle
  <2>3. \A p \in told' : Addressed(items', p[1], p[2])
    BY <1>4, <2>1
  <2>4. QED
    BY <1>5, <2>1, <2>2, <2>3
<1>8. ASSUME NEW r \in Request, Share!UpsertPodcastReview(r)
      PROVE  /\ req' \in [Request -> Share!ReqType] /\ told' = told
             /\ \A s \in Request : req'[s].op = "push" => Addressed(items', req'[s].to, req'[s].item)
  <2>1. req' = [req EXCEPT ![r] = Share!Idle] /\ told' = told
    BY <1>8 DEF Share!UpsertPodcastReview, Share!Go
  <2>2. Share!Idle \in Share!ReqType /\ Share!Idle.op # "push"
    BY DEF Share!ReqType, Share!Idle
  <2>3. QED
    BY <1>5, <2>1, <2>2
<1>9. ASSUME NEW r \in Request, ShareAsks(r)
      PROVE  /\ req' \in [Request -> Share!ReqType] /\ told' = told
             /\ \A s \in Request : req'[s].op = "push" => Addressed(items', req'[s].to, req'[s].item)
  <2>1. PICK q \in Share!ReqType : q.op # "push" /\ req' = [req EXCEPT ![r] = q]
    BY <1>9, ShareAsksKeeps
  <2>2. told' = told
    BY <1>9, ShareAsksKeeps
  <2>3. QED
    BY <1>5, <2>1, <2>2
<1>10. ASSUME UNCHANGED <<req, told>>
       PROVE  /\ req' \in [Request -> Share!ReqType]
              /\ \A s \in Request : req'[s].op = "push" => Addressed(items', req'[s].to, req'[s].item)
              /\ \A p \in told' : Addressed(items', p[1], p[2])
  BY <1>1, <1>4, <1>10
<1>11. ASSUME NEW m, Share!PostInboxRead(m) \/ Share!PostInboxDelete(m) \/ Share!PostReviewDelete(m)
       PROVE  UNCHANGED <<req, told>>
  BY <1>11 DEF Share!PostInboxRead, Share!PostInboxDelete, Share!PostReviewDelete, Share!Once,
               Share!history
<1>12. ASSUME NEW u, NEW v, Share!Erase(u) \/ Share!JoinAgain(u) \/ Share!Relate(u, v)
       PROVE  UNCHANGED <<req, told>>
  BY <1>12 DEF Share!Erase, Share!JoinAgain, Share!Relate, Share!Once, Share!history
<1>13. CASE ShareOpinion \/ UNCHANGED Share!vars
  BY <1>10, <1>13, ShareOpinionKeeps DEF Share!vars, Share!history
<1>14. CASE ShareMarks
  BY <1>10, <1>11, <1>14 DEF ShareMarks
<1>15. CASE \E u \in User : Share!Erase(u) \/ Share!JoinAgain(u) \/ \E v \in User : Share!Relate(u, v)
  BY <1>10, <1>12, <1>15
<1>16. CASE \E m \in Share!PodcastReviewDeleteRequest : Share!PostReviewDelete(m)
  BY <1>10, <1>11, <1>16
<1>17. CASE \E r \in Request : \/ ShareAsks(r) \/ Share!InsertSharedItem(r)
                               \/ Share!PushSharedItem(r) \/ Share!UpsertPodcastReview(r)
  BY <1>4, <1>6, <1>7, <1>8, <1>9, <1>17
<1> QED
  BY <1>13, <1>14, <1>15, <1>16, <1>17, ShareCases

(* An erasure leaves nothing, and what is written late belongs to nobody who
   is there: ids are numbers and users are not. *)
LEMMA ShareErased ==
  ASSUME ShareInv, [Share!Next]_Share!vars
  PROVE  /\ Share!ErasedSaysNothing' /\ (late \cap User \subseteq reviews)'
         /\ joined' \subseteq User /\ reviews' \subseteq User
<1>1. /\ items \in Seq(Slot) /\ Len(items) \in Nat /\ DOMAIN items = 1 .. Len(items)
      /\ \A i \in Share!Ids : i \in 1 .. Len(items) /\ items[i] \in Share!SharedItem
  BY ShareFacts
<1>2. /\ \A i \in Share!Ids : {items[i].from, items[i].to} \subseteq joined \/ i \in late
      /\ reviews \subseteq joined \cup late /\ late \cap User \subseteq reviews
      /\ joined \subseteq User /\ reviews \subseteq User
  BY DEF ShareInv, Share!ErasedSaysNothing
<1>3. /\ Survives(items', items) /\ Len(items') \in Nat
      /\ User \cap Nat = {}
  <2>1. User \cap Nat = {}
    BY Zenon, UserAssumption
  <2>2. QED
    BY <2>1, ShareItems
<1>4. ASSUME UNCHANGED <<items, reviews, joined, late>>
      PROVE  /\ Share!ErasedSaysNothing' /\ (late \cap User \subseteq reviews)'
             /\ joined' \subseteq User /\ reviews' \subseteq User
  BY <1>2, <1>4 DEF Share!ErasedSaysNothing, Share!Ids
<1>5. ASSUME Len(items') = Len(items), joined \subseteq joined', UNCHANGED <<reviews, late>>,
             joined' \subseteq User
      PROVE  /\ Share!ErasedSaysNothing' /\ (late \cap User \subseteq reviews)'
             /\ joined' \subseteq User /\ reviews' \subseteq User
  <2>1. \A i \in Share!Ids' : i \in Share!Ids /\ items'[i].from = items[i].from
                                              /\ items'[i].to = items[i].to
    BY <1>3, <1>5 DEF Survives, Share!Ids
  <2>2. \A i \in Share!Ids' : {items'[i].from, items'[i].to} \subseteq joined' \/ i \in late'
    BY <1>2, <1>5, <2>1
  <2>3. QED
    BY <1>2, <1>5, <2>2 DEF Share!ErasedSaysNothing
<1>6. ASSUME NEW r \in Request, Share!InsertSharedItem(r)
      PROVE  /\ Share!ErasedSaysNothing' /\ (late \cap User \subseteq reviews)'
             /\ joined' \subseteq User /\ reviews' \subseteq User
  <2>1. /\ items' = Append(items, req[r].row) /\ req[r].op = "send"
        /\ late' = IF {req[r].row.from, req[r].row.to} \subseteq joined
                   THEN late ELSE late \cup {Len(items')}
        /\ UNCHANGED <<reviews, joined>>
    BY <1>6 DEF Share!InsertSharedItem, Share!said, Share!people
  <2>2. req[r].row \in Slot
    <3>1. req[r] \in Share!ReqType
      BY DEF ShareInv
    <3>2. QED
      BY <2>1, <3>1 DEF Share!ReqType, Share!Idle, Slot
  <2>3. /\ Len(items') = Len(items) + 1 /\ items'[Len(items')] = req[r].row
        /\ \A i \in 1 .. Len(items) : items'[i] = items[i]
    BY <1>1, <2>1, <2>2
  <2>4. \A i \in Share!Ids' : (i \in Share!Ids /\ items'[i] = items[i]) \/ i = Len(items')
    BY <1>1, <2>3 DEF Share!Ids
  <2>5. \A i \in Share!Ids' : {items'[i].from, items'[i].to} \subseteq joined' \/ i \in late'
    <3>1. SUFFICES ASSUME NEW i \in Share!Ids'
                   PROVE  {items'[i].from, items'[i].to} \subseteq joined' \/ i \in late'
      OBVIOUS
    <3>2. CASE i \in Share!Ids /\ items'[i] = items[i]
      BY <1>2, <2>1, <3>2
    <3>3. CASE i = Len(items')
      BY <2>1, <2>3, <3>3
    <3>4. QED
      BY <2>4, <3>2, <3>3
  <2>6. late' \cap User = late \cap User
    BY <1>3, <2>1
  <2>7. late \subseteq late'
    BY <2>1
  <2>8. QED
    BY <1>2, <2>1, <2>5, <2>6, <2>7 DEF Share!ErasedSaysNothing
<1>7. ASSUME NEW r \in Request, Share!UpsertPodcastReview(r)
      PROVE  /\ Share!ErasedSaysNothing' /\ (late \cap User \subseteq reviews)'
             /\ joined' \subseteq User /\ reviews' \subseteq User
  <2>1. /\ req[r].op = "review" /\ reviews' = reviews \cup {req[r].by}
        /\ late' = IF req[r].by \in joined THEN late ELSE late \cup {req[r].by}
        /\ UNCHANGED <<items, joined>>
    BY <1>7 DEF Share!UpsertPodcastReview, Share!people
  <2>2. req[r].by \in User
    <3>1. req[r] \in Share!ReqType
      BY DEF ShareInv
    <3>2. QED
      BY <2>1, <3>1 DEF Share!ReqType, Share!Idle
  <2>3. Share!Ids' = Share!Ids
    BY <2>1 DEF Share!Ids
  <2>4. late \subseteq late' /\ reviews' \subseteq joined \cup late'
    BY <1>2, <2>1
  <2>5. late' \cap User \subseteq reviews' /\ reviews' \subseteq User
    BY <1>2, <2>1, <2>2
  <2>6. \A i \in Share!Ids' : {items'[i].from, items'[i].to} \subseteq joined' \/ i \in late'
    BY <1>2, <2>1, <2>3, <2>4
  <2>7. QED
    BY <1>2, <2>1, <2>4, <2>5, <2>6 DEF Share!ErasedSaysNothing
<1>8. ASSUME NEW u \in User, Share!Ids' \subseteq Share!Ids, late' = late \ {u},
             reviews' = reviews \ {u}, joined' \in {joined, joined \ {u}},
             \A i \in Share!Ids' : /\ items'[i].from = items[i].from /\ items'[i].to = items[i].to
                                   /\ joined' = joined \/ u \notin {items[i].from, items[i].to}
      PROVE  /\ Share!ErasedSaysNothing' /\ (late \cap User \subseteq reviews)'
             /\ joined' \subseteq User /\ reviews' \subseteq User
  <2>1. \A i \in Share!Ids' : i \notin {u}
    BY <1>1, <1>3, <1>8
  <2>2. \A i \in Share!Ids' : {items'[i].from, items'[i].to} \subseteq joined' \/ i \in late'
    BY <1>2, <1>8, <2>1
  <2>3. QED
    BY <1>2, <1>8, <2>2 DEF Share!ErasedSaysNothing
<1>9. ASSUME NEW u \in User, Share!Erase(u)
      PROVE  /\ Share!ErasedSaysNothing' /\ (late \cap User \subseteq reviews)'
             /\ joined' \subseteq User /\ reviews' \subseteq User
  <2>1. /\ joined' = joined \ {u} /\ late' = late \ {u} /\ reviews' = reviews \ {u}
    BY <1>9 DEF Share!Erase, Share!DeleteReviewsForUser
  <2>2. items' = [i \in DOMAIN items |->
                    IF i \in Share!Ids /\ u \in {items[i].from, items[i].to}
                    THEN Share!Gone ELSE items[i]]
    BY <1>9 DEF Share!Erase, Share!DeleteSharedItemsForUser
  <2>3. Len(items') = Len(items) /\ DOMAIN items = 1 .. Len(items)
    BY <1>1, <2>2
  <2>4. \A i \in Share!Ids' : i \in Share!Ids /\ u \notin {items[i].from, items[i].to}
                              /\ items'[i] = items[i]
    BY <2>2, <2>3 DEF Share!Ids
  <2>5. QED
    BY <1>8, <2>1, <2>4
<1>10. ASSUME NEW m \in Share!PodcastReviewDeleteRequest, Share!PostReviewDelete(m)
       PROVE  /\ Share!ErasedSaysNothing' /\ (late \cap User \subseteq reviews)'
              /\ joined' \subseteq User /\ reviews' \subseteq User
  <2>1. /\ m.by \in User /\ late' = late \ {m.by} /\ reviews' = reviews \ {m.by}
        /\ UNCHANGED <<items, joined>>
    BY <1>10 DEF Share!PostReviewDelete, Share!DeletePodcastReview,
                 Share!PodcastReviewDeleteRequest, Share!people
  <2>2. Share!Ids' = Share!Ids
    BY <2>1 DEF Share!Ids
  <2>3. QED
    BY <1>8, <2>1, <2>2
<1>11. CASE ShareMarks
  <2>1. ASSUME NEW m, Share!PostInboxRead(m) \/ Share!PostInboxDelete(m)
        PROVE  Len(items') = Len(items) /\ UNCHANGED <<reviews, joined, late>>
    BY <1>1, <2>1 DEF Share!PostInboxRead, Share!MarkInboxItemsRead, Share!PostInboxDelete,
                      Share!DeleteInboxItem, Share!said, Share!people, Share!history
  <2>2. QED
    BY <1>2, <1>5, <1>11, <2>1 DEF ShareMarks
<1>12. ASSUME NEW u \in User, Share!JoinAgain(u)
       PROVE  Len(items') = Len(items) /\ joined' = joined \cup {u} /\ UNCHANGED <<reviews, late>>
  BY <1>12 DEF Share!JoinAgain, Share!said, Share!history
<1>13. ASSUME NEW u, NEW v, Share!Relate(u, v)
       PROVE  UNCHANGED <<items, reviews, joined, late>>
  BY <1>13 DEF Share!Relate, Share!said, Share!history
<1>14. CASE \E u \in User : Share!JoinAgain(u) \/ \E v \in User : Share!Relate(u, v)
  BY <1>2, <1>4, <1>5, <1>12, <1>13, <1>14
<1>15. ASSUME NEW r \in Request, ShareAsks(r) \/ Share!PushSharedItem(r)
       PROVE  UNCHANGED <<items, reviews, joined, late>>
  BY <1>15, ShareAsksKeeps DEF Share!PushSharedItem, Share!said, Share!people
<1>16. CASE ShareOpinion \/ UNCHANGED Share!vars
  BY <1>4, <1>16, ShareOpinionKeeps DEF Share!vars, Share!said, Share!people, Share!history
<1> QED
  BY <1>4, <1>6, <1>7, <1>9, <1>10, <1>11, <1>14, <1>15, <1>16, ShareCases

(* The reactions and relations after a step. *)
LEMMA ShareRest ==
  ASSUME ShareInv, [Share!Next]_Share!vars
  PROVE  /\ bridged' \in BOOLEAN
         /\ ratings' \in [User -> {0, 1, 5}] /\ reactions' \in [Share!Uuid -> SUBSET User]
         /\ \A u \in User : <<u, u>> \notin blocks' /\ <<u, u>> \notin mutes'
<1>1. /\ bridged \in BOOLEAN
      /\ ratings \in [User -> {0, 1, 5}] /\ reactions \in [Share!Uuid -> SUBSET User]
      /\ \A u \in User : <<u, u>> \notin blocks /\ <<u, u>> \notin mutes
  BY DEF ShareInv
<1>2. ASSUME UNCHANGED <<bridged, ratings, reactions>>
      PROVE  /\ bridged' \in BOOLEAN
             /\ ratings' \in [User -> {0, 1, 5}] /\ reactions' \in [Share!Uuid -> SUBSET User]
  BY <1>1, <1>2
<1>3. ASSUME blocks' \subseteq blocks, mutes' \subseteq mutes
      PROVE  \A u \in User : <<u, u>> \notin blocks' /\ <<u, u>> \notin mutes'
  BY <1>1, <1>3
<1>4. ASSUME NEW u \in User, NEW v \in User, Share!Relate(u, v)
      PROVE  \A w \in User : <<w, w>> \notin blocks' /\ <<w, w>> \notin mutes'
  <2>1. /\ u # v
        /\ blocks' \in {blocks, blocks \cup {<<u, v>>}}
        /\ mutes' \in {mutes, mutes \cup {<<u, v>>}}
    BY <1>4 DEF Share!Relate
  <2>2. \A w : <<w, w>> # <<u, v>>
    BY <2>1
  <2>3. blocks' \subseteq blocks \cup {<<u, v>>} /\ mutes' \subseteq mutes \cup {<<u, v>>}
    BY <2>1
  <2>4. QED
    BY <1>1, <2>2, <2>3
<1>5. ASSUME NEW u, NEW v, Share!Relate(u, v)
      PROVE  UNCHANGED <<bridged, ratings, reactions>>
  BY <1>5 DEF Share!Relate, Share!said
<1>6. ASSUME NEW u, Share!Erase(u) \/ Share!JoinAgain(u)
      PROVE  /\ blocks' \subseteq blocks /\ mutes' \subseteq mutes
             /\ UNCHANGED <<bridged, ratings, reactions>>
  BY <1>6 DEF Share!Erase, Share!JoinAgain, Share!said
<1>7. ASSUME NEW m, Share!PostInboxRead(m) \/ Share!PostInboxDelete(m) \/ Share!PostReviewDelete(m)
      PROVE  UNCHANGED <<bridged, ratings, reactions, blocks, mutes>>
  BY <1>7 DEF Share!PostInboxRead, Share!PostInboxDelete, Share!PostReviewDelete,
              Share!said, Share!people
<1>8. ASSUME NEW r \in Request, \/ Share!InsertSharedItem(r) \/ Share!PushSharedItem(r)
                                \/ Share!UpsertPodcastReview(r) \/ ShareAsks(r)
      PROVE  UNCHANGED <<bridged, ratings, reactions, blocks, mutes>>
  BY <1>8, ShareAsksKeeps DEF Share!InsertSharedItem, Share!PushSharedItem,
                              Share!UpsertPodcastReview, Share!said, Share!people
<1>9. CASE UNCHANGED <<bridged, ratings, reactions, blocks, mutes>>
  BY <1>2, <1>3, <1>9
<1>10. CASE ShareOpinion
  BY <1>3, <1>10, ShareOpinionKeeps
<1>11. CASE ShareMarks
  BY <1>2, <1>3, <1>7, <1>11 DEF ShareMarks
<1>12. CASE UNCHANGED Share!vars
  BY <1>9, <1>12 DEF Share!vars, Share!said, Share!people
<1>13. CASE \E u \in User : Share!JoinAgain(u) \/ \E v \in User : Share!Relate(u, v)
  BY <1>2, <1>3, <1>4, <1>5, <1>6, <1>13
<1>14. CASE \E u \in User : Share!Erase(u)
  BY <1>2, <1>3, <1>6, <1>14
<1> QED
  BY <1>7, <1>8, <1>9, <1>10, <1>11, <1>12, <1>13, <1>14, ShareCases

LEMMA ShareStepInv ==
  ASSUME ShareInv, [Share!Next]_Share!vars
  PROVE  ShareInv'
BY ShareItems, ShareRequests, ShareErased, ShareRest DEF ShareInv

LEMMA ShareInitInv ==
  ASSUME Share!Init
  PROVE  ShareInv
<1>1. MaxItems \in Nat
  BY TalkAssumption
<1>2. /\ items = << >> /\ reviews = {} /\ ratings = [u \in User |-> 0]
      /\ reactions = [e \in Share!Uuid |-> {}] /\ bridged = FALSE
      /\ joined = User /\ blocks = {} /\ mutes = {} /\ told = {} /\ late = {}
      /\ req = [r \in Request |-> Share!Idle]
  BY DEF Share!Init
<1>3. items \in Seq(Slot) /\ Len(items) <= MaxItems /\ Share!Ids = {}
  BY <1>1, <1>2 DEF Share!Ids
<1>4. bridged \in BOOLEAN /\ ratings \in [User -> {0, 1, 5}] /\ reactions \in [Share!Uuid -> SUBSET User]
  BY <1>2
<1>5. Share!Idle \in Share!ReqType /\ Share!Idle.op # "push"
  BY DEF Share!Idle, Share!ReqType
<1>6. req \in [Request -> Share!ReqType] /\ \A r \in Request : req[r].op # "push"
  BY <1>2, <1>5
<1>7. Share!ErasedSaysNothing
  BY <1>2, <1>3 DEF Share!ErasedSaysNothing
<1>8. QED
  BY <1>2, <1>3, <1>4, <1>6, <1>7 DEF ShareInv

(* What the aggregate adds up to. *)
LEMMA ShareTyped ==
  ASSUME ShareInv
  PROVE  Share!TypeOK
<1> DEFINE rated == {u \in User : ratings[u] # 0}
           ones == {u \in User : ratings[u] = 1}
           fives == {u \in User : ratings[u] = 5}
<1>1. IsFiniteSet(User)
  BY Zenon, UserAssumption
<1>2. IsFiniteSet(ones) /\ IsFiniteSet(fives)
  <2>1. ones \subseteq User /\ fives \subseteq User
    OBVIOUS
  <2> HIDE DEF ones, fives
  <2>2. QED
    BY <1>1, <2>1, FS_Subset
<1>3. rated = ones \cup fives /\ ones \cap fives = {}
  BY DEF ShareInv
<1>4. /\ Share!GetPodcastRatingAggregate.total = Cardinality(rated)
      /\ Share!GetPodcastRatingAggregate.ones = Cardinality(ones)
      /\ Share!GetPodcastRatingAggregate.fives = Cardinality(fives)
  <2>1. \A S : Share!Cardinality(S) = Cardinality(S)
    BY Zenon DEF Share!Cardinality, Cardinality
  <2>2. QED
    BY <2>1 DEF Share!GetPodcastRatingAggregate
<1> HIDE DEF rated, ones, fives
<1>5. Cardinality(rated) = Cardinality(ones) + Cardinality(fives)
  <2>1. Cardinality(ones \cup fives)
          = Cardinality(ones) + Cardinality(fives) - Cardinality(ones \cap fives)
    BY <1>2, FS_Union
  <2>2. Cardinality(ones \cap fives) = 0
    BY <1>3, FS_EmptySet
  <2>3. Cardinality(ones) \in Nat /\ Cardinality(fives) \in Nat
    BY <1>2, FS_CardinalityType
  <2>4. QED
    BY <1>3, <2>1, <2>2, <2>3
<1>6. items \in Seq(Share!SharedItem \cup {Share!Gone})
  BY DEF ShareInv, Slot
<1>7. QED
  BY <1>4, <1>5, <1>6 DEF ShareInv, Share!TypeOK

(* An arrival that was pushed is in the inbox. *)
LEMMA SharePushed ==
  ASSUME ShareInv
  PROVE  Share!PushedIsListed
<1>1. SUFFICES ASSUME NEW p \in told, p[2] \in Share!Ids,
                      Share!Shown(blocks, mutes, p[1], items[p[2]].from),
                      items[p[2]].from \in joined
               PROVE  p[2] \in Share!GetInboxItems(p[1])
  BY DEF Share!PushedIsListed
<1>2. items[p[2]].to = p[1]
  BY <1>1 DEF ShareInv, Addressed, Share!Ids
<1>3. QED
  BY <1>1, <1>2 DEF Share!GetInboxItems, Share!InInbox

(* The page of reviews and the count that goes with it. *)
LEMMA ReviewPages ==
  ASSUME ShareInv, NEW m \in Share!PodcastReviewsRequest
  PROVE  /\ Share!PostPodcastReviews(m).total
              = Cardinality(Share!PostPodcastReviews(m).reviews)
                + Cardinality({u \in (late \cap User) \ joined : Share!Shown(blocks, mutes, m.by, u)})
         /\ Share!PostPodcastReviews(m).yours \subseteq Share!PostPodcastReviews(m).reviews
<1> DEFINE All == {u \in reviews : Share!Shown(blocks, mutes, m.by, u)}
           Page == Share!GetPodcastReviews(m.by)
           Kept == {x \in Page : m.by \in {Share!Anonymous, x} \/ ~Share!IsBlockedEither(blocks, m.by, x)}
           Late == {u \in (late \cap User) \ joined : Share!Shown(blocks, mutes, m.by, u)}
           Yours == Share!GetOwnPodcastReview(m.by)
<1>1. /\ reviews \subseteq joined \cup late /\ late \cap User \subseteq reviews
      /\ reviews \subseteq User
      /\ \A u \in User : <<u, u>> \notin blocks /\ <<u, u>> \notin mutes
  BY DEF ShareInv, Share!ErasedSaysNothing
<1>2. IsFiniteSet(User) /\ \A u \in User : u # Share!NoOne
  BY Zenon, UserAssumption DEF Share!NoOne
<1>3. Kept = Page
  BY <1>1, <1>2 DEF Share!GetPodcastReviews, Share!Shown
<1>4. All = Page \cup Late /\ Page \cap Late = {}
  BY <1>1 DEF Share!GetPodcastReviews
<1>5. Yours \subseteq Page
  <2>1. SUFFICES ASSUME NEW x \in reviews \cap joined, x = m.by
                 PROVE  x \in Page
    BY DEF Share!GetOwnPodcastReview
  <2>2. <<x, x>> \notin blocks /\ <<x, x>> \notin mutes
    BY <1>1, <2>1
  <2>3. QED
    BY <2>1, <2>2 DEF Share!GetPodcastReviews, Share!Shown, Share!IsBlockedEither, Share!mutedBy
<1>6. Page \subseteq reviews /\ Late \subseteq User
  BY DEF Share!GetPodcastReviews
<1>7. /\ Share!PostPodcastReviews(m).total = Cardinality(All)
      /\ Share!PostPodcastReviews(m).reviews = {Share!PodcastReview(u) : u \in Kept}
      /\ Share!PostPodcastReviews(m).yours = {Share!PodcastReview(u) : u \in Yours}
  <2>1. Share!CountPodcastReviews(m.by) = Cardinality(All)
    BY Zenon DEF Share!CountPodcastReviews, Share!Cardinality, Cardinality
  <2>2. QED
    BY <2>1 DEF Share!PostPodcastReviews
<1> HIDE DEF All, Page, Kept, Late, Yours
<1>8. IsFiniteSet(Page) /\ IsFiniteSet(Late)
  <2>1. Page \subseteq User
    BY <1>1, <1>6
  <2>2. QED
    BY <1>2, <1>6, <2>1, FS_Subset
<1>9. Cardinality(All) = Cardinality(Page) + Cardinality(Late)
  <2>1. Cardinality(Page \cup Late)
          = Cardinality(Page) + Cardinality(Late) - Cardinality(Page \cap Late)
    BY <1>8, FS_Union
  <2>2. Cardinality(Page \cap Late) = 0
    BY <1>4, FS_EmptySet
  <2>3. Cardinality(Page) \in Nat /\ Cardinality(Late) \in Nat
    BY <1>8, FS_CardinalityType
  <2>4. QED
    BY <1>4, <2>1, <2>2, <2>3
<1>10. Cardinality({Share!PodcastReview(u) : u \in Page}) = Cardinality(Page)
  <2> DEFINE f == [u \in Page |-> Share!PodcastReview(u)]
  <2>1. \A u, v \in Page : f[u] = f[v] => u = v
    BY DEF Share!PodcastReview
  <2>2. DOMAIN f = Page /\ {f[u] : u \in Page} = {Share!PodcastReview(u) : u \in Page}
    OBVIOUS
  <2> HIDE DEF f
  <2>3. Cardinality({f[u] : u \in Page}) = Cardinality(Page)
    BY <1>8, <2>1, <2>2, ImageSize
  <2>4. QED
    BY <2>2, <2>3
<1>11. Share!PostPodcastReviews(m).yours \subseteq Share!PostPodcastReviews(m).reviews
  BY <1>3, <1>5, <1>7
<1>12. Share!PostPodcastReviews(m).reviews = {Share!PodcastReview(u) : u \in Page}
  BY <1>3, <1>7
<1>13. Share!PostPodcastReviews(m).total
         = Cardinality(Share!PostPodcastReviews(m).reviews) + Cardinality(Late)
  BY <1>7, <1>9, <1>10, <1>12
<1>14. QED
  BY <1>11, <1>13 DEF Late

(* The inbox and its counts. *)
LEMMA InboxPages ==
  ASSUME ShareInv, NEW u
  PROVE  /\ Share!InboxResponse(u).total = Cardinality(Share!InboxResponse(u).items)
         /\ Share!InboxResponse(u).unread <= Share!InboxResponse(u).total
<1> DEFINE Listed == {i \in Share!Ids : Share!InInbox(u, i)}
           Unread == {i \in Share!Ids : Share!InInbox(u, i) /\ ~items[i].read}
<1>1. /\ Share!InboxResponse(u).total = Cardinality(Listed)
      /\ Share!InboxResponse(u).unread = Cardinality(Unread)
      /\ Share!InboxResponse(u).items = Listed
  <2>1. Share!CountInboxItems(u) = Cardinality(Listed)
    BY Zenon DEF Share!CountInboxItems, Share!Cardinality, Cardinality
  <2>2. Share!CountUnreadInboxItems(u) = Cardinality(Unread)
    BY Zenon DEF Share!CountUnreadInboxItems, Share!Cardinality, Cardinality
  <2>3. QED
    BY <2>1, <2>2 DEF Share!InboxResponse, Share!GetInboxItems
<1>2. Unread \subseteq Listed /\ Listed \subseteq 1 .. Len(items)
  BY DEF Share!Ids
<1> HIDE DEF Listed, Unread
<1>3. IsFiniteSet(Listed)
  <2>1. IsFiniteSet(1 .. Len(items))
    BY ShareFacts, FS_Interval
  <2>2. QED
    BY <1>2, <2>1, FS_Subset
<1>4. Cardinality(Unread) <= Cardinality(Listed)
  BY <1>2, <1>3, FS_Subset
<1>5. QED
  BY <1>1, <1>4

(* A reaction of the viewer is among those counted. *)
LEMMA ReactionCounts ==
  ASSUME ShareInv, NEW m \in Share!EpisodeReactionsRequest
  PROVE  Share!PostEpisodeReactions(m).yours <= Share!PostEpisodeReactions(m).count
<1> DEFINE e == Share!canonicalEpisodeUuid(m.ep)
           R == reactions[e]
<1>1. e \in Share!Uuid
  BY DEF Share!EpisodeReactionsRequest, Share!canonicalEpisodeUuid, Share!Uuid
<1>2. R \subseteq User
  BY <1>1 DEF ShareInv
<1>3. /\ Share!PostEpisodeReactions(m).count = Cardinality(R)
      /\ Share!PostEpisodeReactions(m).yours = IF m.by \in R THEN 1 ELSE 0
  <2>1. Share!GetEpisodeReactionCounts(e) = Cardinality(R)
    BY Zenon DEF Share!GetEpisodeReactionCounts, Share!Cardinality, Cardinality
  <2>2. QED
    BY <2>1 DEF Share!PostEpisodeReactions, Share!GetOwnEpisodeReaction
<1> HIDE DEF R
<1>4. IsFiniteSet(R)
  <2>1. IsFiniteSet(User)
    BY Zenon, UserAssumption
  <2>2. QED
    BY <1>2, <2>1, FS_Subset
<1>5. Cardinality(R) \in Nat /\ (Cardinality(R) = 0 => R = {})
  BY <1>4, FS_CardinalityType, FS_EmptySet
<1>6. QED
  BY <1>3, <1>5

LEMMA ShareCounts ==
  ASSUME ShareInv
  PROVE  Share!CountsMatchPages
BY ReviewPages, InboxPages, ReactionCounts DEF Share!CountsMatchPages, Share!Cardinality, Cardinality

----------------------------------------------------------------------------
(* The parts together: the one that is followed keeps its invariant and the
   others what they start with. *)
SocialInv ==
  /\ part = "graph" => TypeOK /\ PushInv
  /\ OnePushPerFollow
  /\ IF part = "comments" THEN ThreadInv ELSE comments = << >>
  /\ IF part = "posts" THEN PostInv ELSE posts = << >> /\ steady = {}
  /\ IF part = "sharing" THEN ShareInv ELSE items = << >> /\ reviews = {}

LEMMA SocialInitInv == SocialInit => SocialInv
<1> SUFFICES ASSUME SocialInit PROVE SocialInv
  OBVIOUS
<1>1. TypeOK /\ PushInv /\ OnePushPerFollow
  BY GraphInitType, PushInitInv, PushedOnce DEF SocialInit
<1>2. ThreadInv /\ comments = << >>
  BY ThreadInitInv DEF SocialInit, Thread!Init
<1>3. IF part = "posts" THEN PostInv ELSE posts = << >> /\ steady = {}
  BY PostInitInv DEF SocialInit, NoGroup
<1>4. IF part = "sharing" THEN ShareInv ELSE items = << >> /\ reviews = {}
  BY ShareInitInv DEF SocialInit, Unheard
<1>5. QED
  BY <1>1, <1>2, <1>3, <1>4 DEF SocialInv

(* What a step is for each part, and that it leaves the rest alone. *)
LEMMA SocialSteps ==
  ASSUME [SocialNext]_socialVars
  PROVE  /\ part' = part
         /\ part = "graph" => [Next]_vars
         /\ part # "graph" => UNCHANGED <<handles, inserts, pushes>>
         /\ IF part = "comments" THEN [Thread!Next]_Thread!vars ELSE UNCHANGED comments
         /\ IF part = "posts" THEN [Post!Next]_Post!vars ELSE UNCHANGED <<posts, steady>>
         /\ IF part = "sharing" THEN [Share!Next]_Share!vars ELSE UNCHANGED <<items, reviews>>
<1>1. CASE GraphStep
  BY <1>1 DEF GraphStep, talkVars, threadOnly, postOnly, shareOnly
<1>2. CASE CommentStep
  BY <1>2 DEF CommentStep, graphOnly, graphState, history, postOnly, shareOnly
<1>3. CASE PostStep
  BY <1>3 DEF PostStep, graphOnly, graphState, history, threadOnly, shareOnly
<1>4. CASE ShareStep
  BY <1>4 DEF ShareStep, graphOnly, graphState, history, threadOnly, postOnly
<1>5. CASE SessionStep
  BY <1>5 DEF SessionStep, graphState, history, talkVars, threadOnly, postOnly, shareOnly
<1>6. CASE UNCHANGED socialVars
  <2>1. UNCHANGED <<part, vars, joined, late, bridged, told, threadOnly, postOnly, shareOnly>>
    BY <1>6 DEF socialVars, talkVars
  <2>2. UNCHANGED <<blocks, mutes, req, started, handles, inserts, pushes>>
    BY <2>1 DEF vars, requests, history
  <2>3. UNCHANGED Thread!vars
    BY <2>1, <2>2 DEF Thread!vars, Thread!rows, Thread!people, Thread!catalog,
                       Thread!history, threadOnly
  <2>4. UNCHANGED Post!vars
    BY <2>1, <2>2 DEF Post!vars, Post!people, Post!history, Post!running, postOnly
  <2>5. UNCHANGED Share!vars
    BY <2>1, <2>2 DEF Share!vars, Share!said, Share!people, Share!history, shareOnly
  <2>6. UNCHANGED <<comments, posts, steady, items, reviews>>
    BY <2>1 DEF threadOnly, postOnly, shareOnly
  <2>7. QED
    BY <2>1, <2>2, <2>3, <2>4, <2>5, <2>6
<1> QED
  BY <1>1, <1>2, <1>3, <1>4, <1>5, <1>6 DEF SocialNext, TalkEnds

LEMMA SocialStepInv == SocialInv /\ [SocialNext]_socialVars => SocialInv'
<1> SUFFICES ASSUME SocialInv, [SocialNext]_socialVars PROVE SocialInv'
  OBVIOUS
<1>1. part' = part
  BY SocialSteps
<1>2. part' = "graph" => (TypeOK /\ PushInv /\ OnePushPerFollow)'
  <2>1. SUFFICES ASSUME part' = "graph" PROVE TypeOK' /\ PushInv' /\ OnePushPerFollow'
    OBVIOUS
  <2>2. TypeOK /\ PushInv /\ [Next]_vars
    BY <1>1, <2>1, SocialSteps DEF SocialInv
  <2>3. TypeOK' /\ PushInv'
    BY <2>2, GraphTypeStep, PushStep
  <2>4. TypeOK' /\ PushInv' => OnePushPerFollow'
    BY PushedOnce, PTL
  <2>5. QED
    BY <2>3, <2>4
<1>3. OnePushPerFollow'
  <2>1. CASE part = "graph"
    BY <1>1, <1>2, <2>1
  <2>2. CASE part # "graph"
    BY <2>2, SocialSteps DEF SocialInv, OnePushPerFollow
  <2>3. QED
    BY <2>1, <2>2
<1>4. IF part' = "comments" THEN ThreadInv' ELSE comments' = << >>
  BY <1>1, SocialSteps, ThreadStepInv DEF SocialInv
<1>5. IF part' = "posts" THEN PostInv' ELSE posts' = << >> /\ steady' = {}
  BY <1>1, SocialSteps, PostStepInv DEF SocialInv
<1>6. IF part' = "sharing" THEN ShareInv' ELSE items' = << >> /\ reviews' = {}
  BY <1>1, SocialSteps, ShareStepInv DEF SocialInv
<1>7. QED
  BY <1>2, <1>3, <1>4, <1>5, <1>6 DEF SocialInv

LEMMA SocialHolds == SocialSpec => []SocialInv
BY SocialInitInv, SocialStepInv, PTL DEF SocialSpec

(* Graph, comments, posts and what is shared have their types: a reply stays
   in its parent's episode and thread, whatever overlaps with its insertion. *)
THEOREM SocialTypesCorrect == SocialSpec => []TypesOK
<1>1. SocialInv => TypesOK
  BY ThreadTyped, PostTyped, ShareTyped DEF SocialInv, TypesOK
<1>2. QED
  BY <1>1, SocialHolds, PTL

(* What an author, an owner or an erasure removed is empty and stays so, and
   an erasure leaves only what was being submitted when it committed. *)
THEOREM ErasedStaysSilent == SocialSpec => []ErasedSaysNothing
<1>1. SocialInv => ErasedSaysNothing
  <2> SUFFICES ASSUME SocialInv PROVE ErasedSaysNothing
    OBVIOUS
  <2>1. Thread!TombstonesAreEmpty /\ Thread!ErasedSaysNothing
    <3>1. CASE part = "comments"
      BY <3>1, ThreadTyped DEF SocialInv, ThreadInv
    <3>2. CASE comments = << >>
      BY <3>2 DEF Thread!TombstonesAreEmpty, Thread!ErasedSaysNothing, Thread!Ids
    <3>3. QED
      BY <3>1, <3>2 DEF SocialInv
  <2>2. Post!TombstonesAreEmpty /\ Post!ErasedSaysNothing
    <3>1. CASE part = "posts"
      BY <3>1, PostTyped DEF SocialInv, PostInv, PostRowsInv
    <3>2. CASE posts = << >>
      BY <3>2 DEF Post!TombstonesAreEmpty, Post!ErasedSaysNothing, Post!Ids
    <3>3. QED
      BY <3>1, <3>2 DEF SocialInv
  <2>3. Share!ErasedSaysNothing
    <3>1. CASE part = "sharing"
      BY <3>1 DEF SocialInv, ShareInv
    <3>2. CASE items = << >> /\ reviews = {}
      BY <3>2 DEF Share!ErasedSaysNothing, Share!Ids
    <3>3. QED
      BY <3>1, <3>2 DEF SocialInv
  <2>4. QED
    BY <2>1, <2>2, <2>3 DEF ErasedSaysNothing
<1>2. QED
  BY <1>1, SocialHolds, PTL

(* The counts and totals that are stored or queried apart from a page are
   those of the page, for every viewer and whatever was removed meanwhile. *)
THEOREM CountsAlwaysMatch == SocialSpec => []CountsMatchPages
<1>1. SocialInv => CountsMatchPages
  BY ThreadCounts, PostCounts, ShareCounts DEF SocialInv, CountsMatchPages
<1>2. QED
  BY <1>1, SocialHolds, PTL

(* A follow is announced once per row, what was pushed to someone is listed in
   that user's inbox, and a fan-out that ended has told its whole audience. *)
THEOREM AlertsStayTrue == SocialSpec => []AlertsAreTrue
<1>1. SocialInv => AlertsAreTrue
  <2> SUFFICES ASSUME SocialInv PROVE AlertsAreTrue
    OBVIOUS
  <2>1. Post!FanoutReachesAudience
    <3>1. CASE part = "posts"
      BY <3>1 DEF SocialInv, PostInv, FanInv
    <3>2. CASE steady = {}
      BY <3>2 DEF Post!FanoutReachesAudience
    <3>3. QED
      BY <3>1, <3>2 DEF SocialInv
  <2>2. QED
    BY <2>1, ThreadPushed, SharePushed DEF SocialInv, AlertsAreTrue
<1>2. QED
  BY <1>1, SocialHolds, PTL

(* What others rely on is not rewritten: a handle keeps its account or becomes
   a tombstone, and a comment or a post is edited only while it has no reply
   that was there when the edit was checked. *)
THEOREM WordsStayPublished == SocialSpec => PublishedStays
<1> DEFINE CommentKept ==
             \A i \in Thread!Ids : comments'[i].text = "edited" /\ comments[i].text = "posted" =>
               \E r \in Request : req[r].op = "edit" /\ req[r].id = i
                                  /\ \A j \in Thread!Replies(i) : j > req[r].before
           PostKept ==
             \A i \in Post!Ids : posts'[i].text = "edited" /\ posts[i].text = "posted" =>
               \E r \in Request : req[r].op = "edit" /\ req[r].id = i
                   /\ \A j \in Post!Ids : posts[j].parent = i => j > req[r].before
<1>1. SocialInv /\ [SocialNext]_socialVars => HandlesKept
  <2> SUFFICES ASSUME SocialInv, [SocialNext]_socialVars PROVE HandlesKept
    OBVIOUS
  <2>1. CASE part = "graph"
    BY <2>1, SocialSteps, HandlesKeptStep DEF SocialInv
  <2>2. CASE part # "graph"
    BY <2>2, SocialSteps DEF HandlesKept
  <2>3. QED
    BY <2>1, <2>2
<1>2. SocialInv /\ [SocialNext]_socialVars => CommentKept
  <2> SUFFICES ASSUME SocialInv, [SocialNext]_socialVars PROVE CommentKept
    OBVIOUS
  <2>1. CASE part = "comments"
    <3>1. ThreadInv /\ [Thread!Next]_Thread!vars
      BY <2>1, SocialSteps DEF SocialInv
    <3>2. QED
      BY <3>1, ThreadEdits
  <2>2. CASE comments' = comments
    BY <2>2
  <2>3. QED
    BY <2>1, <2>2, SocialSteps
<1>3. SocialInv /\ [SocialNext]_socialVars => PostKept
  <2> SUFFICES ASSUME SocialInv, [SocialNext]_socialVars PROVE PostKept
    OBVIOUS
  <2>1. CASE part = "posts"
    <3>1. PostInv /\ [Post!Next]_Post!vars
      BY <2>1, SocialSteps DEF SocialInv
    <3>2. QED
      BY <3>1, PostEdits
  <2>2. CASE posts' = posts
    BY <2>2
  <2>3. QED
    BY <2>1, <2>2, SocialSteps
<1>4. SocialSpec => HandleNeverReissued
  BY <1>1, SocialHolds, PTL DEF SocialSpec, HandleNeverReissued, HandlesKept
<1>5. SocialSpec => Thread!EditedBeforeReplies
  BY <1>2, SocialHolds, PTL DEF SocialSpec, Thread!EditedBeforeReplies
<1>6. SocialSpec => Post!EditedBeforeReplies
  BY <1>3, SocialHolds, PTL DEF SocialSpec, Post!EditedBeforeReplies
<1>7. QED
  BY <1>4, <1>5, <1>6 DEF PublishedStays
=============================================================================
