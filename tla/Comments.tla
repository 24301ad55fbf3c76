------------------------------ MODULE Comments ------------------------------
(***************************************************************************)
(* The comment tree of one episode (comments.go): submitting, editing,     *)
(* deleting, the pages of the tree and the inbox of replies, and what      *)
(* erasure leaves of it.  The episode has a catalog uuid and a device uuid *)
(* which are two episodes until an alias bridges them.                     *)
(*                                                                         *)
(* A request is a series of statements on the pool: its reads, the write   *)
(* they allow, and for a reply the reads behind the notification.  A       *)
(* request refused by validation or by the text filter ends like one that  *)
(* was not made.  The position of a comment is its id and its created_at.  *)
(***************************************************************************)
EXTENDS Naturals, FiniteSets, Sequences, Relations

CONSTANTS
  User,
  Request,          \* requests that may be under way at the same time
  MaxComments,      \* bound: comments that are inserted
  MaxRequests       \* bound: operations that are started

Uuid == {"catalog", "device"}

VARIABLES
  comments,         \* episode_comments
  bridged,          \* episode_aliases has the device uuid
  playback,         \* user_episodes: how much of each uuid was played
  joined,           \* social_profiles
  seen,             \* replies_seen_at
  blocks, mutes,    \* social_relationships
  req, started,
  pushes,           \* history: <<recipient, reply>> of the reply pushes sent
  late              \* history: comments of users erased before the insert

rows    == <<comments, seen>>
people  == <<joined, blocks, mutes>>
catalog == <<bridged, playback>>
history == <<pushes, late>>
vars == <<rows, people, catalog, req, started, history>>

Id == 1 .. MaxComments
EpisodeComment ==
  [ep : Uuid, by : User \cup {NoOne}, parent : {0} \cup Id, root : {0} \cup Id,
   text : {"", "posted", "edited"}, quote : BOOLEAN, removed : BOOLEAN]
Tombstone(c) == [c EXCEPT !.by = NoOne, !.text = "", !.quote = FALSE, !.removed = TRUE]

(* The messages, each with the user whose session sent it. *)
Viewer == User \cup {Anonymous}
CommentSubmitRequest   == [by : User, ep : Uuid, parent : {0} \cup Id, quote : BOOLEAN]
CommentEditRequest     == [by : User, comment : Id]
CommentDeleteRequest   == [by : User, comment : Id]
EpisodeCommentsRequest == [by : Viewer, ep : Uuid]
CommentRepliesRequest  == [by : Viewer, parent : Id]

Idle == [op |-> "idle"]
ReqType ==
  {Idle}
  \cup [op : {"insert"}, by : User, row : EpisodeComment]
  \cup [op : {"notify"}, by : User, reply : Id]
  \cup [op : {"edit"}, by : User, id : Id, before : Nat]

Spend(r, next) ==
  /\ req[r] = Idle /\ started < MaxRequests
  /\ started' = started + 1 /\ req' = [req EXCEPT ![r] = next]
Go(r, next) == req' = [req EXCEPT ![r] = next] /\ UNCHANGED started
Once == started < MaxRequests /\ started' = started + 1 /\ UNCHANGED req

Init ==
  /\ comments = << >> /\ bridged = FALSE
  /\ \E p \in {[catalog |-> "enough", device |-> "none"],
             [catalog |-> "little", device |-> "enough"]} : playback = [u \in User |-> p]
  /\ joined = User /\ seen = [u \in User |-> 0] /\ blocks = {} /\ mutes = {}
  /\ req = [r \in Request |-> Idle] /\ started = 0 /\ pushes = {} /\ late = {}

----------------------------------------------------------------------------
Ids == 1 .. Len(comments)

(* GetCommentByID and its has_replies *)
Replies(i)    == {j \in Ids : comments[j].parent = i}
HasReplies(i) == Replies(i) # {}
Live(i)       == i \in Ids /\ ~comments[i].removed

(* ResolveEpisodeAlias; ReverseEpisodeAliases *)
canonicalEpisodeUuid(e) == IF bridged /\ e = "device" THEN "catalog" ELSE e
ReverseEpisodeAliases(e) == IF bridged /\ e = "catalog" THEN <<"device">> ELSE << >>

(* GetEpisodePlaybackForGate: at least a quarter of the episode, or completed.
   The first uuid that has a row decides. *)
GateUuids(e) ==
  LET c == canonicalEpisodeUuid(e)
  IN <<e>> \o (IF c = e THEN << >> ELSE <<c>>) \o ReverseEpisodeAliases(c)
PassesGate(u, e) ==
  LET found == SelectSeq(GateUuids(e), LAMBDA x : playback[u][x] # "none")
  IN found # << >> /\ playback[u][Head(found)] = "enough"

(* PostCommentSubmit up to the insert.  A quote needs a timestamp and no
   parent; a reply inherits its parent's root. *)
MayReply(u, e, p) ==
  /\ Live(p) /\ comments[p].ep = e
  /\ comments[p].by = u \/ ~IsBlockedEither(blocks, u, comments[p].by)
RootOf(p) == IF p = 0 THEN 0 ELSE IF comments[p].root = 0 THEN p ELSE comments[p].root
PostCommentSubmit(r, m) ==
  LET e == canonicalEpisodeUuid(m.ep)
  IN /\ m.by \in joined /\ Len(comments) < MaxComments
     /\ m.quote => m.parent = 0
     /\ IF m.parent = 0 THEN PassesGate(m.by, m.ep) ELSE MayReply(m.by, e, m.parent)
     /\ Spend(r, [op |-> "insert", by |-> m.by,
                  row |-> [ep |-> e, by |-> m.by, parent |-> m.parent, root |-> RootOf(m.parent),
                           text |-> "posted", quote |-> m.quote, removed |-> FALSE]])
     /\ UNCHANGED <<rows, people, catalog, history>>

InsertComment(r) ==
  /\ req[r].op = "insert" /\ Len(comments) < MaxComments
  /\ LET c == req[r].row
         i == Len(comments) + 1
     IN /\ comments' = Append(comments, c)
        /\ late' = IF c.by \in joined THEN late ELSE late \cup {i}
        /\ Go(r, IF c.parent = 0 THEN Idle ELSE [op |-> "notify", by |-> c.by, reply |-> i])
  /\ UNCHANGED <<seen, people, catalog, pushes>>

(* The parent is read again: a tombstone has nobody to notify. *)
NotifyRoot(r) ==              \* mutant: the thread's first author is told
  /\ req[r].op = "notify"
  /\ LET i == req[r].reply
         a == comments[comments[i].root].by
     IN pushes' = IF a \in {NoOne, req[r].by} \/ mutedBy(mutes, a, req[r].by)
                  THEN pushes ELSE pushes \cup {<<a, i>>}
  /\ Go(r, Idle) /\ UNCHANGED <<rows, people, catalog, late>>
NotifyParent(r) ==
  /\ req[r].op = "notify"
  /\ LET i == req[r].reply
         a == comments[comments[i].parent].by
     IN pushes' = IF a \in {NoOne, req[r].by} \/ mutedBy(mutes, a, req[r].by)
                  THEN pushes ELSE pushes \cup {<<a, i>>}
  /\ Go(r, Idle) /\ UNCHANGED <<rows, people, catalog, late>>

(* PostCommentEdit: the author, within the grace period, until the first
   reply; EditComment checks the author and the tombstone again. *)
PostCommentEditAny(r, m) ==  \* mutant: replies do not close the edit window
  /\ m.by \in joined /\ Live(m.comment) /\ comments[m.comment].by = m.by
  /\ Spend(r, [op |-> "edit", by |-> m.by, id |-> m.comment, before |-> Len(comments)])
  /\ UNCHANGED <<rows, people, catalog, history>>
PostCommentEdit(r, m) ==
  /\ m.by \in joined /\ Live(m.comment) /\ comments[m.comment].by = m.by /\ ~HasReplies(m.comment)
  /\ Spend(r, [op |-> "edit", by |-> m.by, id |-> m.comment, before |-> Len(comments)])
  /\ UNCHANGED <<rows, people, catalog, history>>

EditComment(r) ==
  /\ req[r].op = "edit"
  /\ LET i == req[r].id
     IN comments' = IF Live(i) /\ comments[i].by = req[r].by
                    THEN [comments EXCEPT ![i].text = "edited"] ELSE comments
  /\ Go(r, Idle) /\ UNCHANGED <<seen, people, catalog, history>>

(* PostCommentDelete is one statement. *)
TombstoneComment(u, i) ==
  IF Live(i) /\ comments[i].by = u THEN [comments EXCEPT ![i] = Tombstone(@)] ELSE comments
PostCommentDelete(m) ==
  /\ m.by \in joined /\ Once
  /\ comments' = TombstoneComment(m.by, m.comment) /\ comments' # comments
  /\ UNCHANGED <<seen, people, catalog, history>>

SetRepliesSeen(u) == [seen EXCEPT ![u] = Len(comments)]
PostInboxRepliesSeen(u) ==
  /\ u \in joined /\ seen[u] < Len(comments) /\ Once
  /\ seen' = SetRepliesSeen(u)
  /\ UNCHANGED <<comments, people, catalog, history>>

(* A statement of a request fails. *)
RequestFails(r) ==
  /\ req[r] # Idle /\ Go(r, Idle)
  /\ UNCHANGED <<rows, people, catalog, history>>

----------------------------------------------------------------------------
(* Blocking and muting write one row each, erasure is one transaction that
   tombstones the user's comments and drops every edge; joining again starts
   with an empty profile.  A crawl stores the alias of the episode. *)
Relate(u, v) ==
  /\ {u, v} \subseteq joined /\ u # v /\ Once
  /\ \/ blocks' = blocks \cup {<<u, v>>} /\ UNCHANGED mutes
     \/ mutes' = mutes \cup {<<u, v>>} /\ UNCHANGED blocks
  /\ UNCHANGED <<rows, joined, catalog, history>>

EraseProfile(u) ==            \* mutant: the comments are forgotten
  /\ u \in joined /\ Once /\ joined' = joined \ {u}
  /\ blocks' = {e \in blocks : u \notin {e[1], e[2]}}
  /\ mutes' = {e \in mutes : u \notin {e[1], e[2]}}
  /\ UNCHANGED <<rows, catalog, history>>
TombstoneCommentsForUser(u) ==
  [i \in Ids |-> IF comments[i].by = u THEN Tombstone(comments[i]) ELSE comments[i]]
Erase(u) ==
  /\ u \in joined /\ Once /\ joined' = joined \ {u}
  /\ comments' = TombstoneCommentsForUser(u)
  /\ blocks' = {e \in blocks : u \notin {e[1], e[2]}}
  /\ mutes' = {e \in mutes : u \notin {e[1], e[2]}}
  /\ UNCHANGED <<seen, catalog, history>>

JoinAgain(u) ==
  /\ u \notin joined /\ Once /\ joined' = joined \cup {u}
  /\ seen' = SetRepliesSeen(u)
  /\ UNCHANGED <<comments, blocks, mutes, catalog, history>>

StoreAlias ==
  /\ ~bridged /\ Once /\ bridged' = TRUE
  /\ UNCHANGED <<rows, people, playback, history>>

Submit(r) ==
  \E m \in CommentSubmitRequest : PostCommentSubmit(r, m)
Step(r) ==
  InsertComment(r) \/ NotifyParent(r) \/ EditComment(r) \/ RequestFails(r)
Next ==
  \/ \E r \in Request : Submit(r) \/ Step(r)
       \/ \E m \in CommentEditRequest : PostCommentEdit(r, m)
  \/ \E m \in CommentDeleteRequest : PostCommentDelete(m)
  \/ \E u \in User : PostInboxRepliesSeen(u) \/ Erase(u) \/ JoinAgain(u)
       \/ (\E v \in User : Relate(u, v))
  \/ StoreAlias

Spec == Init /\ [][Next]_vars

----------------------------------------------------------------------------
(* What the reads return, the order being that of the ids.  The queries of
   the tree join the author's profile on the left, the inbox does not. *)
ShownTo(v, i) == Shown(blocks, mutes, v, comments[i].by)

ReplyCountAll(v, i) == Cardinality(Replies(i))         \* mutant: hidden replies are counted
ReplyCount(v, i) == Cardinality({j \in Replies(i) : ShownTo(v, j)})

(* commentToProto: a tombstone ships no text and no author. *)
SocialComment(v, i) ==
  LET c == comments[i]
  IN [id |-> i, replyCount |-> ReplyCount(v, i), removed |-> c.removed,
      text |-> IF c.removed THEN "" ELSE c.text,
      handle |-> IF c.removed \/ c.by \notin joined THEN NoOne ELSE c.by]
CommentsResponse(v, ids, total) == [comments |-> {SocialComment(v, i) : i \in ids}, total |-> total]
InboxRepliesResponse(u, ids, total, unread) ==
  [replies |-> {SocialComment(u, i) : i \in ids}, total |-> total, unread |-> unread]

GetEpisodeComments(v, e) == {i \in Ids : comments[i].ep = e /\ comments[i].parent = 0 /\ ShownTo(v, i)}
CountEpisodeComments(v, e) ==
  Cardinality({i \in Ids : comments[i].ep = e /\ comments[i].parent = 0 /\ ShownTo(v, i)})
GetCommentReplies(v, p) == {i \in Replies(p) : ShownTo(v, i)}
CountCommentReplies(v, p) == Cardinality({i \in Replies(p) : ShownTo(v, i)})

ToCaller(u, i) ==
  /\ comments[i].parent # 0 /\ comments[comments[i].parent].by = u
  /\ ~comments[i].removed /\ comments[i].by # u /\ ShownTo(u, i)
GetInboxReplies(u) == {i \in Ids : ToCaller(u, i) /\ comments[i].by \in joined}
CountInboxReplies(u) == Cardinality({i \in Ids : ToCaller(u, i)})
CountUnreadInboxReplies(u) == Cardinality({i \in Ids : ToCaller(u, i) /\ i > seen[u]})

PostEpisodeComments(m) ==
  LET e == canonicalEpisodeUuid(m.ep)
  IN CommentsResponse(m.by, GetEpisodeComments(m.by, e), CountEpisodeComments(m.by, e))
PostCommentReplies(m) ==
  CommentsResponse(m.by, GetCommentReplies(m.by, m.parent), CountCommentReplies(m.by, m.parent))
PostInboxReplies(u) ==
  InboxRepliesResponse(u, GetInboxReplies(u), CountInboxReplies(u), CountUnreadInboxReplies(u))

----------------------------------------------------------------------------
(* The state has its type; a reply belongs to the episode and to the thread
   of its parent. *)
TypeOK ==
  /\ comments \in Seq(EpisodeComment) /\ Len(comments) <= MaxComments
  /\ \A i \in Ids : LET p == comments[i].parent
                    IN p # 0 => p < i /\ comments[p].ep = comments[i].ep /\ comments[i].root = RootOf(p)
  /\ joined \subseteq User /\ seen \in [User -> 0 .. MaxComments]
  /\ req \in [Request -> ReqType] /\ bridged \in BOOLEAN
  /\ pushes \subseteq User \X Id /\ late \subseteq Id

(* A removed comment has no text, no quote and no author, also when an edit
   was allowed before it was removed, and nothing brings it back. *)
TombstonesAreEmpty ==
  \A i \in Ids : comments[i].removed => comments[i] = Tombstone(comments[i])

(* "only until first reply": the text changes only while no reply exists that
   was there when the edit was checked. *)
EditedBeforeReplies ==
  [][\A i \in Ids : comments'[i].text = "edited" /\ comments[i].text = "posted" =>
       \E r \in Request : req[r].op = "edit" /\ req[r].id = i
                          /\ \A j \in Replies(i) : j > req[r].before]_vars

(* Erasure leaves no words of the user, but for a comment whose submission
   was under way when the erasure committed. *)
ErasedSaysNothing ==
  \A i \in Ids : comments[i].by # NoOne /\ comments[i].by \notin joined => i \in late

(* Whoever looks, the reply count shown under a comment is what opening its
   replies lists, the totals are those of the pages, and the inbox counts no
   more than it lists, but for replies of users erased meanwhile. *)
CountsMatchPages ==
  /\ \A m \in CommentRepliesRequest : m.parent \in Ids =>
       LET page == PostCommentReplies(m)
       IN Cardinality(page.comments) = page.total /\ SocialComment(m.by, m.parent).replyCount = page.total
  /\ \A m \in EpisodeCommentsRequest :
       LET page == PostEpisodeComments(m) IN page.total = Cardinality(page.comments)
  /\ \A u \in joined : LET inbox == PostInboxReplies(u)
                       IN /\ inbox.unread <= inbox.total
                          /\ late = {} => inbox.total = Cardinality(inbox.replies)

(* A reply that was pushed to someone is in that user's inbox until it is
   removed, its author is hidden by a block or a mute, or one of the two is
   erased. *)
PushedIsListed ==
  \A p \in pushes :
    LET u == p[1]
        c == comments[p[2]]
    IN \/ p[2] \in GetInboxReplies(u)
       \/ c.removed \/ ~ShownTo(u, p[2]) \/ c.by \notin joined
       \/ comments[c.parent].removed
=============================================================================
