----------------------------- MODULE GroupPosts -----------------------------
(***************************************************************************)
(* The posts of one group (groupposts.go): submitting, the fan-out of a    *)
(* new post to the members, editing, deleting by author or owner, reading. *)
(*                                                                         *)
(* As for comments, a request is its reads and then its write.  The        *)
(* fan-out is a queued task when there is a queue, which runs again when   *)
(* its worker dies, and otherwise a goroutine that holds one of Slots      *)
(* places; without a free place it is dropped.                             *)
(***************************************************************************)
EXTENDS Naturals, FiniteSets, Sequences, Relations

CONSTANTS
  User,
  Request,          \* requests that may be under way at the same time
  Slots,            \* the capacity of directGroupFanoutSem
  MaxPosts,         \* bound: posts that are inserted
  MaxRequests       \* bound: operations that are started

VARIABLES
  posts,            \* social_group_posts
  role,             \* social_group_members.role
  notify,           \* the members with notify_posts
  joined,           \* social_profiles
  blocks, mutes,    \* social_relationships
  req, started,
  queue,            \* h.Queue is configured
  fanout,           \* the fan-outs waiting or running, with the targets left
  done,             \* history: posts whose fan-out ended
  tried,            \* history: <<user, post>> handed to the notifier
  steady,           \* history: <<user, author, post>>: in the audience since the post
  late              \* history: posts of users erased before the insert

people  == <<role, notify, joined, blocks, mutes>>
history == <<tried, steady, late>>
running == <<queue, fanout, done>>
vars == <<posts, people, req, started, running, history>>

Id == 1 .. MaxPosts
SocialGroupPost ==
  [by : User \cup {NoOne}, parent : {0} \cup Id, root : {0} \cup Id,
   text : {"", "posted", "edited"}, removed : BOOLEAN]
Tombstone(p) == [p EXCEPT !.by = NoOne, !.text = "", !.removed = TRUE]

(* The messages, each with the user whose session sent it. *)
Viewer == User \cup {Anonymous}
GroupPostRequest       == [by : User, parent : {0} \cup Id]
GroupPostEditRequest   == [by : User, post : Id]
GroupPostDeleteRequest == [by : User, post : Id]
GroupPostsRequest      == [by : Viewer, parent : {0} \cup Id]
GroupAlertRequest      == [by : User, enabled : BOOLEAN]

Idle == [op |-> "idle"]
ReqType ==
  {Idle}
  \cup [op : {"insert"}, by : User, row : SocialGroupPost, parentAuthor : User \cup {NoOne}]
  \cup [op : {"after"}, by : User, post : Id, parentAuthor : User \cup {NoOne}]
  \cup [op : {"edit"}, by : User, id : Id, before : Nat]

Spend(r, next) ==
  /\ req[r] = Idle /\ started < MaxRequests
  /\ started' = started + 1 /\ req' = [req EXCEPT ![r] = next]
Go(r, next) == req' = [req EXCEPT ![r] = next] /\ UNCHANGED started
Once == started < MaxRequests /\ started' = started + 1 /\ UNCHANGED req

Ids    == 1 .. Len(posts)
Live(i) == i \in Ids /\ ~posts[i].removed
Seated(u) == role[u] \in {"member", "owner"}

(* GetGroupNotifyTargets *)
GetGroupNotifyTargets(actor) ==
  {u \in notify \ {actor} : Seated(u) /\ ~IsBlockedEither(blocks, actor, u) /\ ~mutedBy(mutes, u, actor)}

(* The users a post is for, in the words of the group's settings; those who
   stop being among them are no longer steady. *)
Audience(actor) ==
  {u \in User \ {actor} : Seated(u) /\ u \in notify
     /\ {<<actor, u>>, <<u, actor>>} \cap blocks = {} /\ <<u, actor>> \notin mutes}
KeepSteady == steady' = {s \in steady : s[1] \in Audience(s[2])'}

Init ==
  /\ posts = << >> /\ joined = User
  /\ \E o \in User : role = [u \in User |-> IF u = o THEN "owner" ELSE "member"]
  /\ notify = User /\ blocks = {} /\ mutes = {}
  /\ req = [r \in Request |-> Idle] /\ started = 0 /\ queue \in BOOLEAN
  /\ fanout = {} /\ done = {} /\ tried = {} /\ steady = {} /\ late = {}

----------------------------------------------------------------------------
(* PostGroupPostSubmit: members only; a reply needs a live parent whose
   author is not blocked either way. *)
MayReply(u, p) ==
  Live(p) /\ (posts[p].by = u \/ ~IsBlockedEither(blocks, u, posts[p].by))
RootOf(p) == IF p = 0 THEN 0 ELSE IF posts[p].root = 0 THEN p ELSE posts[p].root
PostGroupPostSubmit(r, m) ==
  /\ m.by \in joined /\ Seated(m.by) /\ Len(posts) < MaxPosts
  /\ m.parent # 0 => MayReply(m.by, m.parent)
  /\ Spend(r, [op |-> "insert", by |-> m.by,
               row |-> [by |-> m.by, parent |-> m.parent, root |-> RootOf(m.parent),
                        text |-> "posted", removed |-> FALSE],
               parentAuthor |-> IF m.parent = 0 THEN NoOne ELSE posts[m.parent].by])
  /\ UNCHANGED <<posts, people, running, history>>

InsertGroupPost(r) ==
  /\ req[r].op = "insert" /\ Len(posts) < MaxPosts
  /\ LET p == req[r].row
         i == Len(posts) + 1
     IN /\ posts' = Append(posts, p)
        /\ late' = IF p.by \in joined THEN late ELSE late \cup {i}
        /\ Go(r, [op |-> "after", by |-> p.by, post |-> i, parentAuthor |-> req[r].parentAuthor])
  /\ UNCHANGED <<people, running, tried, steady>>

(* The reply is announced to the parent's author as the check read it, unlike
   NotifyParent of Comments; a new post is fanned out: enqueued, or given a
   place, or dropped. *)
AnnounceReply(r) ==
  /\ req[r].op = "after" /\ posts[req[r].post].parent # 0
  /\ tried' = IF req[r].parentAuthor \in {NoOne, req[r].by} \/ mutedBy(mutes, req[r].parentAuthor, req[r].by)
              THEN tried ELSE tried \cup {<<req[r].parentAuthor, req[r].post>>}
  /\ Go(r, Idle) /\ UNCHANGED <<posts, people, running, steady, late>>

dispatchGroupPostFanout(r) ==
  /\ req[r].op = "after" /\ posts[req[r].post].parent = 0
  /\ LET i == req[r].post
         a == req[r].by
     IN IF queue \/ Cardinality(fanout) < Slots
        THEN /\ fanout' = fanout \cup {[post |-> i, actor |-> a, read |-> FALSE, left |-> {}]}
             /\ steady' = steady \cup {<<u, a, i>> : u \in Audience(a)}
        ELSE UNCHANGED <<fanout, steady>>
  /\ Go(r, Idle) /\ UNCHANGED <<posts, people, queue, done, tried, late>>

(* HandleGroupPostFanoutTask, and the same loop in the goroutine. *)
ReadTargets(f) ==
  /\ f \in fanout /\ ~f.read
  /\ fanout' = (fanout \ {f}) \cup {[f EXCEPT !.read = TRUE, !.left = GetGroupNotifyTargets(f.actor)]}
  /\ UNCHANGED <<posts, people, req, started, queue, done, history>>

NotifyTarget(f) ==
  /\ f \in fanout /\ f.left # {}
  /\ \E u \in f.left : /\ tried' = tried \cup {<<u, f.post>>}
                      /\ fanout' = (fanout \ {f}) \cup {[f EXCEPT !.left = @ \ {u}]}
  /\ UNCHANGED <<posts, people, req, started, queue, done, steady, late>>

FanoutEnds(f) ==
  /\ f \in fanout /\ f.read /\ f.left = {}
  /\ fanout' = fanout \ {f} /\ done' = done \cup {f.post}
  /\ UNCHANGED <<posts, people, req, started, queue, history>>

(* The process dies or the target query fails: a task runs again from its
   beginning, a goroutine's fan-out is lost with its place. *)
FanoutInterrupted(f) ==
  /\ f \in fanout /\ Once
  /\ fanout' = (fanout \ {f}) \cup (IF queue THEN {[f EXCEPT !.read = FALSE, !.left = {}]} ELSE {})
  /\ UNCHANGED <<posts, people, queue, done, history>>

----------------------------------------------------------------------------
(* PostGroupPostEdit: the author, within the grace period, until the first
   reply; no membership is asked for. *)
HasReplies(i) == \E j \in Ids : posts[j].parent = i
PostGroupPostEdit(r, m) ==
  /\ m.by \in joined /\ Live(m.post) /\ posts[m.post].by = m.by /\ ~HasReplies(m.post)
  /\ Spend(r, [op |-> "edit", by |-> m.by, id |-> m.post, before |-> Len(posts)])
  /\ UNCHANGED <<posts, people, running, history>>

EditGroupPost(r) ==
  /\ req[r].op = "edit"
  /\ LET i == req[r].id
     IN posts' = IF Live(i) /\ posts[i].by = req[r].by
                 THEN [posts EXCEPT ![i].text = "edited"] ELSE posts
  /\ Go(r, Idle) /\ UNCHANGED <<people, running, history>>

(* PostGroupPostDelete: the author's statement, then the owner's. *)
TombstoneGroupPost(u, i) ==
  IF Live(i) /\ posts[i].by = u THEN [posts EXCEPT ![i] = Tombstone(@)] ELSE posts
TombstoneGroupPostAsOwner(u, i) ==
  IF Live(i) /\ role[u] = "owner" THEN [posts EXCEPT ![i] = Tombstone(@)] ELSE posts
PostGroupPostDelete(m) ==
  /\ m.by \in joined /\ Once
  /\ posts' = LET own == TombstoneGroupPost(m.by, m.post)
              IN IF own # posts THEN own ELSE TombstoneGroupPostAsOwner(m.by, m.post)
  /\ posts' # posts
  /\ UNCHANGED <<people, running, history>>

(* PostGroupAlert *)
SetGroupMemberNotify(u, on) ==
  IF ~Seated(u) THEN notify ELSE IF on THEN notify \cup {u} ELSE notify \ {u}
PostGroupAlert(m) ==
  /\ m.by \in joined /\ Once
  /\ notify' = SetGroupMemberNotify(m.by, m.enabled) /\ notify' # notify
  /\ UNCHANGED <<posts, role, joined, blocks, mutes, running, tried, late>>
  /\ KeepSteady

RequestFails(r) ==
  /\ req[r] # Idle /\ Go(r, Idle)
  /\ UNCHANGED <<posts, people, running, history>>

(* What the graph, the group and erasure do to a post's people: blocks and
   mutes, a member who is removed, a user who is erased with the posts. *)
Relate(u, v) ==
  /\ {u, v} \subseteq joined /\ u # v /\ Once
  /\ \/ blocks' = blocks \cup {<<u, v>>} /\ UNCHANGED mutes
     \/ mutes' = mutes \cup {<<u, v>>} /\ UNCHANGED blocks
  /\ UNCHANGED <<posts, role, notify, joined, running, tried, late>>
  /\ KeepSteady

RemoveMember(u) ==
  /\ role[u] = "member" /\ Once
  /\ role' = [role EXCEPT ![u] = "none"] /\ notify' = notify \ {u}
  /\ UNCHANGED <<posts, joined, blocks, mutes, running, tried, late>>
  /\ KeepSteady

TombstoneGroupPostsForUser(u) ==
  [i \in Ids |-> IF posts[i].by = u THEN Tombstone(posts[i]) ELSE posts[i]]
EraseMember(u) ==
  /\ u \in joined /\ role[u] # "owner" /\ Once
  /\ joined' = joined \ {u} /\ role' = [role EXCEPT ![u] = "none"] /\ notify' = notify \ {u}
  /\ posts' = TombstoneGroupPostsForUser(u)
  /\ blocks' = {e \in blocks : u \notin {e[1], e[2]}}
  /\ mutes' = {e \in mutes : u \notin {e[1], e[2]}}
  /\ UNCHANGED <<running, tried, late>>
  /\ KeepSteady

Step(r) ==
  \/ InsertGroupPost(r) \/ AnnounceReply(r) \/ dispatchGroupPostFanout(r)
  \/ EditGroupPost(r) \/ RequestFails(r)
Fan(f) == ReadTargets(f) \/ NotifyTarget(f) \/ FanoutEnds(f) \/ FanoutInterrupted(f)
Next ==
  \/ \E r \in Request : Step(r)
       \/ (\E m \in GroupPostRequest : PostGroupPostSubmit(r, m))
       \/ (\E m \in GroupPostEditRequest : PostGroupPostEdit(r, m))
  \/ \E f \in fanout : Fan(f)
  \/ \E m \in GroupPostDeleteRequest : PostGroupPostDelete(m)
  \/ \E m \in GroupAlertRequest : PostGroupAlert(m)
  \/ \E u \in User : RemoveMember(u) \/ EraseMember(u) \/ (\E v \in User : Relate(u, v))

Spec == Init /\ [][Next]_vars

----------------------------------------------------------------------------
ShownTo(v, i) == Shown(blocks, mutes, v, posts[i].by)
GetGroupPosts(v, p) == {i \in Ids : posts[i].parent = p /\ ShownTo(v, i)}
CountGroupPosts(v, p) == Cardinality({i \in Ids : posts[i].parent = p /\ ShownTo(v, i)})
ReplyCount(v, i) == Cardinality({j \in Ids : posts[j].parent = i /\ ShownTo(v, j)})

(* What a reader gets of a post: a tombstone ships no text and no author. *)
GroupPost(v, i) ==
  LET p == posts[i]
  IN [id |-> i, replyCount |-> ReplyCount(v, i), removed |-> p.removed,
      text |-> IF p.removed THEN "" ELSE p.text,
      handle |-> IF p.removed \/ p.by \notin joined THEN NoOne ELSE p.by]
GroupPostsResponse(v, ids, total) == [posts |-> {GroupPost(v, i) : i \in ids}, total |-> total]

(* PostGroupPosts: a private group does not exist for others. *)
MayRead(v, vis) == vis = "public" \/ (v \in User /\ Seated(v))
PostGroupPosts(m, vis) ==
  IF MayRead(m.by, vis)
  THEN GroupPostsResponse(m.by, GetGroupPosts(m.by, m.parent), CountGroupPosts(m.by, m.parent))
  ELSE GroupPostsResponse(m.by, {}, 0)

----------------------------------------------------------------------------
(* The state has its type. *)
TypeOK ==
  /\ posts \in Seq(SocialGroupPost) /\ Len(posts) <= MaxPosts
  /\ role \in [User -> {"none", "member", "owner"}] /\ notify \subseteq User
  /\ req \in [Request -> ReqType] /\ started \in 0 .. MaxRequests
  /\ fanout \subseteq [post : Id, actor : User, read : BOOLEAN, left : SUBSET User]
  /\ ~queue => Cardinality(fanout) <= Slots

(* A removed post keeps neither text nor author, whatever was under way when
   its author, the owner or an erasure removed it. *)
TombstonesAreEmpty == \A i \in Ids : posts[i].removed => posts[i] = Tombstone(posts[i])

(* The text of a post changes only while it has no reply that was there when
   the edit was checked. *)
EditedBeforeReplies ==
  [][\A i \in Ids : posts'[i].text = "edited" /\ posts[i].text = "posted" =>
       \E r \in Request : req[r].op = "edit" /\ req[r].id = i
           /\ \A j \in Ids : posts[j].parent = i => j > req[r].before]_vars

(* Erasure leaves no words of the user, but for a post whose submission was
   under way. *)
ErasedSaysNothing ==
  \A i \in Ids : posts[i].by # NoOne /\ posts[i].by \notin joined => i \in late

(* Whoever may read the group, the reply count under a post is the number of
   replies its page lists, and the total is that of the page. *)
CountsMatchPages ==
  \A m \in GroupPostsRequest, vis \in {"private", "public"} : MayRead(m.by, vis) =>
    LET page == PostGroupPosts(m, vis)
    IN /\ page.total = Cardinality(page.posts)
       /\ m.parent \in Ids => GroupPost(m.by, m.parent).replyCount = page.total

(* A fan-out that ended has told everyone who was in the post's audience all
   the time, however often it was interrupted and run again. *)
FanoutReachesAudience ==
  \A s \in steady : s[3] \in done => <<s[1], s[3]>> \in tried
=============================================================================
