----------------------------- MODULE SocialGraph -----------------------------
(***************************************************************************)
(* Social identity and the follow graph: handles and profiles (social.go), *)
(* block and mute edges, follows and their approval (graph.go), erasure.   *)
(*                                                                         *)
(* Joining and erasing are transactions.  A follow and a block are series  *)
(* of statements on the pool, each committed by itself, so that another    *)
(* request may come between any two of them.  An edge <<u, v>> says that   *)
(* u follows v.                                                            *)
(***************************************************************************)
EXTENDS Naturals, FiniteSets

CONSTANTS
  User, Handle,
  Request,          \* requests that may be under way at the same time
  MaxRequests,      \* bound: joins, follows and blocks that are started
  MaxFaults         \* bound: statements that fail

Nobody == "nobody"

(* The states of a handle are no users, and no handle says that there is none. *)
ASSUME SocialGraphAssumption ==
  /\ MaxRequests \in Nat /\ MaxFaults \in Nat
  /\ User \cap {"free", "reserved", "tombstoned"} = {} /\ Nobody \notin Handle

Edge   == {e \in User \X User : e[1] # e[2]}
Flip(e) == <<e[2], e[1]>>

VARIABLES
  handles,          \* social_handles: "free", "reserved", "tombstoned" or its user
  profile,          \* social_profiles: the user's handle, Nobody before joining
  approval,         \* require_follow_approval of each profile
  follows,          \* social_follows: "none", "pending" or "active"
  blocks, mutes,    \* social_relationships of kind 0 and 1
  req,              \* the requests under way
  started, faults,
  inserts, pushes,  \* history: rows inserted and follow pushes sent per edge
  loose             \* history: edges a block or an erasure did not cut

requests == <<req, started, faults>>
history  == <<inserts, pushes, loose>>
vars == <<handles, profile, approval, follows, blocks, mutes, requests, history>>

(* The requests: an edge is the caller and the user whom the handle names. *)
JoinRequest    == [user : User, handle : Handle]
FollowRequest  == Edge
UnfollowRequest == Edge
FollowApprovalRequest == [edge : Edge, accept : BOOLEAN]
BlockRequest   == Edge
MuteRequest    == [edge : Edge, add : BOOLEAN]
EraseRequest   == User

Idle == [op |-> "idle"]
ReqType ==
  {Idle}
  \cup [op : {"join"}, user : User, handle : Handle]
  \cup [op : {"check", "follow"}, edge : Edge, status : {"pending", "active"}]
  \cup [op : {"push"}, edge : Edge]
  \cup [op : {"sever", "severBack"}, edge : Edge]

Joined(u) == profile[u] # Nobody
Blocked(e) == e \in blocks \/ Flip(e) \in blocks

Start(r, next) ==
  /\ req[r] = Idle /\ started < MaxRequests
  /\ started' = started + 1 /\ req' = [req EXCEPT ![r] = next] /\ UNCHANGED faults
Go(r, next) == req' = [req EXCEPT ![r] = next] /\ UNCHANGED <<started, faults>>

Init ==
  /\ handles \in [Handle -> {"free", "reserved"}]
  /\ profile = [u \in User |-> Nobody] /\ approval = [u \in User |-> FALSE]
  /\ follows = [e \in Edge |-> "none"] /\ blocks = {} /\ mutes = {}
  /\ req = [r \in Request |-> Idle] /\ started = 0 /\ faults = 0
  /\ inserts = [e \in Edge |-> 0] /\ pushes = [e \in Edge |-> 0] /\ loose = {}

----------------------------------------------------------------------------
(* PostSocialJoin: the profile is looked up outside the transaction. *)
BeginJoin(r, m) ==
  /\ ~Joined(m.user)
  /\ Start(r, [op |-> "join", user |-> m.user, handle |-> m.handle])
  /\ UNCHANGED <<handles, profile, approval, follows, blocks, mutes, history>>

(* ClaimHandle inserts: the handle is the primary key, the user is unique. *)
ClaimTwice(u, h) ==           \* mutant: the user is not unique in social_handles
  handles[h] = "free"
Claimable(u, h) ==
  handles[h] = "free" /\ u \notin {handles[k] : k \in Handle}

Join(r) ==
  /\ req[r].op = "join"
  /\ LET u == req[r].user
         h == req[r].handle
     IN IF Claimable(u, h)
        THEN /\ handles' = [handles EXCEPT ![h] = u]
             /\ profile' = [profile EXCEPT ![u] = h]
             /\ approval' = [approval EXCEPT ![u] = FALSE]
        ELSE UNCHANGED <<handles, profile, approval>>     \* 23505: handle unavailable
  /\ Go(r, Idle)
  /\ UNCHANGED <<follows, blocks, mutes, history>>

(* PostSocialProfileUpdate, of which only the approval flag matters here. *)
UpdateProfile(u, require) ==
  /\ Joined(u)
  /\ approval' = [approval EXCEPT ![u] = require]
  /\ UNCHANGED <<handles, profile, follows, blocks, mutes, requests, history>>

----------------------------------------------------------------------------
(* PostFollow: both profiles are read, then the blocks, then the row is
   inserted and, if it is new, announced to the followee. *)
ResolveFollow(r, e) ==
  /\ Joined(e[1]) /\ Joined(e[2])
  /\ Start(r, [op |-> "check", edge |-> e,
               status |-> IF approval[e[2]] THEN "pending" ELSE "active"])
  /\ UNCHANGED <<handles, profile, approval, follows, blocks, mutes, history>>

CheckBlocked(r) ==
  /\ req[r].op = "check"
  /\ Go(r, IF Blocked(req[r].edge) THEN Idle ELSE [req[r] EXCEPT !.op = "follow"])
  /\ UNCHANGED <<handles, profile, approval, follows, blocks, mutes, history>>

(* UpsertFollow: ON CONFLICT DO NOTHING. *)
UpsertFollow(r) ==
  /\ req[r].op = "follow"
  /\ LET e == req[r].edge
     IN IF follows[e] = "none"
        THEN /\ follows' = [follows EXCEPT ![e] = req[r].status]
             /\ inserts' = [inserts EXCEPT ![e] = @ + 1]
             /\ loose' = IF Blocked(e) \/ ~Joined(e[1]) \/ ~Joined(e[2])
                         THEN loose \cup {e} ELSE loose
             /\ Go(r, [op |-> "push", edge |-> e])
        ELSE Go(r, Idle) /\ UNCHANGED <<follows, inserts, loose>>
  /\ UNCHANGED <<handles, profile, approval, blocks, mutes, pushes>>

(* GetFollowState, which fails if the row is gone, and the followee's mute. *)
NotifyFollow(r) ==
  /\ req[r].op = "push"
  /\ LET e == req[r].edge
     IN pushes' = IF follows[e] # "none" /\ Flip(e) \notin mutes
                  THEN [pushes EXCEPT ![e] = @ + 1] ELSE pushes
  /\ Go(r, Idle)
  /\ UNCHANGED <<handles, profile, approval, follows, blocks, mutes, inserts, loose>>

(* A row that is deleted is no longer an edge that was not cut. *)
Delete(E) ==
  /\ follows' = [e \in Edge |-> IF e \in E THEN "none" ELSE follows[e]]
  /\ loose' = loose \ E
  /\ UNCHANGED <<inserts, pushes>>

(* PostUnfollow *)
Unfollow(e) ==
  /\ Joined(e[1]) /\ Joined(e[2])
  /\ Delete({e})
  /\ UNCHANGED <<handles, profile, approval, blocks, mutes, requests>>

(* PostFollowApprove by the followee e[2]; accepting checks no block.  The
   push to the follower is not one of those counted here. *)
ApproveFollow(e, accept) ==
  /\ Joined(e[1]) /\ Joined(e[2])
  /\ IF accept
     THEN /\ follows' = IF follows[e] = "pending" THEN [follows EXCEPT ![e] = "active"] ELSE follows
          /\ UNCHANGED history
     ELSE Delete({e})
  /\ UNCHANGED <<handles, profile, approval, blocks, mutes, requests>>

----------------------------------------------------------------------------
(* setRelationship: a block, then the two follow rows. *)
Block(r, e) ==
  /\ blocks' = blocks \cup {e}
  /\ Start(r, [op |-> "sever", edge |-> e])
  /\ UNCHANGED <<handles, profile, approval, follows, mutes, history>>

Sever(r) ==
  /\ req[r].op = "sever"
  /\ Delete({req[r].edge})
  /\ Go(r, [req[r] EXCEPT !.op = "severBack"])
  /\ UNCHANGED <<handles, profile, approval, blocks, mutes>>

SeverOneWay(r) ==             \* mutant: only the blocker's own follow is deleted
  /\ req[r].op = "severBack"
  /\ Go(r, Idle)
  /\ UNCHANGED <<handles, profile, approval, follows, blocks, mutes, history>>
SeverBack(r) ==
  /\ req[r].op = "severBack"
  /\ Delete({Flip(req[r].edge)})
  /\ Go(r, Idle)
  /\ UNCHANGED <<handles, profile, approval, blocks, mutes>>

(* One of the two deletes fails: the handler returns and the block stays. *)
SeverFails(r) ==
  /\ req[r].op \in {"sever", "severBack"} /\ faults < MaxFaults
  /\ loose' = loose \cup {e \in {req[r].edge, Flip(req[r].edge)} : follows[e] # "none"}
  /\ faults' = faults + 1 /\ req' = [req EXCEPT ![r] = Idle]
  /\ UNCHANGED <<handles, profile, approval, follows, blocks, mutes, started, inserts, pushes>>

Unblock(e) ==
  /\ blocks' = blocks \ {e}
  /\ UNCHANGED <<handles, profile, approval, follows, mutes, requests, history>>

SetMute(e, add) ==
  /\ mutes' = IF add THEN mutes \cup {e} ELSE mutes \ {e}
  /\ UNCHANGED <<handles, profile, approval, follows, blocks, requests, history>>

----------------------------------------------------------------------------
(* socialErase, what it does to this state, in one transaction. *)
Touching(u) == {e \in Edge : u \in {e[1], e[2]}}

EraseBlanks(u) ==             \* mutant: the profile row is blanked, not deleted
  /\ profile' = [profile EXCEPT ![u] = "blank"]
  /\ approval' = [approval EXCEPT ![u] = FALSE]
  /\ handles' = [h \in Handle |-> IF handles[h] = u THEN "tombstoned" ELSE handles[h]]
  /\ Delete(Touching(u))
  /\ blocks' = blocks \ Touching(u) /\ mutes' = mutes \ Touching(u)
  /\ UNCHANGED requests
Erase(u) ==
  /\ profile' = [profile EXCEPT ![u] = Nobody]
  /\ approval' = [approval EXCEPT ![u] = FALSE]
  /\ handles' = [h \in Handle |-> IF handles[h] = u THEN "tombstoned" ELSE handles[h]]
  /\ Delete(Touching(u))
  /\ blocks' = blocks \ Touching(u) /\ mutes' = mutes \ Touching(u)
  /\ UNCHANGED requests

RequestStep(r) ==
  \/ \E m \in JoinRequest : BeginJoin(r, m)
  \/ \E e \in FollowRequest : ResolveFollow(r, e)
  \/ \E e \in BlockRequest : Block(r, e)
  \/ Join(r) \/ CheckBlocked(r) \/ UpsertFollow(r) \/ NotifyFollow(r)
  \/ Sever(r) \/ SeverBack(r) \/ SeverFails(r)

Next ==
  \/ \E r \in Request : RequestStep(r)
  \/ \E u \in EraseRequest : Erase(u)
  \/ \E u \in User, require \in BOOLEAN : UpdateProfile(u, require)
  \/ \E e \in UnfollowRequest : Unfollow(e)
  \/ \E e \in BlockRequest : Unblock(e)
  \/ \E m \in FollowApprovalRequest : ApproveFollow(m.edge, m.accept)
  \/ \E m \in MuteRequest : SetMute(m.edge, m.add)

Spec == Init /\ [][Next]_vars

----------------------------------------------------------------------------
(* The state has its type. *)
TypeOK ==
  /\ handles \in [Handle -> User \cup {"free", "reserved", "tombstoned"}]
  /\ profile \in [User -> Handle \cup {Nobody}]
  /\ approval \in [User -> BOOLEAN]
  /\ follows \in [Edge -> {"none", "pending", "active"}]
  /\ blocks \subseteq Edge /\ mutes \subseteq Edge
  /\ req \in [Request -> ReqType]
  /\ started \in 0 .. MaxRequests /\ faults \in 0 .. MaxFaults
  /\ inserts \in [Edge -> Nat] /\ pushes \in [Edge -> Nat] /\ loose \subseteq Edge

(* A profile and its handle's row always name each other, however joins of
   one account or of one handle overlap with each other and with erasure. *)
HandleNamesProfile ==
  \A u \in User, h \in Handle : profile[u] = h <=> handles[h] = u

(* ADR-0005: once claimed, a handle belongs to its account or to nobody;
   neither a tombstone nor a reserved word is ever issued. *)
HandleNeverReissued ==
  [][\A h \in Handle : handles[h] # "free" =>
        handles'[h] \in {handles[h]} \cup (IF handles[h] \in User THEN {"tombstoned"} ELSE {})]_vars

Severing(e) ==
  \E r \in Request : req[r].op \in {"sever", "severBack"} /\ req[r].edge \in {e, Flip(e)}

(* Every follow joins two profiles that do not block each other, except while
   the block is still deleting, after one of its deletes failed, or when the
   follow was inserted after a block or an erasure that came later than its
   own checks. *)
SeveredUnlessRaced ==
  \A e \in Edge : follows[e] # "none" =>
    \/ Joined(e[1]) /\ Joined(e[2]) /\ ~Blocked(e)
    \/ Severing(e)
    \/ e \in loose

(* A follow is announced at most once per row that was inserted: repeated
   and overlapping requests for the same follow do not push again. *)
OnePushPerFollow == \A e \in Edge : pushes[e] <= inserts[e]

(* "blocks can't occur: a block severs follows" (GetFeedItems): once the
   blocking request is done and did not fail, no active follow crosses it. *)
BlockSevers ==
  \A e \in Edge : follows[e] = "active" /\ Blocked(e) => Severing(e) \/ faults > 0
=============================================================================
