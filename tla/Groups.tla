------------------------------- MODULE Groups -------------------------------
(***************************************************************************)
(* One social group and its members (groups.go), and what erasure does to  *)
(* it (socialEraseWithQuerier, social.go).                                 *)
(*                                                                         *)
(* Every handler reads first and then writes one statement; only creation  *)
(* and erasure are transactions.  A request is therefore two steps: the    *)
(* reads, which decide whether it goes on, and the write.  A request that  *)
(* is refused is like one not made.                                        *)
(***************************************************************************)
EXTENDS Naturals, FiniteSets, Relations

CONSTANTS
  User,
  Request,          \* requests that may be under way at the same time
  Cap,              \* groupPrivateCap
  MaxRequests,      \* bound: requests that are started
  MaxBlocks         \* bound: blocks at a time

ASSUME GroupsAssumption ==
  /\ IsFiniteSet(User) /\ NoOne \notin User
  /\ Cap \in Nat \ {0} /\ MaxRequests \in Nat /\ MaxBlocks \in Nat

VARIABLES
  owner,            \* social_groups.owner_user_id, NoOne without a group
  vis,              \* social_groups.visibility
  role,             \* social_group_members.role, "none" without a row
  tenure,           \* the pairs of users with a row, the older created_at first
  joined,           \* the users with a social profile
  blocks,           \* social_relationships of kind 0
  req,              \* the requests under way
  started,
  overlap,          \* history: two requests were under way at the same time
  erasedTwice       \* history: so were two erasures of the same user

group == <<owner, vis>>
rows  == <<role, tenure>>
vars  == <<group, rows, joined, blocks, req, started, overlap, erasedTwice>>

HasRow == {u \in User : role[u] # "none"}
Seated == {u \in User : role[u] \in {"member", "owner"}}
Exists == owner # NoOne
(* GetSocialGroup joins the owner's profile. *)
Visible == Exists /\ owner \in joined
Full   == vis = "private" /\ Cardinality(Seated) >= Cap

(* What the requests on the group carry besides their caller. *)
GroupCreateRequest        == {"private", "public"}        \* its visibility
GroupUpdateRequest        == {"private", "public"}
GroupInviteRequest        == User
GroupInviteRespondRequest == BOOLEAN
GroupKickRequest          == [target : User, ban : BOOLEAN]

Idle == [op |-> "idle"]
ReqType ==
  {Idle}
  \cup [op : {"update"}, by : User, vis : GroupUpdateRequest]
  \cup [op : {"join", "leave", "accept", "decline"}, by : User]
  \cup [op : {"invite", "kick", "ban"}, by : User, target : User]
  \cup [op : {"erase"}, by : User, locked : BOOLEAN, public : BOOLEAN,
        successor : User \cup {NoOne}]

Erasing(u, others) == \E s \in others : req[s].op = "erase" /\ req[s].by = u
Busy(others) == overlap' = (overlap \/ \E s \in others : req[s] # Idle)
Start(r, next) ==
  /\ req[r] = Idle /\ Busy(Request \ {r}) /\ started < MaxRequests /\ started' = started + 1
  /\ req' = [req EXCEPT ![r] = next]
  /\ erasedTwice' = (erasedTwice \/ (next.op = "erase" /\ Erasing(next.by, Request \ {r})))
Only(r, next) ==              \* the reads of a request change nothing else
  Start(r, next) /\ UNCHANGED <<group, rows, joined, blocks>>
Finish(r) == req' = [req EXCEPT ![r] = Idle] /\ UNCHANGED <<started, overlap, erasedTwice>>

(* PostGroupCreate: the group and its owner's row in one transaction. *)
Init ==
  /\ owner \in User /\ vis \in GroupCreateRequest
  /\ role = [u \in User |-> IF u = owner THEN "owner" ELSE "none"]
  /\ tenure = {} /\ joined = User /\ blocks = {}
  /\ req = [r \in Request |-> Idle] /\ started = 0 /\ overlap = FALSE /\ erasedTwice = FALSE

----------------------------------------------------------------------------
(* UpsertGroupMember: a row keeps its age and a ban is not overwritten; the
   foreign key refuses the row once the group is gone. *)
UpsertAnyway(u, as) ==        \* mutant: the conflict clause has no WHERE
  /\ role' = IF Exists THEN [role EXCEPT ![u] = as] ELSE role
  /\ tenure' = IF Exists /\ role[u] = "none" THEN tenure \cup (HasRow \X {u}) ELSE tenure
UpsertGroupMember(u, as) ==
  /\ role' = IF Exists /\ (role[u] = "banned" => as = "banned")
             THEN [role EXCEPT ![u] = as] ELSE role
  /\ tenure' = IF Exists /\ role[u] = "none" THEN tenure \cup (HasRow \X {u}) ELSE tenure

RowsWithout(u) == tenure \cap ((User \ {u}) \X (User \ {u}))
DeleteKeepsTenure(u) ==       \* mutant: the row is blanked, not deleted
  /\ role' = [role EXCEPT ![u] = "none"]
  /\ UNCHANGED tenure
DeleteGroupMember(u) ==
  /\ role' = [role EXCEPT ![u] = "none"]
  /\ tenure' = RowsWithout(u)

DropGroup ==                  \* the members go with the group
  /\ owner' = NoOne /\ role' = [u \in User |-> "none"] /\ tenure' = {}
  /\ UNCHANGED vis

----------------------------------------------------------------------------
(* PostGroupUpdate, of which only the visibility matters here. *)
BeginUpdate(r, u, v) ==
  /\ u \in joined /\ Visible /\ ~(vis = "private" /\ v = "public")
  /\ Only(r, [op |-> "update", by |-> u, vis |-> v])

Update(r) ==
  /\ req[r].op = "update"
  /\ vis' = IF owner = req[r].by THEN req[r].vis ELSE vis
  /\ Finish(r) /\ UNCHANGED <<owner, rows, joined, blocks>>

(* PostGroupDelete: one statement. *)
DeleteGroup(u) ==
  /\ u \in joined /\ owner = u
  /\ DropGroup /\ Busy(Request)
  /\ UNCHANGED <<joined, blocks, req, started, erasedTwice>>

(* PostGroupJoin: public groups only. *)
BeginJoin(r, u) ==
  /\ u \in joined /\ Visible /\ vis = "public" /\ role[u] \in {"none", "invited"}
  /\ Only(r, [op |-> "join", by |-> u])

(* PostGroupLeave: owners delete their group instead. *)
BeginLeave(r, u) ==
  /\ u \in joined /\ role[u] \in {"member", "invited"}
  /\ Only(r, [op |-> "leave", by |-> u])

(* PostGroupInvite: any member invites someone who has no row yet and whom no
   block hides. *)
BeginInvite(r, u, t) ==
  /\ u \in joined /\ u \in Seated /\ Visible /\ ~Full
  /\ t \in joined \ {u} /\ ~IsBlockedEither(blocks, u, t) /\ role[t] = "none"
  /\ Only(r, [op |-> "invite", by |-> u, target |-> t])

(* PostGroupInviteRespond: the cap is checked again when accepting. *)
BeginRespond(r, u, accept) ==
  /\ u \in joined /\ role[u] = "invited"
  /\ accept => Visible /\ ~Full
  /\ Only(r, [op |-> IF accept THEN "accept" ELSE "decline", by |-> u])

(* PostGroupKick: the owner's row is read, not the group's owner. *)
BeginKick(r, u, m) ==
  /\ u \in joined /\ role[u] = "owner" /\ m.target \in joined \ {u}
  /\ Only(r, [op |-> IF m.ban THEN "ban" ELSE "kick", by |-> u, target |-> m.target])

Admit(r) ==                   \* the write of join and accept
  /\ req[r].op \in {"join", "accept"}
  /\ UpsertGroupMember(req[r].by, "member")
  /\ Finish(r) /\ UNCHANGED <<group, joined, blocks>>

Depart(r) ==                  \* the write of leave and decline
  /\ req[r].op \in {"leave", "decline"}
  /\ DeleteGroupMember(req[r].by)
  /\ Finish(r) /\ UNCHANGED <<group, joined, blocks>>

Invite(r) ==
  /\ req[r].op = "invite"
  /\ UpsertGroupMember(req[r].target, "invited")
  /\ Finish(r) /\ UNCHANGED <<group, joined, blocks>>

Kick(r) ==
  /\ req[r].op = "kick"
  /\ DeleteGroupMember(req[r].target)
  /\ Finish(r) /\ UNCHANGED <<group, joined, blocks>>

Ban(r) ==
  /\ req[r].op = "ban"
  /\ UpsertGroupMember(req[r].target, "banned")
  /\ Finish(r) /\ UNCHANGED <<group, joined, blocks>>

----------------------------------------------------------------------------
(* socialErase.  Its first delete locks the profile where there is one, so
   that a second erasure of a joined user waits for the first.  FindGroupSuccessor and the
   writes after it are separate statements of the transaction; what they
   wrote is seen when it commits. *)
Successor(u) ==
  LET heirs == {v \in User \ {u} : role[v] = "member"}
  IN IF heirs = {} THEN NoOne
     ELSE CHOOSE v \in heirs : \A w \in heirs \ {v} : <<v, w>> \in tenure

BeginErase(r, u) ==
  /\ u \in joined => ~\E s \in Request : req[s].op = "erase" /\ req[s].by = u /\ req[s].locked
  /\ Only(r, [op |-> "erase", by |-> u, locked |-> u \in joined,
              public |-> owner = u /\ vis = "public", successor |-> Successor(u)])

HandsOver(e) == e.public /\ e.successor # NoOne /\ Exists
Dies(e)      == (e.public /\ e.successor = NoOne) \/ (owner = e.by /\ vis = "private")

Unrelated(u) == {p \in blocks : u \notin {p[1], p[2]}}

EraseKeepsOwner(r) ==         \* mutant: the erased owner's row is not deleted
  /\ req[r].op = "erase"
  /\ LET e == req[r]
     IN /\ IF ~HandsOver(e) /\ Dies(e) THEN DropGroup
           ELSE /\ owner' = IF HandsOver(e) THEN e.successor ELSE owner
                /\ role' = IF HandsOver(e) /\ role[e.successor] # "none"
                           THEN [role EXCEPT ![e.successor] = "owner"] ELSE role
                /\ UNCHANGED <<vis, tenure>>
        /\ joined' = joined \ {e.by} /\ blocks' = Unrelated(e.by)
  /\ Finish(r)
Erase(r) ==
  /\ req[r].op = "erase"
  /\ LET e == req[r]
         promoted == IF HandsOver(e) /\ role[e.successor] # "none"
                     THEN [role EXCEPT ![e.successor] = "owner"] ELSE role
     IN /\ IF ~HandsOver(e) /\ Dies(e) THEN DropGroup
           ELSE /\ owner' = IF HandsOver(e) THEN e.successor ELSE owner
                /\ role' = [promoted EXCEPT ![e.by] = "none"]
                /\ tenure' = RowsWithout(e.by)
                /\ UNCHANGED vis
        /\ joined' = joined \ {e.by} /\ blocks' = Unrelated(e.by)
  /\ Finish(r)

(* A statement fails: the request ends without its write. *)
Fails(r) ==
  /\ req[r] # Idle
  /\ Finish(r) /\ UNCHANGED <<group, rows, joined, blocks>>

(* PostSocialJoin, seen from here. *)
JoinSocial(u) ==
  /\ u \notin joined /\ joined' = joined \cup {u} /\ Busy(Request)
  /\ UNCHANGED <<group, rows, blocks, req, started, erasedTwice>>

(* PostSocialBlock, seen from here: it leaves the members as they are. *)
Block(u, v) ==
  /\ u # v /\ <<u, v>> \notin blocks /\ Cardinality(blocks) < MaxBlocks
  /\ blocks' = blocks \cup {<<u, v>>}
  /\ UNCHANGED <<group, rows, joined, req, started, overlap, erasedTwice>>

Begin(r, u) ==
  \/ BeginJoin(r, u) \/ BeginLeave(r, u) \/ BeginErase(r, u)
  \/ \E accept \in GroupInviteRespondRequest : BeginRespond(r, u, accept)
  \/ \E v \in GroupUpdateRequest : BeginUpdate(r, u, v)
  \/ \E t \in GroupInviteRequest : BeginInvite(r, u, t)
  \/ \E m \in GroupKickRequest : BeginKick(r, u, m)

Write(r) ==
  Update(r) \/ Admit(r) \/ Depart(r) \/ Invite(r) \/ Kick(r) \/ Ban(r) \/ Erase(r)
  \/ Fails(r)

Next ==
  \/ \E r \in Request : Write(r) \/ \E u \in User : Begin(r, u)
  \/ \E u \in User : DeleteGroup(u) \/ JoinSocial(u) \/ \E v \in User : Block(u, v)

Spec == Init /\ [][Next]_vars

----------------------------------------------------------------------------
(* The reads, seen by u: the user's groups and invitations, the public groups
   and the roster.  An empty answer is one that was refused too.  Discovery and
   the page of the roster leave out whom a block hides; the counts and the
   user's own groups do not. *)
SocialGroup(u) ==
  [owner |-> owner, visibility |-> vis, members |-> Cardinality(Seated), yourRole |-> role[u]]
GetGroupsForUser(u, roles) == IF Visible /\ role[u] \in roles THEN {SocialGroup(u)} ELSE {}
GroupsResponse(u) ==
  [groups |-> IF u \in joined THEN GetGroupsForUser(u, {"member", "owner"}) ELSE {},
   invites |-> IF u \in joined THEN GetGroupsForUser(u, {"invited"}) ELSE {}]
DiscoverGroups(u) ==
  IF Visible /\ vis = "public" /\ ~IsBlockedEither(blocks, u, owner)
  THEN {[owner |-> owner, members |-> Cardinality(Seated)]} ELSE {}
GroupDiscoverResponse(u) == IF u \in joined THEN DiscoverGroups(u) ELSE {}
GroupMember(u) == [user |-> u, role |-> role[u]]
GetGroupMembers(u) == {GroupMember(m) : m \in {x \in Seated \cap joined : ~IsBlockedEither(blocks, u, x)}}
CountGroupMembers == Cardinality(Seated)
GroupMembersResponse(u) ==
  IF u \in joined /\ Visible /\ (vis = "public" \/ u \in Seated)
  THEN [members |-> GetGroupMembers(u), total |-> CountGroupMembers]
  ELSE [members |-> {}, total |-> 0]

(* The state has its type; tenure orders the users with a row, and no others. *)
TypeOK ==
  /\ owner \in User \cup {NoOne} /\ vis \in {"private", "public"}
  /\ role \in [User -> {"none", "member", "owner", "invited", "banned"}]
  /\ tenure \subseteq HasRow \X HasRow
  /\ \A u, v \in HasRow :
       /\ u = v \/ <<u, v>> \in tenure \/ <<v, u>> \in tenure
       /\ ~(<<u, v>> \in tenure /\ <<v, u>> \in tenure)
       /\ \A w \in HasRow : <<u, v>> \in tenure /\ <<v, w>> \in tenure => <<u, w>> \in tenure
  /\ joined \subseteq User /\ blocks \subseteq {p \in User \X User : p[1] # p[2]}
  /\ req \in [Request -> ReqType]
  /\ started \in 0 .. MaxRequests
  /\ overlap \in BOOLEAN /\ erasedTwice \in BOOLEAN

(* A join, an acceptance or an invitation that was under way when the owner
   banned its user does not undo the ban. *)
BanNotOverwritten ==
  [][\A u \in User : role[u] = "banned" => role'[u] \notin {"member", "invited"}]_vars

(* No one but the group's owner has the owner's row, through every succession,
   however requests overlap: but two erasures of a user without a profile are
   not serialized, and each may hand the group to a successor of its own. *)
OneOwnerRow == ~erasedTwice => \A u \in User : role[u] = "owner" => owner = u

(* "The owner is also a member row": as long as requests come one after the
   other, the group has an owner who has a profile and the owner's row, so
   that it can be read, run and deleted, through every succession. *)
OwnerPresides == ~overlap /\ Exists => owner \in joined /\ role[owner] = "owner"

(* As long as requests on the group come one after the other, its reads agree:
   a roster names nobody across a block, lacks nobody else of its total and
   names the owner unless a block hides him; exactly those on it find the group
   among their own; and a group that is discovered shows the count and, on the
   roster, the owner that discovery names. *)
RosterAgrees ==
  ~overlap => \A u \in User :
    LET roster == GroupMembersResponse(u)
        on     == {m.user : m \in roster.members}
        hidden == {m \in Seated : IsBlockedEither(blocks, u, m)}
        own    == GroupsResponse(u).groups
    IN /\ on \cap hidden = {}
       /\ roster.total > 0 =>
            /\ Cardinality(on) + Cardinality(hidden) = roster.total
            /\ owner \in hidden \/ \E m \in roster.members : m.role = "owner"
       /\ u \in on <=> own # {}
       /\ \A g \in own : g.members = roster.total
       /\ \A g \in GroupDiscoverResponse(u) : g.members = roster.total /\ g.owner \in on

(* "a private group cannot be made public": members joined under that
   expectation, so that a group which was private at any time stays private. *)
PrivacyOneWay == [][Exists /\ vis = "private" => vis' = "private"]_vars
=============================================================================
