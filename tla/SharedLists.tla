---------------------------- MODULE SharedLists ----------------------------
(***************************************************************************)
(* One shared list (lists.go): its owner, tier, entries and members, from  *)
(* its creation to its deletion or its owner's erasure.                    *)
(*                                                                         *)
(* A behaviour begins with the creation under way, whose write is a        *)
(* transaction.  Every other request reads the list, the caller's role,    *)
(* the blocks and the counts, and then writes one row.  Titles, updated_at *)
(* and the pages' limits are left out.                                     *)
(***************************************************************************)
EXTENDS Naturals, Integers, FiniteSets, Sequences, FiniteSetsExt, Relations

CONSTANTS
  User, Episode,
  Request,          \* requests that may be under way at the same time
  EntryCap,         \* listEntriesMax
  CollaboratorCap,  \* listCollaboratorsMax
  MaxRequests,      \* bound: operations that are started
  MaxFaults         \* bound: counts that cannot be read

VARIABLES
  owner,            \* social_lists.owner_user_id, NoOne without the list
  vis,              \* social_lists.visibility
  entries,          \* social_list_entries: rows [ep, pos, by]
  role,             \* social_list_members.role, "none" without a row
  joined, blocks,   \* social_profiles, social_relationships of kind 0
  follows,          \* active follows
  req, started, faults,
  raced,            \* history: two requests were under way at once
  late,             \* history: users whose write came after their erasure
  held              \* history: users on the list, or about to be, when blocked

list   == <<owner, vis>>
people == <<joined, blocks, follows>>
vars == <<list, entries, role, people, req, started, raced, faults, late, held>>

SocialListEntry == [ep : Episode, pos : Nat, by : User \cup {NoOne}]
Role == {"none", "invited", "collaborator", "subscriber"}
Idle == [op |-> "idle"]
EntryWrite  == [op : {"add", "remove", "move"}, by : User, ep : Episode, pos : Nat]
MemberWrite == [op : {"member"}, by : User, user : User, role : Role]

(* The messages, each with the user whose session sent it. *)
Viewer == User \cup {Anonymous}
Wire   == {"unspecified", "public", "followers"}
SharedListCreateRequest  ==
  [op : {"create"}, by : User, visibility : Wire, entries : {<< >>} \cup {<<e, e>> : e \in Episode}]
SharedListUpdateRequest  == [by : User, visibility : Wire]
SharedListDeleteRequest  == [by : User]
SharedListEntriesRequest == [by : Viewer]
SharedListEntryOpRequest == [by : User, op : {"add", "remove", "move"}, ep : Episode, pos : {-1, 0}]
SharedListInviteRequest  == [by : User, handle : User]
SharedListInviteRespondRequest == [by : User, accept : BOOLEAN]
SharedListSubscribeRequest     == [by : User, subscribe : BOOLEAN]

Spend(r, next) ==
  /\ req[r] = Idle /\ started < MaxRequests
  /\ started' = started + 1 /\ req' = [req EXCEPT ![r] = next]
  /\ raced' = (raced \/ \E q \in Request : req[q] # Idle)
Go(r, next) == req' = [req EXCEPT ![r] = next] /\ UNCHANGED <<started, raced>>
Once == started < MaxRequests /\ started' = started + 1 /\ UNCHANGED <<req, raced>>

----------------------------------------------------------------------------
(* PostSocialListCreate: duplicates collapse to their last occurrence, which
   keeps its index as position; the list and its entries are one transaction. *)
UpsertSocialListEntries(u, eps) ==
  {[ep |-> eps[i], pos |-> i - 1, by |-> u] :
     i \in {k \in 1 .. Len(eps) : \A j \in k + 1 .. Len(eps) : eps[j] # eps[k]}}
PostSocialListCreate(r) ==
  /\ req[r].op = "create"
  /\ LET m == req[r]
     IN /\ owner' = m.by /\ vis' = visibilityToStored(m.visibility)
        /\ entries' = UpsertSocialListEntries(m.by, m.entries)
        /\ late' = IF m.by \in joined THEN late ELSE late \cup {m.by}
  /\ Go(r, Idle) /\ UNCHANGED <<role, people, faults, held>>

Init ==
  /\ owner = NoOne /\ vis = "private" /\ entries = {}
  /\ role = [u \in User |-> "none"] /\ joined = User /\ blocks = {}
  /\ \E r \in Request, m \in SharedListCreateRequest :
       /\ req = [q \in Request |-> IF q = r THEN m ELSE Idle]
       /\ \E u \in User \ {m.by} : follows = {<<u, m.by>>}
  /\ started = 0 /\ raced = FALSE /\ faults = 0 /\ late = {} /\ held = {}

(* GetSocialList joins the owner's profile. *)
GetSocialList == owner # NoOne /\ owner \in joined

GetSocialListMember(u) == role[u]
GetSocialListMembers   == {u \in joined : role[u] # "none"}
GetFollowState(u, v)   == <<u, v>> \in follows
socialListRole(u) ==
  IF u = Anonymous THEN "none" ELSE IF u = owner THEN "owner" ELSE GetSocialListMember(u)

(* canViewSocialList: a block severs everything, then members see the list,
   then the tier decides. *)
canViewSocialList(u) ==
  /\ u \in {Anonymous, owner} \/ ~IsBlockedEither(blocks, u, owner)
  /\ \/ socialListRole(u) # "none"
     \/ vis = "public"
     \/ vis = "followers" /\ GetFollowState(u, owner)

CountSocialListEntries == Cardinality(entries)
MaxSocialListPosition  == IF entries = {} THEN -1 ELSE Max({e.pos : e \in entries})
Holds(e) == \E x \in entries : x.ep = e

(* PostSocialListEntryOp: editors only.  The count is ignored when it cannot
   be read, which makes a difference only at the cap. *)
PostSocialListEntryOp(r, m, ok) ==
  /\ m.op # "add" => m.pos = 0
  /\ m.by \in joined /\ GetSocialList /\ canViewSocialList(m.by)
  /\ socialListRole(m.by) \in {"owner", "collaborator"}
  /\ ok = (m.op # "add" \/ CountSocialListEntries < EntryCap)
  /\ faults' = IF ok THEN faults ELSE faults + 1
  /\ Spend(r, [m EXCEPT !.pos = IF m.pos < 0 THEN MaxSocialListPosition + 1 ELSE m.pos])
  /\ UNCHANGED <<list, entries, role, people, late, held>>

(* UpsertSocialListEntry keeps who added the episode first; the foreign key
   refuses an entry of a list that is gone. *)
MoveSocialListEntry(e, p) == {IF x.ep = e THEN [x EXCEPT !.pos = p] ELSE x : x \in entries}
DeleteSocialListEntry(e)  == {x \in entries : x.ep # e}
UpsertSocialListEntry(m) ==
  IF owner = NoOne THEN entries
  ELSE IF Holds(m.ep) THEN MoveSocialListEntry(m.ep, m.pos)
  ELSE entries \cup {[ep |-> m.ep, pos |-> m.pos, by |-> m.by]}
WriteEntry(r) ==
  /\ req[r].op \in {"add", "remove", "move"}
  /\ LET m == req[r]
     IN /\ entries' = CASE m.op = "add" -> UpsertSocialListEntry(m)
                        [] m.op = "remove" -> DeleteSocialListEntry(m.ep)
                        [] OTHER -> MoveSocialListEntry(m.ep, m.pos)
        /\ late' = IF m.by \in joined THEN late ELSE late \cup {m.by}
  /\ Go(r, Idle) /\ UNCHANGED <<list, role, people, faults, held>>

----------------------------------------------------------------------------
(* PostSocialListInvite: the owner invites someone not hidden by a block, who
   is no member yet or only subscribes.  Members that cannot be read are
   ignored like the count. *)
Collaborators == {u \in GetSocialListMembers : role[u] \in {"invited", "collaborator"}}
PostSocialListInvite(r, m, ok) ==
  /\ {m.by, m.handle} \subseteq joined /\ owner = m.by /\ m.handle # m.by
  /\ ~IsBlockedEither(blocks, m.by, m.handle)
  /\ ok = (m.handle \notin Collaborators /\ Cardinality(Collaborators) < CollaboratorCap)
  /\ faults' = IF ok THEN faults ELSE faults + 1
  /\ Spend(r, [op |-> "member", by |-> m.by, user |-> m.handle, role |-> "invited"])
  /\ UNCHANGED <<list, entries, role, people, late, held>>

(* PostSocialListInviteRespond *)
PostSocialListInviteRespond(r, m) ==
  /\ m.by \in joined /\ GetSocialListMember(m.by) = "invited"
  /\ GetSocialList /\ ~IsBlockedEither(blocks, m.by, owner)
  /\ Spend(r, [op |-> "member", by |-> m.by, user |-> m.by,
               role |-> IF m.accept THEN "collaborator" ELSE "none"])
  /\ UNCHANGED <<list, entries, role, people, faults, late, held>>

(* PostSocialListSubscribe: whoever sees the list may follow it; any member
   but the owner may leave. *)
PostSocialListSubscribe(r, m) ==
  LET u == m.by
  IN /\ u \in joined /\ GetSocialList /\ u # owner
     /\ IF m.subscribe THEN GetSocialListMember(u) \in {"none", "subscriber"} /\ canViewSocialList(u)
        ELSE GetSocialListMember(u) # "none"
     /\ Spend(r, [op |-> "member", by |-> u, user |-> u,
                  role |-> IF m.subscribe THEN "subscriber" ELSE "none"])
     /\ UNCHANGED <<list, entries, role, people, faults, late, held>>

(* PostSocialListMemberRemove *)
PostSocialListMemberRemove(r, m) ==
  /\ {m.by, m.handle} \subseteq joined /\ owner = m.by
  /\ Spend(r, [op |-> "member", by |-> m.by, user |-> m.handle, role |-> "none"])
  /\ UNCHANGED <<list, entries, role, people, faults, late, held>>

UpsertSocialListMember(u, new) == IF owner = NoOne THEN role ELSE [role EXCEPT ![u] = new]
DeleteSocialListMember(u)      == [role EXCEPT ![u] = "none"]
WriteMember(r) ==
  /\ req[r].op = "member"
  /\ LET m == req[r]
     IN /\ role' = IF m.role = "none" THEN DeleteSocialListMember(m.user)
                   ELSE UpsertSocialListMember(m.user, m.role)
        /\ late' = IF {m.by, m.user} \subseteq joined THEN late ELSE late \cup {m.by, m.user}
  /\ Go(r, Idle) /\ UNCHANGED <<list, entries, people, faults, held>>

RequestFails(r) ==
  /\ req[r] # Idle /\ Go(r, Idle)
  /\ UNCHANGED <<list, entries, role, people, faults, late, held>>

(* PostSocialListUpdate, of which only the tier matters; PostSocialListDelete. *)
UpdateSocialList(u, tier) == IF owner = u THEN tier ELSE vis
PostSocialListUpdate(m) ==
  /\ m.by \in joined /\ Once
  /\ vis' = UpdateSocialList(m.by, visibilityToStored(m.visibility)) /\ vis' # vis
  /\ UNCHANGED <<owner, entries, role, people, faults, late, held>>

DeleteSocialList == owner' = NoOne /\ entries' = {} /\ role' = [u \in User |-> "none"] /\ UNCHANGED vis
PostSocialListDelete(m) ==
  /\ m.by \in joined /\ owner = m.by /\ Once /\ DeleteSocialList
  /\ UNCHANGED <<people, faults, late, held>>

----------------------------------------------------------------------------
(* Only blocks between the owner and someone else are ever asked for. *)
Admitted(u) ==
  role[u] # "none" \/ \E r \in Request : req[r].op = "member" /\ req[r].user = u /\ req[r].role # "none"
Block(u, v) ==
  /\ {u, v} \subseteq joined /\ u # v /\ owner \in {u, v} /\ <<u, v>> \notin blocks /\ Once
  /\ blocks' = blocks \cup {<<u, v>>} /\ follows' = follows \ {<<u, v>>, <<v, u>>}
  /\ held' = held \cup {x \in {u, v} \ {owner} : Admitted(x)}
  /\ UNCHANGED <<list, entries, role, joined, faults, late>>

(* socialErase: the lists of the user, the memberships, the attribution. *)
MembershipsStay(u) == role    \* mutant: the memberships stay
DeleteSocialListMembershipsForUser(u) == [role EXCEPT ![u] = "none"]
ClearSocialListAttributionForUser(u)  == {IF x.by = u THEN [x EXCEPT !.by = NoOne] ELSE x : x \in entries}
Erase(u) ==
  /\ u \in joined /\ Once /\ joined' = joined \ {u}
  /\ IF owner = u THEN DeleteSocialList
     ELSE /\ role' = DeleteSocialListMembershipsForUser(u)
          /\ entries' = ClearSocialListAttributionForUser(u)
          /\ UNCHANGED list
  /\ blocks' = {e \in blocks : u \notin {e[1], e[2]}}
  /\ follows' = {e \in follows : u \notin {e[1], e[2]}}
  /\ UNCHANGED <<faults, late, held>>

Readable == IF faults < MaxFaults THEN BOOLEAN ELSE {TRUE}
Begin(r) ==
  \/ \E m \in SharedListEntryOpRequest, ok \in Readable : PostSocialListEntryOp(r, m, ok)
  \/ \E m \in SharedListInviteRequest : PostSocialListMemberRemove(r, m)
       \/ \E ok \in Readable : PostSocialListInvite(r, m, ok)
  \/ \E m \in SharedListInviteRespondRequest : PostSocialListInviteRespond(r, m)
  \/ \E m \in SharedListSubscribeRequest : PostSocialListSubscribe(r, m)
Next ==
  \/ \E r \in Request : PostSocialListCreate(r) \/ Begin(r) \/ WriteEntry(r) \/ WriteMember(r) \/ RequestFails(r)
  \/ \E m \in SharedListUpdateRequest : PostSocialListUpdate(m)
  \/ \E m \in SharedListDeleteRequest : PostSocialListDelete(m)
  \/ \E u \in User : Erase(u) \/ (\E v \in User : Block(u, v))

Spec == Init /\ [][Next]_vars

----------------------------------------------------------------------------
(* PostSocialListEntries: the header, whose members only the owner sees, and
   the entries with the handle of who added them, whoever asks. *)
SharedListEntry(e) == [ep |-> e.ep, pos |-> e.pos, addedBy |-> IF e.by \in joined THEN e.by ELSE NoOne]
SharedListMember(u) == [handle |-> u, role |-> role[u]]
SharedList(v) ==
  [owner |-> owner, yourRole |-> socialListRole(v), count |-> CountSocialListEntries,
   members |-> IF v = owner THEN {SharedListMember(u) : u \in GetSocialListMembers} ELSE {}]
SharedListEntriesResponse(v) ==
  [found |-> TRUE, list |-> SharedList(v), entries |-> {SharedListEntry(e) : e \in entries}]
PostSocialListEntries(m) ==
  IF GetSocialList /\ canViewSocialList(m.by) THEN SharedListEntriesResponse(m.by) ELSE [found |-> FALSE]

(* PostSocialLists: the lists of the caller without the invitations, which
   are a second query; neither asks for blocks. *)
GetSocialListsForUser(u) ==
  IF GetSocialList /\ (owner = u \/ role[u] # "none") THEN {SharedList(u)} ELSE {}
GetSocialListInvitesForUser(u) ==
  IF GetSocialList /\ role[u] = "invited" THEN {SharedList(u)} ELSE {}
SharedListsResponse(u) ==
  [lists |-> {l \in GetSocialListsForUser(u) : l.yourRole # "invited"},
   invites |-> GetSocialListInvitesForUser(u)]

(* The state has its type: an episode is listed once. *)
TypeOK ==
  /\ owner \in User \cup {NoOne} /\ vis \in Tier /\ entries \subseteq SocialListEntry
  /\ Cardinality({e.ep : e \in entries}) = Cardinality(entries)
  /\ role \in [User -> Role] /\ req \in [Request -> {Idle} \cup SharedListCreateRequest \cup EntryWrite \cup MemberWrite]
  /\ held \subseteq User

(* The caps are checked before the write: they hold as long as requests come
   one after the other; overlapping requests may pass together, but a list is
   never larger than that, or than the counts that could not be read. *)
CapsHold ==
  LET slack == faults + (IF raced THEN Cardinality(Request) - 1 ELSE 0)
  IN /\ CountSocialListEntries <= EntryCap + slack
     /\ Cardinality(Collaborators) <= CollaboratorCap + slack

(* Whatever role is left from before the block, nobody opens a list across a
   block with its owner.  The overview does not ask: it names the owner across
   a block, but only to those who were on the list, or whose row was being
   written, when the block was made; nobody gets onto a list across one.  A list
   is in nobody's overview twice, and its members are in nobody's but the
   owner's.  The entries name who added them, block or no block. *)
HiddenAcrossBlock ==
  /\ \A m \in SharedListEntriesRequest :
       {<<m.by, owner>>, <<owner, m.by>>} \cap blocks # {} => ~PostSocialListEntries(m).found
  /\ \A u \in joined \ {owner} :
       LET all   == SharedListsResponse(u)
           shown == all.lists \cup all.invites
       IN /\ all.lists = {} \/ all.invites = {}
          /\ \A l \in shown : l.members = {}
          /\ u \notin held => \A l \in shown : {<<u, l.owner>>, <<l.owner, u>>} \cap blocks = {}

(* Erasure leaves no list, membership or attribution of the user, but for a
   write that was under way, the creation of the list included. *)
ErasedLeavesNothing ==
  \A u \in User \ (joined \cup late) :
    owner # u /\ role[u] = "none" /\ \A e \in entries : e.by # u
=============================================================================
