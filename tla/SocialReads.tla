----------------------------- MODULE SocialReads -----------------------------
(***************************************************************************)
(* What the social reads show of one user to another: the public profile   *)
(* (social.go), the follow lists and the feed (graph.go), search,          *)
(* suggestions, contacts and curators (people.go), trending podcasts and   *)
(* podcast proof (discovery.go).                                           *)
(*                                                                         *)
(* Each user has done everything that a read could show: subscribed,       *)
(* listened, reviewed, reacted, commented, made lists and joined groups.   *)
(* A follow is checked and then inserted, a block is written and then      *)
(* deletes the two follows, so that a follow may outlive a block or a      *)
(* profile; the other requests are atomic here (SocialGraph has them all). *)
(* A read is one statement.                                                *)
(***************************************************************************)
EXTENDS Naturals, FiniteSets, Relations

CONSTANTS
  User,
  MaxChanges,       \* bound: changes of the graph
  MaxUpdates        \* bound: profile updates

VARIABLES
  profile,          \* social_profiles, NotJoined without a row
  follows,          \* social_follows: "none", "pending" or "active"
  blocks, mutes,    \* social_relationships
  asked,            \* follows that were checked and are not inserted yet
  cuts,             \* blocks whose follows are not all deleted yet
  loose,            \* history: rows that no block or erasure is going to delete
  changes, updates

graph   == <<follows, blocks, mutes>>
pending == <<asked, cuts, loose>>
vars    == <<profile, graph, pending, changes, updates>>

Edge  == {e \in User \X User : e[1] # e[2]}
Flip(e) == <<e[2], e[1]>>
Ends(e) == {e[1], e[2]}
Field == {"avatar", "bio", "shows", "top", "stats", "history"}
SocialProfile == [tier : [Field -> Tier], approval : BOOLEAN, hide : BOOLEAN]
NotJoined == [tier |-> "none"]
Joined    == {u \in User : profile[u] # NotJoined}
Viewer    == User \cup {Anonymous}

(* Of the updates, those that open one field, of those that more than the page
   shows, and send no tier for the others. *)
ProfileUpdateRequest ==
  [by : User, open : Field \ {"avatar", "top"}, wire : {"public", "followers"}, strict : BOOLEAN]

(* CreateSocialProfile: everything private. *)
CreateSocialProfile == [tier |-> [f \in Field |-> "private"], approval |-> FALSE, hide |-> FALSE]

Init ==
  /\ profile = [u \in User |-> CreateSocialProfile]
  /\ follows = [e \in Edge |-> "none"] /\ blocks = {} /\ mutes = {}
  /\ asked = {} /\ cuts = {} /\ loose = {} /\ changes = 0 /\ updates = 0

----------------------------------------------------------------------------
Change == changes < MaxChanges /\ changes' = changes + 1 /\ UNCHANGED updates

UpdateSocialProfile(m) ==
  [tier |-> [f \in Field |-> visibilityToStored(IF f = m.open THEN m.wire ELSE "unspecified")],
   approval |-> m.strict, hide |-> m.strict]
PostSocialProfileUpdate(m) ==
  /\ m.by \in Joined /\ updates < MaxUpdates /\ updates' = updates + 1
  /\ profile' = [profile EXCEPT ![m.by] = UpdateSocialProfile(m)]
  /\ UNCHANGED <<graph, pending, changes>>

(* PostFollow reads the two profiles and the blocks and then inserts the row;
   one that is there already wins. *)
CheckFollow(e) ==
  /\ Ends(e) \subseteq Joined /\ ~IsBlockedEither(blocks, e[1], e[2])
  /\ follows[e] = "none" /\ Change
  /\ asked' = asked \cup {[edge |-> e, status |-> IF profile[e[2]].approval THEN "pending" ELSE "active"]}
  /\ UNCHANGED <<profile, graph, cuts, loose>>
UpsertFollow(a) ==
  /\ asked' = asked \ {a}
  /\ IF follows[a.edge] = "none"
     THEN /\ follows' = [follows EXCEPT ![a.edge] = a.status]
          /\ loose' = IF IsBlockedEither(blocks, a.edge[1], a.edge[2]) \/ ~(Ends(a.edge) \subseteq Joined)
                      THEN loose \cup {a.edge} ELSE loose
     ELSE UNCHANGED <<follows, loose>>
  /\ UNCHANGED <<profile, blocks, mutes, cuts, changes, updates>>
Approve(e) ==
  /\ Ends(e) \subseteq Joined /\ follows[e] = "pending" /\ Change
  /\ follows' = [follows EXCEPT ![e] = "active"]
  /\ UNCHANGED <<profile, blocks, mutes, pending>>

(* setRelationship: the block, then its two deletes, each of which may fail. *)
Block(e) ==
  /\ Ends(e) \subseteq Joined /\ e \notin blocks /\ Change
  /\ blocks' = blocks \cup {e} /\ cuts' = cuts \cup {[edge |-> e, back |-> FALSE]}
  /\ UNCHANGED <<profile, follows, mutes, asked, loose>>
Sever(c) ==
  LET e == IF c.back THEN Flip(c.edge) ELSE c.edge
  IN /\ follows' = [follows EXCEPT ![e] = "none"] /\ loose' = loose \ {e}
     /\ cuts' = (cuts \ {c}) \cup (IF c.back THEN {} ELSE {[c EXCEPT !.back = TRUE]})
     /\ UNCHANGED <<profile, blocks, mutes, asked, changes, updates>>
SeverFails(c) ==
  /\ cuts' = cuts \ {c}
  /\ loose' = loose \cup {e \in {c.edge, Flip(c.edge)} : follows[e] # "none"}
  /\ UNCHANGED <<profile, graph, asked, changes, updates>>

Mute(e) ==
  /\ Ends(e) \subseteq Joined /\ e \notin mutes /\ Change
  /\ mutes' = mutes \cup {e} /\ UNCHANGED <<profile, follows, blocks, pending>>
Erase(u) ==
  /\ u \in Joined /\ Change
  /\ profile' = [profile EXCEPT ![u] = NotJoined]
  /\ follows' = [e \in Edge |-> IF u \in Ends(e) THEN "none" ELSE follows[e]]
  /\ blocks' = {e \in blocks : u \notin Ends(e)} /\ mutes' = {e \in mutes : u \notin Ends(e)}
  /\ loose' = {e \in loose : u \notin Ends(e)} /\ UNCHANGED <<asked, cuts>>

Next ==
  \/ \E m \in ProfileUpdateRequest : PostSocialProfileUpdate(m)
  \/ \E e \in Edge : CheckFollow(e) \/ Approve(e) \/ Block(e) \/ Mute(e)
  \/ \E a \in asked : UpsertFollow(a)
  \/ \E c \in cuts : Sever(c) \/ SeverFails(c)
  \/ \E u \in User : Erase(u)

Spec == Init /\ [][Next]_vars

----------------------------------------------------------------------------
(* buildPublicProfile for a viewer: not found for every kind of miss. *)
Active(v, u)  == <<v, u>> \in Edge /\ follows[<<v, u>>] = "active"
visible(v, u, f) ==
  \/ v = u \/ profile[u].tier[f] = "public"
  \/ Active(v, u) /\ profile[u].tier[f] = "followers"
ListTiers(v, u) ==
  IF v = u THEN Tier ELSE IF Active(v, u) THEN {"public", "followers"} ELSE {"public"}

CountFollowers(u) == Cardinality({e \in Edge : e[2] = u /\ follows[e] = "active"})
CountFollowing(u) == Cardinality({e \in Edge : e[1] = u /\ follows[e] # "none"})
SocialProfileStats(u) == [kind |-> "stats", of |-> u]
PublicProfileResponse(v, u) ==
  [found |-> TRUE, handle |-> u, lists |-> ListTiers(v, u),
   sections |-> {f \in Field : visible(v, u, f)},
   stats |-> IF visible(v, u, "stats") THEN {SocialProfileStats(u)} ELSE {},
   followers |-> CountFollowers(u), following |-> CountFollowing(u)]
buildPublicProfile(v, u) ==
  IF u \notin Joined \/ (v \notin {Anonymous, u} /\ IsBlockedEither(blocks, v, u)) THEN [found |-> FALSE]
  ELSE PublicProfileResponse(v, u)

(* PostFollowList, PostFollowRequests: the names join the profiles, the
   totals do not. *)
FollowEntry(u, state) == [handle |-> u, state |-> state]
GetFollowers(u) ==
  {FollowEntry(e[1], "active") : e \in {x \in Edge : x[2] = u /\ x[1] \in Joined /\ follows[x] = "active"}}
GetFollowing(u) ==
  {FollowEntry(e[2], follows[e]) : e \in {x \in Edge : x[1] = u /\ x[2] \in Joined /\ follows[x] # "none"}}
GetPendingFollowRequests(u) ==
  {FollowEntry(e[1], "pending") : e \in {x \in Edge : x[2] = u /\ x[1] \in Joined /\ follows[x] = "pending"}}
CountPendingFollowRequests(u) == Cardinality({e \in Edge : e[2] = u /\ follows[e] = "pending"})
FollowListResponse(entries, total) == [entries |-> entries, total |-> total]
PostFollowList(u, followers) ==
  IF followers THEN FollowListResponse(GetFollowers(u), CountFollowers(u))
  ELSE FollowListResponse(GetFollowing(u), CountFollowing(u))
PostFollowRequests(u) == FollowListResponse(GetPendingFollowRequests(u), CountPendingFollowRequests(u))

(* GetFeedItems: the events of those the viewer follows and has not muted.
   Reviews, comments and public groups have no tier; lists have their own. *)
Followees(v) == {u \in Joined : Active(v, u) /\ <<v, u>> \notin mutes}
Shared(u, f) == profile[u].tier[f] \in {"public", "followers"}
FeedItem(kind, u, target, field) == [kind |-> kind, actor |-> u, target |-> target, field |-> field]
Derived == {<<"subscribed", "shows">>, <<"finished", "history">>, <<"reacted", "history">>, <<"milestone", "stats">>}
FollowedAnyone(v) ==             \* mutant: whom the followees follow is not filtered
  {FeedItem("followed", e[1], e[2], "none") :
     e \in {x \in Edge : x[1] \in Followees(v) /\ x[2] \in Joined /\ follows[x] = "active"}}
FollowedItems(v) ==
  {FeedItem("followed", e[1], e[2], "none") :
     e \in {x \in Edge : x[1] \in Followees(v) /\ x[2] \in Joined /\ follows[x] = "active"
                           /\ ~IsBlockedEither(blocks, v, x[2])}}
GetFeedItems(v) ==
  {FeedItem(k, u, NoOne, "none") : k \in {"joined", "reviewed", "commented", "listed", "group"}, u \in Followees(v)}
  \cup FollowedItems(v)
  \cup UNION {{FeedItem(d[1], u, NoOne, d[2]) : u \in {x \in Followees(v) : Shared(x, d[2])}} : d \in Derived}
PostFeed(v) == [items |-> GetFeedItems(v)]

(* people.go: discoverable profiles other than the caller's own. *)
Discoverable(v) == {u \in Joined \ {v} : ~profile[u].hide /\ ~IsBlockedEither(blocks, v, u)}
ProfileSummary(u) == [handle |-> u]
SearchSocialProfiles(v) == {ProfileSummary(u) : u \in Discoverable(v)}
GetSocialSuggestions(v) ==
  {ProfileSummary(u) : u \in {x \in Joined \ {v} :
     /\ ~profile[x].hide /\ follows[<<v, x>>] = "none"
     /\ \E w \in User : Active(v, w) /\ Active(w, x)
     /\ {<<v, x>>, <<x, v>>} \cap (blocks \cup mutes) = {}}}
GetDiscoverableProfileEmails(v) == {ProfileSummary(u) : u \in Discoverable(v)}
CuratorEntry(u) ==
  [handle |-> u, bio |-> profile[u].tier["bio"] = "public", followers |-> CountFollowers(u)]
GetCurators(v) == {CuratorEntry(u) : u \in Discoverable(v)}

(* discovery.go: named by who listens to, or is subscribed to, a podcast. *)
GetTrendingWithFriends(v) == {u \in Followees(v) : Shared(u, "history")}
GetPodcastProof(v) == {u \in Followees(v) : Shared(u, "shows")}

----------------------------------------------------------------------------
(* Every name some read here tells v, v being signed in and joined: those that
   ask for blocks, and those that count on blocks having deleted the follows. *)
NamedByChecks(v) ==
  {u \in User : buildPublicProfile(v, u).found} \cup {x.target : x \in FollowedItems(v)}
  \cup {x.handle : x \in SearchSocialProfiles(v) \cup GetSocialSuggestions(v)
                         \cup GetDiscoverableProfileEmails(v)}
  \cup {x.handle : x \in GetCurators(v)}
NamedByFollows(v) ==
  {x.handle : x \in PostFollowList(v, TRUE).entries \cup PostFollowList(v, FALSE).entries
                      \cup PostFollowRequests(v).entries}
  \cup {x.actor : x \in PostFeed(v).items} \cup GetTrendingWithFriends(v) \cup GetPodcastProof(v)

(* Follows between u and v that a block has not deleted, or never will. *)
Severing(u, v) == \E c \in cuts : Ends(c.edge) = {u, v}
Uncut(u, v)    == Severing(u, v) \/ <<u, v>> \in loose \/ <<v, u>> \in loose

(* The state has its type. *)
TypeOK ==
  /\ profile \in [User -> SocialProfile \cup {NotJoined}]
  /\ follows \in [Edge -> {"none", "pending", "active"}] /\ blocks \cup mutes \subseteq Edge
  /\ asked \subseteq [edge : Edge, status : {"pending", "active"}]
  /\ cuts \subseteq [edge : Edge, back : BOOLEAN] /\ loose \subseteq Edge

(* No read of this module names to a user anyone who was erased, and those that
   ask for blocks name nobody across one.  The follow lists, the feed's actors
   and the friends of discovery do not ask: they name someone across a block
   only until its two deletes are done, or by a follow that was checked before
   the block and inserted after it, or whose delete failed. *)
InvisibleAcrossBlocks ==
  \A v \in Joined :
    /\ \A u \in NamedByChecks(v) : u \in Joined /\ {<<u, v>>, <<v, u>>} \cap blocks = {}
    /\ \A u \in NamedByFollows(v) :
         u \in Joined /\ ({<<u, v>>, <<v, u>>} \cap blocks = {} \/ Uncut(u, v))

(* What was listened to, subscribed to or counted reaches others only as far
   as its tier says, through whichever read. *)
TiersHold ==
  \A v \in Viewer :
    LET Allowed(u, f) == \/ profile[u].tier[f] = "public"
                         \/ profile[u].tier[f] = "followers" /\ Active(v, u)
    IN /\ \A u \in Joined \ {v} :
            LET page == buildPublicProfile(v, u)
            IN page.found => \A f \in page.sections : Allowed(u, f)
       /\ v \in Joined =>
            /\ \A x \in PostFeed(v).items : x.field # "none" => Allowed(x.actor, x.field)
            /\ \A u \in GetTrendingWithFriends(v) : Allowed(u, "history")
            /\ \A u \in GetPodcastProof(v) : Allowed(u, "shows")
            /\ \A x \in GetCurators(v) : x.bio => Allowed(x.handle, "bio")

(* The totals of the follow lists are the lengths of the lists, unless a row
   names someone whose erasure it outlived. *)
FollowTotals ==
  \A u \in {x \in Joined : \A e \in loose : x \in Ends(e) => Ends(e) \subseteq Joined} :
    \A l \in {PostFollowList(u, TRUE), PostFollowList(u, FALSE), PostFollowRequests(u)} :
      l.total = Cardinality(l.entries)
=============================================================================
