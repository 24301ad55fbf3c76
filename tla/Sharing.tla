------------------------------- MODULE Sharing -------------------------------
(***************************************************************************)
(* What users send and say about one podcast: items sent to a friend and   *)
(* the inbox (inbox.go), written reviews and reactions (reviews.go) and    *)
(* ratings (ratings.go).                                                   *)
(*                                                                         *)
(* A request is its reads and then its write; sending and reviewing are    *)
(* the ones whose checks another request can overtake.  Like a comment, an *)
(* item or a reaction of the device's uuid is stored under the catalog's   *)
(* once an alias is known.  Notes, titles and the pages' limits are left   *)
(* out; a request that validation refuses ends like one that was not made. *)
(***************************************************************************)
EXTENDS Naturals, FiniteSets, Sequences, Relations

CONSTANTS
  User,
  Request,          \* requests that may be under way at the same time
  MaxItems,         \* bound: items that are sent
  MaxRequests       \* bound: operations that are started

Uuid == {"catalog", "device"}

VARIABLES
  items,            \* shared_items by id; a deleted one is Gone
  reviews,          \* podcast_reviews: the users who have one
  ratings,          \* podcast_ratings, 0 without a row
  reactions,        \* episode_reactions: the users who have one, by uuid
  heard,            \* the users who played enough of the podcast to review it
  bridged,          \* episode_aliases has the device uuid
  joined,           \* social_profiles
  blocks, mutes,    \* social_relationships
  req, started,
  told,             \* history: <<recipient, item>> of the arrivals pushed
  late              \* history: items and reviews written after an erasure

said    == <<reviews, ratings, reactions, heard, bridged>>
people  == <<joined, blocks, mutes>>
history == <<told, late>>
vars == <<items, said, people, req, started, history>>

Id == 1 .. MaxItems
SharedItem == [from : User, to : User, ep : Uuid \cup {"show"}, read : BOOLEAN]
Gone == [from |-> NoOne]
Viewer == User \cup {Anonymous}

(* The messages, each with the user whose session sent it. *)
SharedItemSendRequest == [by : User, recipient : User, ep : Uuid \cup {"show"}]
InboxMarkReadRequest  == [by : User, ids : {{i} : i \in Id}]
InboxDeleteRequest    == [by : User, id : Id]
PodcastReviewSubmitRequest == [by : User]
PodcastReviewDeleteRequest == [by : User]
PodcastReviewsRequest      == [by : Viewer]
EpisodeReactionSetRequest  == [by : User, ep : Uuid, kind : {0, 1}]
EpisodeReactionsRequest    == [by : Viewer, ep : Uuid]
PodcastRatingAddRequest    == [by : User, rating : {1, 5}]

Idle == [op |-> "idle"]
ReqType ==
  {Idle}
  \cup [op : {"send"}, by : User, row : SharedItem]
  \cup [op : {"push"}, by : User, to : User, item : Id]
  \cup [op : {"review"}, by : User]

Spend(r, next) ==
  /\ req[r] = Idle /\ started < MaxRequests
  /\ started' = started + 1 /\ req' = [req EXCEPT ![r] = next]
Go(r, next) == req' = [req EXCEPT ![r] = next] /\ UNCHANGED started
Once == started < MaxRequests /\ started' = started + 1 /\ UNCHANGED req

Init ==
  /\ items = << >> /\ reviews = {} /\ ratings = [u \in User |-> 0]
  /\ reactions = [e \in Uuid |-> {}] /\ bridged = FALSE
  /\ \E u \in User : heard = {u}
  /\ joined = User /\ blocks = {} /\ mutes = {}
  /\ req = [r \in Request |-> Idle] /\ started = 0 /\ told = {} /\ late = {}

canonicalEpisodeUuid(e) == IF bridged /\ e = "device" THEN "catalog" ELSE e
Ids == {i \in 1 .. Len(items) : items[i] # Gone}

----------------------------------------------------------------------------
(* PostShareSend: both joined and no block either way, then the row, then a
   push unless the recipient has muted the sender. *)
PostShareSend(r, m) ==
  /\ {m.by, m.recipient} \subseteq joined /\ m.by # m.recipient /\ Len(items) < MaxItems
  /\ ~IsBlockedEither(blocks, m.by, m.recipient)
  /\ Spend(r, [op |-> "send", by |-> m.by,
               row |-> [from |-> m.by, to |-> m.recipient, ep |-> canonicalEpisodeUuid(m.ep),
                        read |-> FALSE]])
  /\ UNCHANGED <<items, said, people, history>>

InsertSharedItem(r) ==
  /\ req[r].op = "send" /\ Len(items) < MaxItems
  /\ items' = Append(items, req[r].row)
  /\ late' = IF {req[r].row.from, req[r].row.to} \subseteq joined THEN late ELSE late \cup {Len(items')}
  /\ Go(r, [op |-> "push", by |-> req[r].by, to |-> req[r].row.to, item |-> Len(items')])
  /\ UNCHANGED <<said, people, told>>

PushSharedItem(r) ==
  /\ req[r].op = "push"
  /\ told' = IF mutedBy(mutes, req[r].to, req[r].by) THEN told ELSE told \cup {<<req[r].to, req[r].item>>}
  /\ Go(r, Idle) /\ UNCHANGED <<items, said, people, late>>

(* PostInboxRead and PostInboxDelete are one statement each, for the items of
   the caller only. *)
MarkInboxItemsRead(m) ==
  [i \in DOMAIN items |-> IF i \in m.ids /\ i \in Ids /\ items[i].to = m.by
                          THEN [items[i] EXCEPT !.read = TRUE] ELSE items[i]]
PostInboxRead(m) ==
  /\ Once /\ items' = MarkInboxItemsRead(m) /\ items' # items
  /\ UNCHANGED <<said, people, history>>
DeleteInboxItem(m) ==
  [i \in DOMAIN items |-> IF i = m.id /\ i \in Ids /\ items[i].to = m.by THEN Gone ELSE items[i]]
PostInboxDelete(m) ==
  /\ Once /\ items' = DeleteInboxItem(m) /\ items' # items
  /\ UNCHANGED <<said, people, history>>

----------------------------------------------------------------------------
(* PostReviewSubmit: joined, two episodes played by half; then the upsert. *)
CountPlayedEpisodesOfPodcast(u) == IF u \in heard THEN 2 ELSE 1
PostReviewSubmit(r, m) ==
  /\ m.by \in joined /\ CountPlayedEpisodesOfPodcast(m.by) >= 2
  /\ Spend(r, [op |-> "review", by |-> m.by])
  /\ UNCHANGED <<items, said, people, history>>
UpsertPodcastReview(r) ==
  /\ req[r].op = "review"
  /\ reviews' = reviews \cup {req[r].by}
  /\ late' = IF req[r].by \in joined THEN late ELSE late \cup {req[r].by}
  /\ Go(r, Idle)
  /\ UNCHANGED <<items, ratings, reactions, heard, bridged, people, told>>

DeletePodcastReview(u) == reviews \ {u}
PostReviewDelete(m) ==
  /\ m.by \in reviews /\ Once
  /\ reviews' = DeletePodcastReview(m.by) /\ late' = late \ {m.by}
  /\ UNCHANGED <<items, ratings, reactions, heard, bridged, people, told>>

(* Ratings and reactions belong to the account: no profile is needed. *)
UpsertPodcastRating(m) == [ratings EXCEPT ![m.by] = m.rating]
PostPodcastRatingAdd(m) ==
  /\ Once /\ ratings' = UpsertPodcastRating(m) /\ ratings' # ratings
  /\ UNCHANGED <<items, reviews, reactions, heard, bridged, people, history>>

UpsertEpisodeReaction(u, e) == [reactions EXCEPT ![e] = @ \cup {u}]
DeleteEpisodeReaction(u, e) == [reactions EXCEPT ![e] = @ \ {u}]
PostReactionSet(m) ==
  /\ Once
  /\ reactions' = LET e == canonicalEpisodeUuid(m.ep)
                  IN IF m.kind = 0 THEN DeleteEpisodeReaction(m.by, e) ELSE UpsertEpisodeReaction(m.by, e)
  /\ reactions' # reactions
  /\ UNCHANGED <<items, reviews, ratings, heard, bridged, people, history>>

(* A statement of a request fails. *)
RequestFails(r) ==
  /\ req[r] # Idle /\ Go(r, Idle)
  /\ UNCHANGED <<items, said, people, history>>

----------------------------------------------------------------------------
(* Blocks, mutes and the alias as in Comments.  Erasure deletes reviews and
   the items sent or received; ratings and reactions stay. *)
Relate(u, v) ==
  /\ {u, v} \subseteq joined /\ u # v /\ Once
  /\ \/ blocks' = blocks \cup {<<u, v>>} /\ UNCHANGED mutes
     \/ mutes' = mutes \cup {<<u, v>>} /\ UNCHANGED blocks
  /\ UNCHANGED <<items, said, joined, history>>

DeleteSharedItemsForUser(u) ==
  [i \in DOMAIN items |-> IF i \in Ids /\ u \in {items[i].from, items[i].to} THEN Gone ELSE items[i]]
DeleteReviewsForUser(u) == reviews \ {u}
Erase(u) ==
  /\ u \in joined /\ Once /\ joined' = joined \ {u}
  /\ items' = DeleteSharedItemsForUser(u) /\ reviews' = DeleteReviewsForUser(u)
  /\ blocks' = {e \in blocks : u \notin {e[1], e[2]}}
  /\ mutes' = {e \in mutes : u \notin {e[1], e[2]}}
  /\ late' = late \ {u}
  /\ UNCHANGED <<ratings, reactions, heard, bridged, told>>

JoinAgain(u) ==
  /\ u \notin joined /\ Once /\ joined' = joined \cup {u}
  /\ UNCHANGED <<items, said, blocks, mutes, history>>

StoreAlias ==
  /\ ~bridged /\ Once /\ bridged' = TRUE
  /\ UNCHANGED <<items, reviews, ratings, reactions, heard, people, history>>

Step(r) == InsertSharedItem(r) \/ PushSharedItem(r) \/ UpsertPodcastReview(r) \/ RequestFails(r)
Next ==
  \/ \E r \in Request : Step(r)
       \/ (\E m \in SharedItemSendRequest : PostShareSend(r, m))
       \/ (\E m \in PodcastReviewSubmitRequest : PostReviewSubmit(r, m))
  \/ \E m \in InboxMarkReadRequest : PostInboxRead(m)
  \/ \E m \in InboxDeleteRequest : PostInboxDelete(m)
  \/ \E m \in PodcastReviewDeleteRequest : PostReviewDelete(m)
  \/ \E m \in PodcastRatingAddRequest : PostPodcastRatingAdd(m)
  \/ \E m \in EpisodeReactionSetRequest : PostReactionSet(m)
  \/ \E u \in User : Erase(u) \/ JoinAgain(u) \/ (\E v \in User : Relate(u, v))
  \/ StoreAlias

Spec == Init /\ [][Next]_vars

----------------------------------------------------------------------------
(* What the reads return.  The queries of the inbox join the sender's profile,
   as the page of reviews does and its count does not. *)
InInbox(u, i) == items[i].to = u /\ items[i].from \in joined /\ Shown(blocks, mutes, u, items[i].from)
GetInboxItems(u) == {i \in Ids : InInbox(u, i)}
CountInboxItems(u) == Cardinality({i \in Ids : InInbox(u, i)})
CountUnreadInboxItems(u) == Cardinality({i \in Ids : InInbox(u, i) /\ ~items[i].read})
InboxResponse(u) ==
  [items |-> GetInboxItems(u), total |-> CountInboxItems(u), unread |-> CountUnreadInboxItems(u)]

PodcastReview(u) == [user |-> u, rating |-> ratings[u]]
GetPodcastReviews(v) == {u \in reviews \cap joined : Shown(blocks, mutes, v, u)}
CountPodcastReviews(v) == Cardinality({u \in reviews : Shown(blocks, mutes, v, u)})
GetOwnPodcastReview(v) == {u \in reviews \cap joined : u = v}
PostPodcastReviews(m) ==
  [reviews |-> {PodcastReview(u) : u \in {x \in GetPodcastReviews(m.by) :
                  m.by \in {Anonymous, x} \/ ~IsBlockedEither(blocks, m.by, x)}},
   yours |-> {PodcastReview(u) : u \in GetOwnPodcastReview(m.by)},
   total |-> CountPodcastReviews(m.by)]

GetEpisodeReactionCounts(e) == Cardinality(reactions[e])
GetOwnEpisodeReaction(v, e) == IF v \in reactions[e] THEN 1 ELSE 0
PostEpisodeReactions(m) ==
  LET e == canonicalEpisodeUuid(m.ep)
  IN [count |-> GetEpisodeReactionCounts(e), yours |-> GetOwnEpisodeReaction(m.by, e)]

(* total and, scaled by it, the average *)
GetPodcastRatingAggregate ==
  [total |-> Cardinality({u \in User : ratings[u] # 0}),
   ones  |-> Cardinality({u \in User : ratings[u] = 1}),
   fives |-> Cardinality({u \in User : ratings[u] = 5})]

----------------------------------------------------------------------------
(* The state has its type. *)
TypeOK ==
  /\ items \in Seq(SharedItem \cup {Gone}) /\ Len(items) <= MaxItems
  /\ reviews \subseteq User /\ joined \subseteq User /\ ratings \in [User -> {0, 1, 5}]
  /\ reactions \in [Uuid -> SUBSET User] /\ req \in [Request -> ReqType]
  /\ GetPodcastRatingAggregate.total = GetPodcastRatingAggregate.ones + GetPodcastRatingAggregate.fives

(* After an erasure neither an item the user sent or received nor a review of
   theirs is left, but for those that were being written meanwhile. *)
ErasedSaysNothing ==
  /\ \A i \in Ids : {items[i].from, items[i].to} \subseteq joined \/ i \in late
  /\ reviews \subseteq joined \cup late

(* Totals are those of the pages, though page and total are separate queries
   and the reviews of the page are checked for blocks a second time; only a
   review written after its author's erasure is counted and not shown. *)
CountsMatchPages ==
  /\ \A m \in PodcastReviewsRequest :
       LET page == PostPodcastReviews(m)
       IN /\ page.total = Cardinality(page.reviews) + Cardinality({u \in (late \cap User) \ joined :
                                                              Shown(blocks, mutes, m.by, u)})
          /\ page.yours \subseteq page.reviews
  /\ \A u \in joined :
       LET inbox == InboxResponse(u)
       IN inbox.total = Cardinality(inbox.items) /\ inbox.unread <= inbox.total
  /\ \A m \in EpisodeReactionsRequest : PostEpisodeReactions(m).yours <= PostEpisodeReactions(m).count

(* An item whose arrival was pushed to someone is in that user's inbox until
   it is deleted, its sender is blocked or muted or gone. *)
PushedIsListed ==
  \A p \in told : p[2] \in Ids =>
    \/ p[2] \in GetInboxItems(p[1])
    \/ ~Shown(blocks, mutes, p[1], items[p[2]].from) \/ items[p[2]].from \notin joined
=============================================================================
