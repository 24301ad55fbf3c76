------------------------------- MODULE MCSocial -------------------------------
(***************************************************************************)
(* What overlapping requests do to the names, follows, words and sessions  *)
(* of two users, on small instances: the follow graph (SocialGraph, whose  *)
(* definitions are those of this module too), the comments of an episode,  *)
(* the posts of a group, what is sent, reviewed and rated, and the         *)
(* sessions of one account.  A behaviour follows the one that part names   *)
(* while the others keep their initial state.                              *)
(***************************************************************************)
EXTENDS SocialGraph, TLC

CONSTANTS
  MaxComments, MaxPosts, MaxItems, Slots,
  MaxTalk,          \* bound: operations on comments or posts
  MaxShares,        \* bound: operations on items, reviews and ratings
  MaxTokens, MaxPasswords                       \* Sessions

ASSUME TalkAssumption ==
  /\ MaxComments \in Nat /\ MaxPosts \in Nat /\ MaxItems \in Nat
  /\ MaxTalk \in Nat /\ MaxShares \in Nat
  /\ Slots \in Nat \ {0}
  /\ MaxTokens \in Nat \ {0} /\ MaxPasswords \in Nat \ {0}
  /\ IsFiniteSet(Request)

(* Users are neither numbers, as the ids of items are, nor nobody. *)
ASSUME UserAssumption == IsFiniteSet(User) /\ User \cap Nat = {} /\ "no one" \notin User

VARIABLES
  part, joined, late,
  comments, bridged, playback, seen, told,
  posts, role, notify, queue, fanout, done, tried, steady,
  items, reviews, ratings, reactions, heard,
  used, family, parent, live, password, deleted, code, login,
  born, closed, escaped, underway, since

Thread == INSTANCE Comments WITH MaxRequests <- MaxTalk, pushes <- told
Post   == INSTANCE GroupPosts WITH MaxRequests <- MaxTalk
Share  == INSTANCE Sharing WITH MaxRequests <- MaxShares
Login  == INSTANCE Sessions WITH req <- login

graphState == <<handles, profile, approval, follows, history>>
graphOnly  == <<graphState, faults>>
threadOnly == <<comments, playback, seen>>
postOnly   == <<posts, role, notify, queue, fanout, done, tried, steady>>
shareOnly  == <<items, reviews, ratings, reactions, heard>>
talkVars   == <<joined, late, bridged, told, threadOnly, postOnly, shareOnly>>
loginOnly  == <<used, family, parent, live, password, deleted, code, login,
                born, closed, escaped, underway, since>>
socialVars == <<part, vars, talkVars, loginOnly>>

NoGroup ==
  /\ posts = << >> /\ role = [u \in User |-> "none"] /\ notify = {} /\ queue = FALSE
  /\ fanout = {} /\ done = {} /\ tried = {} /\ steady = {}
Unheard ==
  /\ items = << >> /\ reviews = {} /\ ratings = [u \in User |-> 0]
  /\ reactions = [e \in Share!Uuid |-> {}] /\ heard = {}
NoSession ==
  /\ used = 0 /\ family = << >> /\ parent = << >> /\ live = {}
  /\ password = 0 /\ deleted = FALSE /\ code = "none" /\ login = << >> /\ born = << >>
  /\ closed = {} /\ escaped = {} /\ underway = 0 /\ since = 0
SocialInit ==
  /\ part \in {"graph", "comments", "posts", "sharing", "sessions"}
  /\ Init /\ Thread!Init
  /\ IF part = "posts" THEN Post!Init ELSE NoGroup
  /\ IF part = "sharing" THEN Share!Init ELSE Unheard
  /\ IF part = "sessions" THEN Login!Init ELSE NoSession
  /\ part # "graph" => \A h \in Handle : handles[h] = "free"
  /\ part # "comments" => \A u \in User : playback[u].catalog = "enough"

GraphStep == part = "graph" /\ Next /\ UNCHANGED <<part, talkVars, loginOnly>>
CommentStep ==
  /\ part = "comments" /\ Thread!Next
  /\ UNCHANGED <<part, graphOnly, postOnly, shareOnly, loginOnly>>
PostStep ==
  /\ part = "posts" /\ Post!Next
  /\ UNCHANGED <<part, graphOnly, bridged, told, threadOnly, shareOnly, loginOnly>>
ShareStep ==
  /\ part = "sharing" /\ Share!Next
  /\ UNCHANGED <<part, graphOnly, threadOnly, postOnly, loginOnly>>
SessionStep ==
  /\ part = "sessions" /\ Login!Next
  /\ UNCHANGED <<part, graphState, blocks, mutes, req, started, talkVars>>

(* The bound on operations is reached. *)
TalkEnds ==
  /\ part \notin {"graph", "sessions"}
  /\ started = IF part = "sharing" THEN MaxShares ELSE MaxTalk
  /\ UNCHANGED socialVars

SocialNext == GraphStep \/ CommentStep \/ PostStep \/ ShareStep \/ SessionStep \/ TalkEnds

SocialSpec == SocialInit /\ [][SocialNext]_socialVars

Symmetry == Permutations(Request) \cup Permutations(User) \cup Permutations(Handle)

----------------------------------------------------------------------------
(* Graph, comments, posts and shared items have their types; a reply belongs
   to the episode and the thread of its parent. *)
TypesOK ==
  /\ part = "graph" => TypeOK
  /\ part = "comments" => Thread!TypeOK
  /\ part = "posts" => Post!TypeOK
  /\ part = "sharing" => Share!TypeOK

(* What others rely on is not rewritten: a handle that was claimed names its
   account or nobody from then on, and a comment or post changes only while no
   reply exists that was there when the edit was checked. *)
PublishedStays ==
  HandleNeverReissued /\ Thread!EditedBeforeReplies /\ Post!EditedBeforeReplies

(* What was removed, by its author, the owner or an erasure, is empty and
   stays so, whatever was under way; erasure leaves no comment, post, review or
   shared item of the user, but for those whose submission was under way. *)
ErasedSaysNothing ==
  /\ Thread!TombstonesAreEmpty /\ Post!TombstonesAreEmpty
  /\ Thread!ErasedSaysNothing /\ Post!ErasedSaysNothing /\ Share!ErasedSaysNothing

(* Reply counts, totals and inboxes agree with the pages they announce. *)
CountsMatchPages ==
  /\ part = "comments" => Thread!CountsMatchPages
  /\ part = "posts" => Post!CountsMatchPages
  /\ part = "sharing" => Share!CountsMatchPages

(* Alerts tell the truth: a follow is announced at most once per row, a reply
   or an item that was pushed to someone is in that user's inbox, and a fan-out
   that ended has told everyone it was for. *)
AlertsAreTrue ==
  /\ OnePushPerFollow /\ Post!FanoutReachesAudience
  /\ part = "comments" => Thread!PushedIsListed
  /\ part = "sharing" => Share!PushedIsListed

(* A refresh token has at most one replacement and a family one live token; a
   family revoked by one of its tokens has none again, unless a rotation was
   under way. *)
FamilyStaysClosed == part = "sessions" => Login!RotatedOnce /\ Login!FamilyStaysClosed
(* A session of an old password survives only where it overlapped the change,
   and a deleted account issues tokens only to requests already under way. *)
RevokedRunsDry == part = "sessions" => Login!OldSessionsEnd /\ Login!DeletedRunsDry
=============================================================================
