------------------------------- MODULE MCPeople -------------------------------
(***************************************************************************)
(* What users may do with and see of each other, on small instances: one   *)
(* group (Groups, whose definitions are those of this module too), one     *)
(* shared list, the social reads, and the three kinds of limits.  A        *)
(* behaviour follows the one that part names while the others keep their   *)
(* initial state.                                                          *)
(***************************************************************************)
EXTENDS Groups, TLC

CONSTANTS
  Episode, EntryCap, CollaboratorCap, MaxListRequests, MaxFaults,    \* SharedLists
  MaxChanges, MaxUpdates,                                            \* SocialReads
  Client, ReportsPerDay, Day, Limit, Window,                         \* Quotas
  PerMinute, EvictAfter, SweepThreshold, MaxClock, MaxTries

ASSUME PeopleAssumption ==
  /\ "anonymous" \notin User         \* a viewer without a session is no user
  /\ IsFiniteSet(Request) /\ Request # {}
  /\ EntryCap \in Nat \ {0} /\ CollaboratorCap \in Nat \ {0}
  /\ MaxListRequests \in Nat /\ MaxFaults \in Nat /\ MaxChanges \in Nat /\ MaxUpdates \in Nat
  /\ ReportsPerDay \in Nat /\ Day \in Nat /\ Limit \in Nat \ {0} /\ Window \in Nat \ {0}
  /\ SweepThreshold \in Nat /\ MaxClock \in Nat \ {0} /\ MaxTries \in Nat
  /\ PerMinute \in Nat
  /\ EvictAfter \in Nat /\ EvictAfter >= 2   \* an idle bucket of twice the rate is full

VARIABLES
  part,
  curator, tier, entries, member, follows, raced, faults, late, held,
  profile, graph, mutes, asked, cuts, loose, changes, updates,
  now, tries, reports, lock, report, counter, allowed, clients, ideal

List  == INSTANCE SharedLists
  WITH owner <- curator, vis <- tier, role <- member, MaxRequests <- MaxListRequests
Reads == INSTANCE SocialReads WITH follows <- graph
Quota == INSTANCE Quotas

groupOnly  == <<group, rows, overlap, erasedTwice>>
listOnly   == <<curator, tier, entries, member, follows, raced, faults, late, held>>
readOnly   == <<profile, graph, mutes, asked, cuts, loose, changes, updates>>
quotaVars  == <<now, tries, reports, lock, report, counter, allowed, clients, ideal>>
requestVars == <<joined, req, started>>
peopleVars == <<part, vars, listOnly, readOnly, quotaVars>>

NoGroup ==
  /\ owner = NoOne /\ vis = "private" /\ role = [u \in User |-> "none"] /\ tenure = {}
  /\ overlap = FALSE /\ erasedTwice = FALSE
NoList ==
  /\ curator = NoOne /\ tier = "private" /\ entries = {} /\ member = << >>
  /\ follows = {} /\ raced = FALSE /\ faults = 0 /\ late = {} /\ held = {}
NoRequests ==
  /\ joined = {} /\ req = << >> /\ started = 0
NoReads ==
  /\ profile = << >> /\ graph = << >> /\ mutes = {} /\ asked = {} /\ cuts = {} /\ loose = {}
  /\ changes = 0 /\ updates = 0
NoQuota ==
  /\ now = 0 /\ tries = 0 /\ reports = {} /\ lock = {} /\ report = << >> /\ counter = << >>
  /\ allowed = {} /\ clients = << >> /\ ideal = << >>
PeopleInit ==
  /\ part \in {"group", "list", "reads", "reports", "window", "buckets"}
  /\ part \notin {"group", "list"} => NoRequests
  /\ blocks = {}
  /\ IF part = "group" THEN Init ELSE NoGroup
  /\ IF part = "list" THEN List!Init ELSE NoList
  /\ IF part = "reads" THEN Reads!Init ELSE NoReads
  /\ IF part \in {"reports", "window", "buckets"} THEN Quota!Init ELSE NoQuota

GroupStep == part = "group" /\ Next /\ UNCHANGED <<part, listOnly, readOnly, quotaVars>>
ListStep  == part = "list" /\ List!Next /\ UNCHANGED <<part, groupOnly, readOnly, quotaVars>>
ReadStep  == part = "reads" /\ Reads!Next /\ UNCHANGED <<part, groupOnly, requestVars, listOnly, quotaVars>>
QuotaStep ==
  /\ \/ part = "reports" /\ Quota!ReportNext
     \/ part = "window" /\ Quota!LimitNext
     \/ part = "buckets" /\ Quota!AllowNext
     \/ part \in {"reports", "window", "buckets"} /\ Quota!Tick
  /\ UNCHANGED <<part, vars, listOnly, readOnly>>

(* A bound is reached, the group or list is deleted or nobody is left. *)
Ends ==
  /\ \/ part = "group" /\ (started = MaxRequests \/ ~Exists)
     \/ part = "list" /\ (started = MaxListRequests \/ curator = NoOne \/ joined = {})
     \/ part = "reads" /\ changes = MaxChanges
     \/ part \notin {"group", "list", "reads"} /\ now = MaxClock
  /\ UNCHANGED peopleVars

PeopleNext == GroupStep \/ ListStep \/ ReadStep \/ QuotaStep \/ Ends

PeopleSpec == PeopleInit /\ [][PeopleNext]_peopleVars

Symmetry == Permutations(User) \cup Permutations(Request) \cup Permutations(Episode)

----------------------------------------------------------------------------
(* Group, list, graph and limiters have their types; an episode is listed
   once. *)
TypesOK ==
  CASE part = "group" -> TypeOK [] part = "list" -> List!TypeOK
    [] part = "reads" -> Reads!TypeOK [] OTHER -> Quota!TypeOK

(* The group's owner, through every succession, has the only owner's row; while
   requests come one after the other that owner presides over the group, and
   every read of its members agrees. *)
GroupIsWhole == part = "group" => OneOwnerRow /\ OwnerPresides /\ RosterAgrees

(* Erasure leaves no list, membership or attribution of the user, but for a
   write that was under way. *)
ErasedLeavesNothing == part = "list" => List!ErasedLeavesNothing

(* "mutual invisibility", as far as the code keeps it.  The reads that ask for
   blocks name nobody across one, and no shared list opens across one; those
   that count on follows having been deleted do so only while they are being
   deleted or by a follow that the block missed, and the list overviews only to
   those who were on the list when the block was made.  No read names anyone who
   was erased.  What was listened to, subscribed to or counted reaches others
   only as far as its tier says. *)
ReadsRespectPrivacy ==
  /\ part = "reads" => Reads!InvisibleAcrossBlocks /\ Reads!TiersHold /\ Reads!FollowTotals
  /\ part = "list" => List!HiddenAcrossBlock

(* The caps of a list hold as far as requests do not overlap.  At no time are
   there more reports of one user from the last day than the quota, however
   many requests count at once.  A key gets through at most twice its limit in
   any interval of the window's length and is let through again when its window
   ends, however often it asks; evicting a client's bucket forgives it nothing. *)
LimitsHold ==
  /\ part = "list" => List!CapsHold
  /\ part = "reports" => Quota!ReportQuota
  /\ part = "window" => Quota!WindowLimit /\ Quota!WindowReopens
  /\ part = "buckets" => Quota!EvictionExact
=============================================================================
