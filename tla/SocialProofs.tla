----------------------------- MODULE SocialProofs -----------------------------
(***************************************************************************)
(* For any users, handles, devices and overlapping requests: a handle      *)
(* names one profile and is never issued again, a follow crosses a block   *)
(* only in the cases that SocialGraph names and is announced once, a       *)
(* refresh token is replaced once and a revoked family stays closed.       *)
(***************************************************************************)
EXTENDS MCSocial, FiniteSetTheorems, TLAPS

(* The type invariant of the follow graph is inductive. *)
LEMMA GraphInitType == Init => TypeOK
BY SocialGraphAssumption DEF Init, TypeOK, ReqType

LEMMA EdgeFacts ==
  ASSUME NEW e \in Edge
  PROVE  e[1] \in User /\ e[2] \in User /\ Flip(e) \in Edge /\ Flip(Flip(e)) = e
BY DEF Edge, Flip

LEMMA GraphTypeStep == TypeOK /\ [Next]_vars => TypeOK'
<1> SUFFICES ASSUME TypeOK, [Next]_vars PROVE TypeOK'
  OBVIOUS
<1> USE SocialGraphAssumption DEF TypeOK, Start, Go, requests, history
<1>1. ASSUME NEW r \in Request, NEW m \in JoinRequest, BeginJoin(r, m) PROVE TypeOK'
  <2>1. [op |-> "join", user |-> m.user, handle |-> m.handle] \in ReqType
    BY DEF JoinRequest, ReqType
  <2>2. QED
    BY <1>1, <2>1 DEF BeginJoin
<1>2. ASSUME NEW r \in Request, NEW e \in FollowRequest, ResolveFollow(r, e) PROVE TypeOK'
  <2>1. [op |-> "check", edge |-> e, status |-> IF approval[e[2]] THEN "pending" ELSE "active"]
          \in ReqType
    BY DEF FollowRequest, ReqType
  <2>2. QED
    BY <1>2, <2>1 DEF ResolveFollow
<1>3. ASSUME NEW r \in Request, NEW e \in BlockRequest, Block(r, e) PROVE TypeOK'
  <2>1. [op |-> "sever", edge |-> e] \in ReqType
    BY DEF BlockRequest, ReqType
  <2>2. QED
    BY <1>3, <2>1 DEF Block, BlockRequest
<1>4. ASSUME NEW r \in Request, Join(r) PROVE TypeOK'
  <2>1. req[r].user \in User /\ req[r].handle \in Handle /\ Idle \in ReqType
    BY <1>4 DEF Join, ReqType, Idle
  <2>2. QED
    BY <1>4, <2>1 DEF Join
<1>5. ASSUME NEW r \in Request, CheckBlocked(r) PROVE TypeOK'
  <2>1. [req[r] EXCEPT !.op = "follow"] \in ReqType /\ Idle \in ReqType
    BY <1>5 DEF CheckBlocked, ReqType, Idle
  <2>2. QED
    BY <1>5, <2>1 DEF CheckBlocked
<1>6. ASSUME NEW r \in Request, UpsertFollow(r) PROVE TypeOK'
  <2>1. req[r].edge \in Edge /\ req[r].status \in {"pending", "active"} /\ Idle \in ReqType
        /\ [op |-> "push", edge |-> req[r].edge] \in ReqType
    BY <1>6 DEF UpsertFollow, ReqType, Idle
  <2>2. QED
    BY <1>6, <2>1 DEF UpsertFollow
<1>7. ASSUME NEW r \in Request, NotifyFollow(r) PROVE TypeOK'
  <2>1. req[r].edge \in Edge /\ Idle \in ReqType
    BY <1>7 DEF NotifyFollow, ReqType, Idle
  <2>2. QED
    BY <1>7, <2>1 DEF NotifyFollow
<1>8. ASSUME NEW r \in Request, Sever(r) PROVE TypeOK'
  <2>1. [req[r] EXCEPT !.op = "severBack"] \in ReqType
    BY <1>8 DEF Sever, ReqType, Idle
  <2>2. QED
    BY <1>8, <2>1 DEF Sever, Delete
<1>9. ASSUME NEW r \in Request, SeverBack(r) PROVE TypeOK'
  <2>1. Idle \in ReqType
    BY DEF ReqType
  <2>2. QED
    BY <1>9, <2>1 DEF SeverBack, Delete
<1>10. ASSUME NEW r \in Request, SeverFails(r) PROVE TypeOK'
  <2>1. req[r].edge \in Edge /\ Idle \in ReqType
    BY <1>10 DEF SeverFails, ReqType, Idle
  <2>2. QED
    BY <1>10, <2>1, EdgeFacts DEF SeverFails
<1>11. ASSUME NEW u \in User, Erase(u) PROVE TypeOK'
  BY <1>11 DEF Erase, Delete
<1>12. ASSUME NEW u \in User, NEW require \in BOOLEAN, UpdateProfile(u, require) PROVE TypeOK'
  BY <1>12 DEF UpdateProfile
<1>13. ASSUME NEW e \in Edge, Unfollow(e) \/ Unblock(e) PROVE TypeOK'
  BY <1>13 DEF Unfollow, Unblock, Delete
<1>14. ASSUME NEW m \in FollowApprovalRequest, ApproveFollow(m.edge, m.accept) PROVE TypeOK'
  BY <1>14 DEF ApproveFollow, FollowApprovalRequest, Delete
<1>15. ASSUME NEW m \in MuteRequest, SetMute(m.edge, m.add) PROVE TypeOK'
  BY <1>15 DEF SetMute, MuteRequest
<1>16. CASE UNCHANGED vars
  BY <1>16 DEF vars
<1> QED
  BY <1>1, <1>2, <1>3, <1>4, <1>5, <1>6, <1>7, <1>8, <1>9, <1>10, <1>11, <1>12, <1>13,
     <1>14, <1>15, <1>16
     DEF Next, RequestStep, EraseRequest, UnfollowRequest, BlockRequest

(* Every reachable state of the graph has its type. *)
THEOREM GraphTypeCorrect == Spec => []TypeOK
BY GraphInitType, GraphTypeStep, PTL DEF Spec

----------------------------------------------------------------------------
(* A profile and its handle's row name each other after every step: joining
   is the only step that writes a name, and it writes both or neither. *)
LEMMA HandleStep == TypeOK /\ HandleNamesProfile /\ [Next]_vars => HandleNamesProfile'
<1> SUFFICES ASSUME TypeOK, HandleNamesProfile, [Next]_vars PROVE HandleNamesProfile'
  OBVIOUS
<1>1. ASSUME NEW r \in Request, Join(r) PROVE HandleNamesProfile'
  <2>1. req[r].user \in User /\ req[r].handle \in Handle
    BY <1>1 DEF Join, TypeOK, ReqType, Idle
  <2>2. CASE Claimable(req[r].user, req[r].handle)
    <3>1. profile[req[r].user] = Nobody
      BY <2>1, <2>2 DEF Claimable, HandleNamesProfile, TypeOK
    <3>2. \A u \in User : profile[u] # req[r].handle
      BY <2>1, <2>2, SocialGraphAssumption DEF Claimable, HandleNamesProfile
    <3>3. QED
      BY <1>1, <2>1, <2>2, <3>1, <3>2, SocialGraphAssumption
         DEF Join, HandleNamesProfile, TypeOK, Claimable
  <2>3. CASE ~Claimable(req[r].user, req[r].handle)
    BY <1>1, <2>3 DEF Join, HandleNamesProfile
  <2>4. QED
    BY <2>2, <2>3
<1>2. ASSUME NEW u \in User, Erase(u) PROVE HandleNamesProfile'
  BY <1>2, SocialGraphAssumption DEF Erase, HandleNamesProfile, TypeOK
<1>3. CASE UNCHANGED <<handles, profile>>
  BY <1>3 DEF HandleNamesProfile
<1> QED
  BY <1>1, <1>2, <1>3 DEF Next, RequestStep, BeginJoin, ResolveFollow, Block, CheckBlocked,
     UpsertFollow, NotifyFollow, Sever, SeverBack, SeverFails, EraseRequest, UpdateProfile,
     Unfollow, Unblock, ApproveFollow, SetMute, vars

(* A profile names a handle exactly when that handle's row names the profile,
   for any number of joins and erasures that overlap. *)
THEOREM HandlesCorrect == Spec => []HandleNamesProfile
<1>1. Init => HandleNamesProfile
  BY SocialGraphAssumption DEF Init, HandleNamesProfile
<1>2. QED
  BY <1>1, GraphTypeCorrect, HandleStep, PTL DEF Spec

(* A handle that was claimed keeps its account or becomes a tombstone. *)
HandlesKept ==
  \A h \in Handle : handles[h] # "free" =>
    handles'[h] \in {handles[h]} \cup (IF handles[h] \in User THEN {"tombstoned"} ELSE {})

LEMMA HandlesKeptStep ==
  ASSUME TypeOK, [Next]_vars
  PROVE  HandlesKept
<1>1. ASSUME NEW r \in Request, Join(r) PROVE HandlesKept
  BY <1>1 DEF Join, Claimable, TypeOK, HandlesKept
<1>2. ASSUME NEW u \in User, Erase(u) PROVE HandlesKept
  BY <1>2 DEF Erase, HandlesKept
<1>3. CASE UNCHANGED handles
  BY <1>3 DEF HandlesKept
<1> QED
  BY <1>1, <1>2, <1>3 DEF Next, RequestStep, BeginJoin, ResolveFollow, Block, CheckBlocked,
     UpsertFollow, NotifyFollow, Sever, SeverBack, SeverFails, EraseRequest, UpdateProfile,
     Unfollow, Unblock, ApproveFollow, SetMute, vars

(* A handle that was claimed belongs to its account or to nobody from then
   on: a tombstone is never issued, and a reserved word never was. *)
THEOREM HandlesNeverReissued == Spec => HandleNeverReissued
<1>1. TypeOK /\ [Next]_vars => [HandlesKept]_vars
  BY HandlesKeptStep
<1>2. HandlesKept = (\A h \in Handle : handles[h] # "free" =>
          handles'[h] \in {handles[h]} \cup (IF handles[h] \in User THEN {"tombstoned"} ELSE {}))
  BY DEF HandlesKept
<1>3. QED
  BY <1>1, GraphTypeCorrect, PTL DEF Spec, HandleNeverReissued, HandlesKept

----------------------------------------------------------------------------
(* SeveredUnlessRaced is not inductive: a request between its two deletes
   answers only for the row it has yet to delete.  WillSever(r, e) says that r
   is going to delete e. *)
WillSever(r, e) ==
  \/ req[r].op = "sever" /\ req[r].edge \in {e, Flip(e)}
  \/ req[r].op = "severBack" /\ Flip(req[r].edge) = e

CutOrNamed ==
  \A e \in Edge : follows[e] # "none" =>
    \/ Joined(e[1]) /\ Joined(e[2]) /\ ~Blocked(e)
    \/ \E r \in Request : WillSever(r, e)
    \/ e \in loose

LEMMA CutStep == TypeOK /\ CutOrNamed /\ [Next]_vars => CutOrNamed'
<1> SUFFICES ASSUME TypeOK, CutOrNamed, [Next]_vars PROVE CutOrNamed'
  OBVIOUS
(* What a step keeps that ends no deletion and leaves rows, names and blocks alone. *)
<1>1. ASSUME NEW r \in Request, req[r].op \notin {"sever", "severBack"},
             UNCHANGED <<profile, blocks, follows, loose>>,
             \A q \in Request \ {r} : req'[q] = req[q]
      PROVE  CutOrNamed'
  <2>1. \A e \in Edge, q \in Request : WillSever(q, e) => WillSever(q, e)'
    BY <1>1 DEF WillSever, TypeOK
  <2>2. \A e \in Edge : Joined(e[1])' = Joined(e[1]) /\ Joined(e[2])' = Joined(e[2])
                        /\ Blocked(e)' = Blocked(e)
    BY <1>1 DEF Joined, Blocked
  <2>3. QED
    BY <1>1, <2>1, <2>2 DEF CutOrNamed
<1>2. ASSUME NEW r \in Request, NEW m \in JoinRequest, BeginJoin(r, m) PROVE CutOrNamed'
  <2>1. /\ req[r].op = "idle" /\ UNCHANGED <<profile, blocks, follows, loose>>
        /\ \A q \in Request \ {r} : req'[q] = req[q]
    BY <1>2 DEF BeginJoin, Start, Idle, history, TypeOK
  <2>2. QED
    BY <1>1, <2>1
<1>3. ASSUME NEW r \in Request, NEW e \in FollowRequest, ResolveFollow(r, e) PROVE CutOrNamed'
  <2>1. /\ req[r].op = "idle" /\ UNCHANGED <<profile, blocks, follows, loose>>
        /\ \A q \in Request \ {r} : req'[q] = req[q]
    BY <1>3 DEF ResolveFollow, Start, Idle, history, TypeOK
  <2>2. QED
    BY <1>1, <2>1
<1>4. ASSUME NEW r \in Request, CheckBlocked(r) PROVE CutOrNamed'
  BY <1>1, <1>4 DEF CheckBlocked, Go, history, TypeOK
<1>5. ASSUME NEW r \in Request, NotifyFollow(r) PROVE CutOrNamed'
  BY <1>1, <1>5 DEF NotifyFollow, Go, TypeOK
<1>6. ASSUME NEW r \in Request, Join(r) PROVE CutOrNamed'
  <2>1. /\ req[r].user \in User /\ req[r].handle \in Handle
        /\ req[r].op = "join" /\ req' = [req EXCEPT ![r] = Idle]
        /\ UNCHANGED <<blocks, follows, loose>>
    BY <1>6 DEF Join, Go, TypeOK, ReqType, Idle, history
  <2>2. \A u \in User : Joined(u) => Joined(u)'
    BY <1>6, <2>1, SocialGraphAssumption DEF Join, Joined, TypeOK
  <2>3. \A e \in Edge, q \in Request : WillSever(q, e) => WillSever(q, e)'
    BY <2>1 DEF WillSever, TypeOK
  <2>4. QED
    BY <2>1, <2>2, <2>3, EdgeFacts DEF CutOrNamed, Blocked
(* A row that is inserted joins two profiles, or is named. *)
<1>7. ASSUME NEW r \in Request, UpsertFollow(r) PROVE CutOrNamed'
  <2>1. /\ req[r].op = "follow" /\ UNCHANGED <<profile, blocks>>
        /\ \A q \in Request \ {r} : req'[q] = req[q]
    BY <1>7 DEF UpsertFollow, Go, TypeOK
  <2>2. \A e \in Edge, q \in Request : WillSever(q, e) => WillSever(q, e)'
    BY <2>1 DEF WillSever, TypeOK
  <2>3. \A e \in Edge : (follows'[e] = follows[e] /\ (e \in loose => e \in loose'))
          \/ (Joined(e[1]) /\ Joined(e[2]) /\ ~Blocked(e)) \/ e \in loose'
    BY <1>7 DEF UpsertFollow, TypeOK
  <2>4. \A e \in Edge : Joined(e[1])' = Joined(e[1]) /\ Joined(e[2])' = Joined(e[2])
                        /\ Blocked(e)' = Blocked(e)
    BY <2>1 DEF Joined, Blocked
  <2>5. QED
    BY <2>2, <2>3, <2>4 DEF CutOrNamed
(* The request that blocks is going to delete both rows. *)
<1>8. ASSUME NEW r \in Request, NEW e \in Edge, Block(r, e) PROVE CutOrNamed'
  <2>1. /\ req[r] = Idle /\ req' = [req EXCEPT ![r] = [op |-> "sever", edge |-> e]]
        /\ blocks' = blocks \cup {e} /\ UNCHANGED <<profile, follows, loose>>
    BY <1>8 DEF Block, Start, history
  <2>2. \A f \in Edge, q \in Request : WillSever(q, f) => WillSever(q, f)'
    BY <2>1 DEF WillSever, TypeOK, Idle
  <2>3. \A f \in {e, Flip(e)} : WillSever(r, f)'
    BY <2>1, EdgeFacts DEF WillSever, TypeOK
  <2>4. \A f \in Edge : f \notin {e, Flip(e)} => Blocked(f)' = Blocked(f)
    BY <2>1, EdgeFacts DEF Blocked
  <2>5. \A f \in Edge : Joined(f[1])' = Joined(f[1]) /\ Joined(f[2])' = Joined(f[2])
    BY <2>1 DEF Joined
  <2>6. QED
    BY <2>1, <2>2, <2>3, <2>4, <2>5 DEF CutOrNamed
<1>9. ASSUME NEW r \in Request, Sever(r) PROVE CutOrNamed'
  <2>1. /\ req[r].op = "sever" /\ req[r].edge \in Edge
        /\ req' = [req EXCEPT ![r] = [req[r] EXCEPT !.op = "severBack"]]
        /\ [req[r] EXCEPT !.op = "severBack"] = [op |-> "severBack", edge |-> req[r].edge]
    BY <1>9 DEF Sever, Go, TypeOK, ReqType, Idle
  <2>2. \A f \in Edge, q \in Request :
           WillSever(q, f) => WillSever(q, f)' \/ (q = r /\ f = req[r].edge)
    BY <2>1, EdgeFacts DEF WillSever, TypeOK
  <2>3. \A f \in Edge : /\ follows'[f] # "none" => follows'[f] = follows[f] /\ f # req[r].edge
                        /\ f \in loose /\ f # req[r].edge => f \in loose'
                        /\ Joined(f[1])' = Joined(f[1]) /\ Joined(f[2])' = Joined(f[2])
                        /\ Blocked(f)' = Blocked(f)
    BY <1>9 DEF Sever, Delete, Joined, Blocked
  <2>4. QED
    BY <2>2, <2>3 DEF CutOrNamed
<1>10. ASSUME NEW r \in Request, SeverBack(r) PROVE CutOrNamed'
  <2>1. req[r].op = "severBack" /\ req[r].edge \in Edge /\ req' = [req EXCEPT ![r] = Idle]
    BY <1>10 DEF SeverBack, Go, TypeOK, ReqType, Idle
  <2>2. \A f \in Edge, q \in Request :
           WillSever(q, f) => WillSever(q, f)' \/ (q = r /\ f = Flip(req[r].edge))
    BY <2>1, EdgeFacts DEF WillSever, TypeOK
  <2>3. \A f \in Edge :
           /\ follows'[f] # "none" => follows'[f] = follows[f] /\ f # Flip(req[r].edge)
           /\ f \in loose /\ f # Flip(req[r].edge) => f \in loose'
           /\ Joined(f[1])' = Joined(f[1]) /\ Joined(f[2])' = Joined(f[2])
           /\ Blocked(f)' = Blocked(f)
    BY <1>10 DEF SeverBack, Delete, Joined, Blocked
  <2>4. QED
    BY <2>2, <2>3 DEF CutOrNamed
<1>11. ASSUME NEW r \in Request, SeverFails(r) PROVE CutOrNamed'
  <2>1. /\ req[r].edge \in Edge /\ req' = [req EXCEPT ![r] = Idle]
        /\ loose' = loose \cup {e \in {req[r].edge, Flip(req[r].edge)} : follows[e] # "none"}
        /\ UNCHANGED <<profile, blocks, follows>>
    BY <1>11 DEF SeverFails, TypeOK, ReqType, Idle
  <2>2. \A f \in Edge, q \in Request :
           WillSever(q, f) => WillSever(q, f)' \/ (q = r /\ f \in {req[r].edge, Flip(req[r].edge)})
    BY <2>1, EdgeFacts DEF WillSever, TypeOK
  <2>3. \A f \in Edge : Joined(f[1])' = Joined(f[1]) /\ Joined(f[2])' = Joined(f[2])
                        /\ Blocked(f)' = Blocked(f)
    BY <2>1 DEF Joined, Blocked
  <2>4. QED
    BY <2>1, <2>2, <2>3 DEF CutOrNamed
<1>12. ASSUME NEW u \in User, Erase(u) PROVE CutOrNamed'
  <2>1. \A f \in Edge, q \in Request : WillSever(q, f) => WillSever(q, f)'
    BY <1>12 DEF WillSever, Erase, requests
  <2>2. \A f \in Edge : f \notin Touching(u) =>
           /\ Joined(f[1])' = Joined(f[1]) /\ Joined(f[2])' = Joined(f[2])
           /\ Blocked(f)' => Blocked(f)
    BY <1>12, EdgeFacts DEF Erase, Joined, Blocked, Touching, TypeOK
  <2>3. \A f \in Edge : /\ follows'[f] # "none" => follows'[f] = follows[f] /\ f \notin Touching(u)
                        /\ f \in loose /\ f \notin Touching(u) => f \in loose'
    BY <1>12 DEF Erase, Delete
  <2>4. QED
    BY <2>1, <2>2, <2>3 DEF CutOrNamed
(* Nothing else takes a profile away, adds a block or inserts a row. *)
<1>13. ASSUME NEW E \in SUBSET Edge, UNCHANGED <<profile, req>>, blocks' \subseteq blocks,
              \/ UNCHANGED loose /\ (\A f \in Edge : follows'[f] # "none" => follows[f] # "none")
              \/ Delete(E)
       PROVE  CutOrNamed'
  <2>1. \A f \in Edge, q \in Request : WillSever(q, f) => WillSever(q, f)'
    BY <1>13 DEF WillSever
  <2>2. \A f \in Edge : /\ Joined(f[1])' = Joined(f[1]) /\ Joined(f[2])' = Joined(f[2])
                        /\ Blocked(f)' => Blocked(f)
    BY <1>13 DEF Joined, Blocked
  <2>3. \A f \in Edge : follows'[f] # "none" => follows[f] # "none" /\ (f \in loose => f \in loose')
    BY <1>13 DEF Delete
  <2>4. QED
    BY <2>1, <2>2, <2>3 DEF CutOrNamed
<1>14. ASSUME NEW u \in User, NEW require \in BOOLEAN, UpdateProfile(u, require)
       PROVE  CutOrNamed'
  BY <1>13, <1>14 DEF UpdateProfile, requests, history
<1>15. ASSUME NEW e \in Edge, Unfollow(e) \/ Unblock(e) PROVE CutOrNamed'
  BY <1>13, <1>15 DEF Unfollow, Unblock, requests, history
<1>16. ASSUME NEW m \in FollowApprovalRequest, ApproveFollow(m.edge, m.accept) PROVE CutOrNamed'
  <2>1. m.edge \in Edge
    BY DEF FollowApprovalRequest
  <2>2. CASE m.accept
    <3>1. \A f \in Edge : follows'[f] # "none" => follows[f] # "none"
      BY <1>16, <2>1, <2>2 DEF ApproveFollow, TypeOK
    <3>2. QED
      BY <1>13, <1>16, <2>2, <3>1 DEF ApproveFollow, requests, history
  <2>3. CASE ~m.accept
    BY <1>13, <1>16, <2>1, <2>3 DEF ApproveFollow, requests
  <2>4. QED
    BY <2>2, <2>3
<1>17. ASSUME NEW m \in MuteRequest, SetMute(m.edge, m.add) PROVE CutOrNamed'
  BY <1>13, <1>17 DEF SetMute, requests, history
<1>18. CASE UNCHANGED vars
  BY <1>13, <1>18 DEF vars, requests, history
<1> QED
  BY <1>2, <1>3, <1>4, <1>5, <1>6, <1>7, <1>8, <1>9, <1>10, <1>11, <1>12, <1>14, <1>15,
     <1>16, <1>17, <1>18
     DEF Next, RequestStep, EraseRequest, UnfollowRequest, BlockRequest

(* Every follow joins two profiles that do not block each other, but in the
   cases SeveredUnlessRaced names: a block that is still deleting, one whose
   delete failed, and an insertion after a block or an erasure that came later
   than its own checks. *)
THEOREM FollowsSevered == Spec => []SeveredUnlessRaced
<1>1. Init => CutOrNamed
  BY DEF Init, CutOrNamed
<1>2. TypeOK /\ CutOrNamed => SeveredUnlessRaced
  BY EdgeFacts DEF CutOrNamed, SeveredUnlessRaced, Severing, WillSever, TypeOK, ReqType, Idle
<1>3. QED
  BY <1>1, <1>2, GraphTypeCorrect, CutStep, PTL DEF Spec

----------------------------------------------------------------------------
(* Announcements of a follow: those sent and those about to be sent are no
   more than the rows inserted. *)
Announcing(e) == {r \in Request : req[r].op = "push" /\ req[r].edge = e}
PushInv == \A e \in Edge : pushes[e] + Cardinality(Announcing(e)) <= inserts[e]

LEMMA AnnouncingType ==
  ASSUME NEW e
  PROVE  /\ IsFiniteSet(Announcing(e)) /\ Cardinality(Announcing(e)) \in Nat
         /\ IsFiniteSet(Announcing(e)') /\ Cardinality(Announcing(e)') \in Nat
<1>1. IsFiniteSet(Request)
  BY Zenon, TalkAssumption
<1>2. Announcing(e) \subseteq Request /\ Announcing(e)' \subseteq Request
  BY DEF Announcing
<1>3. QED
  BY <1>1, <1>2, FS_Subset, FS_CardinalityType

(* One request more or less among those that announce. *)
LEMMA OneMore ==
  ASSUME NEW S, IsFiniteSet(S), NEW r
  PROVE  /\ r \in S => Cardinality(S \ {r}) + 1 = Cardinality(S)
         /\ Cardinality(S \cup {r}) <= Cardinality(S) + 1
         /\ Cardinality(S) \in Nat /\ Cardinality(S \cup {r}) \in Nat
<1>1. Cardinality(S) \in Nat /\ Cardinality(S \ {r}) \in Nat /\ Cardinality(S \cup {r}) \in Nat
  BY FS_CardinalityType, FS_AddElement, FS_RemoveElement
<1>2. Cardinality(S \cup {r}) = IF r \in S THEN Cardinality(S) ELSE Cardinality(S) + 1
  BY FS_AddElement
<1>3. Cardinality(S \ {r}) = IF r \in S THEN Cardinality(S) - 1 ELSE Cardinality(S)
  BY FS_RemoveElement
<1>4. QED
  BY <1>1, <1>2, <1>3

(* A step that sends nothing and makes no request announce. *)
QuietStep ==
  /\ UNCHANGED pushes /\ \A e \in Edge : inserts'[e] \in Nat /\ inserts'[e] >= inserts[e]
  /\ \A e \in Edge : Announcing(e)' \subseteq Announcing(e)

LEMMA QuietPushes == TypeOK /\ PushInv /\ QuietStep => PushInv'
<1>1. SUFFICES ASSUME TypeOK, PushInv, QuietStep, NEW e \in Edge
               PROVE  (pushes[e] + Cardinality(Announcing(e)) <= inserts[e])'
  BY DEF PushInv
<1>2. /\ pushes[e] \in Nat /\ inserts[e] \in Nat /\ inserts'[e] \in Nat /\ inserts[e] <= inserts'[e]
      /\ pushes'[e] = pushes[e] /\ pushes[e] + Cardinality(Announcing(e)) <= inserts[e]
  BY <1>1 DEF TypeOK, PushInv, QuietStep
<1>3. Cardinality(Announcing(e)') <= Cardinality(Announcing(e))
  <2>1. Announcing(e)' \subseteq Announcing(e)
    BY <1>1 DEF QuietStep
  <2>2. QED
    BY <2>1, AnnouncingType, FS_Subset
<1>4. Cardinality(Announcing(e)) \in Nat /\ Cardinality(Announcing(e)') \in Nat
  BY AnnouncingType
<1> DEFINE n == Cardinality(Announcing(e))
           k == Cardinality(Announcing(e)')
<1>5. n \in Nat /\ k \in Nat /\ k <= n /\ pushes[e] + n <= inserts[e]
  BY <1>2, <1>3, <1>4
<1> HIDE DEF n, k
<1>6. pushes'[e] + k <= inserts'[e]
  BY <1>2, <1>5
<1>7. QED
  BY <1>6 DEF k

LEMMA QuietCases ==
  ASSUME TypeOK, [Next]_vars
  PROVE  \/ QuietStep
         \/ \E r \in Request : UpsertFollow(r) /\ follows[req[r].edge] = "none"
         \/ \E r \in Request : NotifyFollow(r)
<1>1. \A e \in Edge : inserts[e] \in Nat
  BY DEF TypeOK
<1>2. ASSUME UNCHANGED <<inserts, pushes, req>> PROVE QuietStep
  BY <1>1, <1>2 DEF QuietStep, Announcing
<1>3. ASSUME NEW r \in Request, NEW q, q.op # "push", req' = [req EXCEPT ![r] = q],
             UNCHANGED <<inserts, pushes>>
      PROVE  QuietStep
  <2>1. \A s \in Request : req'[s] = IF s = r THEN q ELSE req[s]
    BY <1>3 DEF TypeOK
  <2>2. QED
    BY <1>1, <1>3, <2>1 DEF QuietStep, Announcing
<1>4. ASSUME NEW r \in Request, NEW m, BeginJoin(r, m) PROVE QuietStep
  BY <1>3, <1>4 DEF BeginJoin, Start, history
<1>5. ASSUME NEW r \in Request, NEW e, ResolveFollow(r, e) PROVE QuietStep
  <2> DEFINE q == [op |-> "check", edge |-> e,
                   status |-> IF approval[e[2]] THEN "pending" ELSE "active"]
  <2>1. req' = [req EXCEPT ![r] = q] /\ UNCHANGED <<inserts, pushes>>
    BY <1>5 DEF ResolveFollow, Start, history
  <2>2. q.op # "push"
    OBVIOUS
  <2> HIDE DEF q
  <2>3. QED
    BY <1>3, <2>1, <2>2
<1>6. ASSUME NEW r \in Request, NEW e, Block(r, e) PROVE QuietStep
  BY <1>3, <1>6 DEF Block, Start, history
<1>7. Idle.op # "push"
  BY DEF Idle
<1>8. ASSUME NEW r \in Request, Join(r) PROVE QuietStep
  BY <1>3, <1>7, <1>8 DEF Join, Go, history
<1>9. ASSUME NEW r \in Request, CheckBlocked(r) PROVE QuietStep
  <2>1. req[r] \in ReqType /\ req[r].op = "check"
    BY <1>9 DEF TypeOK, CheckBlocked
  <2>2. [req[r] EXCEPT !.op = "follow"].op = "follow"
    BY <2>1 DEF ReqType, Idle
  <2>3. QED
    BY <1>3, <1>7, <1>9, <2>2 DEF CheckBlocked, Go, history
<1>10. ASSUME NEW r \in Request, UpsertFollow(r), follows[req[r].edge] # "none" PROVE QuietStep
  BY <1>3, <1>7, <1>10 DEF UpsertFollow, Go
<1>11. ASSUME NEW r \in Request, Sever(r) PROVE QuietStep
  <2>1. req[r] \in ReqType /\ req[r].op = "sever"
    BY <1>11 DEF TypeOK, Sever
  <2>2. [req[r] EXCEPT !.op = "severBack"].op = "severBack"
    BY <2>1 DEF ReqType, Idle
  <2>3. QED
    BY <1>3, <1>11, <2>2 DEF Sever, Go, Delete
<1>12. ASSUME NEW r \in Request, SeverBack(r) PROVE QuietStep
  BY <1>3, <1>7, <1>12 DEF SeverBack, Go, Delete
<1>13. ASSUME NEW r \in Request, SeverFails(r) PROVE QuietStep
  BY <1>3, <1>7, <1>13 DEF SeverFails
<1>14. ASSUME NEW u, Erase(u) PROVE QuietStep
  BY <1>2, <1>14 DEF Erase, Delete, requests
<1>15. ASSUME NEW u, NEW require, UpdateProfile(u, require) PROVE QuietStep
  BY <1>2, <1>15 DEF UpdateProfile, requests, history
<1>16. ASSUME NEW e, Unfollow(e) \/ Unblock(e) PROVE QuietStep
  BY <1>2, <1>16 DEF Unfollow, Unblock, Delete, requests, history
<1>17. ASSUME NEW e, NEW accept, ApproveFollow(e, accept) PROVE QuietStep
  BY <1>2, <1>17 DEF ApproveFollow, Delete, requests, history
<1>18. ASSUME NEW e, NEW add, SetMute(e, add) PROVE QuietStep
  BY <1>2, <1>18 DEF SetMute, requests, history
<1>19. CASE UNCHANGED vars
  BY <1>2, <1>19 DEF vars, requests, history
<1> QED
  BY <1>4, <1>5, <1>6, <1>8, <1>9, <1>10, <1>11, <1>12, <1>13, <1>14, <1>15, <1>16, <1>17,
     <1>18, <1>19 DEF Next, RequestStep

LEMMA PushStep == TypeOK /\ PushInv /\ [Next]_vars => PushInv'
<1> SUFFICES ASSUME TypeOK, PushInv, [Next]_vars PROVE PushInv'
  OBVIOUS
<1>1. ASSUME NEW r \in Request, UpsertFollow(r), follows[req[r].edge] = "none" PROVE PushInv'
  <2> DEFINE c == req[r].edge
             q == [op |-> "push", edge |-> c]
  <2>1. req[r] \in ReqType /\ req[r].op = "follow"
    BY <1>1 DEF TypeOK, UpsertFollow
  <2>2. c \in Edge
    BY <2>1 DEF ReqType, Idle
  <2>3. /\ inserts' = [inserts EXCEPT ![c] = @ + 1] /\ pushes' = pushes
        /\ req' = [req EXCEPT ![r] = q] /\ req \in [Request -> ReqType]
    BY <1>1 DEF UpsertFollow, Go, TypeOK
  <2>4. q.op = "push" /\ q.edge = c
    OBVIOUS
  <2> HIDE DEF c, q
  <2>5. SUFFICES ASSUME NEW e \in Edge
                 PROVE  (pushes[e] + Cardinality(Announcing(e)) <= inserts[e])'
    BY DEF PushInv
  <2>6. /\ pushes[e] \in Nat /\ inserts[e] \in Nat /\ pushes'[e] = pushes[e]
        /\ inserts'[e] = IF e = c THEN inserts[e] + 1 ELSE inserts[e]
        /\ pushes[e] + Cardinality(Announcing(e)) <= inserts[e]
    BY <2>2, <2>3 DEF TypeOK, PushInv
  <2>7. Announcing(e)' = IF e = c THEN Announcing(e) \cup {r} ELSE Announcing(e)
    BY <2>1, <2>3, <2>4 DEF Announcing
  <2> DEFINE n == Cardinality(Announcing(e))
             k == Cardinality(Announcing(e)')
  <2>8. n \in Nat /\ k \in Nat /\ (e = c => k <= n + 1) /\ (e # c => k = n)
    <3>1. n \in Nat /\ k \in Nat /\ IsFiniteSet(Announcing(e))
      BY AnnouncingType
    <3>2. CASE e = c
      <4>1. Announcing(e)' = Announcing(e) \cup {r}
        BY <2>7, <3>2
      <4>2. Cardinality(Announcing(e) \cup {r}) <= n + 1
        BY <3>1, OneMore
      <4>3. QED
        BY <3>1, <3>2, <4>1, <4>2
    <3>3. CASE e # c
      BY <2>7, <3>1, <3>3
    <3>4. QED
      BY <3>2, <3>3
  <2>9. pushes[e] + n <= inserts[e]
    BY <2>6
  <2> HIDE DEF n, k
  <2>10. pushes'[e] + k <= inserts'[e]
    BY <2>6, <2>8, <2>9
  <2>11. QED
    BY <2>10 DEF k
<1>2. ASSUME NEW r \in Request, NotifyFollow(r) PROVE PushInv'
  <2> DEFINE c == req[r].edge
  <2>1. req[r] \in ReqType /\ req[r].op = "push"
    BY <1>2 DEF TypeOK, NotifyFollow
  <2>2. c \in Edge
    BY <2>1 DEF ReqType, Idle
  <2>3. /\ inserts' = inserts /\ pushes' \in {pushes, [pushes EXCEPT ![c] = @ + 1]}
        /\ req' = [req EXCEPT ![r] = Idle] /\ req \in [Request -> ReqType]
    BY <1>2 DEF NotifyFollow, Go, TypeOK
  <2>4. SUFFICES ASSUME NEW e \in Edge
                 PROVE  (pushes[e] + Cardinality(Announcing(e)) <= inserts[e])'
    BY DEF PushInv
  <2>5. Announcing(e)' = IF e = c THEN Announcing(e) \ {r} ELSE Announcing(e)
    BY <2>1, <2>3 DEF Announcing, Idle
  <2>6. r \in Announcing(c)
    BY <2>1 DEF Announcing
  <2> HIDE DEF c
  <2>7. /\ pushes[e] \in Nat /\ inserts[e] \in Nat /\ inserts'[e] = inserts[e]
        /\ pushes'[e] \in Nat /\ pushes'[e] <= pushes[e] + 1
        /\ e # c => pushes'[e] = pushes[e]
        /\ pushes[e] + Cardinality(Announcing(e)) <= inserts[e]
    BY <2>2, <2>3 DEF TypeOK, PushInv
  <2> DEFINE n == Cardinality(Announcing(e))
             k == Cardinality(Announcing(e)')
  <2>8. n \in Nat /\ k \in Nat /\ (e = c => k + 1 = n) /\ (e # c => k = n)
    <3>1. n \in Nat /\ k \in Nat /\ IsFiniteSet(Announcing(e))
      BY AnnouncingType
    <3>2. CASE e = c
      <4>1. Announcing(e)' = Announcing(e) \ {r} /\ r \in Announcing(e)
        BY <2>5, <2>6, <3>2
      <4>2. Cardinality(Announcing(e) \ {r}) + 1 = n
        BY <3>1, <4>1, OneMore
      <4>3. QED
        BY <3>1, <3>2, <4>1, <4>2
    <3>3. CASE e # c
      BY <2>5, <3>1, <3>3
    <3>4. QED
      BY <3>2, <3>3
  <2>9. pushes[e] + n <= inserts[e]
    BY <2>7
  <2> HIDE DEF n, k
  <2>10. pushes'[e] + k <= inserts'[e]
    BY <2>7, <2>8, <2>9
  <2>11. QED
    BY <2>10 DEF k
<1>3. QED
  BY <1>1, <1>2, QuietCases, QuietPushes

LEMMA PushInitInv == Init => PushInv
<1>1. SUFFICES ASSUME Init, NEW e \in Edge PROVE pushes[e] + Cardinality(Announcing(e)) <= inserts[e]
  BY DEF PushInv
<1>2. Announcing(e) = {}
  BY <1>1 DEF Init, Announcing, Idle
<1>3. Cardinality(Announcing(e)) = 0
  BY <1>2, FS_EmptySet
<1>4. QED
  BY <1>1, <1>3 DEF Init

LEMMA PushedOnce == TypeOK /\ PushInv => OnePushPerFollow
<1>1. SUFFICES ASSUME TypeOK, PushInv, NEW e \in Edge PROVE pushes[e] <= inserts[e]
  BY DEF OnePushPerFollow
<1> DEFINE n == Cardinality(Announcing(e))
<1>2. n \in Nat /\ pushes[e] \in Nat /\ inserts[e] \in Nat /\ pushes[e] + n <= inserts[e]
  BY <1>1, AnnouncingType DEF PushInv, TypeOK
<1> HIDE DEF n
<1>3. QED
  BY <1>2

----------------------------------------------------------------------------
(* The sessions of one account (Sessions, here Login): its type invariant. *)
LEMMA SessionsInitType == Login!Init => Login!TypeOK
<1> SUFFICES ASSUME Login!Init PROVE Login!TypeOK
  OBVIOUS
<1> USE SocialGraphAssumption, TalkAssumption DEF Login!Init, Login!Token
<1>1. Login!Idle \in Login!ReqType
  BY DEF Login!ReqType
<1>2. login \in [Request -> Login!ReqType]
  BY <1>1
<1>3. used \in Login!Token /\ live \subseteq Login!Issued
  BY DEF Login!Issued
<1>4. /\ family \in [Login!Token -> 0 .. MaxTokens] /\ parent \in [Login!Token -> 0 .. MaxTokens]
      /\ born \in [Login!Token -> 1 .. MaxPasswords] /\ password \in 1 .. MaxPasswords
  BY DEF Login!RegisterRequest
<1>5. /\ deleted = FALSE /\ code = "none" /\ closed = {} /\ escaped = {}
      /\ faults \in 0 .. MaxFaults /\ underway \in Nat /\ since \in Nat
  OBVIOUS
<1>6. QED
  BY <1>2, <1>3, <1>4, <1>5 DEF Login!TypeOK

(* What issuing a token does to the numbers of tokens. *)
LEMMA Numbers ==
  ASSUME Login!TypeOK
  PROVE  /\ Login!Issued \subseteq Login!Token /\ live \subseteq Login!Issued
         /\ Login!Token \subseteq 0 .. MaxTokens /\ 0 \notin Login!Token
         /\ used < MaxTokens =>
              /\ used + 1 \in Login!Token \ Login!Issued
              /\ used' = used + 1 => Login!Issued' = Login!Issued \cup {used + 1}
<1>1. used \in 1 .. MaxTokens /\ live \subseteq 1 .. used /\ MaxTokens \in Nat \ {0}
  BY TalkAssumption DEF Login!TypeOK, Login!Token, Login!Issued
<1>2. QED
  BY <1>1 DEF Login!Token, Login!Issued

(* The steps that change no more than the state of their request. *)
OnlyRequest(r) ==
  \/ \E m \in Login!UserLoginRequest : Login!BeginLogin(r, m)
  \/ \E m \in Login!UserTokenRequest : Login!Exchange(r, m.token, m.device)
  \/ \E t \in Login!UserRevokeRequest : Login!BeginRevoke(r, t)
  \/ \E old \in Login!UserChangePasswordRequest : Login!BeginChange(r, old)
  \/ \E presented \in Login!UserResetPasswordRequest : Login!BeginReset(r, presented)
  \/ Login!BeginRevokeAll(r) \/ Login!BeginDelete(r) \/ Login!Fails(r)

SessionVars == <<used, family, parent, live, password, deleted, code, faults,
                 born, closed, escaped, underway, since>>

LEMMA SessionCases ==
  ASSUME [Login!Next]_Login!vars
  PROVE  \/ \E r \in Request : OnlyRequest(r)
         \/ \E r \in Request : Login!Login(r) \/ Login!Rotate(r) \/ Login!RevokeFamily(r)
         \/ \E r \in Request : Login!SetPassword(r) \/ Login!ChangeFails(r) \/ Login!RevokeAll(r)
         \/ Login!IssueCode \/ UNCHANGED Login!vars
BY DEF Login!Next, Login!Step, OnlyRequest

LEMMA OnlyRequestKeeps ==
  ASSUME NEW r \in Request, OnlyRequest(r)
  PROVE  UNCHANGED SessionVars
BY DEF OnlyRequest, SessionVars, Login!BeginLogin, Login!Exchange, Login!BeginRevoke,
       Login!BeginChange, Login!BeginReset, Login!BeginRevokeAll,
       Login!BeginDelete, Login!Fails, Login!tokens, Login!account, Login!history

LEMMA OnlyRequestType ==
  ASSUME Login!TypeOK, NEW r \in Request, OnlyRequest(r)
  PROVE  login' \in [Request -> Login!ReqType]
<1> USE TalkAssumption DEF Login!TypeOK, Login!Start, Login!Go
<1>1. Login!Idle \in Login!ReqType
  BY DEF Login!ReqType
<1>2. ASSUME NEW m \in Login!UserLoginRequest, Login!BeginLogin(r, m)
      PROVE  login' \in [Request -> Login!ReqType]
  <2>1. [op |-> "login", password |-> m] \in Login!ReqType
    BY DEF Login!ReqType
  <2>2. QED
    BY <1>2, <2>1 DEF Login!BeginLogin
<1>3. ASSUME NEW t \in Login!Token
      PROVE  /\ [op |-> "family", token |-> t, snap |-> Login!Family(t)] \in Login!ReqType
             /\ [op |-> "rotate", token |-> t] \in Login!ReqType
  <2>1. Login!Family(t) \in SUBSET Login!Token
    BY DEF Login!Family, Login!Issued, Login!Token
  <2>2. QED
    BY <2>1 DEF Login!ReqType
<1>4. ASSUME NEW m \in Login!UserTokenRequest, Login!Exchange(r, m.token, m.device)
      PROVE  login' \in [Request -> Login!ReqType]
  <2>1. m.token \in Login!Token
    BY DEF Login!UserTokenRequest
  <2>2. QED
    BY <1>3, <1>4, <2>1 DEF Login!Exchange
<1>5. ASSUME NEW t \in Login!UserRevokeRequest, Login!BeginRevoke(r, t)
      PROVE  login' \in [Request -> Login!ReqType]
  BY <1>3, <1>5 DEF Login!BeginRevoke, Login!UserRevokeRequest
<1>6. ASSUME NEW old \in Login!UserChangePasswordRequest, Login!BeginChange(r, old)
      PROVE  login' \in [Request -> Login!ReqType]
  <2>1. [op |-> "change"] \in Login!ReqType
    BY DEF Login!ReqType
  <2>2. QED
    BY <1>6, <2>1 DEF Login!BeginChange
<1>7. \A why \in {"change", "reset", "delete"} :
         [op |-> "all", why |-> why, snap |-> live] \in Login!ReqType
  <2>1. live \in SUBSET Login!Token
    BY DEF Login!Issued, Login!Token
  <2>2. QED
    BY <2>1 DEF Login!ReqType
<1>8. CASE Login!BeginRevokeAll(r) \/ Login!BeginDelete(r)
           \/ \E presented \in Login!UserResetPasswordRequest : Login!BeginReset(r, presented)
  BY <1>7, <1>8 DEF Login!BeginReset, Login!BeginRevokeAll, Login!BeginDelete
<1>9. CASE Login!Fails(r)
  BY <1>1, <1>9 DEF Login!Fails
<1> QED
  BY <1>2, <1>4, <1>5, <1>6, <1>8, <1>9 DEF OnlyRequest

(* What a request may be once such a step has been taken. *)
PendingChange(r) == login[r].op = "changed" \/ (login[r].op = "all" /\ login[r].why = "change")

LEMMA OnlyRequestNext ==
  ASSUME Login!TypeOK, NEW r \in Request, OnlyRequest(r)
  PROVE  /\ \A q \in Request \ {r} : login'[q] = login[q]
         /\ PendingChange(r) => PendingChange(r)'
         /\ \/ login'[r].op \in {"idle", "change"}
            \/ login'[r].op = "login" /\ ~deleted /\ login'[r].password = password
            \/ /\ login'[r].op \in {"rotate", "family"} /\ login'[r].token \in Login!Issued
               /\ ~Login!LockedByOther(r, {login'[r].token})
               /\ login'[r].op = "rotate" => ~deleted /\ login'[r].token \in live
            \/ login'[r].op = "all" /\ login'[r].why = "change"
            \/ /\ login'[r].op = "all" /\ login'[r].why \in {"reset", "delete"}
               /\ ~deleted /\ ~Login!AccountLocked
               /\ login'[r].why = "reset" => password < MaxPasswords
<1>1. login \in [Request -> Login!ReqType] /\ Login!Idle.op = "idle"
  BY DEF Login!TypeOK, Login!Idle
<1> USE <1>1 DEF Login!Start, Login!Go, PendingChange
<1>2. ASSUME NEW m \in Login!UserLoginRequest, Login!BeginLogin(r, m)
      PROVE  login[r] = Login!Idle /\ login' = [login EXCEPT ![r] = [op |-> "login", password |-> m]]
             /\ ~deleted /\ m = password
  BY <1>2 DEF Login!BeginLogin
<1>3. ASSUME NEW m \in Login!UserTokenRequest, Login!Exchange(r, m.token, m.device)
      PROVE  /\ login[r] = Login!Idle /\ m.token \in Login!Issued
             /\ ~Login!LockedByOther(r, {m.token})
             /\ \/ login' = [login EXCEPT ![r] = [op |-> "family", token |-> m.token,
                                                  snap |-> Login!Family(m.token)]]
                \/ /\ login' = [login EXCEPT ![r] = [op |-> "rotate", token |-> m.token]]
                   /\ ~deleted /\ m.token \in live
  BY <1>3 DEF Login!Exchange
<1>4. ASSUME NEW t \in Login!UserRevokeRequest, Login!BeginRevoke(r, t)
      PROVE  /\ login[r] = Login!Idle /\ t \in Login!Issued /\ ~Login!LockedByOther(r, {t})
             /\ login' = [login EXCEPT ![r] = [op |-> "family", token |-> t,
                                               snap |-> Login!Family(t)]]
  BY <1>4 DEF Login!BeginRevoke
<1>5. CASE \E m \in Login!UserLoginRequest : Login!BeginLogin(r, m)
  BY <1>2, <1>5
<1>13. ASSUME NEW rec, login[r] = Login!Idle, login' = [login EXCEPT ![r] = rec]
       PROVE  /\ \A q \in Request \ {r} : login'[q] = login[q]
              /\ login'[r] = rec /\ ~PendingChange(r)
  BY <1>13
<1>6. CASE \E m \in Login!UserTokenRequest : Login!Exchange(r, m.token, m.device)
  <2>1. PICK m \in Login!UserTokenRequest : Login!Exchange(r, m.token, m.device)
    BY <1>6
  <2>2. /\ login[r] = Login!Idle /\ m.token \in Login!Issued /\ ~Login!LockedByOther(r, {m.token})
    BY <1>3, <2>1
  <2>3. CASE login' = [login EXCEPT ![r] = [op |-> "family", token |-> m.token,
                                            snap |-> Login!Family(m.token)]]
    <3>1. login'[r] = [op |-> "family", token |-> m.token, snap |-> Login!Family(m.token)]
          /\ ~PendingChange(r) /\ \A q \in Request \ {r} : login'[q] = login[q]
      BY <1>13, <2>2, <2>3
    <3>2. login'[r].op = "family" /\ login'[r].token = m.token
      BY <3>1
    <3> QED BY <2>2, <3>1, <3>2
  <2>4. CASE login' = [login EXCEPT ![r] = [op |-> "rotate", token |-> m.token]]
             /\ ~deleted /\ m.token \in live
    <3>1. login'[r] = [op |-> "rotate", token |-> m.token]
          /\ ~PendingChange(r) /\ \A q \in Request \ {r} : login'[q] = login[q]
      BY <1>13, <2>2, <2>4
    <3>2. login'[r].op = "rotate" /\ login'[r].token = m.token
      BY <3>1
    <3> QED BY <2>2, <2>4, <3>1, <3>2
  <2> QED BY <1>3, <2>1, <2>3, <2>4
<1>7. CASE \E t \in Login!UserRevokeRequest : Login!BeginRevoke(r, t)
  <2>1. PICK t \in Login!UserRevokeRequest : Login!BeginRevoke(r, t)
    BY <1>7
  <2>2. /\ login[r] = Login!Idle /\ t \in Login!Issued /\ ~Login!LockedByOther(r, {t})
        /\ login' = [login EXCEPT ![r] = [op |-> "family", token |-> t, snap |-> Login!Family(t)]]
    BY <1>4, <2>1
  <2>3. login'[r] = [op |-> "family", token |-> t, snap |-> Login!Family(t)]
        /\ ~PendingChange(r) /\ \A q \in Request \ {r} : login'[q] = login[q]
    BY <1>13, <2>2
  <2>4. login'[r].op = "family" /\ login'[r].token = t
    BY <2>3
  <2> QED BY <2>2, <2>3, <2>4
<1>8. CASE \E old \in Login!UserChangePasswordRequest : Login!BeginChange(r, old)
  BY <1>8 DEF Login!BeginChange
<1>9. CASE \E presented \in Login!UserResetPasswordRequest : Login!BeginReset(r, presented)
  BY <1>9 DEF Login!BeginReset
<1>10. CASE Login!BeginDelete(r)
  BY <1>10 DEF Login!BeginDelete
<1>11. CASE Login!BeginRevokeAll(r)
  BY <1>11 DEF Login!BeginRevokeAll
<1>12. CASE Login!Fails(r)
  BY <1>12 DEF Login!Fails
<1> QED
  BY <1>5, <1>6, <1>7, <1>8, <1>9, <1>10, <1>11, <1>12 DEF OnlyRequest

(* The steps that change more end their request, but for the password. *)
LEMMA EffectNext ==
  ASSUME Login!TypeOK, NEW r \in Request,
         \/ Login!Login(r) \/ Login!Rotate(r) \/ Login!RevokeFamily(r)
         \/ Login!SetPassword(r) \/ Login!ChangeFails(r) \/ Login!RevokeAll(r)
  PROVE  /\ \A q \in Request \ {r} : login'[q] = login[q]
         /\ login'[r].op = IF Login!SetPassword(r) THEN "changed" ELSE "idle"
<1>1. login \in [Request -> Login!ReqType] /\ Login!Idle.op = "idle"
  BY DEF Login!TypeOK, Login!Idle
<1>2. CASE Login!SetPassword(r)
  BY <1>1, <1>2 DEF Login!SetPassword, Login!Go
<1>3. CASE ~Login!SetPassword(r)
  BY <1>1, <1>3 DEF Login!Login, Login!Rotate, Login!RevokeFamily, Login!ChangeFails,
                    Login!RevokeAll, Login!Go
<1>4. QED
  BY <1>2, <1>3

(* Requests that a rotation or a revocation has brought this far. *)
LEMMA ReqFields ==
  ASSUME Login!TypeOK, NEW r \in Request
  PROVE  /\ login[r].op = "login" => login[r].password \in 1 .. MaxPasswords
         /\ login[r].op \in {"rotate", "family"} => login[r].token \in Login!Token
BY DEF Login!TypeOK, Login!ReqType, Login!Idle, Login!UserLoginRequest

(* A reset that is going to commit has a password left to set. *)
AccountRow ==
  \A r \in Request : login[r].op = "all" /\ login[r].why # "change" =>
    /\ ~deleted /\ (login[r].why = "reset" => password < MaxPasswords)
    /\ \A s \in Request : login[s].op = "all" /\ login[s].why # "change" => r = s

(* A family is named after a token that was issued, and so is what a token
   replaced, which is no longer live. *)
Lineage ==
  /\ closed \subseteq Login!Issued
  /\ \A t \in Login!Issued : family[t] \in Login!Issued
  /\ \A t \in Login!Issued : parent[t] # 0 => parent[t] \in Login!Issued \ live

(* A request that has locked a row is alone with it, and a token that is being
   rotated is live. *)
RowLocks ==
  /\ \A r, s \in Request : Login!Holds(r) \cap Login!Holds(s) # {} => r = s
  /\ \A r \in Request :
       /\ login[r].op \in {"rotate", "family"} => login[r].token \in Login!Issued
       /\ login[r].op = "rotate" => login[r].token \in live

UnderwayNow == {s \in Request : login[s].op \in {"login", "rotate"}}

LEMMA UnderwayType == IsFiniteSet(UnderwayNow) /\ Cardinality(UnderwayNow) \in Nat
                      /\ Login!Underway = Cardinality(UnderwayNow)
<1>1. IsFiniteSet(UnderwayNow)
  BY TalkAssumption, FS_Subset DEF UnderwayNow
<1>2. Cardinality(UnderwayNow) \in Nat
  BY <1>1, FS_CardinalityType
<1>3. Login!Underway = Cardinality(UnderwayNow)
  BY Zenon DEF Login!Underway, UnderwayNow, Login!Cardinality, Cardinality
<1>4. QED
  BY <1>1, <1>2, <1>3

LEMMA SessionsTypeStep ==
  Login!TypeOK /\ AccountRow /\ Lineage /\ RowLocks /\ [Login!Next]_Login!vars => Login!TypeOK'
<1> SUFFICES ASSUME Login!TypeOK, AccountRow, Lineage, RowLocks, [Login!Next]_Login!vars
             PROVE  Login!TypeOK'
  OBVIOUS
<1>0. /\ Login!Issued \subseteq Login!Token /\ live \subseteq Login!Issued
      /\ Login!Token \subseteq 0 .. MaxTokens
      /\ \A t \in Login!Issued : family[t] \in Login!Issued
  BY Numbers DEF Lineage
<1>1. ASSUME NEW r \in Request, OnlyRequest(r) PROVE Login!TypeOK'
  BY <1>1, OnlyRequestType, OnlyRequestKeeps
     DEF Login!TypeOK, SessionVars, Login!Issued, Login!Token
<1> USE DEF Login!Go, Login!tokens, Login!account, Login!history
<1>2. Login!Idle \in Login!ReqType /\ [op |-> "changed"] \in Login!ReqType
  BY DEF Login!ReqType
<1>3. ASSUME NEW r \in Request, NEW next \in Login!ReqType, login' = [login EXCEPT ![r] = next]
      PROVE  login' \in [Request -> Login!ReqType]
  BY <1>3 DEF Login!TypeOK
<1>4. ASSUME NEW f \in Login!Token, NEW from \in Login!Token \cup {0}, Login!Issue(f, from)
      PROVE  /\ used' \in Login!Token /\ used' = used + 1 /\ since' \in Nat
             /\ Login!Issued' = Login!Issued \cup {used'}
             /\ family' \in [Login!Token -> 0 .. MaxTokens]
             /\ parent' \in [Login!Token -> 0 .. MaxTokens]
  <2>1. used' = used + 1 /\ used' \in Login!Token /\ Login!Issued' = Login!Issued \cup {used'}
    BY <1>4, Numbers DEF Login!Issue
  <2>2. f \in 0 .. MaxTokens /\ from \in 0 .. MaxTokens
    BY <1>0, TalkAssumption
  <2>3. since' \in Nat
    BY <1>4 DEF Login!Issue, Login!TypeOK
  <2>4. QED
    BY <1>4, <2>1, <2>2, <2>3 DEF Login!Issue, Login!TypeOK
<1>5. ASSUME NEW r \in Request, Login!Login(r) PROVE Login!TypeOK'
  <2>1. login[r].password \in 1 .. MaxPasswords
    BY <1>5, ReqFields DEF Login!Login
  <2>2. used + 1 \in Login!Token
    BY <1>5, Numbers DEF Login!Login, Login!Issue
  <2>3. Login!Issue(used + 1, 0) /\ login' \in [Request -> Login!ReqType]
    BY <1>2, <1>3, <1>5 DEF Login!Login
  <2>4. QED
    BY <1>0, <1>4, <1>5, <2>1, <2>2, <2>3 DEF Login!Login, Login!TypeOK
<1>6. ASSUME NEW r \in Request, Login!Rotate(r) PROVE Login!TypeOK'
  <2>1. login[r].token \in Login!Token /\ family[login[r].token] \in Login!Token
    BY <1>0, <1>6 DEF Login!Rotate, RowLocks
  <2>2. /\ Login!Issue(family[login[r].token], login[r].token)
        /\ login' \in [Request -> Login!ReqType]
    BY <1>2, <1>3, <1>6 DEF Login!Rotate
  <2>3. QED
    BY <1>0, <1>4, <1>6, <2>1, <2>2 DEF Login!Rotate, Login!TypeOK
<1>7. ASSUME NEW r \in Request, Login!RevokeFamily(r) PROVE Login!TypeOK'
  <2>1. family[login[r].token] \in Login!Token
    BY <1>0, <1>7 DEF Login!RevokeFamily, RowLocks
  <2>2. login' \in [Request -> Login!ReqType]
    BY <1>2, <1>3, <1>7 DEF Login!RevokeFamily
  <2>3. Login!Issued' = Login!Issued
    BY <1>7 DEF Login!RevokeFamily, Login!Issued
  <2>4. QED
    BY <1>7, <2>1, <2>2, <2>3 DEF Login!RevokeFamily, Login!TypeOK
<1>8. ASSUME NEW r \in Request, Login!SetPassword(r) PROVE Login!TypeOK'
  <2>1. login' \in [Request -> Login!ReqType]
    BY <1>2, <1>3, <1>8 DEF Login!SetPassword
  <2>2. password' \in 1 .. MaxPasswords
    BY <1>8, TalkAssumption DEF Login!SetPassword, Login!TypeOK
  <2>3. QED
    BY <1>8, <2>1, <2>2 DEF Login!SetPassword, Login!TypeOK, Login!Issued
<1>9. ASSUME NEW r \in Request, Login!ChangeFails(r) PROVE Login!TypeOK'
  <2>1. login' \in [Request -> Login!ReqType]
    BY <1>2, <1>3, <1>9 DEF Login!ChangeFails
  <2>2. escaped' \subseteq Login!Token
    BY <1>0, <1>9 DEF Login!ChangeFails, Login!TypeOK
  <2>3. faults' \in 0 .. MaxFaults
    BY <1>9, SocialGraphAssumption DEF Login!ChangeFails, Login!TypeOK
  <2>4. QED
    BY <1>9, <2>1, <2>2, <2>3 DEF Login!ChangeFails, Login!TypeOK, Login!Issued
<1>10. ASSUME NEW r \in Request, Login!RevokeAll(r) PROVE Login!TypeOK'
  <2>1. login' \in [Request -> Login!ReqType]
    BY <1>2, <1>3, <1>10 DEF Login!RevokeAll
  <2>2. Login!Underway \in Nat
    BY UnderwayType
  <2>3. escaped' \subseteq Login!Token
    BY <1>0, <1>10 DEF Login!RevokeAll, Login!TypeOK
  <2>4. password' \in 1 .. MaxPasswords
    BY <1>10, TalkAssumption DEF Login!RevokeAll, AccountRow, Login!TypeOK
  <2>5. Login!Issued' = Login!Issued
    BY <1>10 DEF Login!RevokeAll, Login!Issued
  <2>6. QED
    BY <1>10, <2>1, <2>2, <2>3, <2>4, <2>5 DEF Login!RevokeAll, Login!TypeOK
<1>11. CASE Login!IssueCode \/ UNCHANGED Login!vars
  BY <1>11 DEF Login!IssueCode, Login!vars, Login!TypeOK, Login!Issued
<1> QED
  BY <1>1, <1>5, <1>6, <1>7, <1>8, <1>9, <1>10, <1>11, SessionCases

LEMMA AccountRowStep ==
  ASSUME Login!TypeOK, AccountRow, [Login!Next]_Login!vars PROVE AccountRow'
<1> USE DEF Login!tokens, Login!account, Login!history
<1>1. ASSUME NEW r \in Request, OnlyRequest(r) PROVE AccountRow'
  <2>1. /\ UNCHANGED <<password, deleted>>
        /\ \A q \in Request \ {r} : login'[q] = login[q]
    BY <1>1, OnlyRequestNext, OnlyRequestKeeps DEF SessionVars
  <2>2. login'[r].op = "all" /\ login'[r].why # "change" =>
          /\ ~deleted /\ ~Login!AccountLocked
          /\ login'[r].why = "reset" => password < MaxPasswords
    BY <1>1, OnlyRequestNext
  <2> QED BY <2>1, <2>2 DEF AccountRow, Login!AccountLocked
<1>2. ASSUME NEW r \in Request,
             Login!Login(r) \/ Login!Rotate(r) \/ Login!RevokeFamily(r) \/ Login!ChangeFails(r)
      PROVE  AccountRow'
  <2>1. UNCHANGED <<password, deleted>>
    BY <1>2 DEF Login!Login, Login!Rotate, Login!RevokeFamily, Login!ChangeFails
  <2>2. QED
    BY <1>2, <2>1, EffectNext DEF AccountRow
<1>3. ASSUME NEW r \in Request, Login!SetPassword(r) PROVE AccountRow'
  BY <1>3, EffectNext DEF AccountRow, Login!SetPassword, Login!AccountLocked
<1>4. ASSUME NEW r \in Request, Login!RevokeAll(r) PROVE AccountRow'
  <2>1. CASE login[r].why = "change"
    <3>1. password' = password /\ deleted' = deleted
      BY <1>4, <2>1 DEF Login!RevokeAll, Login!TypeOK
    <3>2. QED
      BY <1>4, <3>1, EffectNext DEF AccountRow
  <2>2. CASE login[r].why # "change"
    BY <1>4, <2>2, EffectNext DEF AccountRow, Login!RevokeAll
  <2>3. QED
    BY <2>1, <2>2
<1>5. CASE Login!IssueCode \/ UNCHANGED Login!vars
  BY <1>5 DEF Login!IssueCode, Login!vars, AccountRow
<1> QED
  BY <1>1, <1>2, <1>3, <1>4, <1>5, SessionCases

(* What a step may do to the rows of the tokens: issue one, or revoke some. *)
LEMMA RowCases ==
  ASSUME Login!TypeOK, [Login!Next]_Login!vars
  PROVE  \/ UNCHANGED <<used, family, parent>> /\ live' \subseteq live /\ born' = born
         \/ \E r \in Request : Login!Login(r) \/ Login!Rotate(r)
<1>1. ASSUME NEW r \in Request, OnlyRequest(r) PROVE UNCHANGED <<used, family, parent, live, born>>
  BY <1>1, OnlyRequestKeeps DEF SessionVars
<1>2. ASSUME NEW r \in Request,
             \/ Login!RevokeFamily(r) \/ Login!SetPassword(r) \/ Login!ChangeFails(r)
             \/ Login!RevokeAll(r)
      PROVE  UNCHANGED <<used, family, parent>> /\ live' \subseteq live /\ born' = born
  BY <1>2 DEF Login!RevokeFamily, Login!SetPassword, Login!ChangeFails, Login!RevokeAll,
              Login!tokens, Login!history
<1>3. CASE Login!IssueCode \/ UNCHANGED Login!vars
  BY <1>3 DEF Login!IssueCode, Login!vars, Login!tokens, Login!history
<1> QED
  BY <1>1, <1>2, <1>3, SessionCases

(* The two steps that insert a row, said without the arithmetic of its number. *)
Inserted(r, f, from) ==
  /\ used' \notin Login!Issued /\ Login!Issued' = Login!Issued \cup {used'}
  /\ \A t \in Login!Issued : family'[t] = family[t] /\ parent'[t] = parent[t]
  /\ family'[used'] = f /\ parent'[used'] = from
  /\ \/ /\ Login!Login(r) /\ f = used' /\ from = 0
        /\ live' = live \cup {used'}
     \/ /\ Login!Rotate(r) /\ from = login[r].token /\ f = family[from]
        /\ from \in live /\ live' = (live \ {from}) \cup {used'}
  /\ closed' = closed

LEMMA IssueStep ==
  ASSUME Login!TypeOK, Lineage, RowLocks, NEW r \in Request, Login!Login(r) \/ Login!Rotate(r)
  PROVE  \E f, from \in Nat : Inserted(r, f, from)
<1> USE DEF Inserted
<1>1. used < MaxTokens /\ used' = used + 1
  BY DEF Login!Login, Login!Rotate, Login!Issue
<1>2. /\ used' \in Login!Token \ Login!Issued /\ Login!Issued' = Login!Issued \cup {used'}
      /\ Login!Issued \subseteq Login!Token /\ live \subseteq Login!Issued
  BY <1>1, Numbers
<1>3. Login!Token \subseteq Nat /\ 0 \in Nat
  BY TalkAssumption DEF Login!Token
<1>4. CASE Login!Login(r)
  <2>1. /\ family' = [family EXCEPT ![used'] = used'] /\ parent' = [parent EXCEPT ![used'] = 0]
        /\ live' = live \cup {used'} /\ closed' = closed
    BY <1>1, <1>4 DEF Login!Login, Login!Issue
  <2>2. QED
    BY <1>2, <1>3, <1>4, <2>1 DEF Login!TypeOK
<1>5. CASE Login!Rotate(r)
  <2> DEFINE from == login[r].token
  <2>1. from \in live /\ from \in Login!Issued /\ family[from] \in Login!Issued
    BY <1>2, <1>5 DEF Login!Rotate, RowLocks, Lineage
  <2>2. /\ family' = [family EXCEPT ![used'] = family[from]]
        /\ parent' = [parent EXCEPT ![used'] = from]
        /\ live' = (live \ {from}) \cup {used'} /\ closed' = closed
    BY <1>1, <1>5 DEF Login!Rotate, Login!Issue
  <2>3. /\ \A t \in Login!Issued : family'[t] = family[t] /\ parent'[t] = parent[t]
        /\ family'[used'] = family[from] /\ parent'[used'] = from
    BY <1>2, <2>2 DEF Login!TypeOK
  <2>4. from \in Nat /\ family[from] \in Nat
    BY <1>2, <1>3, <2>1
  <2>5. QED
    BY <1>2, <1>5, <2>1, <2>2, <2>3, <2>4
<1>6. QED
  BY <1>4, <1>5

LEMMA LineageStep ==
  ASSUME Login!TypeOK, Lineage, RowLocks, [Login!Next]_Login!vars PROVE Lineage'
<1> USE DEF Inserted
<1>1. 0 \notin Login!Issued /\ live \subseteq Login!Issued
  BY Numbers
<1>2. ASSUME NEW r \in Request, Login!Login(r) \/ Login!Rotate(r) PROVE Lineage'
  <2>1. PICK f, from \in Nat : Inserted(r, f, from)
    BY <1>2, IssueStep
  <2>2. QED
    BY <1>1, <2>1 DEF Lineage
<1>3. CASE UNCHANGED <<used, family, parent>> /\ live' \subseteq live
  <2>1. Login!Issued' = Login!Issued
    BY <1>3 DEF Login!Issued
  <2>2. closed' = closed \/ \E r \in Request : Login!RevokeFamily(r)
    <3>1. ASSUME NEW r \in Request, OnlyRequest(r) PROVE closed' = closed
      BY <3>1, OnlyRequestKeeps DEF SessionVars
    <3>2. QED
      BY <3>1, SessionCases DEF Login!Login, Login!Rotate, Login!SetPassword, Login!ChangeFails,
         Login!RevokeAll, Login!IssueCode, Login!vars, Login!history
  <2>3. closed' \subseteq Login!Issued
    <3>1. ASSUME NEW r \in Request, Login!RevokeFamily(r) PROVE closed' \subseteq Login!Issued
      BY <3>1 DEF Login!RevokeFamily, Lineage, RowLocks
    <3>2. QED
      BY <2>2, <3>1 DEF Lineage
  <2>4. QED
    BY <1>3, <2>1, <2>3 DEF Lineage
<1> QED
  BY <1>2, <1>3, RowCases

(* A token that a request has locked is not revoked by another one. *)
LEMMA RowLocksStep ==
  ASSUME Login!TypeOK, Lineage, RowLocks, [Login!Next]_Login!vars PROVE RowLocks'
<1> USE DEF Login!Holds
<1>1. ASSUME NEW r \in Request, OnlyRequest(r) PROVE RowLocks'
  <2>1. Login!Issued' = Login!Issued /\ live' = live
    BY <1>1, OnlyRequestKeeps DEF SessionVars, Login!Issued
  <2>2. \A s \in Request \ {r} : Login!Holds(s)' = Login!Holds(s)
    BY <1>1, OnlyRequestNext
  <2>3. \A s \in Request \ {r} : Login!Holds(r)' \cap Login!Holds(s) = {}
    <3>1. CASE login'[r].op \in {"rotate", "family"}
      BY <1>1, <3>1, OnlyRequestNext DEF Login!LockedByOther
    <3>2. CASE login'[r].op \notin {"rotate", "family"}
      BY <3>2
    <3>3. QED
      BY <3>1, <3>2
  <2>4. \A q, s \in Request : (Login!Holds(q) \cap Login!Holds(s))' # {} => q = s
    BY <2>2, <2>3 DEF RowLocks
  <2>5. QED
    BY <1>1, <2>1, <2>4, OnlyRequestNext DEF RowLocks
<1>2. ASSUME NEW r \in Request,
             \/ Login!Login(r) \/ Login!Rotate(r) \/ Login!RevokeFamily(r)
             \/ Login!SetPassword(r) \/ Login!ChangeFails(r) \/ Login!RevokeAll(r)
      PROVE  RowLocks'
  <2>1. /\ \A q \in Request \ {r} : login'[q] = login[q]
        /\ login'[r].op \in {"idle", "changed"}
    BY <1>2, EffectNext
  <2>2. \A q, s \in Request : (Login!Holds(q) \cap Login!Holds(s))' # {} => q = s
    BY <2>1 DEF RowLocks
  <2>3. Login!Issued \subseteq Login!Issued'
    <3>1. CASE Login!Login(r) \/ Login!Rotate(r)
      <4>1. PICK f, from \in Nat : Inserted(r, f, from)
        BY <3>1, IssueStep
      <4> QED BY <4>1 DEF Inserted
    <3>2. CASE used' = used
      BY <3>2 DEF Login!Issued
    <3>3. QED
      BY <1>2, <3>1, <3>2 DEF Login!RevokeFamily, Login!SetPassword, Login!ChangeFails,
                              Login!RevokeAll, Login!tokens
  <2>4. \A q \in Request \ {r} : login[q].op = "rotate" => login[q].token \in live'
    <3>1. CASE Login!Login(r) \/ Login!SetPassword(r) \/ Login!ChangeFails(r)
      BY <3>1 DEF Login!Login, Login!SetPassword, Login!ChangeFails, Login!tokens, RowLocks
    <3>2. CASE Login!Rotate(r)
      <4>1. live' = (live \ {login[r].token}) \cup {used'} /\ login[r].op = "rotate"
        BY <3>2 DEF Login!Rotate
      <4>2. QED
        BY <4>1 DEF RowLocks
    <3>3. CASE Login!RevokeFamily(r) \/ Login!RevokeAll(r)
      BY <3>3 DEF Login!RevokeFamily, Login!RevokeAll, Login!LockedByOther, RowLocks
    <3>4. QED
      BY <1>2, <3>1, <3>2, <3>3
  <2>5. QED
    BY <2>1, <2>2, <2>3, <2>4 DEF RowLocks
<1>3. CASE Login!IssueCode \/ UNCHANGED Login!vars
  BY <1>3 DEF Login!IssueCode, Login!vars, Login!tokens, RowLocks, Login!Issued
<1> QED
  BY <1>1, <1>2, <1>3, SessionCases

LEMMA RotatedOnceStep ==
  ASSUME Login!TypeOK, Lineage, RowLocks, Login!RotatedOnce, [Login!Next]_Login!vars
  PROVE  Login!RotatedOnce'
<1> USE DEF Inserted
<1>1. live \subseteq Login!Issued /\ 0 \notin Login!Issued
  BY Numbers
<1>2. ASSUME NEW r \in Request, Login!Login(r) \/ Login!Rotate(r) PROVE Login!RotatedOnce'
  <2>1. PICK f, from \in Nat : Inserted(r, f, from)
    BY <1>2, IssueStep
  <2>2. \A s \in Login!Issued : parent[s] = from => from = 0
    BY <2>1 DEF Lineage
  <2>3. \A s \in live' \ {used'} : s \in live /\ family[s] # f
    BY <1>1, <2>1 DEF Lineage, Login!RotatedOnce
  <2>4. QED
    BY <1>1, <2>1, <2>2, <2>3 DEF Login!RotatedOnce
<1>3. CASE UNCHANGED <<used, family, parent>> /\ live' \subseteq live
  BY <1>3 DEF Login!RotatedOnce, Login!Issued
<1> QED
  BY <1>2, <1>3, RowCases

LEMMA ClosedStep ==
  ASSUME Login!TypeOK, Lineage, RowLocks, Login!FamilyStaysClosed, [Login!Next]_Login!vars
  PROVE  Login!FamilyStaysClosed'
<1> USE DEF Inserted, Login!FamilyStaysClosed, Login!tokens, Login!account, Login!history
<1>1. live \subseteq Login!Issued
  BY Numbers
<1>2. ASSUME NEW r \in Request, OnlyRequest(r) PROVE Login!FamilyStaysClosed'
  BY <1>2, OnlyRequestKeeps DEF SessionVars
<1>3. ASSUME NEW r \in Request, Login!Login(r) \/ Login!Rotate(r) PROVE Login!FamilyStaysClosed'
  <2>1. PICK f, from \in Nat : Inserted(r, f, from)
    BY <1>3, IssueStep
  <2>2. escaped \subseteq escaped'
    BY <1>3 DEF Login!Login, Login!Rotate
  <2>3. QED
    BY <1>1, <2>1, <2>2 DEF Lineage
<1>4. ASSUME NEW r \in Request, Login!RevokeFamily(r) PROVE Login!FamilyStaysClosed'
  BY <1>4 DEF Login!RevokeFamily
<1>5. ASSUME NEW r \in Request,
             Login!SetPassword(r) \/ Login!ChangeFails(r) \/ Login!RevokeAll(r)
      PROVE  Login!FamilyStaysClosed'
  BY <1>5 DEF Login!SetPassword, Login!ChangeFails, Login!RevokeAll
<1>6. CASE Login!IssueCode \/ UNCHANGED Login!vars
  BY <1>6 DEF Login!IssueCode, Login!vars
<1> QED
  BY <1>2, <1>3, <1>4, <1>5, <1>6, SessionCases

(* A session of an earlier password is alive only in a family that escaped its
   revocation, or while the change of the password has not revoked yet. *)
OldSessionsNamed ==
  \A t \in live : born[family[t]] < password =>
    family[t] \in escaped \/ \E r \in Request : PendingChange(r)

LEMMA OldSessionsStep ==
  ASSUME Login!TypeOK, Lineage, RowLocks, OldSessionsNamed, [Login!Next]_Login!vars
  PROVE  OldSessionsNamed'
<1> USE DEF OldSessionsNamed, PendingChange, Login!tokens, Login!account, Login!history
<1>1. live \subseteq Login!Issued
  BY Numbers
<1>2. ASSUME NEW r \in Request, OnlyRequest(r) PROVE OldSessionsNamed'
  <2>1. \A q \in Request : PendingChange(q) => PendingChange(q)'
    BY <1>2, OnlyRequestNext
  <2>2. QED
    BY <1>2, <2>1, OnlyRequestKeeps DEF SessionVars
<1>3. ASSUME NEW r \in Request, Login!Login(r) \/ Login!Rotate(r) PROVE OldSessionsNamed'
  <2>1. PICK f, from \in Nat : Inserted(r, f, from)
    BY <1>3, IssueStep
  <2>2. \A q \in Request : PendingChange(q) => PendingChange(q)'
    BY <1>3, EffectNext DEF Login!Login, Login!Rotate
  <2>3. password' = password /\ escaped \subseteq escaped'
    BY <1>3 DEF Login!Login, Login!Rotate
  <2>4. CASE Login!Login(r)
    <3>1. used' \in Login!Token /\ born' = [born EXCEPT ![used'] = login[r].password]
      BY <2>1, <2>4, Numbers DEF Inserted, Login!Login, Login!Issue
    <3>2. born'[used'] = login[r].password /\ \A t \in Login!Issued : born'[t] = born[t]
      BY <2>1, <3>1, Numbers DEF Inserted, Login!TypeOK
    <3>3. login[r].password < password => used' \in escaped'
      BY <2>4 DEF Login!Login
    <3>4. \A t \in Login!Issued : family'[t] = family[t] /\ family[t] \in Login!Issued
      BY <2>1 DEF Lineage, Inserted
    <3>5. live' = live \cup {used'} /\ family'[used'] = used'
      BY <2>1, <2>4 DEF Inserted, Login!Login, Login!Rotate
    <3>6. QED
      BY <1>1, <2>2, <2>3, <3>2, <3>3, <3>4, <3>5
  <2>5. CASE Login!Rotate(r)
    <3>1. born' = born /\ live' \subseteq live \cup {used'} /\ login[r].token \in live
          /\ family'[used'] = family[login[r].token]
          /\ \A t \in live : family'[t] = family[t]
      BY <1>1, <2>1, <2>5 DEF Login!Login, Login!Rotate, Inserted
    <3>2. QED
      BY <2>2, <2>3, <3>1
  <2>6. QED
    BY <1>3, <2>4, <2>5
<1>4. ASSUME NEW r \in Request, Login!RevokeFamily(r) PROVE OldSessionsNamed'
  <2>1. \A q \in Request : PendingChange(q) => PendingChange(q)'
    BY <1>4, EffectNext DEF Login!RevokeFamily
  <2>2. QED
    BY <1>4, <2>1 DEF Login!RevokeFamily
<1>5. ASSUME NEW r \in Request, Login!SetPassword(r) PROVE OldSessionsNamed'
  BY <1>5, EffectNext
<1>6. ASSUME NEW r \in Request, Login!ChangeFails(r) \/ Login!RevokeAll(r)
      PROVE  OldSessionsNamed'
  BY <1>6 DEF Login!ChangeFails, Login!RevokeAll
<1>7. CASE Login!IssueCode \/ UNCHANGED Login!vars
  BY <1>7 DEF Login!IssueCode, Login!vars
<1> QED
  BY <1>2, <1>3, <1>4, <1>5, <1>6, <1>7, SessionCases

(* What a deleted account has issued since, and what it may still issue, was
   under way when it was deleted. *)
RunsDry ==
  /\ ~deleted => since = 0
  /\ deleted => since + Cardinality(UnderwayNow) <= underway

LEMMA RunsDryStep ==
  ASSUME Login!TypeOK, AccountRow, RunsDry, [Login!Next]_Login!vars PROVE RunsDry'
<1> USE DEF RunsDry, Login!tokens, Login!account, Login!history
<1>1. /\ IsFiniteSet(UnderwayNow) /\ Cardinality(UnderwayNow) \in Nat
      /\ Login!Underway = Cardinality(UnderwayNow)
  BY UnderwayType
<1>2. since \in Nat /\ underway \in Nat /\ deleted \in BOOLEAN
  BY DEF Login!TypeOK
<1>3. ASSUME NEW r \in Request, OnlyRequest(r) PROVE RunsDry'
  <2>1. UNCHANGED <<deleted, since, underway>>
    BY <1>3, OnlyRequestKeeps DEF SessionVars
  <2>2. deleted => UnderwayNow' \subseteq UnderwayNow
    BY <1>3, OnlyRequestNext DEF UnderwayNow
  <2>3. deleted => /\ Cardinality(UnderwayNow') \in Nat
                   /\ Cardinality(UnderwayNow') <= Cardinality(UnderwayNow)
    BY <1>1, <2>2, FS_Subset, FS_CardinalityType
  <2>4. QED
    BY <1>1, <1>2, <2>1, <2>3
<1>4. ASSUME NEW r \in Request, Login!Login(r) \/ Login!Rotate(r) PROVE RunsDry'
  <2>1. UnderwayNow' = UnderwayNow \ {r} /\ r \in UnderwayNow
    BY <1>4, EffectNext DEF UnderwayNow, Login!Login, Login!Rotate, Login!SetPassword
  <2>2. Cardinality(UnderwayNow') = Cardinality(UnderwayNow) - 1
    BY <1>1, <2>1, FS_RemoveElement
  <2>3. /\ deleted' = deleted /\ underway' = underway
        /\ since' = IF deleted THEN since + 1 ELSE since
    BY <1>4 DEF Login!Login, Login!Rotate, Login!Issue
  <2>4. QED
    BY <1>1, <1>2, <2>2, <2>3
<1>5. ASSUME NEW r \in Request,
             \/ Login!RevokeFamily(r) \/ Login!SetPassword(r) \/ Login!ChangeFails(r)
             \/ Login!RevokeAll(r)
      PROVE  RunsDry'
  <2>1. login[r].op \notin {"login", "rotate"} /\ login'[r].op \notin {"login", "rotate"}
    BY <1>5, EffectNext DEF Login!RevokeFamily, Login!SetPassword, Login!ChangeFails,
                            Login!RevokeAll
  <2>2. UnderwayNow' = UnderwayNow
    BY <1>5, <2>1, EffectNext DEF UnderwayNow
  <2>3. CASE Login!RevokeAll(r) /\ login[r].why = "delete"
    <3>1. since' = since /\ since = 0 /\ underway' = Login!Underway
      BY <2>3 DEF Login!RevokeAll, AccountRow
    <3>2. deleted' = TRUE
      BY <2>3 DEF Login!RevokeAll
    <3>3. QED
      BY <1>1, <2>2, <3>1, <3>2
  <2>4. CASE ~(Login!RevokeAll(r) /\ login[r].why = "delete")
    <3>1. UNCHANGED <<deleted, since, underway>>
      BY <1>2, <1>5, <2>4 DEF Login!RevokeFamily, Login!SetPassword, Login!ChangeFails,
                              Login!RevokeAll
    <3>2. QED
      BY <1>1, <1>2, <2>2, <3>1
  <2>5. QED
    BY <2>3, <2>4
<1>6. CASE Login!IssueCode \/ UNCHANGED Login!vars
  <2>1. UNCHANGED <<deleted, since, underway, login>>
    BY <1>6 DEF Login!IssueCode, Login!vars
  <2>2. UnderwayNow' = UnderwayNow
    BY <2>1 DEF UnderwayNow
  <2>3. QED
    BY <2>1, <2>2
<1> QED
  BY <1>3, <1>4, <1>5, <1>6, SessionCases

SessionsInv ==
  /\ Login!TypeOK /\ AccountRow /\ Lineage /\ RowLocks
  /\ Login!RotatedOnce /\ Login!FamilyStaysClosed /\ OldSessionsNamed /\ RunsDry

LEMMA SessionsInitInv == Login!Init => SessionsInv
<1> SUFFICES ASSUME Login!Init PROVE SessionsInv
  OBVIOUS
<1>1. Login!TypeOK
  BY SessionsInitType
<1>2. /\ used = 1 /\ live = {1} /\ closed = {} /\ deleted = FALSE /\ since = 0 /\ password = 1
      /\ 1 \in Login!Token
      /\ \A r \in Request : login[r].op = "idle"
  BY TalkAssumption DEF Login!Init, Login!Idle, Login!RegisterRequest, Login!Token
<1>3. /\ family[1] = 1 /\ parent[1] = 0 /\ born[1] = 1
  BY <1>2 DEF Login!Init
<1>4. Login!Issued = {1}
  BY <1>2 DEF Login!Issued
<1>5. AccountRow /\ RowLocks
  BY <1>2 DEF AccountRow, RowLocks, Login!Holds
<1>6. Lineage
  BY <1>2, <1>3, <1>4 DEF Lineage
<1>7. Login!RotatedOnce /\ Login!FamilyStaysClosed
  BY <1>2, <1>4 DEF Login!RotatedOnce, Login!FamilyStaysClosed
<1>8. OldSessionsNamed /\ RunsDry
  BY <1>2, <1>3 DEF OldSessionsNamed, RunsDry
<1>9. QED
  BY <1>1, <1>5, <1>6, <1>7, <1>8 DEF SessionsInv

LEMMA SessionsStepInv == SessionsInv /\ [Login!Next]_Login!vars => SessionsInv'
BY SessionsTypeStep, AccountRowStep, LineageStep, RowLocksStep, RotatedOnceStep, ClosedStep,
   OldSessionsStep, RunsDryStep DEF SessionsInv

LEMMA SessionsHold == SocialSpec => [](part = "sessions" => SessionsInv)
<1>1. SocialInit => (part = "sessions" => SessionsInv)
  BY SessionsInitInv DEF SocialInit
<1>2. (part = "sessions" => SessionsInv) /\ [SocialNext]_socialVars
         => (part = "sessions" => SessionsInv)'
  <2> SUFFICES ASSUME part = "sessions" => SessionsInv, [SocialNext]_socialVars,
                      part' = "sessions"
               PROVE  SessionsInv'
    OBVIOUS
  <2>1. part = "sessions" /\ [Login!Next]_Login!vars
    <3>1. CASE UNCHANGED socialVars
      BY <3>1 DEF socialVars, loginOnly, vars, history, requests, Login!vars, Login!tokens,
                  Login!account, Login!history
    <3>2. CASE SocialNext
      BY <3>1, <3>2 DEF SocialNext, GraphStep, CommentStep, PostStep, ShareStep, SessionStep, TalkEnds
    <3>3. QED
      BY <3>1, <3>2
  <2>2. QED
    BY <2>1, SessionsStepInv
<1>3. QED
  BY <1>1, <1>2, PTL DEF SocialSpec

(* A refresh token is replaced once at most, a family has one live token, and a
   family that a reuse, another device or a sign-out revoked has none again but
   where a rotation of its current token overlapped the revocation. *)
THEOREM SessionsFamilyStaysClosed == SocialSpec => []FamilyStaysClosed
<1>1. (part = "sessions" => SessionsInv) => FamilyStaysClosed
  BY DEF SessionsInv, FamilyStaysClosed
<1>2. QED
  BY <1>1, SessionsHold, PTL

(* Once no change of the password is under way, what is left of an earlier
   password escaped its revocation; a deleted account issues tokens only to
   requests that had passed their checks before. *)
THEOREM SessionsRunDry == SocialSpec => []RevokedRunsDry
<1>1. (part = "sessions" => SessionsInv) => RevokedRunsDry
  <2> SUFFICES ASSUME part = "sessions", SessionsInv
               PROVE  Login!OldSessionsEnd /\ Login!DeletedRunsDry
    BY DEF RevokedRunsDry
  <2>1. Login!OldSessionsEnd
    BY DEF SessionsInv, OldSessionsNamed, PendingChange, Login!OldSessionsEnd
  <2>2. Login!DeletedRunsDry
    <3>1. Cardinality(UnderwayNow) \in Nat /\ since \in Nat /\ underway \in Nat
      BY UnderwayType DEF SessionsInv, Login!TypeOK
    <3>2. QED
      BY <3>1 DEF SessionsInv, RunsDry, Login!DeletedRunsDry
  <2>3. QED
    BY <2>1, <2>2
<1>2. QED
  BY <1>1, SessionsHold, PTL
===============================================================================
