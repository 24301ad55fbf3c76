---------------------------- MODULE PeopleProofs ----------------------------
(***************************************************************************)
(* Proofs about groups, shared lists, social reads and limits (MCPeople,   *)
(* which extends Groups).                                                  *)
(***************************************************************************)
EXTENDS MCPeople, Sequences, FiniteSetTheorems, TLAPS

(* A nonempty set of natural numbers has a least element. *)
LEMMA Least ==
  ASSUME NEW T \in SUBSET Nat, T # {}
  PROVE  \E n \in T : \A k \in T : n <= k
<1>1. PICK n \in T : \A k \in T : <<k, n>> \notin OpToRel(<, Nat)
  BY NatLessThanWellFounded, WFMin, Zenon
<1>2. \A k \in T : n <= k
  <2> TAKE k \in T
  <2>1. <<k, n>> \in Nat \X Nat /\ <<k, n>> \notin {ss \in Nat \X Nat : ss[1] < ss[2]}
    BY <1>1, Zenon DEF OpToRel
  <2> QED BY <2>1
<1> QED BY <1>2

Orders(O, S) ==
  \A u, v \in S :
    /\ u = v \/ <<u, v>> \in O \/ <<v, u>> \in O
    /\ ~(<<u, v>> \in O /\ <<v, u>> \in O)
    /\ \A w \in S : <<u, v>> \in O /\ <<v, w>> \in O => <<u, w>> \in O

(* Every nonempty part of a finite ordered set has a first element. *)
LEMMA First ==
  ASSUME NEW S, IsFiniteSet(S), NEW O, Orders(O, S), NEW H \in SUBSET S, H # {}
  PROVE  \E v \in H : \A w \in H \ {v} : <<v, w>> \in O
<1> DEFINE Before(v) == {w \in H : <<w, v>> \in O}
<1>1. \A v \in H : IsFiniteSet(Before(v)) /\ Cardinality(Before(v)) \in Nat
  BY FS_Subset, FS_CardinalityType
<1> DEFINE T == {Cardinality(Before(v)) : v \in H}
<1>2. T \in SUBSET Nat /\ T # {}
  BY <1>1
<1>3. PICK n \in T : \A k \in T : n <= k
  <2> HIDE DEF T
  <2> QED BY <1>2, Least
<1>4. PICK v \in H : n = Cardinality(Before(v))
  BY <1>3
<1>5. SUFFICES ASSUME NEW w \in H \ {v}, <<v, w>> \notin O PROVE FALSE
  BY <1>4
<1>6. <<w, v>> \in O /\ <<w, w>> \notin O
  BY <1>5 DEF Orders
<1>7. \A x \in Before(w) : x \in Before(v)
  BY <1>6 DEF Orders
<1>8. Before(w) \in SUBSET Before(v) /\ Before(w) # Before(v)
  BY <1>6, <1>7
<1>9. Cardinality(Before(w)) < Cardinality(Before(v))
  <2> HIDE DEF Before
  <2>1. Cardinality(Before(w)) <= Cardinality(Before(v)) /\ Cardinality(Before(w)) # Cardinality(Before(v))
    BY <1>1, <1>8, FS_Subset
  <2> QED BY <2>1, <1>1
<1>10. Cardinality(Before(w)) \in T
  OBVIOUS
<1> QED
  <2> HIDE DEF Before, T
  <2> QED BY <1>1, <1>3, <1>4, <1>9, <1>10

----------------------------------------------------------------------------
(* The group: its type. *)
LEMMA GroupInitType == Init => TypeOK
<1> SUFFICES ASSUME Init PROVE TypeOK
  OBVIOUS
<1>1. HasRow = {owner} /\ tenure = {}
  BY DEF Init, HasRow
<1>2. Idle \in ReqType
  BY DEF ReqType
<1>3. \A u, v \in HasRow : u = v /\ <<u, v>> \notin tenure
  BY <1>1
<1>4. /\ owner \in User \cup {NoOne} /\ vis \in {"private", "public"} /\ joined \subseteq User
      /\ blocks \subseteq {p \in User \X User : p[1] # p[2]}
      /\ role \in [User -> {"none", "member", "owner", "invited", "banned"}]
  BY DEF Init, GroupCreateRequest
<1>5. req \in [Request -> ReqType] /\ overlap \in BOOLEAN /\ erasedTwice \in BOOLEAN
  BY <1>2 DEF Init
<1>6. started \in 0 .. MaxRequests
  BY GroupsAssumption DEF Init
<1> QED
  BY <1>1, <1>3, <1>4, <1>5, <1>6 DEF TypeOK

LEMMA SuccessorFacts ==
  ASSUME TypeOK, NEW u \in User
  PROVE  Successor(u) = NoOne \/ (Successor(u) \in User \ {u} /\ role[Successor(u)] = "member")
<1> DEFINE heirs == {v \in User \ {u} : role[v] = "member"}
           IsFirst(v) == \A w \in heirs \ {v} : <<v, w>> \in tenure
<1>1. CASE heirs = {}
  BY <1>1 DEF Successor
<1>2. CASE heirs # {}
  <2>1. IsFiniteSet(HasRow) /\ heirs \in SUBSET HasRow
    BY GroupsAssumption, FS_Subset DEF HasRow
  <2>2. Orders(tenure, HasRow)
    BY DEF TypeOK, Orders
  <2>3. \E v \in heirs : IsFirst(v)
    <3> HIDE DEF heirs
    <3> QED BY <1>2, <2>1, <2>2, First
  <2>4. (CHOOSE v \in heirs : IsFirst(v)) \in heirs
    <3> HIDE DEF heirs, IsFirst
    <3> QED BY <2>3
  <2>5. Successor(u) = CHOOSE v \in heirs : IsFirst(v)
    BY <1>2 DEF Successor
  <2> QED BY <2>4, <2>5
<1> QED BY <1>1, <1>2

(* What a new row, a deleted row and the end of the group make of the rows. *)
RowsOK ==
  /\ role \in [User -> {"none", "member", "owner", "invited", "banned"}]
  /\ tenure \subseteq HasRow \X HasRow
  /\ Orders(tenure, HasRow)

LEMMA UpsertRows ==
  ASSUME RowsOK, NEW u \in User, NEW as \in {"member", "invited", "banned"},
         UpsertGroupMember(u, as)
  PROVE  RowsOK'
<1>1. CASE ~Exists \/ (role[u] = "banned" /\ as # "banned")
  BY <1>1 DEF UpsertGroupMember, RowsOK, HasRow
<1>2. CASE Exists /\ role[u] # "none" /\ (role[u] = "banned" => as = "banned")
  <2>1. HasRow' = HasRow /\ tenure' = tenure
    BY <1>2 DEF UpsertGroupMember, RowsOK, HasRow
  <2> QED BY <1>2, <2>1 DEF UpsertGroupMember, RowsOK
<1>3. CASE Exists /\ role[u] = "none"
  <2>1. HasRow' = HasRow \cup {u} /\ u \notin HasRow
    BY <1>3 DEF UpsertGroupMember, RowsOK, HasRow
  <2>2. tenure' = tenure \cup (HasRow \X {u})
    BY <1>3 DEF UpsertGroupMember
  <2>3. role' \in [User -> {"none", "member", "owner", "invited", "banned"}]
    BY <1>3 DEF UpsertGroupMember, RowsOK
  <2>4. Orders(tenure', HasRow')
    <3>1. /\ \A x, y : <<x, y>> \in tenure => x \in HasRow /\ y \in HasRow
          /\ \A x, y \in HasRow :
               /\ x = y \/ <<x, y>> \in tenure \/ <<y, x>> \in tenure
               /\ ~(<<x, y>> \in tenure /\ <<y, x>> \in tenure)
          /\ \A x, y, z \in HasRow : <<x, y>> \in tenure /\ <<y, z>> \in tenure => <<x, z>> \in tenure
      BY DEF RowsOK, Orders
    <3>2. SUFFICES ASSUME NEW v \in HasRow', NEW w \in HasRow'
          PROVE /\ v = w \/ <<v, w>> \in tenure' \/ <<w, v>> \in tenure'
                /\ ~(<<v, w>> \in tenure' /\ <<w, v>> \in tenure')
                /\ \A x \in HasRow' : <<v, w>> \in tenure' /\ <<w, x>> \in tenure' => <<v, x>> \in tenure'
      BY DEF Orders
    <3>3. \A x, y : <<x, y>> \in tenure' <=> <<x, y>> \in tenure \/ (x \in HasRow /\ y = u)
      BY <2>2
    <3>4. v = w \/ <<v, w>> \in tenure' \/ <<w, v>> \in tenure'
      BY <2>1, <3>1, <3>3
    <3>5. ~(<<v, w>> \in tenure' /\ <<w, v>> \in tenure')
      BY <2>1, <3>1, <3>3
    <3>6. ASSUME NEW x \in HasRow', <<v, w>> \in tenure', <<w, x>> \in tenure'
          PROVE  <<v, x>> \in tenure'
      BY <2>1, <3>1, <3>3, <3>6
    <3> QED BY <3>4, <3>5, <3>6
  <2> QED BY <2>1, <2>2, <2>3, <2>4 DEF RowsOK
<1> QED BY <1>1, <1>2, <1>3

LEMMA DeleteRows ==
  ASSUME RowsOK, NEW u \in User, DeleteGroupMember(u)
  PROVE  RowsOK'
<1>1. HasRow' = HasRow \ {u}
  BY DEF DeleteGroupMember, RowsOK, HasRow
<1>2. role' \in [User -> {"none", "member", "owner", "invited", "banned"}]
  BY DEF DeleteGroupMember, RowsOK
<1>3. tenure' = tenure \cap ((User \ {u}) \X (User \ {u}))
  BY DEF DeleteGroupMember, RowsWithout
<1>4. Orders(tenure', HasRow')
  BY <1>1, <1>3 DEF RowsOK, Orders, HasRow
<1> QED BY <1>1, <1>2, <1>3, <1>4 DEF RowsOK, HasRow

LEMMA DropRows == DropGroup => RowsOK'
BY DEF DropGroup, RowsOK, Orders, HasRow

RequestsOK ==
  /\ owner \in User \cup {NoOne} /\ vis \in {"private", "public"} /\ joined \subseteq User
  /\ blocks \subseteq {p \in User \X User : p[1] # p[2]}
  /\ req \in [Request -> ReqType] /\ started \in 0 .. MaxRequests
  /\ overlap \in BOOLEAN /\ erasedTwice \in BOOLEAN

LEMMA TypeParts ==
  /\ TypeOK <=> RequestsOK /\ RowsOK
  /\ TypeOK' <=> RequestsOK' /\ RowsOK'
BY DEF TypeOK, RequestsOK, RowsOK, Orders

LEMMA RowsStay == RowsOK /\ UNCHANGED rows => RowsOK' /\ HasRow' = HasRow
BY DEF RowsOK, rows, HasRow

LEMMA BeginType ==
  ASSUME TypeOK, NEW r \in Request, NEW next \in ReqType, Only(r, next)
  PROVE  TypeOK'
<1>1. RowsOK'
  BY RowsStay, TypeParts DEF Only
<1>2. started' \in 0 .. MaxRequests
  BY GroupsAssumption, TypeParts DEF Only, Start, RequestsOK
<1>3. /\ req' \in [Request -> ReqType]
      /\ overlap' \in BOOLEAN /\ erasedTwice' \in BOOLEAN
  BY TypeParts DEF Only, Start, RequestsOK, Busy, Erasing
<1> QED
  BY <1>1, <1>2, <1>3, TypeParts DEF Only, RequestsOK, group

LEMMA FinishType ==
  ASSUME TypeOK, NEW r \in Request, Finish(r)
  PROVE  /\ req' \in [Request -> ReqType] /\ started' \in 0 .. MaxRequests
         /\ overlap' \in BOOLEAN /\ erasedTwice' \in BOOLEAN
<1>1. Idle \in ReqType
  BY DEF ReqType
<1> QED
  BY <1>1, TypeParts DEF Finish, RequestsOK

(* What the reads of a request saw, as long as nobody changes it. *)
Fits(e) ==
  /\ e.op \in {"join", "accept"} => e.by \in joined /\ role[e.by] \in {"none", "invited"}
  /\ e.op \in {"leave", "decline"} => role[e.by] \in {"member", "invited"}
  /\ e.op = "invite" => e.target \in joined /\ role[e.target] = "none"
  /\ e.op \in {"kick", "ban"} => e.target \in joined /\ role[e.target] # "owner"
  /\ e.op = "erase" =>
       /\ e.public = (owner = e.by /\ vis = "public")
       /\ e.successor = NoOne \/ (e.successor \in User \ {e.by} /\ role[e.successor] = "member")

OwnerRow == \A u \in User : role[u] = "owner" => owner = u

LEMMA BeginSteps ==
  ASSUME TypeOK, NEW r \in Request, NEW u \in User, Begin(r, u)
  PROVE  \E next \in ReqType : Only(r, next) /\ next # Idle /\ (OwnerRow => Fits(next))
<1> DEFINE Goal == \E next \in ReqType : Only(r, next) /\ next # Idle /\ (OwnerRow => Fits(next))
<1>1. ASSUME BeginJoin(r, u) PROVE Goal
  <2> DEFINE next == [op |-> "join", by |-> u]
  <2>1. next \in ReqType /\ next # Idle /\ next.op = "join" /\ next.by = u
    BY DEF ReqType, Idle
  <2>2. Only(r, next) /\ Fits(next)
    BY <1>1, <2>1 DEF BeginJoin, Fits
  <2> QED BY <2>1, <2>2
<1>2. ASSUME BeginLeave(r, u) PROVE Goal
  <2> DEFINE next == [op |-> "leave", by |-> u]
  <2>1. next \in ReqType /\ next # Idle /\ next.op = "leave" /\ next.by = u
    BY DEF ReqType, Idle
  <2>2. Only(r, next) /\ Fits(next)
    BY <1>2, <2>1 DEF BeginLeave, Fits
  <2> QED BY <2>1, <2>2
<1>3. ASSUME BeginErase(r, u) PROVE Goal
  <2> DEFINE next == [op |-> "erase", by |-> u, locked |-> u \in joined,
                      public |-> owner = u /\ vis = "public", successor |-> Successor(u)]
  <2>1. Successor(u) \in User \cup {NoOne}
    BY SuccessorFacts
  <2>2. /\ next \in ReqType /\ next # Idle /\ next.op = "erase" /\ next.by = u
        /\ next.public = (owner = u /\ vis = "public") /\ next.successor = Successor(u)
    BY <2>1 DEF ReqType, Idle
  <2>3. Only(r, next)
    BY <1>3 DEF BeginErase
  <2>4. Fits(next)
    BY <2>2, SuccessorFacts DEF Fits
  <2> HIDE DEF next
  <2> QED BY <2>2, <2>3, <2>4
<1>4. ASSUME NEW accept \in GroupInviteRespondRequest, BeginRespond(r, u, accept) PROVE Goal
  <2> DEFINE next == [op |-> IF accept THEN "accept" ELSE "decline", by |-> u]
  <2>1. next \in ReqType /\ next # Idle /\ next.op \in {"accept", "decline"} /\ next.by = u
    BY DEF ReqType, Idle
  <2>2. Only(r, next) /\ u \in joined /\ role[u] = "invited"
    BY <1>4 DEF BeginRespond
  <2>3. Fits(next)
    BY <2>1, <2>2 DEF Fits
  <2> QED BY <2>1, <2>2, <2>3
<1>5. ASSUME NEW v \in GroupUpdateRequest, BeginUpdate(r, u, v) PROVE Goal
  <2> DEFINE next == [op |-> "update", by |-> u, vis |-> v]
  <2>1. next \in ReqType /\ next # Idle /\ next.op = "update"
    BY DEF ReqType, Idle
  <2>2. Only(r, next) /\ Fits(next)
    BY <1>5, <2>1 DEF BeginUpdate, Fits
  <2> QED BY <2>1, <2>2
<1>6. ASSUME NEW t \in GroupInviteRequest, BeginInvite(r, u, t) PROVE Goal
  <2> DEFINE next == [op |-> "invite", by |-> u, target |-> t]
  <2>1. next \in ReqType /\ next # Idle /\ next.op = "invite" /\ next.target = t
    BY DEF ReqType, Idle, GroupInviteRequest
  <2>2. Only(r, next) /\ Fits(next)
    BY <1>6, <2>1 DEF BeginInvite, Fits
  <2> QED BY <2>1, <2>2
<1>7. ASSUME NEW m \in GroupKickRequest, BeginKick(r, u, m) PROVE Goal
  <2> DEFINE next == [op |-> IF m.ban THEN "ban" ELSE "kick", by |-> u, target |-> m.target]
  <2>1. m.target \in User
    BY DEF GroupKickRequest
  <2>2. next \in ReqType /\ next # Idle /\ next.op \in {"kick", "ban"} /\ next.target = m.target
    BY <2>1 DEF ReqType, Idle
  <2>3. Only(r, next) /\ role[u] = "owner" /\ m.target \in joined \ {u}
    BY <1>7 DEF BeginKick
  <2>4. OwnerRow => Fits(next)
    BY <2>1, <2>2, <2>3 DEF Fits, OwnerRow
  <2> QED BY <2>2, <2>3, <2>4
<1> HIDE DEF Goal
<1>8. Goal
  BY <1>1, <1>2, <1>3, <1>4, <1>5, <1>6, <1>7 DEF Begin
<1> QED
  BY <1>8 DEF Goal

LEMMA ReqFacts ==
  ASSUME TypeOK, NEW r \in Request
  PROVE  /\ req[r] \in ReqType
         /\ req[r].op \in {"join", "accept", "leave", "decline"} => req[r].by \in User
         /\ req[r].op \in {"invite", "kick", "ban"} => req[r].target \in User
         /\ req[r].op = "erase" => req[r].by \in User /\ req[r].successor \in User \cup {NoOne}
         /\ req[r].op = "update" => req[r].vis \in {"private", "public"}
<1>1. req[r] \in ReqType
  BY DEF TypeOK
<1> QED
  BY <1>1 DEF ReqType, Idle, GroupUpdateRequest

(* What an erasure does to the rows, if the group goes on. *)
EraseRows(e) ==
  /\ role' = [v \in User |-> CASE v = e.by -> "none"
                               [] v # e.by /\ HandsOver(e) /\ v = e.successor /\ role[v] # "none" -> "owner"
                               [] OTHER -> role[v]]
  /\ HasRow' = HasRow \ {e.by} /\ tenure' = RowsWithout(e.by) /\ RowsOK'

LEMMA EraseFacts ==
  ASSUME TypeOK, NEW r \in Request, Erase(r)
  PROVE  /\ joined' = joined \ {req[r].by} /\ blocks' \subseteq blocks /\ Finish(r)
         /\ ~HandsOver(req[r]) /\ Dies(req[r]) => DropGroup
         /\ HandsOver(req[r]) \/ ~Dies(req[r]) =>
              /\ owner' = IF HandsOver(req[r]) THEN req[r].successor ELSE owner
              /\ vis' = vis /\ EraseRows(req[r])
<1> DEFINE e == req[r]
           promoted == IF HandsOver(e) /\ role[e.successor] # "none"
                       THEN [role EXCEPT ![e.successor] = "owner"] ELSE role
<1>1. e.by \in User /\ e.successor \in User \cup {NoOne}
  BY ReqFacts DEF Erase
<1>2. joined' = joined \ {e.by} /\ blocks' \subseteq blocks /\ Finish(r)
      /\ (~HandsOver(e) /\ Dies(e) => DropGroup)
  BY DEF Erase, Unrelated
<1>3. ASSUME HandsOver(e) \/ ~Dies(e)
      PROVE  /\ owner' = IF HandsOver(e) THEN e.successor ELSE owner
             /\ vis' = vis /\ EraseRows(e)
  <2>1. /\ owner' = IF HandsOver(e) THEN e.successor ELSE owner
        /\ role' = [promoted EXCEPT ![e.by] = "none"]
        /\ tenure' = RowsWithout(e.by) /\ vis' = vis
    BY <1>3 DEF Erase
  <2>2. RowsOK
    BY TypeParts
  <2>3. role' = [v \in User |-> CASE v = e.by -> "none"
                               [] v # e.by /\ HandsOver(e) /\ v = e.successor /\ role[v] # "none" -> "owner"
                               [] OTHER -> role[v]]
    BY <1>1, <2>1, <2>2 DEF RowsOK, HandsOver
  <2>4. role' \in [User -> {"none", "member", "owner", "invited", "banned"}]
    BY <2>2, <2>3 DEF RowsOK
  <2>5. HasRow' = HasRow \ {e.by}
    BY <2>3, <2>4 DEF HasRow
  <2>6. tenure' = tenure \cap ((User \ {e.by}) \X (User \ {e.by}))
    BY <2>1 DEF RowsWithout
  <2>7. tenure' \subseteq HasRow' \X HasRow' /\ Orders(tenure', HasRow')
    BY <2>2, <2>5, <2>6 DEF RowsOK, Orders, HasRow
  <2> QED BY <2>1, <2>3, <2>4, <2>5, <2>7 DEF EraseRows, RowsOK
<1> QED BY <1>2, <1>3

LEMMA GroupTypeStep == TypeOK /\ [Next]_vars => TypeOK'
<1> SUFFICES ASSUME TypeOK, [Next]_vars PROVE TypeOK'
  OBVIOUS
<1> USE TypeParts DEF RequestsOK, rows, group
<1>1. ASSUME NEW r \in Request, Update(r) PROVE TypeOK'
  BY <1>1, FinishType, RowsStay, ReqFacts DEF Update
<1>2. ASSUME NEW r \in Request, Admit(r) PROVE TypeOK'
  BY <1>2, FinishType, UpsertRows, ReqFacts DEF Admit
<1>3. ASSUME NEW r \in Request, Depart(r) PROVE TypeOK'
  BY <1>3, FinishType, DeleteRows, ReqFacts DEF Depart
<1>4. ASSUME NEW r \in Request, Invite(r) PROVE TypeOK'
  BY <1>4, FinishType, UpsertRows, ReqFacts DEF Invite
<1>5. ASSUME NEW r \in Request, Kick(r) PROVE TypeOK'
  BY <1>5, FinishType, DeleteRows, ReqFacts DEF Kick
<1>6. ASSUME NEW r \in Request, Ban(r) PROVE TypeOK'
  BY <1>6, FinishType, UpsertRows, ReqFacts DEF Ban
<1>7. ASSUME NEW r \in Request, Erase(r) PROVE TypeOK'
  <2>1. CASE ~HandsOver(req[r]) /\ Dies(req[r])
    BY <1>7, <2>1, FinishType, EraseFacts, DropRows DEF DropGroup
  <2>2. CASE HandsOver(req[r]) \/ ~Dies(req[r])
    BY <1>7, <2>2, FinishType, EraseFacts, ReqFacts DEF EraseRows, Erase
  <2> QED BY <2>1, <2>2
<1>8. ASSUME NEW r \in Request, Fails(r) PROVE TypeOK'
  BY <1>8, FinishType, RowsStay DEF Fails
<1>9. ASSUME NEW r \in Request, NEW u \in User, Begin(r, u) PROVE TypeOK'
  BY <1>9, BeginSteps, BeginType
<1>10. ASSUME NEW u \in User, DeleteGroup(u) PROVE TypeOK'
  BY <1>10, DropRows DEF DeleteGroup, DropGroup, Busy
<1>11. ASSUME NEW u \in User, JoinSocial(u) PROVE TypeOK'
  BY <1>11, RowsStay DEF JoinSocial, Busy
<1>12. ASSUME NEW u \in User, NEW v \in User, Block(u, v) PROVE TypeOK'
  BY <1>12, RowsStay DEF Block
<1>13. ASSUME UNCHANGED vars PROVE TypeOK'
  BY <1>13, RowsStay DEF vars
<1> QED
  BY <1>1, <1>2, <1>3, <1>4, <1>5, <1>6, <1>7, <1>8, <1>9, <1>10, <1>11, <1>12, <1>13 DEF Next, Write

----------------------------------------------------------------------------
(* The group: a ban stays. *)
LEMMA BanStep ==
  TypeOK /\ [Next]_vars =>
    \A u \in User : role[u] = "banned" => role'[u] \notin {"member", "invited"}
<1> SUFFICES ASSUME TypeOK, [Next]_vars, NEW u \in User, role[u] = "banned"
             PROVE  role'[u] \notin {"member", "invited"}
  OBVIOUS
<1> DEFINE Goal == role'[u] \notin {"member", "invited"}
<1>a. role \in [User -> {"none", "member", "owner", "invited", "banned"}]
  BY DEF TypeOK
<1>b. ASSUME UNCHANGED role PROVE Goal
  BY <1>b
<1>c. ASSUME DropGroup PROVE Goal
  BY <1>c DEF DropGroup
<1>d. ASSUME NEW v, DeleteGroupMember(v) PROVE Goal
  BY <1>a, <1>d DEF DeleteGroupMember
<1>e. ASSUME NEW v, NEW as, UpsertGroupMember(v, as) PROVE Goal
  BY <1>a, <1>e DEF UpsertGroupMember
<1>1. ASSUME NEW r \in Request, Erase(r) PROVE Goal
  <2>1. CASE ~HandsOver(req[r]) /\ Dies(req[r])
    BY <1>1, <1>c, <2>1, EraseFacts
  <2>2. CASE HandsOver(req[r]) \/ ~Dies(req[r])
    BY <1>1, <2>2, EraseFacts DEF EraseRows
  <2> QED BY <2>1, <2>2
<1>2. ASSUME NEW r \in Request, Write(r) PROVE Goal
  BY <1>1, <1>2, <1>b, <1>d, <1>e
     DEF Write, Update, Admit, Depart, Invite, Kick, Ban, Fails, rows
<1>3. ASSUME NEW r \in Request, NEW v \in User, Begin(r, v) PROVE Goal
  BY <1>3, <1>b, BeginSteps DEF Only, rows
<1> HIDE DEF Goal
<1>4. Goal
  BY <1>2, <1>3, <1>b, <1>c DEF Next, vars, rows, DeleteGroup, JoinSocial, Block
<1> QED BY <1>4 DEF Goal

----------------------------------------------------------------------------
(* The group: one owner, who presides. *)
Erasers ==
  ~erasedTwice =>
    /\ \A r, s \in Request :
         req[r].op = "erase" /\ req[s].op = "erase" /\ req[r].by = req[s].by => r = s
    /\ \A r \in Request : req[r].op = "erase" /\ req[r].public => owner \in {req[r].by, NoOne}

OneByOne ==
  ~overlap =>
    /\ \A r, s \in Request : req[r] # Idle /\ req[s] # Idle => r = s
    /\ \A r \in Request : Fits(req[r])
    /\ HasRow \subseteq joined

GroupInv ==
  /\ TypeOK
  /\ erasedTwice => overlap
  /\ ~Exists => HasRow = {}
  /\ Erasers
  /\ OneOwnerRow
  /\ OneByOne
  /\ OwnerPresides

LEMMA GroupInit == Init => GroupInv
<1> SUFFICES ASSUME Init PROVE GroupInv
  OBVIOUS
<1>1. TypeOK
  BY GroupInitType
<1>2. HasRow = {owner} /\ owner \in User /\ joined = User /\ owner # NoOne
  BY GroupsAssumption DEF Init, HasRow
<1>3. \A r \in Request : req[r] = Idle /\ req[r].op = "idle"
  BY DEF Init, Idle
<1>4. \A r \in Request : Fits(req[r])
  BY <1>3 DEF Fits
<1>5. \A u \in User : role[u] = IF u = owner THEN "owner" ELSE "none"
  BY DEF Init
<1> QED
  BY <1>1, <1>2, <1>3, <1>4, <1>5
     DEF Init, GroupInv, Exists, Erasers, OneOwnerRow, OneByOne, OwnerPresides

LEMMA IdleFits == Idle.op = "idle" /\ (Fits(Idle) <=> TRUE)
BY DEF Idle, Fits

LEMMA GroupBegin ==
  ASSUME GroupInv, NEW r \in Request, NEW u \in User, Begin(r, u)
  PROVE  GroupInv'
<1>1. TypeOK /\ TypeOK'
  BY GroupTypeStep DEF GroupInv, Next
<1>2. PICK next \in ReqType : Only(r, next) /\ next # Idle /\ (OwnerRow => Fits(next))
  BY <1>1, BeginSteps
<1>3. /\ owner' = owner /\ vis' = vis /\ role' = role /\ joined' = joined
      /\ HasRow' = HasRow /\ (Exists' <=> Exists)
  BY <1>2 DEF Only, group, rows, HasRow, Exists
<1>4. /\ req[r] = Idle /\ req' = [req EXCEPT ![r] = next]
      /\ overlap' = (overlap \/ \E s \in Request \ {r} : req[s] # Idle)
      /\ erasedTwice' = (erasedTwice \/ (next.op = "erase" /\ Erasing(next.by, Request \ {r})))
  BY <1>2 DEF Only, Start, Busy
<1>5. \A s \in Request : req'[s] = IF s = r THEN next ELSE req[s]
  BY <1>1, <1>4 DEF TypeOK
<1>6. ~erasedTwice' => OwnerRow /\ Fits(next)
  BY <1>2, <1>4 DEF GroupInv, OneOwnerRow, OwnerRow
<1>7. erasedTwice' => overlap'
  BY <1>4, IdleFits DEF GroupInv, Erasing
<1>8. Erasers'
  <2>1. SUFFICES ASSUME ~erasedTwice' PROVE Erasers'
    BY DEF Erasers
  <2>2. Erasers /\ ~erasedTwice /\ ~(next.op = "erase" /\ Erasing(next.by, Request \ {r})) /\ Fits(next)
    BY <1>4, <1>6, <2>1 DEF GroupInv
  <2>3. \A s \in Request : s # r /\ next.op = "erase" /\ req[s].op = "erase" => req[s].by # next.by
    BY <2>2 DEF Erasing
  <2>4. next.op = "erase" /\ next.public => owner = next.by
    BY <2>2 DEF Fits
  <2> QED BY <1>3, <1>5, <2>2, <2>3, <2>4 DEF Erasers
<1>9. OneOwnerRow'
  BY <1>3, <1>4 DEF GroupInv, OneOwnerRow
<1>10. OneByOne'
  <2>1. SUFFICES ASSUME ~overlap' PROVE OneByOne'
    BY DEF OneByOne
  <2>2. ~overlap /\ Fits(next) /\ \A s \in Request \ {r} : req[s] = Idle
    BY <1>4, <1>6, <1>7, <2>1
  <2>3. \A e : Fits(e)' <=> Fits(e)
    BY <1>3 DEF Fits
  <2>4. \A s \in Request : Fits(req'[s])
    BY <1>5, <2>2, IdleFits
  <2>5. \A s \in Request : Fits(req[s])'
    BY <1>3, <2>4 DEF Fits
  <2>6. \A s, q \in Request : req'[s] # Idle /\ req'[q] # Idle => s = q
    BY <1>5, <2>2
  <2>7. HasRow' \subseteq joined'
    BY <1>3, <2>2 DEF GroupInv, OneByOne
  <2> QED BY <2>5, <2>6, <2>7 DEF OneByOne
<1>11. OwnerPresides'
  BY <1>3, <1>4 DEF GroupInv, OwnerPresides
<1> QED
  BY <1>1, <1>3, <1>7, <1>8, <1>9, <1>10, <1>11 DEF GroupInv

LEMMA GroupFinish ==
  ASSUME GroupInv, NEW r \in Request, req[r] # Idle, Finish(r), TypeOK',
         owner' \in {owner, NoOne} \/ (req[r].op = "erase" /\ req[r].public /\ Exists)
  PROVE  /\ (overlap' <=> overlap) /\ (erasedTwice' <=> erasedTwice)
         /\ ~overlap => Fits(req[r]) /\ HasRow \subseteq joined
         /\ Erasers'
         /\ (~overlap => HasRow' \subseteq joined') => OneByOne'
<1>1. TypeOK
  BY DEF GroupInv
<1>2. req' = [req EXCEPT ![r] = Idle] /\ overlap' = overlap /\ erasedTwice' = erasedTwice
  BY DEF Finish
<1>3. \A s \in Request : req'[s] = IF s = r THEN Idle ELSE req[s]
  BY <1>1, <1>2 DEF TypeOK
<1>4. ~overlap => /\ Fits(req[r]) /\ HasRow \subseteq joined
                  /\ \A s \in Request : req'[s] = Idle
  BY <1>3 DEF GroupInv, OneByOne
<1>5. Erasers'
  <2>1. SUFFICES ASSUME ~erasedTwice' PROVE Erasers'
    BY DEF Erasers
  <2>2. Erasers /\ ~erasedTwice
    BY <1>2, <2>1 DEF GroupInv
  <2>3. \A s \in Request : req'[s].op = "erase" => s # r /\ req'[s] = req[s]
    BY <1>3, IdleFits
  <2>4. ASSUME NEW s \in Request, req'[s].op = "erase", req'[s].public
        PROVE  owner' \in {req'[s].by, NoOne}
    <3>1. s # r /\ req'[s] = req[s] /\ owner \in {req[s].by, NoOne}
      BY <2>2, <2>3, <2>4 DEF Erasers
    <3>2. CASE req[r].op = "erase" /\ req[r].public /\ Exists
      BY <2>2, <2>4, <3>1, <3>2 DEF Erasers, Exists
    <3>3. CASE owner' \in {owner, NoOne}
      BY <3>1, <3>3
    <3> QED BY <3>2, <3>3
  <2>5. \A s, q \in Request :
          req'[s].op = "erase" /\ req'[q].op = "erase" /\ req'[s].by = req'[q].by => s = q
    BY <2>2, <2>3 DEF Erasers
  <2> QED BY <2>4, <2>5 DEF Erasers
<1>6. ASSUME ~overlap => HasRow' \subseteq joined' PROVE OneByOne'
  <2>1. SUFFICES ASSUME ~overlap PROVE OneByOne'
    BY <1>2 DEF OneByOne
  <2>2. \A s \in Request : Fits(req[s])'
    BY <1>4, <2>1 DEF Fits, Idle
  <2>3. \A s, q \in Request : req'[s] # Idle /\ req'[q] # Idle => s = q
    BY <1>4, <2>1
  <2> QED BY <1>6, <2>1, <2>2, <2>3 DEF OneByOne
<1> QED BY <1>2, <1>4, <1>5, <1>6

LEMMA GroupWrite ==
  ASSUME GroupInv, NEW r \in Request, Write(r)
  PROVE  GroupInv'
<1>1. TypeOK /\ TypeOK'
  BY GroupTypeStep DEF GroupInv, Next
<1>2. /\ role \in [User -> {"none", "member", "owner", "invited", "banned"}]
      /\ role' \in [User -> {"none", "member", "owner", "invited", "banned"}]
      /\ joined \subseteq User
  BY <1>1 DEF TypeOK
<1>3. req[r] # Idle /\ Finish(r)
  BY DEF Write, Update, Admit, Depart, Invite, Kick, Ban, Erase, Fails, Idle
(* It is left to look at the rows. *)
<1> DEFINE Goal == /\ ~Exists' => HasRow' = {}
                   /\ OneOwnerRow'
                   /\ ~overlap => HasRow' \subseteq joined'
                   /\ OwnerPresides'
<1>4. ASSUME owner' \in {owner, NoOne} \/ (req[r].op = "erase" /\ req[r].public /\ Exists), Goal
      PROVE  GroupInv'
  <2>1. /\ (overlap' <=> overlap) /\ (erasedTwice' <=> erasedTwice)
        /\ Erasers' /\ OneByOne'
    BY <1>1, <1>3, <1>4, GroupFinish
  <2> QED BY <1>1, <1>4, <2>1 DEF GroupInv
<1>5. /\ overlap' = overlap /\ erasedTwice' = erasedTwice
      /\ ~overlap => Fits(req[r]) /\ HasRow \subseteq joined /\ (Exists => owner \in joined /\ role[owner] = "owner")
      /\ ~Exists => HasRow = {}
      /\ ~erasedTwice => \A v \in User : role[v] = "owner" => owner = v
  BY <1>3 DEF GroupInv, OneByOne, OwnerPresides, OneOwnerRow, Finish
<1>6. ASSUME UNCHANGED <<owner, role, joined>> PROVE Goal
  BY <1>2, <1>5, <1>6 DEF HasRow, Exists, OneOwnerRow, OwnerPresides
<1>7. ASSUME DropGroup PROVE Goal
  BY <1>7 DEF DropGroup, HasRow, Exists, OneOwnerRow, OwnerPresides
<1>8. ASSUME NEW u \in User, NEW as \in {"member", "invited", "banned"}, UpsertGroupMember(u, as),
             UNCHANGED <<owner, joined>>,
             ~overlap => u \in joined /\ role[u] # "owner"
      PROVE  Goal
  <2>1. /\ \A v \in User : role'[v] = role[v] \/ (v = u /\ role'[v] = as /\ Exists)
    BY <1>2, <1>8 DEF UpsertGroupMember
  <2> QED BY <1>2, <1>5, <1>8, <2>1 DEF HasRow, Exists, OneOwnerRow, OwnerPresides
<1>9. ASSUME NEW u \in User, DeleteGroupMember(u), UNCHANGED <<owner, joined>>,
             ~overlap => role[u] # "owner"
      PROVE  Goal
  <2>1. \A v \in User : role'[v] = IF v = u THEN "none" ELSE role[v]
    BY <1>2, <1>9 DEF DeleteGroupMember
  <2> QED BY <1>2, <1>5, <1>9, <2>1 DEF HasRow, Exists, OneOwnerRow, OwnerPresides
<1> HIDE DEF Goal
<1>10. CASE Update(r) \/ Fails(r)
  BY <1>4, <1>6, <1>10 DEF Update, Fails, group, rows
<1>11. CASE Admit(r)
  <2>1. req[r].by \in User /\ (~overlap => req[r].by \in joined /\ role[req[r].by] # "owner")
    BY <1>1, <1>5, <1>11, ReqFacts DEF Admit, Fits
  <2> QED BY <1>4, <1>8, <1>11, <2>1 DEF Admit, group
<1>12. CASE Depart(r)
  <2>1. req[r].by \in User /\ (~overlap => role[req[r].by] # "owner")
    BY <1>1, <1>5, <1>12, ReqFacts DEF Depart, Fits
  <2> QED BY <1>4, <1>9, <1>12, <2>1 DEF Depart, group
<1>13. CASE Invite(r)
  <2>1. req[r].target \in User /\ (~overlap => req[r].target \in joined /\ role[req[r].target] # "owner")
    BY <1>1, <1>5, <1>13, ReqFacts DEF Invite, Fits
  <2> QED BY <1>4, <1>8, <1>13, <2>1 DEF Invite, group
<1>14. CASE Kick(r)
  <2>1. req[r].target \in User /\ (~overlap => role[req[r].target] # "owner")
    BY <1>1, <1>5, <1>14, ReqFacts DEF Kick, Fits
  <2> QED BY <1>4, <1>9, <1>14, <2>1 DEF Kick, group
<1>15. CASE Ban(r)
  <2>1. req[r].target \in User /\ (~overlap => req[r].target \in joined /\ role[req[r].target] # "owner")
    BY <1>1, <1>5, <1>15, ReqFacts DEF Ban, Fits
  <2> QED BY <1>4, <1>8, <1>15, <2>1 DEF Ban, group
<1>16. CASE Erase(r)
  <2> DEFINE e == req[r]
  <2>1. /\ e.op = "erase" /\ e.by \in User /\ e.successor \in User \cup {NoOne}
        /\ joined' = joined \ {e.by}
    BY <1>1, <1>16, ReqFacts, EraseFacts DEF Erase
  <2>2. CASE ~HandsOver(e) /\ Dies(e)
    <3>1. DropGroup
      BY <1>1, <1>16, <2>2, EraseFacts
    <3>2. Goal /\ owner' = NoOne
      BY <1>7, <3>1 DEF DropGroup
    <3> QED BY <1>4, <3>2
  <2>3. CASE HandsOver(e) \/ ~Dies(e)
    <3>1. /\ owner' = IF HandsOver(e) THEN e.successor ELSE owner
          /\ EraseRows(e)
      BY <1>1, <1>16, <2>3, EraseFacts
    <3>2. /\ role'[e.by] = "none" /\ HasRow' = HasRow \ {e.by}
          /\ \A v \in User \ {e.by} :
               role'[v] = IF HandsOver(e) /\ v = e.successor /\ role[v] # "none" THEN "owner" ELSE role[v]
      BY <2>1, <3>1 DEF EraseRows
    <3>3. owner' \in {owner, NoOne} \/ (e.op = "erase" /\ e.public /\ Exists)
      BY <2>1, <3>1 DEF HandsOver
    <3>4. ~Exists' => HasRow' = {}
      BY <1>5, <2>1, <3>1, <3>2, GroupsAssumption DEF HandsOver, Exists
    <3>5. ~overlap => HasRow' \subseteq joined'
      BY <1>5, <2>1, <3>2
    <3>6. OneOwnerRow'
      <4>1. SUFFICES ASSUME ~erasedTwice, NEW v \in User, role'[v] = "owner" PROVE owner' = v
        BY <1>5 DEF OneOwnerRow
      <4>2. v # e.by
        BY <3>2, <4>1
      <4>3. CASE HandsOver(e)
        <5>1. owner' = e.successor /\ owner = e.by
          BY <1>16, <2>1, <3>1, <4>1, <4>3 DEF GroupInv, Erasers, HandsOver, Exists
        <5> QED BY <1>5, <3>2, <4>1, <4>2, <5>1
      <4>4. CASE ~HandsOver(e)
        BY <1>5, <3>1, <3>2, <4>1, <4>2, <4>4
      <4> QED BY <4>3, <4>4
    <3>7. OwnerPresides'
      <4>1. SUFFICES ASSUME ~overlap, Exists' PROVE owner' \in joined' /\ role'[owner'] = "owner"
        BY <1>5 DEF OwnerPresides
      <4>2. /\ e.public = (owner = e.by /\ vis = "public")
            /\ e.successor = NoOne \/ (e.successor \in User \ {e.by} /\ role[e.successor] = "member")
        BY <1>5, <2>1, <4>1 DEF Fits
      <4>3. CASE HandsOver(e)
        <5>1. e.successor \in User \ {e.by} /\ role[e.successor] = "member" /\ owner' = e.successor
          BY <3>1, <4>2, <4>3 DEF HandsOver
        <5>2. e.successor \in HasRow
          BY <5>1 DEF HasRow
        <5> QED BY <1>5, <2>1, <3>2, <4>1, <4>3, <5>1, <5>2
      <4>4. CASE ~HandsOver(e)
        <5>1. owner' = owner /\ Exists /\ ~Dies(e)
          BY <2>3, <3>1, <4>1, <4>4 DEF Exists
        <5>2. owner \in joined /\ role[owner] = "owner"
          BY <1>5, <4>1, <5>1
        <5>3. vis \in {"private", "public"}
          BY <1>1 DEF TypeOK
        <5>4. owner # e.by
          BY <4>2, <4>4, <5>1, <5>3 DEF HandsOver, Dies
        <5> QED BY <1>2, <2>1, <3>2, <4>4, <5>1, <5>2, <5>4
      <4> QED BY <4>3, <4>4
    <3> QED BY <1>4, <3>3, <3>4, <3>5, <3>6, <3>7 DEF Goal
  <2> QED BY <2>2, <2>3
<1> QED
  BY <1>10, <1>11, <1>12, <1>13, <1>14, <1>15, <1>16 DEF Write

LEMMA GroupStepInv == GroupInv /\ [Next]_vars => GroupInv'
<1> SUFFICES ASSUME GroupInv, [Next]_vars PROVE GroupInv'
  OBVIOUS
<1>1. TypeOK /\ TypeOK'
  BY GroupTypeStep DEF GroupInv
<1>2. ASSUME NEW u \in User, DeleteGroup(u) \/ JoinSocial(u) PROVE GroupInv'
  <2>1. /\ req' = req /\ erasedTwice' = erasedTwice
        /\ overlap' = (overlap \/ \E s \in Request : req[s] # Idle)
        /\ joined \subseteq joined'
        /\ DropGroup \/ UNCHANGED <<group, rows>>
    BY <1>2 DEF DeleteGroup, JoinSocial, Busy
  <2>2. /\ owner' \in {owner, NoOne} /\ (~Exists' => HasRow' = {}) /\ HasRow' \subseteq HasRow
        /\ OneOwnerRow'
        /\ Exists' => owner' = owner /\ role' = role
    BY <2>1 DEF DropGroup, group, rows, Exists, HasRow, GroupInv, OneOwnerRow
  <2>3. Erasers'
    BY <2>1, <2>2 DEF GroupInv, Erasers
  <2>4. ~overlap' => ~overlap /\ \A s \in Request : req'[s] = Idle
    BY <2>1
  <2>5. ~overlap' => \A s \in Request : Fits(req[s])'
    BY <2>4 DEF Fits, Idle
  <2>6. OneByOne'
    BY <2>1, <2>2, <2>4, <2>5 DEF GroupInv, OneByOne
  <2>7. OwnerPresides'
    BY <2>1, <2>2 DEF GroupInv, OwnerPresides, Exists
  <2> QED BY <1>1, <2>1, <2>2, <2>3, <2>6, <2>7 DEF GroupInv
<1>3. ASSUME UNCHANGED <<group, rows, joined, req, started, overlap, erasedTwice>> PROVE GroupInv'
  <2>1. \A s \in Request : Fits(req[s])' <=> Fits(req[s])
    BY <1>3 DEF Fits, group, rows
  <2> QED BY <1>1, <1>3, <2>1
          DEF group, rows, GroupInv, Exists, HasRow, Erasers, OneOwnerRow, OneByOne, OwnerPresides
<1>4. ASSUME NEW u \in User, NEW v \in User, Block(u, v) PROVE GroupInv'
  BY <1>3, <1>4 DEF Block
<1>5. ASSUME UNCHANGED vars PROVE GroupInv'
  BY <1>3, <1>5 DEF vars
<1> QED
  BY <1>2, <1>4, <1>5, GroupWrite, GroupBegin DEF Next

(* Of the members a roster shows those whom no block hides. *)
Hidden(u) == {m \in Seated : IsBlockedEither(blocks, u, m)}
OnRoster(u) == {m.user : m \in GetGroupMembers(u)}

LEMMA RosterSize ==
  ASSUME TypeOK, Seated \subseteq joined, NEW u
  PROVE  /\ OnRoster(u) = Seated \ Hidden(u)
         /\ Cardinality(OnRoster(u)) + Cardinality(Hidden(u)) = Cardinality(Seated)
<1> DEFINE S == Seated
           H == Hidden(u)
           V == S \ H
<1>1. IsFiniteSet(S)
  BY GroupsAssumption, FS_Subset DEF Seated
<1>2. \A m : GroupMember(m).user = m
  BY DEF GroupMember
<1>3. GetGroupMembers(u) = {GroupMember(m) : m \in V}
  BY DEF GetGroupMembers, Hidden
<1>4. OnRoster(u) = V
  BY <1>2, <1>3 DEF OnRoster
<1>5. H \in SUBSET S
  BY DEF Hidden
<1> HIDE DEF S, H
<1>6. IsFiniteSet(H) /\ IsFiniteSet(V) /\ Cardinality(V) = Cardinality(S) - Cardinality(S \cap H)
  BY <1>1, <1>5, FS_Subset, FS_Difference
<1>7. S \cap H = H
  BY <1>5
<1>8. Cardinality(V) + Cardinality(H) = Cardinality(S)
  <2>1. Cardinality(S) \in Nat /\ Cardinality(H) \in Nat
    BY <1>1, <1>6, FS_CardinalityType
  <2>2. Cardinality(V) = Cardinality(S) - Cardinality(H)
    BY <1>6, <1>7
  <2> HIDE DEF V
  <2> QED BY <2>1, <2>2
<1> QED BY <1>4, <1>8 DEF S, H

LEMMA RosterFollows == GroupInv => RosterAgrees
<1> SUFFICES ASSUME GroupInv, ~overlap PROVE RosterAgrees
  BY DEF RosterAgrees
<1>1. /\ TypeOK /\ HasRow \subseteq joined /\ (~Exists => HasRow = {})
      /\ Exists => owner \in joined /\ role[owner] = "owner"
      /\ Visible <=> Exists
  BY DEF GroupInv, OneByOne, OwnerPresides, Visible
<1>2. /\ Seated \subseteq HasRow /\ Seated \subseteq joined /\ (Exists => owner \in Seated)
  BY <1>1 DEF Seated, HasRow, TypeOK, Exists
<1> SUFFICES ASSUME NEW u \in User
             PROVE  LET roster == GroupMembersResponse(u)
                        on     == {m.user : m \in roster.members}
                        hidden == {m \in Seated : IsBlockedEither(blocks, u, m)}
                        own    == GroupsResponse(u).groups
                    IN /\ on \cap hidden = {}
                       /\ roster.total > 0 =>
                            /\ Cardinality(on) + Cardinality(hidden) = roster.total
                            /\ owner \in hidden \/ \E m \in roster.members : m.role = "owner"
                       /\ u \in on <=> own # {}
                       /\ \A g \in own : g.members = roster.total
                       /\ \A g \in GroupDiscoverResponse(u) : g.members = roster.total /\ g.owner \in on
  BY DEF RosterAgrees
<1> DEFINE roster == GroupMembersResponse(u)
           on     == {m.user : m \in roster.members}
           own    == GroupsResponse(u).groups
           open   == u \in joined /\ Visible /\ (vis = "public" \/ u \in Seated)
<1>3. OnRoster(u) = Seated \ Hidden(u) /\ Cardinality(OnRoster(u)) + Cardinality(Hidden(u)) = Cardinality(Seated)
  BY <1>1, <1>2, RosterSize
<1>4. <<u, u>> \notin blocks
  BY <1>1 DEF TypeOK
<1>5. u \notin Hidden(u)
  BY <1>4 DEF Hidden, IsBlockedEither
<1>6. own # {} <=> u \in Seated
  BY <1>1, <1>2 DEF GroupsResponse, GetGroupsForUser, Seated, HasRow
<1>7. \A g \in own : g.members = Cardinality(Seated)
  BY DEF GroupsResponse, GetGroupsForUser, SocialGroup
<1>8. \A g \in GroupDiscoverResponse(u) :
        /\ g.members = Cardinality(Seated) /\ g.owner = owner
        /\ Visible /\ ~IsBlockedEither(blocks, u, owner)
  BY DEF GroupDiscoverResponse, DiscoverGroups
<1>9. CASE open
  <2>1. roster = [members |-> GetGroupMembers(u), total |-> Cardinality(Seated)]
    BY <1>9 DEF GroupMembersResponse, CountGroupMembers
  <2>2. on = OnRoster(u)
    BY <2>1 DEF OnRoster
  <2>3. owner \in Seated /\ role[owner] = "owner"
    BY <1>1, <1>2, <1>9
  <2>4. owner \notin Hidden(u) => \E m \in roster.members : m.role = "owner"
    <3> SUFFICES ASSUME owner \notin Hidden(u) PROVE \E m \in roster.members : m.role = "owner"
      OBVIOUS
    <3>1. GroupMember(owner) \in GetGroupMembers(u)
      BY <1>2, <2>3 DEF GetGroupMembers, Hidden
    <3>2. GroupMember(owner).role = "owner"
      BY <2>3 DEF GroupMember
    <3> QED BY <2>1, <3>1, <3>2
  <2>5. u \in on <=> own # {}
    BY <1>3, <1>5, <1>6, <2>2
  <2>6. \A g \in GroupDiscoverResponse(u) : g.members = roster.total /\ g.owner \in on
    BY <1>3, <1>8, <2>1, <2>2, <2>3 DEF Hidden
  <2> HIDE DEF on, own
  <2>7. on \cap Hidden(u) = {} /\ Cardinality(on) + Cardinality(Hidden(u)) = roster.total
    BY <1>3, <2>1, <2>2
  <2>8. \A g \in own : g.members = roster.total
    BY <1>7, <2>1
  <2> QED BY <2>4, <2>5, <2>6, <2>7, <2>8 DEF on, own, Hidden
<1>10. CASE ~open
  <2>1. roster = [members |-> {}, total |-> 0]
    BY <1>10 DEF GroupMembersResponse
  <2>2. u \notin Seated
    BY <1>1, <1>2, <1>10
  <2>3. GroupDiscoverResponse(u) = {}
    BY <1>10 DEF GroupDiscoverResponse, DiscoverGroups
  <2> QED BY <1>6, <2>1, <2>2, <2>3
<1> QED BY <1>9, <1>10

----------------------------------------------------------------------------
(* The parts of MCPeople: a behaviour stays in its part. *)
LEMMA PartSteps ==
  [PeopleNext]_peopleVars =>
    /\ part' = part
    /\ part = "group" => [Next]_vars
    /\ part = "list" => [List!Next]_(List!vars)
    /\ part = "reads" => [Reads!Next]_(Reads!vars)
    /\ part \notin {"group", "list", "reads"} => [Quota!Next]_(Quota!vars)
    /\ part # "group" => UNCHANGED <<group, rows>>
<1> SUFFICES ASSUME [PeopleNext]_peopleVars
             PROVE  /\ part' = part
                    /\ part = "group" => [Next]_vars
                    /\ part = "list" => [List!Next]_(List!vars)
                    /\ part = "reads" => [Reads!Next]_(Reads!vars)
                    /\ part \notin {"group", "list", "reads"} => [Quota!Next]_(Quota!vars)
                    /\ part # "group" => UNCHANGED <<group, rows>>
  OBVIOUS
<1>1. ASSUME UNCHANGED peopleVars
      PROVE  /\ part' = part /\ UNCHANGED vars /\ UNCHANGED List!vars /\ UNCHANGED Reads!vars
             /\ UNCHANGED Quota!vars /\ UNCHANGED <<group, rows>>
  BY <1>1 DEF peopleVars, vars, listOnly, readOnly, quotaVars, List!vars, List!list, List!people,
              Reads!vars, Reads!graph, Reads!pending, Quota!vars, Quota!quotaVars, Quota!windowVars, Quota!bucketVars
<1>2. CASE GroupStep
  BY <1>2 DEF GroupStep
<1>3. CASE ListStep
  BY <1>3 DEF ListStep, groupOnly
<1>4. CASE ReadStep
  BY <1>4 DEF ReadStep, groupOnly
<1>5. CASE QuotaStep
  BY <1>5 DEF QuotaStep, vars, Quota!Next
<1> QED
  BY <1>1, <1>2, <1>3, <1>4, <1>5 DEF PeopleNext, Ends

LEMMA GroupInvariant == PeopleSpec => [](part = "group" => GroupInv)
<1>1. PeopleInit => (part = "group" => GroupInv)
  BY GroupInit DEF PeopleInit
<1>2. (part = "group" => GroupInv) /\ [PeopleNext]_peopleVars => (part = "group" => GroupInv)'
  BY PartSteps, GroupStepInv
<1> QED
  BY <1>1, <1>2, PTL DEF PeopleSpec

(* Through every succession, for any number of users and requests, the group
   has one owner's row, that of its owner, unless two erasures of one user
   overlapped; and while requests come one after the other the owner has a
   profile and the reads of the members agree, but for the members whom a block
   hides from the page of a roster and not from its total. *)
THEOREM GroupsStayWhole == PeopleSpec => []GroupIsWhole
<1>1. (part = "group" => GroupInv) => GroupIsWhole
  BY RosterFollows DEF GroupInv, GroupIsWhole
<1> QED
  BY <1>1, GroupInvariant, PTL

(* A request that was under way when its user was banned does not undo it. *)
THEOREM BansStay == PeopleSpec => BanNotOverwritten
<1>1. (part = "group" => GroupInv) /\ [PeopleNext]_peopleVars =>
        [\A u \in User : role[u] = "banned" => role'[u] \notin {"member", "invited"}]_vars
  <2> SUFFICES ASSUME part = "group" => GroupInv, [PeopleNext]_peopleVars
               PROVE  \A u \in User : role[u] = "banned" => role'[u] \notin {"member", "invited"}
    OBVIOUS
  <2>1. CASE part = "group"
    BY <2>1, PartSteps, BanStep DEF GroupInv
  <2>2. CASE part # "group"
    BY <2>2, PartSteps DEF rows
  <2> QED BY <2>1, <2>2
<1> QED
  BY <1>1, GroupInvariant, PTL DEF PeopleSpec, BanNotOverwritten

----------------------------------------------------------------------------
(* The social reads: a follow is between two profiles that no block parts, or
   its deletion is under way, or it is one that nothing deletes. *)
Due(e) == \E c \in cuts : (c.edge = e /\ ~c.back) \/ c.edge = Reads!Flip(e)
Sound(e) ==
  /\ e[1] \in Reads!Joined /\ e[2] \in Reads!Joined
  /\ Reads!IsBlockedEither(blocks, e[1], e[2]) => Due(e)
ReadsInv ==
  /\ Reads!TypeOK
  /\ \A e \in Reads!Edge : graph[e] # "none" => e \in loose \/ Sound(e)

LEMMA EdgePairs ==
  ASSUME NEW e \in Reads!Edge
  PROVE  /\ e[1] \in User /\ e[2] \in User /\ e[1] # e[2] /\ e = <<e[1], e[2]>>
         /\ Reads!Flip(e) = <<e[2], e[1]>> /\ Reads!Flip(e) \in Reads!Edge
         /\ Reads!Flip(e)[1] = e[2] /\ Reads!Flip(e)[2] = e[1] /\ Reads!Flip(Reads!Flip(e)) = e
         /\ Reads!Flip(e) # e
BY DEF Reads!Edge, Reads!Flip

LEMMA ReadsInit == Reads!Init => ReadsInv
<1> SUFFICES ASSUME Reads!Init PROVE ReadsInv
  OBVIOUS
<1>1. Reads!CreateSocialProfile \in Reads!SocialProfile
  BY DEF Reads!CreateSocialProfile, Reads!SocialProfile, Reads!Tier
<1> QED
  BY <1>1 DEF ReadsInv, Reads!TypeOK, Reads!Init

LEMMA CutFacts ==
  ASSUME ReadsInv, NEW c \in cuts
  PROVE  c.edge \in Reads!Edge /\ c.back \in BOOLEAN /\ c = [edge |-> c.edge, back |-> c.back]
BY DEF ReadsInv, Reads!TypeOK

(* The type and the soundness of the follows after the step of a follow. *)
LEMMA UpsertFollowStep ==
  ASSUME ReadsInv, NEW a \in asked, Reads!UpsertFollow(a)
  PROVE  ReadsInv'
<1> DEFINE x == a.edge
<1>1. x \in Reads!Edge /\ a.status \in {"pending", "active"}
  BY DEF ReadsInv, Reads!TypeOK
<1>2. /\ profile' = profile /\ blocks' = blocks /\ mutes' = mutes /\ cuts' = cuts /\ asked' \subseteq asked
      /\ loose' = loose \/ loose' = loose \cup {x}
  BY DEF Reads!UpsertFollow
<1>3. graph' = graph \/ graph' = [graph EXCEPT ![x] = a.status]
  BY DEF Reads!UpsertFollow
<1>4. Reads!TypeOK'
  BY <1>1, <1>2, <1>3 DEF ReadsInv, Reads!TypeOK
<1>5. \A e : Sound(e) => Sound(e)'
  BY <1>2 DEF Sound, Due, Reads!Joined, Reads!IsBlockedEither
<1>6. \A e \in Reads!Edge : graph'[e] # "none" => e = x \/ graph[e] # "none"
  BY <1>1, <1>3 DEF ReadsInv, Reads!TypeOK
<1>7. ASSUME graph[x] = "none" PROVE x \in loose' \/ Sound(x)'
  <2>1. loose' = IF Reads!IsBlockedEither(blocks, x[1], x[2]) \/ ~(Reads!Ends(x) \subseteq Reads!Joined)
                 THEN loose \cup {x} ELSE loose
    BY <1>7 DEF Reads!UpsertFollow
  <2>2. CASE Reads!IsBlockedEither(blocks, x[1], x[2]) \/ ~(Reads!Ends(x) \subseteq Reads!Joined)
    BY <2>1, <2>2
  <2>3. CASE ~Reads!IsBlockedEither(blocks, x[1], x[2]) /\ Reads!Ends(x) \subseteq Reads!Joined
    <3>1. Sound(x)
      BY <2>3 DEF Sound, Reads!Ends
    <3> QED BY <1>5, <3>1
  <2> QED BY <2>2, <2>3
<1>8. \A e \in Reads!Edge : graph'[e] # "none" => e \in loose' \/ Sound(e)'
  BY <1>2, <1>5, <1>6, <1>7 DEF ReadsInv
<1> QED BY <1>4, <1>8 DEF ReadsInv

LEMMA ReadsBlockStep ==
  ASSUME ReadsInv, NEW e \in Reads!Edge, Reads!Block(e)
  PROVE  ReadsInv'
<1> DEFINE cut == [edge |-> e, back |-> FALSE]
<1>1. /\ blocks' = blocks \cup {e} /\ cuts' = cuts \cup {cut} /\ profile' = profile
      /\ graph' = graph /\ mutes' = mutes /\ asked' = asked /\ loose' = loose
  BY DEF Reads!Block
<1>2. Reads!TypeOK'
  <2>1. cut \in [edge : Reads!Edge, back : BOOLEAN]
    OBVIOUS
  <2> HIDE DEF cut
  <2> QED BY <1>1, <2>1 DEF ReadsInv, Reads!TypeOK
<1>3. cut \in cuts' /\ cut.edge = e /\ ~cut.back
  BY <1>1
<1> HIDE DEF cut
<1>4. ASSUME NEW x \in Reads!Edge, Sound(x) PROVE Sound(x)'
  <2>1. x[1] \in Reads!Joined' /\ x[2] \in Reads!Joined'
    BY <1>1, <1>4 DEF Sound, Reads!Joined
  <2>2. Due(x) => Due(x)'
    BY <1>1 DEF Due
  <2>3. x = e \/ x = Reads!Flip(e) => Due(x)'
    BY <1>3, EdgePairs DEF Due
  <2>4. ASSUME Reads!IsBlockedEither(blocks', x[1], x[2]) PROVE Due(x)'
    <3>1. Reads!IsBlockedEither(blocks, x[1], x[2]) \/ <<x[1], x[2]>> = e \/ <<x[2], x[1]>> = e
      BY <1>1, <2>4 DEF Reads!IsBlockedEither
    <3>2. <<x[1], x[2]>> = e => x = e
      BY EdgePairs
    <3>3. <<x[2], x[1]>> = e => x = Reads!Flip(e)
      BY EdgePairs
    <3> QED BY <1>4, <2>2, <2>3, <3>1, <3>2, <3>3 DEF Sound
  <2> QED BY <2>1, <2>4 DEF Sound
<1> QED BY <1>1, <1>2, <1>4 DEF ReadsInv

LEMMA SeverStep ==
  ASSUME ReadsInv, NEW c \in cuts, Reads!Sever(c)
  PROVE  ReadsInv'
<1> DEFINE e == IF c.back THEN Reads!Flip(c.edge) ELSE c.edge
           d == [c EXCEPT !.back = TRUE]
<1>1. c.edge \in Reads!Edge /\ c.back \in BOOLEAN /\ e \in Reads!Edge
  BY CutFacts, EdgePairs
<1>2. /\ graph' = [graph EXCEPT ![e] = "none"] /\ loose' = loose \ {e}
      /\ cuts' = (cuts \ {c}) \cup (IF c.back THEN {} ELSE {d})
      /\ profile' = profile /\ blocks' = blocks /\ mutes' = mutes /\ asked' = asked
  BY DEF Reads!Sever
<1>3. d \in [edge : Reads!Edge, back : BOOLEAN] /\ d.edge = c.edge
  <2>1. c \in [edge : Reads!Edge, back : BOOLEAN]
    BY DEF ReadsInv, Reads!TypeOK
  <2> QED BY <2>1
<1> HIDE DEF d
<1>4. Reads!TypeOK'
  <2>1. cuts' \subseteq [edge : Reads!Edge, back : BOOLEAN]
    BY <1>2, <1>3 DEF ReadsInv, Reads!TypeOK
  <2>2. graph' \in [Reads!Edge -> {"none", "pending", "active"}]
    BY <1>1, <1>2 DEF ReadsInv, Reads!TypeOK
  <2> HIDE DEF e
  <2> QED BY <1>2, <2>1, <2>2 DEF ReadsInv, Reads!TypeOK
<1>5. ASSUME NEW x \in Reads!Edge, x # e, Due(x) PROVE Due(x)'
  <2>1. PICK b \in cuts : (b.edge = x /\ ~b.back) \/ b.edge = Reads!Flip(x)
    BY <1>5 DEF Due
  <2>2. CASE b # c
    BY <1>2, <2>1, <2>2 DEF Due
  <2>3. CASE b = c
    <3>1. c.edge = Reads!Flip(x) /\ ~c.back
      BY <1>5, <2>1, <2>3, EdgePairs
    <3>2. d \in cuts' /\ d.edge = Reads!Flip(x)
      BY <1>2, <1>3, <3>1
    <3> QED BY <3>2 DEF Due
  <2> QED BY <2>2, <2>3
<1>6. \A x \in Reads!Edge : x # e /\ Sound(x) => Sound(x)'
  BY <1>2, <1>5 DEF Sound, Reads!Joined
<1> HIDE DEF e
<1>7. \A x \in Reads!Edge : graph'[x] # "none" => x # e /\ graph[x] # "none"
  BY <1>1, <1>2 DEF ReadsInv, Reads!TypeOK
<1> QED BY <1>2, <1>4, <1>6, <1>7 DEF ReadsInv

LEMMA SeverFailsStep ==
  ASSUME ReadsInv, NEW c \in cuts, Reads!SeverFails(c)
  PROVE  ReadsInv'
<1>1. /\ cuts' = cuts \ {c} /\ loose' = loose \cup {e \in {c.edge, Reads!Flip(c.edge)} : graph[e] # "none"}
      /\ profile' = profile /\ graph' = graph /\ blocks' = blocks /\ mutes' = mutes /\ asked' = asked
  BY DEF Reads!SeverFails, Reads!graph
<1>2. c.edge \in Reads!Edge /\ Reads!Flip(c.edge) \in Reads!Edge
  BY CutFacts, EdgePairs
<1>3. Reads!TypeOK'
  BY <1>1, <1>2 DEF ReadsInv, Reads!TypeOK
<1>4. ASSUME NEW x \in Reads!Edge, graph[x] # "none", Due(x) PROVE x \in loose' \/ Due(x)'
  <2>1. PICK b \in cuts : (b.edge = x /\ ~b.back) \/ b.edge = Reads!Flip(x)
    BY <1>4 DEF Due
  <2>2. CASE b # c
    BY <1>1, <2>1, <2>2 DEF Due
  <2>3. CASE b = c
    <3>1. x = c.edge \/ x = Reads!Flip(c.edge)
      BY <2>1, <2>3, EdgePairs
    <3> QED BY <1>1, <1>4, <3>1
  <2> QED BY <2>2, <2>3
<1>5. \A x \in Reads!Edge : graph[x] # "none" /\ Sound(x) => x \in loose' \/ Sound(x)'
  BY <1>1, <1>4 DEF Sound, Reads!Joined
<1> QED BY <1>1, <1>3, <1>5 DEF ReadsInv

LEMMA ReadsStep == ReadsInv /\ [Reads!Next]_(Reads!vars) => ReadsInv'
<1> SUFFICES ASSUME ReadsInv, [Reads!Next]_(Reads!vars) PROVE ReadsInv'
  OBVIOUS
<1>0. ASSUME Reads!TypeOK', UNCHANGED <<graph, blocks, cuts, loose>>, Reads!Joined \subseteq Reads!Joined'
      PROVE  ReadsInv'
  BY <1>0 DEF ReadsInv, Sound, Due
<1>1. ASSUME NEW m \in Reads!ProfileUpdateRequest, Reads!PostSocialProfileUpdate(m) PROVE ReadsInv'
  <2>1. /\ m.by \in User /\ m.strict \in BOOLEAN
        /\ Reads!UpdateSocialProfile(m) \in Reads!SocialProfile
    BY DEF Reads!ProfileUpdateRequest, Reads!UpdateSocialProfile, Reads!SocialProfile,
           Reads!visibilityToStored, Reads!Tier
  <2>2. Reads!NotJoined \notin Reads!SocialProfile
    BY DEF Reads!NotJoined, Reads!SocialProfile
  <2>3. /\ profile' = [profile EXCEPT ![m.by] = Reads!UpdateSocialProfile(m)]
        /\ UNCHANGED <<graph, blocks, mutes, asked, cuts, loose>>
    BY <1>1 DEF Reads!PostSocialProfileUpdate, Reads!graph, Reads!pending
  <2>4. Reads!Joined \subseteq Reads!Joined' /\ Reads!TypeOK'
    BY <2>1, <2>2, <2>3 DEF ReadsInv, Reads!TypeOK, Reads!Joined
  <2> QED BY <1>0, <2>3, <2>4
<1>2. ASSUME NEW e \in Reads!Edge, Reads!CheckFollow(e) PROVE ReadsInv'
  <2>1. /\ UNCHANGED <<profile, graph, blocks, mutes, cuts, loose>>
        /\ asked' = asked \cup {[edge |-> e, status |-> IF profile[e[2]].approval THEN "pending" ELSE "active"]}
    BY <1>2 DEF Reads!CheckFollow, Reads!graph
  <2>2. Reads!TypeOK' /\ Reads!Joined' = Reads!Joined
    BY <2>1 DEF ReadsInv, Reads!TypeOK, Reads!Joined
  <2> QED BY <1>0, <2>1, <2>2
<1>3. ASSUME NEW e \in Reads!Edge, Reads!Approve(e) PROVE ReadsInv'
  <2>1. /\ UNCHANGED <<profile, blocks, mutes, asked, cuts, loose>>
        /\ graph[e] = "pending" /\ graph' = [graph EXCEPT ![e] = "active"]
    BY <1>3 DEF Reads!Approve, Reads!pending
  <2>2. Reads!TypeOK' /\ Reads!Joined' = Reads!Joined
    BY <2>1 DEF ReadsInv, Reads!TypeOK, Reads!Joined
  <2>3. \A x \in Reads!Edge : graph'[x] # "none" => graph[x] # "none"
    BY <2>1 DEF ReadsInv, Reads!TypeOK
  <2> QED BY <2>1, <2>2, <2>3 DEF ReadsInv, Sound, Due
<1>4. ASSUME NEW e \in Reads!Edge, Reads!Mute(e) PROVE ReadsInv'
  <2>1. UNCHANGED <<profile, graph, blocks, asked, cuts, loose>> /\ mutes' = mutes \cup {e}
    BY <1>4 DEF Reads!Mute, Reads!pending
  <2>2. Reads!TypeOK' /\ Reads!Joined' = Reads!Joined
    BY <2>1 DEF ReadsInv, Reads!TypeOK, Reads!Joined
  <2> QED BY <1>0, <2>1, <2>2
<1>5. ASSUME NEW u \in User, Reads!Erase(u) PROVE ReadsInv'
  <2>1. /\ profile' = [profile EXCEPT ![u] = Reads!NotJoined]
        /\ graph' = [e \in Reads!Edge |-> IF u \in Reads!Ends(e) THEN "none" ELSE graph[e]]
        /\ blocks' \subseteq blocks /\ mutes' \subseteq mutes
        /\ loose' = {e \in loose : u \notin Reads!Ends(e)} /\ asked' = asked /\ cuts' = cuts
    BY <1>5 DEF Reads!Erase
  <2>2. Reads!TypeOK'
    BY <2>1 DEF ReadsInv, Reads!TypeOK
  <2>3. \A x \in Reads!Edge : graph'[x] # "none" => u \notin Reads!Ends(x) /\ graph[x] # "none"
    BY <2>1
  <2>4. ASSUME NEW x \in Reads!Edge, u \notin Reads!Ends(x), Sound(x) PROVE Sound(x)'
    <3>1. x[1] # u /\ x[2] # u /\ x[1] \in User /\ x[2] \in User
      BY <2>4, EdgePairs DEF Reads!Ends
    <3>2. x[1] \in Reads!Joined' /\ x[2] \in Reads!Joined'
      BY <2>1, <2>4, <3>1 DEF Sound, Reads!Joined, ReadsInv, Reads!TypeOK
    <3> QED BY <2>1, <2>4, <3>2 DEF Sound, Due, Reads!IsBlockedEither
  <2> QED BY <2>1, <2>2, <2>3, <2>4 DEF ReadsInv
<1>6. ASSUME UNCHANGED Reads!vars PROVE ReadsInv'
  <2>1. UNCHANGED <<profile, graph, blocks, mutes, asked, cuts, loose>>
    BY <1>6 DEF Reads!vars, Reads!graph, Reads!pending
  <2>2. Reads!TypeOK' /\ Reads!Joined' = Reads!Joined
    BY <2>1 DEF ReadsInv, Reads!TypeOK, Reads!Joined
  <2> QED BY <1>0, <2>1, <2>2
<1> QED
  BY <1>1, <1>2, <1>3, <1>4, <1>5, <1>6, UpsertFollowStep, ReadsBlockStep, SeverStep, SeverFailsStep
     DEF Reads!Next

(* Across a block there is only a follow that is being deleted or that nothing
   deletes. *)
LEMMA FollowUncut ==
  ASSUME ReadsInv, NEW v \in Reads!Joined, NEW e \in Reads!Edge, graph[e] # "none", NEW u,
         (e[2] = v /\ u = e[1]) \/ (e[1] = v /\ u = e[2])
  PROVE  {<<u, v>>, <<v, u>>} \cap blocks = {} \/ Reads!Uncut(u, v)
<1>1. e = <<e[1], e[2]>> /\ Reads!Flip(e) = <<e[2], e[1]>>
  BY EdgePairs
<1>2. CASE e \in loose
  BY <1>1, <1>2 DEF Reads!Uncut
<1>3. CASE Sound(e) /\ Due(e)
  <2>1. PICK c \in cuts : c.edge = e \/ c.edge = Reads!Flip(e)
    BY <1>3 DEF Due
  <2>2. Reads!Ends(c.edge) = {u, v}
    BY <1>1, <2>1 DEF Reads!Ends
  <2> QED BY <2>2 DEF Reads!Uncut, Reads!Severing
<1>4. CASE Sound(e) /\ ~Due(e)
  BY <1>4 DEF Sound, Reads!IsBlockedEither
<1> QED BY <1>2, <1>3, <1>4 DEF ReadsInv

LEMMA InvisibleFollows == ReadsInv => Reads!InvisibleAcrossBlocks
<1> SUFFICES ASSUME ReadsInv, NEW v \in Reads!Joined
             PROVE  /\ \A u \in Reads!NamedByChecks(v) :
                         u \in Reads!Joined /\ {<<u, v>>, <<v, u>>} \cap blocks = {}
                    /\ \A u \in Reads!NamedByFollows(v) :
                         u \in Reads!Joined /\ ({<<u, v>>, <<v, u>>} \cap blocks = {} \/ Reads!Uncut(u, v))
  BY DEF Reads!InvisibleAcrossBlocks
<1>1. v \in User /\ <<v, v>> \notin blocks
  BY DEF ReadsInv, Reads!TypeOK, Reads!Edge, Reads!Joined
<1>2. ASSUME NEW u \in Reads!NamedByChecks(v)
      PROVE  u \in Reads!Joined /\ {<<u, v>>, <<v, u>>} \cap blocks = {}
  <2> DEFINE Goal == u \in Reads!Joined /\ {<<u, v>>, <<v, u>>} \cap blocks = {}
  <2>1. ASSUME u \in User, Reads!buildPublicProfile(v, u).found PROVE Goal
    <3>1. v # Reads!Anonymous
      BY <1>1, PeopleAssumption DEF Reads!Anonymous
    <3>2. u \in Reads!Joined /\ (v = u \/ ~Reads!IsBlockedEither(blocks, v, u))
      BY <2>1, <3>1 DEF Reads!buildPublicProfile
    <3> QED BY <1>1, <3>2 DEF Reads!IsBlockedEither
  <2>2. ASSUME NEW x \in Reads!FollowedItems(v), u = x.target PROVE Goal
    <3>1. PICK e \in Reads!Edge : /\ e[2] \in Reads!Joined /\ ~Reads!IsBlockedEither(blocks, v, e[2])
                                  /\ x.target = e[2]
      BY <2>2 DEF Reads!FollowedItems, Reads!FeedItem
    <3> QED BY <2>2, <3>1 DEF Reads!IsBlockedEither
  <2>3. ASSUME NEW x \in Reads!SearchSocialProfiles(v) \cup Reads!GetSocialSuggestions(v)
                           \cup Reads!GetDiscoverableProfileEmails(v),
               u = x.handle
        PROVE  Goal
    <3>1. \A w : Reads!ProfileSummary(w).handle = w
      BY DEF Reads!ProfileSummary
    <3>2. u \in Reads!Joined /\ (u \in Reads!Discoverable(v) \/ {<<v, u>>, <<u, v>>} \cap (blocks \cup mutes) = {})
      BY <2>3, <3>1 DEF Reads!SearchSocialProfiles, Reads!GetSocialSuggestions,
                        Reads!GetDiscoverableProfileEmails, Reads!Discoverable
    <3> QED BY <3>2 DEF Reads!Discoverable, Reads!IsBlockedEither
  <2>4. ASSUME NEW x \in Reads!GetCurators(v), u = x.handle PROVE Goal
    <3>1. PICK w \in Reads!Discoverable(v) : x = Reads!CuratorEntry(w)
      BY <2>4 DEF Reads!GetCurators
    <3>2. u = w
      BY <2>4, <3>1 DEF Reads!CuratorEntry
    <3> QED BY <3>1, <3>2 DEF Reads!Discoverable, Reads!IsBlockedEither
  <2> HIDE DEF Goal
  <2>5. Goal
    BY <1>2, <2>1, <2>2, <2>3, <2>4 DEF Reads!NamedByChecks
  <2> QED BY <2>5 DEF Goal
<1>3. ASSUME NEW u \in Reads!NamedByFollows(v)
      PROVE  u \in Reads!Joined /\ ({<<u, v>>, <<v, u>>} \cap blocks = {} \/ Reads!Uncut(u, v))
  <2> DEFINE Goal == u \in Reads!Joined /\ ({<<u, v>>, <<v, u>>} \cap blocks = {} \/ Reads!Uncut(u, v))
  <2>1. ASSUME NEW x \in Reads!PostFollowList(v, TRUE).entries \cup Reads!PostFollowList(v, FALSE).entries
                           \cup Reads!PostFollowRequests(v).entries,
               u = x.handle
        PROVE  Goal
    <3>1. PICK e \in Reads!Edge : /\ graph[e] # "none" /\ u \in Reads!Joined
                                  /\ (e[2] = v /\ u = e[1]) \/ (e[1] = v /\ u = e[2])
      BY <2>1 DEF Reads!PostFollowList, Reads!PostFollowRequests, Reads!FollowListResponse, Reads!FollowEntry,
                  Reads!GetFollowers, Reads!GetFollowing, Reads!GetPendingFollowRequests
    <3> QED BY <3>1, FollowUncut
  <2>2. ASSUME u \in Reads!Followees(v) PROVE Goal
    <3>1. u \in Reads!Joined /\ <<v, u>> \in Reads!Edge /\ graph[<<v, u>>] # "none"
      BY <2>2 DEF Reads!Followees, Reads!Active
    <3>2. <<v, u>>[1] = v /\ <<v, u>>[2] = u
      OBVIOUS
    <3>3. {<<u, v>>, <<v, u>>} \cap blocks = {} \/ Reads!Uncut(u, v)
      BY <3>1, <3>2, FollowUncut
    <3> QED BY <3>1, <3>3
  <2>3. ASSUME NEW x \in Reads!PostFeed(v).items PROVE x.actor \in Reads!Followees(v)
    BY DEF Reads!PostFeed, Reads!GetFeedItems, Reads!FollowedItems, Reads!FeedItem
  <2>4. Reads!GetTrendingWithFriends(v) \cup Reads!GetPodcastProof(v) \subseteq Reads!Followees(v)
    BY DEF Reads!GetTrendingWithFriends, Reads!GetPodcastProof
  <2> HIDE DEF Goal
  <2>5. Goal
    BY <1>3, <2>1, <2>2, <2>3, <2>4 DEF Reads!NamedByFollows
  <2> QED BY <2>5 DEF Goal
<1> QED BY <1>2, <1>3

LEMMA TiersFollow == ReadsInv => Reads!TiersHold
<1> SUFFICES ASSUME ReadsInv, NEW v \in Reads!Viewer
             PROVE  LET Allowed(u, f) == \/ profile[u].tier[f] = "public"
                                         \/ profile[u].tier[f] = "followers" /\ Reads!Active(v, u)
                    IN /\ \A u \in Reads!Joined \ {v} :
                            LET page == Reads!buildPublicProfile(v, u)
                            IN page.found => \A f \in page.sections : Allowed(u, f)
                       /\ v \in Reads!Joined =>
                            /\ \A x \in Reads!PostFeed(v).items : x.field # "none" => Allowed(x.actor, x.field)
                            /\ \A u \in Reads!GetTrendingWithFriends(v) : Allowed(u, "history")
                            /\ \A u \in Reads!GetPodcastProof(v) : Allowed(u, "shows")
                            /\ \A x \in Reads!GetCurators(v) : x.bio => Allowed(x.handle, "bio")
  BY DEF Reads!TiersHold
<1> DEFINE Allowed(u, f) == \/ profile[u].tier[f] = "public"
                            \/ profile[u].tier[f] = "followers" /\ Reads!Active(v, u)
<1>1. ASSUME NEW u \in Reads!Joined \ {v}, Reads!buildPublicProfile(v, u).found,
             NEW f \in Reads!buildPublicProfile(v, u).sections
      PROVE  Allowed(u, f)
  BY <1>1 DEF Reads!buildPublicProfile, Reads!PublicProfileResponse, Reads!visible
<1>2. ASSUME NEW x \in Reads!PostFeed(v).items, x.field # "none" PROVE Allowed(x.actor, x.field)
  <2>1. x \in Reads!GetFeedItems(v)
    BY DEF Reads!PostFeed
  <2>2. x.actor \in Reads!Followees(v) /\ Reads!Shared(x.actor, x.field)
    BY <1>2, <2>1 DEF Reads!GetFeedItems, Reads!FollowedItems, Reads!FeedItem
  <2> QED BY <2>2 DEF Reads!Followees, Reads!Shared
<1>3. \A u \in Reads!GetTrendingWithFriends(v) : Allowed(u, "history")
  BY DEF Reads!GetTrendingWithFriends, Reads!Followees, Reads!Shared
<1>4. \A u \in Reads!GetPodcastProof(v) : Allowed(u, "shows")
  BY DEF Reads!GetPodcastProof, Reads!Followees, Reads!Shared
<1>5. ASSUME NEW x \in Reads!GetCurators(v), x.bio PROVE Allowed(x.handle, "bio")
  <2>1. PICK w \in Reads!Discoverable(v) : x = Reads!CuratorEntry(w)
    BY <1>5 DEF Reads!GetCurators
  <2>2. x.handle = w /\ profile[w].tier["bio"] = "public"
    BY <1>5, <2>1 DEF Reads!CuratorEntry
  <2> QED BY <2>2
<1> HIDE DEF Allowed
<1> QED BY <1>1, <1>2, <1>3, <1>4, <1>5 DEF Allowed

(* The image of a finite set under a function: never larger, and as large
   when the function is one to one. *)
LEMMA ImageSize ==
  ASSUME NEW S, IsFiniteSet(S), NEW f, DOMAIN f = S
  PROVE  /\ IsFiniteSet({f[x] : x \in S})
         /\ Cardinality({f[x] : x \in S}) <= Cardinality(S)
         /\ (\A x, y \in S : f[x] = f[y] => x = y) => Cardinality({f[x] : x \in S}) = Cardinality(S)
<1> DEFINE T == {f[x] : x \in S}
           g == [x \in S |-> f[x]]
<1>1. g \in Surjection(S, T)
  BY DEF Surjection
<1>2. (\A x, y \in S : f[x] = f[y] => x = y) => g \in Injection(S, T)
  BY DEF Injection, IsInjective
<1> HIDE DEF g, T
<1>3. IsFiniteSet(T) /\ Cardinality(T) <= Cardinality(S)
      /\ ((\A x, y \in S : f[x] = f[y] => x = y) => Cardinality(T) = Cardinality(S))
  BY <1>1, <1>2, FS_Surjection
<1> QED BY <1>3 DEF T

LEMMA ReadsCardinality == \A S : Reads!Cardinality(S) = Cardinality(S)
BY Zenon DEF Reads!Cardinality, Cardinality

LEMMA TotalsFollow == ReadsInv => Reads!FollowTotals
<1> SUFFICES ASSUME ReadsInv, NEW u \in Reads!Joined,
                    \A e \in loose : u \in Reads!Ends(e) => Reads!Ends(e) \subseteq Reads!Joined
             PROVE  \A l \in {Reads!PostFollowList(u, TRUE), Reads!PostFollowList(u, FALSE),
                              Reads!PostFollowRequests(u)} :
                      l.total = Reads!Cardinality(l.entries)
  BY DEF Reads!FollowTotals
<1>1. IsFiniteSet(Reads!Edge)
  BY GroupsAssumption, FS_Product, FS_Subset DEF Reads!Edge
<1>2. \A e \in Reads!Edge :
        graph[e] # "none" /\ (e[1] = u \/ e[2] = u) => e[1] \in Reads!Joined /\ e[2] \in Reads!Joined
  BY DEF ReadsInv, Sound, Reads!Ends
<1>3. \A e \in Reads!Edge : e = <<e[1], e[2]>>
  BY EdgePairs
<1> DEFINE In(s)  == {e \in Reads!Edge : e[2] = u /\ e[1] \in Reads!Joined /\ graph[e] = s}
           Out    == {e \in Reads!Edge : e[1] = u /\ e[2] \in Reads!Joined /\ graph[e] # "none"}
           fin(s) == [e \in In(s) |-> Reads!FollowEntry(e[1], s)]
           fout   == [e \in Out |-> Reads!FollowEntry(e[2], graph[e])]
<1>4. \A x, s : Reads!FollowEntry(x, s).handle = x
  BY DEF Reads!FollowEntry
<1>5. ASSUME NEW s PROVE Cardinality({fin(s)[e] : e \in In(s)}) = Cardinality(In(s))
  <2>1. IsFiniteSet(In(s)) /\ DOMAIN fin(s) = In(s)
    BY <1>1, FS_Subset
  <2>2. \A x, y \in In(s) : fin(s)[x] = fin(s)[y] => x = y
    BY <1>3, <1>4
  <2> HIDE DEF In, fin
  <2> QED BY <2>1, <2>2, ImageSize
<1>6. Cardinality({fout[e] : e \in Out}) = Cardinality(Out)
  <2>1. IsFiniteSet(Out) /\ DOMAIN fout = Out
    BY <1>1, FS_Subset
  <2>2. \A x, y \in Out : fout[x] = fout[y] => x = y
    BY <1>3, <1>4
  <2> HIDE DEF Out, fout
  <2> QED BY <2>1, <2>2, ImageSize
<1>7. /\ Reads!GetFollowers(u) = {fin("active")[e] : e \in In("active")}
      /\ Reads!GetPendingFollowRequests(u) = {fin("pending")[e] : e \in In("pending")}
      /\ Reads!GetFollowing(u) = {fout[e] : e \in Out}
  BY DEF Reads!GetFollowers, Reads!GetPendingFollowRequests, Reads!GetFollowing
<1>8. /\ {e \in Reads!Edge : e[2] = u /\ graph[e] = "active"} = In("active")
      /\ {e \in Reads!Edge : e[2] = u /\ graph[e] = "pending"} = In("pending")
      /\ {e \in Reads!Edge : e[1] = u /\ graph[e] # "none"} = Out
  BY <1>2
<1>9. /\ Reads!CountFollowers(u) = Cardinality(In("active"))
      /\ Reads!CountPendingFollowRequests(u) = Cardinality(In("pending"))
      /\ Reads!CountFollowing(u) = Cardinality(Out)
  <2> HIDE DEF In, Out
  <2> QED BY <1>8, ReadsCardinality
          DEF Reads!CountFollowers, Reads!CountPendingFollowRequests, Reads!CountFollowing
<1> HIDE DEF In, Out, fin, fout
<1>10. /\ Cardinality(Reads!GetFollowers(u)) = Reads!CountFollowers(u)
       /\ Cardinality(Reads!GetPendingFollowRequests(u)) = Reads!CountPendingFollowRequests(u)
       /\ Cardinality(Reads!GetFollowing(u)) = Reads!CountFollowing(u)
  BY <1>5, <1>6, <1>7, <1>9
<1> QED
  BY <1>10, ReadsCardinality
     DEF Reads!PostFollowList, Reads!PostFollowRequests, Reads!FollowListResponse

----------------------------------------------------------------------------
(* The shared list: its type, and what is left of an erased user. *)
Distinct == \A x, y \in entries : x.ep = y.ep => x = y

ListRows ==
  /\ curator \in User \cup {NoOne} /\ tier \in List!Tier /\ joined \subseteq User
  /\ entries \subseteq List!SocialListEntry /\ IsFiniteSet(entries) /\ Distinct
  /\ member \in [User -> List!Role] /\ faults \in Nat /\ raced \in BOOLEAN
  /\ req \in [Request -> {List!Idle} \cup List!SharedListCreateRequest \cup List!EntryWrite \cup List!MemberWrite]
  /\ held \subseteq User /\ blocks \subseteq {p \in User \X User : p[1] # p[2]}

(* While the creation is under way there is no list and nothing else begins. *)
Creating ==
  \A r \in Request : req[r].op = "create" =>
    /\ curator = NoOne /\ entries = {} /\ blocks = {} /\ \A u \in User : member[u] = "none"
    /\ \A s \in Request \ {r} : req[s] = List!Idle

(* Who is on the list, or about to be, across a block was so when it was made. *)
Sheltered ==
  curator # NoOne =>
    \A u \in User \ {curator} :
      List!IsBlockedEither(blocks, u, curator) /\ List!Admitted(u) => u \in held

Gone ==
  /\ curator # NoOne => curator \in joined \cup late
  /\ \A u \in User \ (joined \cup late) : member[u] = "none" /\ \A e \in entries : e.by # u

LEMMA SameNoOne == List!NoOne = NoOne /\ NoOne \notin User
BY GroupsAssumption DEF List!NoOne, NoOne

LEMMA MaxExists ==
  ASSUME NEW S \in SUBSET Nat, IsFiniteSet(S), S # {}
  PROVE  List!Max(S) \in S
<1> DEFINE O == {p \in Nat \X Nat : p[1] > p[2]}
<1>1. \A x, y \in Nat : <<x, y>> \in O <=> x > y
  OBVIOUS
<1> HIDE DEF O
<1>2. Orders(O, S)
  <2>1. \A x, y \in S : /\ x = y \/ <<x, y>> \in O \/ <<y, x>> \in O
                       /\ ~(<<x, y>> \in O /\ <<y, x>> \in O)
    <3> TAKE x, y \in S
    <3>1. x \in Nat /\ y \in Nat
      OBVIOUS
    <3>2. x = y \/ x > y \/ y > x
      BY <3>1
    <3>3. ~(x > y /\ y > x)
      BY <3>1
    <3> QED BY <1>1, <3>1, <3>2, <3>3
  <2>2. \A x, y, z \in S : <<x, y>> \in O /\ <<y, z>> \in O => <<x, z>> \in O
    BY <1>1
  <2> QED BY <2>1, <2>2 DEF Orders
<1>3. PICK v \in S : \A w \in S \ {v} : <<v, w>> \in O
  BY <1>2, First
<1>4. \A w \in S : v >= w
  <2> TAKE w \in S
  <2>1. v \in Nat /\ w \in Nat
    OBVIOUS
  <2>2. CASE w = v
    BY <2>1, <2>2
  <2>3. CASE w # v
    <3>1. <<v, w>> \in O
      BY <1>3, <2>3
    <3>2. v > w
      BY <1>1, <2>1, <3>1
    <3> QED BY <2>1, <3>2
  <2> QED BY <2>2, <2>3
<1> QED BY <1>4 DEF List!Max

LEMMA NextPosition ==
  ASSUME ListRows
  PROVE  List!MaxSocialListPosition + 1 \in Nat
<1>1. CASE entries = {}
  BY <1>1 DEF List!MaxSocialListPosition
<1>2. CASE entries # {}
  <2> DEFINE f == [e \in entries |-> e.pos]
             S == {f[e] : e \in entries}
  <2>1. DOMAIN f = entries /\ S = {e.pos : e \in entries}
    OBVIOUS
  <2>2. IsFiniteSet(S)
    <3> HIDE DEF f
    <3> QED BY <2>1, ImageSize DEF ListRows
  <2>3. S \in SUBSET Nat /\ S # {}
    BY <1>2 DEF ListRows, List!SocialListEntry
  <2>4. List!Max(S) \in S
    <3> HIDE DEF S
    <3> QED BY <2>2, <2>3, MaxExists
  <2>5. List!MaxSocialListPosition = List!Max(S)
    <3> HIDE DEF f
    <3> QED BY <1>2, <2>1 DEF List!MaxSocialListPosition
  <2>6. List!Max(S) \in Nat
    <3> HIDE DEF S
    <3> QED BY <2>3, <2>4
  <2> HIDE DEF S
  <2> QED BY <2>5, <2>6
<1> QED BY <1>1, <1>2

(* What the statements on the entries do. *)
EntriesOK(new) ==
  /\ new \subseteq List!SocialListEntry /\ IsFiniteSet(new)
  /\ \A x, y \in new : x.ep = y.ep => x = y

LEMMA EntryRecord ==
  ASSUME NEW x \in List!SocialListEntry
  PROVE  /\ x.ep \in Episode /\ x.pos \in Nat /\ x.by \in User \cup {NoOne}
         /\ \A p \in Nat : /\ [x EXCEPT !.pos = p] \in List!SocialListEntry
                           /\ [x EXCEPT !.pos = p].ep = x.ep /\ [x EXCEPT !.pos = p].by = x.by
         /\ [x EXCEPT !.by = List!NoOne] \in List!SocialListEntry
         /\ [x EXCEPT !.by = List!NoOne].ep = x.ep /\ [x EXCEPT !.by = List!NoOne].by = NoOne
BY SameNoOne DEF List!SocialListEntry

LEMMA MoveFacts ==
  ASSUME ListRows, NEW ep, NEW p \in Nat
  PROVE  /\ EntriesOK(List!MoveSocialListEntry(ep, p))
         /\ Cardinality(List!MoveSocialListEntry(ep, p)) <= Cardinality(entries)
         /\ \A y \in List!MoveSocialListEntry(ep, p) : \E x \in entries : y.ep = x.ep /\ y.by = x.by
<1> DEFINE f == [x \in entries |-> IF x.ep = ep THEN [x EXCEPT !.pos = p] ELSE x]
<1>1. DOMAIN f = entries /\ List!MoveSocialListEntry(ep, p) = {f[x] : x \in entries}
  BY DEF List!MoveSocialListEntry
<1>2. \A x \in entries : f[x] \in List!SocialListEntry /\ f[x].ep = x.ep /\ f[x].by = x.by
  BY EntryRecord DEF ListRows
<1> HIDE DEF f
<1>3. IsFiniteSet({f[x] : x \in entries}) /\ Cardinality({f[x] : x \in entries}) <= Cardinality(entries)
  BY <1>1, ImageSize DEF ListRows
<1> QED BY <1>1, <1>2, <1>3 DEF EntriesOK, ListRows, Distinct

LEMMA ClearFacts ==
  ASSUME ListRows, NEW u
  PROVE  /\ EntriesOK(List!ClearSocialListAttributionForUser(u))
         /\ Cardinality(List!ClearSocialListAttributionForUser(u)) <= Cardinality(entries)
         /\ \A y \in List!ClearSocialListAttributionForUser(u) :
              \E x \in entries : y.ep = x.ep /\ y.by = IF x.by = u THEN NoOne ELSE x.by
<1> DEFINE f == [x \in entries |-> IF x.by = u THEN [x EXCEPT !.by = List!NoOne] ELSE x]
<1>1. DOMAIN f = entries /\ List!ClearSocialListAttributionForUser(u) = {f[x] : x \in entries}
  BY DEF List!ClearSocialListAttributionForUser
<1>2. \A x \in entries : /\ f[x] \in List!SocialListEntry /\ f[x].ep = x.ep
                         /\ f[x].by = IF x.by = u THEN NoOne ELSE x.by
  BY EntryRecord DEF ListRows
<1> HIDE DEF f
<1>3. IsFiniteSet({f[x] : x \in entries}) /\ Cardinality({f[x] : x \in entries}) <= Cardinality(entries)
  BY <1>1, ImageSize DEF ListRows
<1> QED BY <1>1, <1>2, <1>3 DEF EntriesOK, ListRows, Distinct

LEMMA UpsertFacts ==
  ASSUME ListRows, NEW m \in List!EntryWrite
  PROVE  /\ EntriesOK(List!UpsertSocialListEntry(m))
         /\ Cardinality(List!UpsertSocialListEntry(m)) <= Cardinality(entries) + 1
         /\ \A y \in List!UpsertSocialListEntry(m) :
              y.by = m.by \/ \E x \in entries : y.ep = x.ep /\ y.by = x.by
<1>1. m.ep \in Episode /\ m.pos \in Nat /\ m.by \in User
  BY DEF List!EntryWrite
<1>2. IsFiniteSet(entries) /\ Cardinality(entries) \in Nat
  BY FS_CardinalityType DEF ListRows
<1>3. CASE curator = NoOne
  BY <1>2, <1>3, SameNoOne DEF List!UpsertSocialListEntry, EntriesOK, ListRows, Distinct
<1>4. CASE curator # NoOne /\ List!Holds(m.ep)
  <2>1. List!UpsertSocialListEntry(m) = List!MoveSocialListEntry(m.ep, m.pos)
    BY <1>4, SameNoOne DEF List!UpsertSocialListEntry
  <2>2. IsFiniteSet(List!MoveSocialListEntry(m.ep, m.pos))
    BY <1>1, MoveFacts DEF EntriesOK
  <2>3. Cardinality(List!MoveSocialListEntry(m.ep, m.pos)) \in Nat
    BY <2>2, FS_CardinalityType
  <2> QED BY <1>1, <1>2, <2>1, <2>3, MoveFacts
<1>5. CASE curator # NoOne /\ ~List!Holds(m.ep)
  <2> DEFINE new == [ep |-> m.ep, pos |-> m.pos, by |-> m.by]
  <2>1. List!UpsertSocialListEntry(m) = entries \cup {new}
    BY <1>5, SameNoOne DEF List!UpsertSocialListEntry
  <2>2. new \in List!SocialListEntry /\ \A x \in entries : x.ep # new.ep
    BY <1>1, <1>5 DEF List!SocialListEntry, List!Holds
  <2>3. IsFiniteSet(entries \cup {new}) /\ Cardinality(entries \cup {new}) <= Cardinality(entries) + 1
    <3> HIDE DEF new
    <3> QED BY <1>2, FS_AddElement
  <2>4. new.by = m.by
    OBVIOUS
  <2> HIDE DEF new
  <2> QED BY <2>1, <2>2, <2>3, <2>4 DEF EntriesOK, ListRows, Distinct
<1> QED BY <1>3, <1>4, <1>5

(* A request that has read what it needs and is about to write: the counts
   were under the caps, or could not be read. *)
Spending(r, next) ==
  /\ List!Spend(r, next)
  /\ curator # NoOne /\ UNCHANGED <<curator, tier, entries, member, joined, blocks, follows, late, held>>
  /\ next.op = "member" /\ next.role # "none" => ~List!IsBlockedEither(blocks, next.user, curator)
  /\ \/ /\ faults' = faults
        /\ next.op = "add" => Cardinality(entries) < EntryCap
        /\ next.op = "member" /\ next.role \in {"invited", "collaborator"} =>
             Cardinality(List!Collaborators) < CollaboratorCap \/ next.user \in List!Collaborators
     \/ faults' = faults + 1

LEMMA ListCardinality == \A S : List!Cardinality(S) = Cardinality(S)
BY Zenon DEF List!Cardinality, Cardinality

LEMMA ListBegin ==
  ASSUME ListRows, NEW r \in Request, List!Begin(r)
  PROVE  \E next \in List!EntryWrite \cup List!MemberWrite : Spending(r, next)
<1> DEFINE Goal == \E next \in List!EntryWrite \cup List!MemberWrite : Spending(r, next)
<1> USE DEF List!list, List!people
<1>1. ASSUME NEW m \in List!SharedListEntryOpRequest, NEW ok \in BOOLEAN,
             List!PostSocialListEntryOp(r, m, ok)
      PROVE  Goal
  <2> DEFINE next == [m EXCEPT !.pos = IF m.pos < 0 THEN List!MaxSocialListPosition + 1 ELSE m.pos]
  <2>1. m.pos \in {-1, 0} /\ m.op \in {"add", "remove", "move"} /\ m.ep \in Episode /\ m.by \in User
    BY DEF List!SharedListEntryOpRequest
  <2>2. (IF m.pos < 0 THEN List!MaxSocialListPosition + 1 ELSE m.pos) \in Nat
    BY <2>1, NextPosition
  <2>3. next \in List!EntryWrite /\ next.op = m.op
    <3>1. m = [by |-> m.by, op |-> m.op, ep |-> m.ep, pos |-> m.pos]
      BY DEF List!SharedListEntryOpRequest
    <3> QED BY <2>1, <2>2, <3>1 DEF List!EntryWrite, List!SharedListEntryOpRequest
  <2>4. /\ List!Spend(r, next) /\ UNCHANGED <<curator, tier, entries, member, joined, blocks, follows, late, held>>
        /\ ok = (m.op # "add" \/ List!CountSocialListEntries < EntryCap)
        /\ faults' = IF ok THEN faults ELSE faults + 1
    BY <1>1 DEF List!PostSocialListEntryOp
  <2>8. curator # NoOne
    BY <1>1, SameNoOne DEF List!PostSocialListEntryOp, List!GetSocialList
  <2>5. List!CountSocialListEntries = Cardinality(entries)
    BY ListCardinality DEF List!CountSocialListEntries
  <2>6. next.op # "member"
    BY <2>1, <2>3
  <2> HIDE DEF next
  <2>7. Spending(r, next)
    BY <2>1, <2>3, <2>4, <2>5, <2>6, <2>8 DEF Spending
  <2> QED BY <2>3, <2>7
<1>2. ASSUME NEW m \in List!SharedListInviteRequest, NEW ok \in BOOLEAN,
             List!PostSocialListInvite(r, m, ok)
      PROVE  Goal
  <2> DEFINE next == [op |-> "member", by |-> m.by, user |-> m.handle, role |-> "invited"]
  <2>1. next \in List!MemberWrite
    BY DEF List!SharedListInviteRequest, List!MemberWrite, List!Role
  <2>2. /\ List!Spend(r, next) /\ UNCHANGED <<curator, tier, entries, member, joined, blocks, follows, late, held>>
        /\ ok = (m.handle \notin List!Collaborators /\ List!Cardinality(List!Collaborators) < CollaboratorCap)
        /\ faults' = IF ok THEN faults ELSE faults + 1
    BY <1>2 DEF List!PostSocialListInvite
  <2>3. next.op = "member"
    OBVIOUS
  <2>5. curator # NoOne /\ ~List!IsBlockedEither(blocks, next.user, curator)
    BY <1>2, SameNoOne
       DEF List!PostSocialListInvite, List!SharedListInviteRequest, List!IsBlockedEither
  <2> HIDE DEF next
  <2>4. Spending(r, next)
    BY <2>2, <2>3, <2>5, ListCardinality DEF Spending
  <2> QED BY <2>1, <2>4
<1>3. ASSUME NEW m \in List!SharedListInviteRequest, List!PostSocialListMemberRemove(r, m) PROVE Goal
  <2> DEFINE next == [op |-> "member", by |-> m.by, user |-> m.handle, role |-> "none"]
  <2>1. next \in List!MemberWrite /\ next.op = "member" /\ next.role = "none"
    BY DEF List!SharedListInviteRequest, List!MemberWrite, List!Role
  <2>2. curator # NoOne
    BY <1>3, SameNoOne DEF List!PostSocialListMemberRemove, List!SharedListInviteRequest
  <2>3. Spending(r, next)
    BY <1>3, <2>1, <2>2 DEF List!PostSocialListMemberRemove, Spending
  <2> QED BY <2>1, <2>3
<1>4. ASSUME NEW m \in List!SharedListInviteRespondRequest, List!PostSocialListInviteRespond(r, m) PROVE Goal
  <2> DEFINE next == [op |-> "member", by |-> m.by, user |-> m.by,
                      role |-> IF m.accept THEN "collaborator" ELSE "none"]
  <2>1. next \in List!MemberWrite /\ next.op = "member" /\ next.user = m.by
    BY DEF List!SharedListInviteRespondRequest, List!MemberWrite, List!Role
  <2>2. /\ List!Spend(r, next)
        /\ UNCHANGED <<curator, tier, entries, member, joined, blocks, follows, late, held>>
        /\ faults' = faults
        /\ m.by \in joined /\ member[m.by] = "invited"
        /\ curator # NoOne /\ ~List!IsBlockedEither(blocks, m.by, curator)
    BY <1>4, SameNoOne
       DEF List!PostSocialListInviteRespond, List!GetSocialListMember, List!GetSocialList
  <2>3. m.by \in List!Collaborators
    BY <2>2 DEF List!Collaborators, List!GetSocialListMembers
  <2> HIDE DEF next
  <2>4. Spending(r, next)
    BY <2>1, <2>2, <2>3 DEF Spending
  <2> QED BY <2>1, <2>4
<1>5. ASSUME NEW m \in List!SharedListSubscribeRequest, List!PostSocialListSubscribe(r, m) PROVE Goal
  <2> DEFINE next == [op |-> "member", by |-> m.by, user |-> m.by,
                      role |-> IF m.subscribe THEN "subscriber" ELSE "none"]
  <2>1. next \in List!MemberWrite /\ next.op = "member" /\ next.role \in {"subscriber", "none"}
    BY DEF List!SharedListSubscribeRequest, List!MemberWrite, List!Role
  <2>2. m.by # List!Anonymous /\ m.by # curator
    BY <1>5, PeopleAssumption
       DEF List!PostSocialListSubscribe, List!SharedListSubscribeRequest, List!Anonymous
  <2>3. /\ curator # NoOne
        /\ next.role # "none" => ~List!IsBlockedEither(blocks, next.user, curator)
    BY <1>5, <2>2, SameNoOne
       DEF List!PostSocialListSubscribe, List!GetSocialList, List!canViewSocialList
  <2>4. Spending(r, next)
    BY <1>5, <2>1, <2>3 DEF List!PostSocialListSubscribe, Spending
  <2> QED BY <2>1, <2>4
<1> HIDE DEF Goal
<1>6. Goal
  BY <1>1, <1>2, <1>3, <1>4, <1>5 DEF List!Begin, List!Readable
<1> QED BY <1>6 DEF Goal

Adding  == {r \in Request : req[r].op = "add"}
Joining == {req[r].user : r \in {q \in Request : req[q].op = "member" /\ req[q].role \in {"invited", "collaborator"}}}
Slack   == faults + (IF raced THEN Cardinality(Request) - 1 ELSE 0)

(* What is there and what is about to be written stays under the caps. *)
Capped ==
  /\ Cardinality(entries) + Cardinality(Adding) <= EntryCap + Slack
  /\ Cardinality(List!Collaborators \cup Joining) <= CollaboratorCap + Slack

ListInv == ListRows /\ Gone /\ Creating /\ Sheltered /\ Capped

LEMMA ListInit == List!Init => ListInv
<1> SUFFICES ASSUME List!Init PROVE ListInv
  OBVIOUS
<1>1. /\ curator = NoOne /\ tier \in List!Tier /\ entries = {} /\ blocks = {} /\ held = {}
      /\ member = [u \in User |-> "none"] /\ joined = User
      /\ raced = FALSE /\ faults = 0 /\ late = {}
  BY SameNoOne DEF List!Init, List!Tier
<1>2. PICK r \in Request, m \in List!SharedListCreateRequest :
        req = [q \in Request |-> IF q = r THEN m ELSE List!Idle]
  BY DEF List!Init
<1>3. m.op = "create" /\ List!Idle.op = "idle"
  BY DEF List!SharedListCreateRequest, List!Idle
<1>4. ListRows
  BY <1>1, <1>2, FS_EmptySet DEF ListRows, Distinct, List!Role
<1>5. Gone /\ Creating /\ Sheltered
  BY <1>1, <1>2, <1>3 DEF Gone, Creating, Sheltered
<1>6. Adding = {} /\ Joining = {} /\ List!Collaborators = {} /\ Slack = 0
  BY <1>1, <1>2, <1>3 DEF Adding, Joining, Slack, List!Collaborators, List!GetSocialListMembers
<1>7. Capped
  BY <1>1, <1>6, FS_EmptySet, PeopleAssumption DEF Capped
<1> QED BY <1>4, <1>5, <1>7 DEF ListInv

LEMMA WriteFacts ==
  ASSUME ListRows, NEW r \in Request
  PROVE  /\ req[r].op \in {"add", "remove", "move"} => req[r] \in List!EntryWrite
         /\ req[r].op = "member" => req[r] \in List!MemberWrite
         /\ req[r].op = "create" => req[r] \in List!SharedListCreateRequest
         /\ \A x : List!Go(r, x) => /\ \A s \in Request : req'[s] = IF s = r THEN x ELSE req[s]
                                    /\ req' = [req EXCEPT ![r] = x] /\ raced' = raced
<1>1. req[r] \in {List!Idle} \cup List!SharedListCreateRequest \cup List!EntryWrite \cup List!MemberWrite
  BY DEF ListRows
<1>2. \A x : List!Go(r, x) => /\ \A s \in Request : req'[s] = IF s = r THEN x ELSE req[s]
                              /\ req' = [req EXCEPT ![r] = x] /\ raced' = raced
  BY DEF ListRows, List!Go
<1> QED BY <1>1, <1>2 DEF List!Idle, List!SharedListCreateRequest, List!EntryWrite, List!MemberWrite

LEMMA ListIsIdle == List!Idle.op = "idle"
BY DEF List!Idle

(* What the creation of the list writes. *)
LEMMA CreateFacts ==
  ASSUME ListRows, NEW r \in Request, List!PostSocialListCreate(r)
  PROVE  /\ req[r].by \in User /\ curator' = req[r].by /\ tier' \in List!Tier
         /\ EntriesOK(entries') /\ Cardinality(entries') \in {0, 1}
         /\ \A y \in entries' : y.by = req[r].by
         /\ late' = IF req[r].by \in joined THEN late ELSE late \cup {req[r].by}
<1> DEFINE m == req[r]
<1>1. m \in List!SharedListCreateRequest
  BY WriteFacts DEF List!PostSocialListCreate
<1>2. m.by \in User /\ (m.entries = << >> \/ \E e \in Episode : m.entries = <<e, e>>)
  BY <1>1 DEF List!SharedListCreateRequest
<1>3. /\ curator' = m.by /\ tier' \in List!Tier
      /\ entries' = List!UpsertSocialListEntries(m.by, m.entries)
      /\ late' = IF m.by \in joined THEN late ELSE late \cup {m.by}
  BY DEF List!PostSocialListCreate, List!visibilityToStored, List!Tier
<1> HIDE DEF m
<1>4. entries' = {} \/ \E e \in Episode : entries' = {[ep |-> e, pos |-> 1, by |-> m.by]}
  <2>1. CASE m.entries = << >>
    BY <1>3, <2>1 DEF List!UpsertSocialListEntries
  <2>2. CASE \E e \in Episode : m.entries = <<e, e>>
    <3>1. PICK e \in Episode : m.entries = <<e, e>>
      BY <2>2
    <3>2. {k \in 1 .. Len(m.entries) : \A j \in k + 1 .. Len(m.entries) : m.entries[j] # m.entries[k]} = {2}
      BY <3>1
    <3>3. m.entries[2] = e /\ 2 - 1 = 1
      BY <3>1
    <3>4. entries' = {[ep |-> m.entries[i], pos |-> i - 1, by |-> m.by] : i \in {2}}
      BY <1>3, <3>2, Zenon DEF List!UpsertSocialListEntries
    <3>5. entries' = {[ep |-> e, pos |-> 1, by |-> m.by]}
      BY <3>3, <3>4
    <3> QED BY <3>5
  <2> QED BY <1>2, <2>1, <2>2
<1>5. EntriesOK(entries') /\ Cardinality(entries') \in {0, 1} /\ \A y \in entries' : y.by = m.by
  <2>1. CASE entries' = {}
    BY <2>1, FS_EmptySet DEF EntriesOK
  <2>2. CASE entries' # {}
    <3>1. PICK x : entries' = {x} /\ x \in List!SocialListEntry /\ x.by = m.by
      BY <1>2, <1>4, <2>2 DEF List!SocialListEntry
    <3> QED BY <3>1, FS_Singleton DEF EntriesOK
  <2> QED BY <2>1, <2>2
<1> QED BY <1>2, <1>3, <1>5 DEF m

LEMMA EntryWriteFacts ==
  ASSUME ListRows, NEW r \in Request, List!WriteEntry(r)
  PROVE  /\ EntriesOK(entries')
         /\ Cardinality(entries') <= Cardinality(entries) + IF req[r].op = "add" THEN 1 ELSE 0
         /\ \A y \in entries' : y.by = req[r].by \/ \E x \in entries : y.by = x.by
         /\ req[r].by \in User /\ late' = IF req[r].by \in joined THEN late ELSE late \cup {req[r].by}
<1>1. req[r] \in List!EntryWrite
  BY WriteFacts DEF List!WriteEntry
<1>2. req[r].by \in User /\ req[r].pos \in Nat
  BY <1>1 DEF List!EntryWrite
<1>3. IsFiniteSet(entries) /\ Cardinality(entries) \in Nat
  BY FS_CardinalityType DEF ListRows
<1>4. /\ late' = IF req[r].by \in joined THEN late ELSE late \cup {req[r].by}
      /\ \/ req[r].op = "add" /\ entries' = List!UpsertSocialListEntry(req[r])
         \/ req[r].op # "add" /\ entries' = List!DeleteSocialListEntry(req[r].ep)
         \/ req[r].op # "add" /\ entries' = List!MoveSocialListEntry(req[r].ep, req[r].pos)
  BY DEF List!WriteEntry
<1>5. CASE req[r].op = "add" /\ entries' = List!UpsertSocialListEntry(req[r])
  BY <1>1, <1>2, <1>4, <1>5, UpsertFacts
<1>6. CASE req[r].op # "add" /\ entries' = List!DeleteSocialListEntry(req[r].ep)
  <2>1. entries' \in SUBSET entries
    BY <1>6 DEF List!DeleteSocialListEntry
  <2>2. IsFiniteSet(entries') /\ Cardinality(entries') <= Cardinality(entries)
    BY <1>3, <2>1, FS_Subset
  <2> QED BY <1>2, <1>3, <1>4, <1>6, <2>1, <2>2 DEF EntriesOK, ListRows, Distinct
<1>7. CASE req[r].op # "add" /\ entries' = List!MoveSocialListEntry(req[r].ep, req[r].pos)
  BY <1>2, <1>3, <1>4, <1>7, MoveFacts
<1> QED BY <1>4, <1>5, <1>6, <1>7

LEMMA MemberWriteFacts ==
  ASSUME ListRows, NEW r \in Request, List!WriteMember(r)
  PROVE  /\ req[r].op = "member" /\ req[r].by \in User /\ req[r].user \in User /\ req[r].role \in List!Role
         /\ \/ member' = [member EXCEPT ![req[r].user] = req[r].role]
            \/ curator = NoOne /\ member' = member
         /\ late' = IF {req[r].by, req[r].user} \subseteq joined THEN late
                    ELSE late \cup {req[r].by, req[r].user}
<1>1. req[r] \in List!MemberWrite
  BY WriteFacts DEF List!WriteMember
<1>2. /\ req[r].op = "member"
      /\ late' = IF {req[r].by, req[r].user} \subseteq joined THEN late
                 ELSE late \cup {req[r].by, req[r].user}
      /\ member' = IF req[r].role = "none" THEN List!DeleteSocialListMember(req[r].user)
                   ELSE List!UpsertSocialListMember(req[r].user, req[r].role)
  BY DEF List!WriteMember
<1>3. \/ member' = [member EXCEPT ![req[r].user] = req[r].role]
      \/ curator = NoOne /\ member' = member
  BY <1>2, SameNoOne DEF List!DeleteSocialListMember, List!UpsertSocialListMember
<1> QED BY <1>1, <1>2, <1>3 DEF List!MemberWrite

(* What the deletion of the list leaves. *)
LEMMA DeletedList ==
  ASSUME ListRows, List!DeleteSocialList
  PROVE  /\ curator' = NoOne /\ tier' = tier /\ entries' = {} /\ EntriesOK(entries')
         /\ member' \in [User -> List!Role] /\ \A u \in User : member'[u] = "none"
BY FS_EmptySet, SameNoOne DEF List!DeleteSocialList, EntriesOK, List!Role

(* What the erasure of u does. *)
LEMMA ErasedFromList ==
  ASSUME ListRows, NEW u \in User, List!Erase(u)
  PROVE  /\ joined' = joined \ {u} /\ late' = late /\ faults' = faults /\ req' = req /\ raced' = raced
         /\ tier' = tier /\ blocks' \subseteq blocks /\ held' = held /\ EntriesOK(entries')
         /\ entries = {} => entries' = {}
         /\ Cardinality(entries') <= Cardinality(entries)
         /\ curator' = IF curator = u THEN NoOne ELSE curator
         /\ member' \in [User -> List!Role]
         /\ \A v \in User : member'[v] = "none" \/ (v # u /\ member'[v] = member[v])
         /\ \A y \in entries' : y.by # u /\ (y.by = NoOne \/ \E x \in entries : x.by = y.by)
<1>1. /\ joined' = joined \ {u} /\ late' = late /\ faults' = faults /\ req' = req /\ raced' = raced
      /\ blocks' \subseteq blocks /\ held' = held
  BY DEF List!Erase, List!Once
<1>2. IsFiniteSet(entries) /\ Cardinality(entries) \in Nat /\ NoOne # u
  BY FS_CardinalityType, SameNoOne DEF ListRows
<1>3. CASE curator = u
  <2>1. List!DeleteSocialList
    BY <1>3 DEF List!Erase
  <2>2. Cardinality({}) = 0
    BY FS_EmptySet
  <2> QED BY <1>1, <1>2, <1>3, <2>1, <2>2, DeletedList
<1>4. CASE curator # u
  <2>1. /\ member' = [member EXCEPT ![u] = "none"] /\ tier' = tier /\ curator' = curator
        /\ entries' = List!ClearSocialListAttributionForUser(u)
    BY <1>4 DEF List!Erase, List!DeleteSocialListMembershipsForUser, List!list
  <2>2. /\ member' \in [User -> List!Role]
        /\ \A v \in User : member'[v] = "none" \/ (v # u /\ member'[v] = member[v])
    BY <2>1 DEF ListRows, List!Role
  <2>3. entries = {} => entries' = {}
    BY <2>1, ClearFacts
  <2> QED BY <1>1, <1>2, <1>4, <2>1, <2>2, <2>3, ClearFacts
<1> QED BY <1>3, <1>4

(* The other steps that write neither entries nor members; a block records who
   was on the list. *)
ListQuiet ==
  /\ UNCHANGED <<curator, entries, member, joined, late, faults>>
  /\ tier' \in List!Tier /\ blocks' \subseteq {p \in User \X User : p[1] # p[2]}
  /\ curator = NoOne => blocks' = blocks
  /\ held \subseteq held' /\ held' \subseteq User
  /\ \A u \in User \ {curator} :
       /\ List!IsBlockedEither(blocks', u, curator) /\ List!Admitted(u)
       => u \in held' \/ List!IsBlockedEither(blocks, u, curator)
  /\ \/ req' = req /\ raced' = raced
     \/ \E r \in Request : List!Go(r, List!Idle)

LEMMA ListCases ==
  ASSUME ListRows, [List!Next]_(List!vars)
  PROVE  \/ \E r \in Request, next \in List!EntryWrite \cup List!MemberWrite : Spending(r, next)
         \/ \E r \in Request : List!PostSocialListCreate(r)
         \/ \E r \in Request : List!WriteEntry(r)
         \/ \E r \in Request : List!WriteMember(r)
         \/ \E u \in User : List!Erase(u)
         \/ \E m \in List!SharedListDeleteRequest : List!PostSocialListDelete(m)
         \/ ListQuiet
<1> USE DEF List!list, List!people, ListQuiet
<1>1. ASSUME NEW r \in Request, List!RequestFails(r) PROVE ListQuiet
  BY <1>1 DEF ListRows, List!RequestFails
<1>2. ASSUME NEW m \in List!SharedListUpdateRequest, List!PostSocialListUpdate(m) PROVE ListQuiet
  BY <1>2 DEF ListRows, List!PostSocialListUpdate, List!UpdateSocialList, List!visibilityToStored,
              List!Tier, List!Once
<1>3. ASSUME NEW u \in User, NEW v \in User, List!Block(u, v) PROVE ListQuiet
  BY <1>3, SameNoOne DEF ListRows, List!Block, List!Once, List!IsBlockedEither
<1>4. ASSUME UNCHANGED List!vars PROVE ListQuiet
  BY <1>4 DEF ListRows, List!vars
<1> QED
  BY <1>1, <1>2, <1>3, <1>4, ListBegin DEF List!Next

LEMMA ListRowsStep == ListRows /\ [List!Next]_(List!vars) => ListRows'
<1> SUFFICES ASSUME ListRows, [List!Next]_(List!vars) PROVE ListRows'
  OBVIOUS
<1> USE DEF List!list, List!people
<1>1. ASSUME NEW r \in Request, NEW next \in List!EntryWrite \cup List!MemberWrite, Spending(r, next)
      PROVE  ListRows'
  BY <1>1 DEF Spending, List!Spend, ListRows, Distinct
<1>2. ASSUME NEW r \in Request, List!WriteEntry(r) PROVE ListRows'
  <2>1. EntriesOK(entries')
    BY <1>2, EntryWriteFacts
  <2> QED BY <1>2, <2>1, WriteFacts DEF List!WriteEntry, ListRows, EntriesOK, Distinct
<1>3. ASSUME NEW r \in Request, List!WriteMember(r) PROVE ListRows'
  <2>1. member' \in [User -> List!Role]
    BY <1>3, MemberWriteFacts DEF ListRows
  <2> QED BY <1>3, <2>1, WriteFacts DEF List!WriteMember, ListRows, Distinct
<1>4. ASSUME NEW u \in User, List!Erase(u) PROVE ListRows'
  BY <1>4, ErasedFromList DEF ListRows, EntriesOK, Distinct
<1>5. ASSUME NEW m \in List!SharedListDeleteRequest, List!PostSocialListDelete(m) PROVE ListRows'
  BY <1>5, DeletedList DEF List!PostSocialListDelete, List!Once, ListRows, EntriesOK, Distinct
<1>6. ASSUME ListQuiet PROVE ListRows'
  BY <1>6, WriteFacts DEF ListQuiet, ListRows, Distinct
<1>7. ASSUME NEW r \in Request, List!PostSocialListCreate(r) PROVE ListRows'
  <2>1. curator' \in User /\ tier' \in List!Tier /\ EntriesOK(entries')
    BY <1>7, CreateFacts
  <2> QED BY <1>7, <2>1, WriteFacts DEF List!PostSocialListCreate, ListRows, EntriesOK, Distinct
<1> QED
  BY <1>1, <1>2, <1>3, <1>4, <1>5, <1>6, <1>7, ListCases

LEMMA GoneStep == ListRows /\ Gone /\ Creating /\ [List!Next]_(List!vars) => Gone'
<1> SUFFICES ASSUME ListRows, Gone, Creating, [List!Next]_(List!vars) PROVE Gone'
  OBVIOUS
<1> USE DEF List!list, List!people, Gone
<1>1. ASSUME NEW r \in Request, NEW next \in List!EntryWrite \cup List!MemberWrite, Spending(r, next)
      PROVE  Gone'
  BY <1>1 DEF Spending
<1>2. ASSUME NEW r \in Request, List!WriteEntry(r) PROVE Gone'
  <2>1. /\ \A y \in entries' : y.by = req[r].by \/ \E x \in entries : y.by = x.by
        /\ late' = IF req[r].by \in joined THEN late ELSE late \cup {req[r].by}
    BY <1>2, EntryWriteFacts
  <2>2. UNCHANGED <<curator, member, joined>>
    BY <1>2 DEF List!WriteEntry
  <2> QED BY <2>1, <2>2
<1>3. ASSUME NEW r \in Request, List!WriteMember(r) PROVE Gone'
  <2>1. UNCHANGED <<curator, entries, joined>>
    BY <1>3 DEF List!WriteMember
  <2>2. \A u \in User : member'[u] = member[u] \/ u = req[r].user
    BY <1>3, MemberWriteFacts DEF ListRows
  <2>3. late \subseteq late' /\ (req[r].user \in joined \/ req[r].user \in late')
    BY <1>3, MemberWriteFacts
  <2> QED BY <2>1, <2>2, <2>3
<1>4. ASSUME NEW u \in User, List!Erase(u) PROVE Gone'
  BY <1>4, ErasedFromList, SameNoOne
<1>5. ASSUME NEW m \in List!SharedListDeleteRequest, List!PostSocialListDelete(m) PROVE Gone'
  BY <1>5, DeletedList DEF List!PostSocialListDelete
<1>6. ASSUME ListQuiet PROVE Gone'
  BY <1>6 DEF ListQuiet
<1>7. ASSUME NEW r \in Request, List!PostSocialListCreate(r) PROVE Gone'
  <2>1. /\ curator' = req[r].by /\ \A y \in entries' : y.by = req[r].by
        /\ late' = IF req[r].by \in joined THEN late ELSE late \cup {req[r].by}
    BY <1>7, CreateFacts
  <2>2. /\ UNCHANGED <<member, joined>> /\ \A u \in User : member[u] = "none"
    BY <1>7 DEF List!PostSocialListCreate, Creating
  <2> QED BY <2>1, <2>2
<1> QED
  BY <1>1, <1>2, <1>3, <1>4, <1>5, <1>6, <1>7, ListCases

LEMMA CreatingStep == ListRows /\ Creating /\ [List!Next]_(List!vars) => Creating'
<1> SUFFICES ASSUME ListRows, Creating, [List!Next]_(List!vars) PROVE Creating'
  OBVIOUS
<1> USE DEF List!list, List!people
<1>1. ASSUME NEW r \in Request, NEW next \in List!EntryWrite \cup List!MemberWrite, Spending(r, next)
      PROVE  Creating'
  <2>1. next.op # "create" /\ curator # NoOne /\ \A s \in Request : req'[s] = IF s = r THEN next ELSE req[s]
    BY <1>1 DEF Spending, List!Spend, List!EntryWrite, List!MemberWrite, ListRows
  <2> QED BY <2>1 DEF Creating
<1>2. ASSUME NEW r \in Request, req[r] # List!Idle, List!Go(r, List!Idle),
             req[r].op = "create" \/ UNCHANGED <<curator, entries, member, blocks>>
      PROVE  Creating'
  <2>1. \A s \in Request : req'[s] = IF s = r THEN List!Idle ELSE req[s]
    BY <1>2, WriteFacts
  <2>2. \A s \in Request : req'[s].op # "create"
    BY <1>2, <2>1, ListIsIdle DEF Creating
  <2> QED BY <2>2 DEF Creating
<1>3. ASSUME NEW r \in Request, List!PostSocialListCreate(r) PROVE Creating'
  BY <1>2, <1>3, ListIsIdle DEF List!PostSocialListCreate
<1>4. ASSUME NEW r \in Request, List!WriteEntry(r) PROVE Creating'
  <2>1. req[r].op # "create" /\ req[r] # List!Idle /\ \A s \in Request : req'[s] = IF s = r THEN List!Idle ELSE req[s]
    BY <1>4, WriteFacts, ListIsIdle DEF List!WriteEntry
  <2> QED BY <2>1, ListIsIdle DEF Creating
<1>5. ASSUME NEW r \in Request, List!WriteMember(r) PROVE Creating'
  <2>1. req[r].op # "create" /\ req[r] # List!Idle /\ \A s \in Request : req'[s] = IF s = r THEN List!Idle ELSE req[s]
    BY <1>5, WriteFacts, ListIsIdle DEF List!WriteMember
  <2> QED BY <2>1, ListIsIdle DEF Creating
<1>6. ASSUME NEW u \in User, List!Erase(u) PROVE Creating'
  BY <1>6, ErasedFromList, SameNoOne DEF Creating
<1>7. ASSUME NEW m \in List!SharedListDeleteRequest, List!PostSocialListDelete(m) PROVE Creating'
  <2>1. curator # NoOne /\ req' = req
    BY <1>7, SameNoOne DEF List!PostSocialListDelete, List!SharedListDeleteRequest, List!Once
  <2> QED BY <2>1 DEF Creating
<1>8. ASSUME ListQuiet PROVE Creating'
  <2>1. \A s \in Request : req'[s] = req[s] \/ req'[s] = List!Idle
    BY <1>8, WriteFacts DEF ListQuiet
  <2>2. UNCHANGED <<curator, entries, member>> /\ (curator = NoOne => blocks' = blocks)
    BY <1>8 DEF ListQuiet
  <2> QED BY <2>1, <2>2, ListIsIdle DEF Creating
<1> QED
  BY <1>1, <1>3, <1>4, <1>5, <1>6, <1>7, <1>8, ListCases

(* A step after which fewer users are on the list or about to be. *)
LEMMA FewerAdmitted ==
  ASSUME ListRows, Sheltered, held \subseteq held', blocks' \subseteq blocks,
         curator' = curator \/ curator' = NoOne,
         \A u \in User : List!Admitted(u)' => List!Admitted(u)
  PROVE  Sheltered'
BY DEF Sheltered, List!IsBlockedEither

LEMMA ShelteredStep == ListRows /\ Creating /\ Sheltered /\ [List!Next]_(List!vars) => Sheltered'
<1> SUFFICES ASSUME ListRows, Creating, Sheltered, [List!Next]_(List!vars) PROVE Sheltered'
  OBVIOUS
<1> USE DEF List!list, List!people
<1>1. ASSUME NEW r \in Request, NEW next \in List!EntryWrite \cup List!MemberWrite, Spending(r, next)
      PROVE  Sheltered'
  <2>1. /\ UNCHANGED <<curator, member, blocks, held>> /\ \A s \in Request : req'[s] = IF s = r THEN next ELSE req[s]
        /\ next.op = "member" /\ next.role # "none" => ~List!IsBlockedEither(blocks, next.user, curator)
    BY <1>1 DEF Spending, List!Spend, ListRows
  <2>2. \A u \in User : List!Admitted(u)' => List!Admitted(u) \/ ~List!IsBlockedEither(blocks, u, curator)
    BY <2>1 DEF List!Admitted
  <2> QED BY <2>1, <2>2 DEF Sheltered
<1>2. ASSUME NEW r \in Request, List!PostSocialListCreate(r) PROVE Sheltered'
  <2>1. blocks = {} /\ blocks' = blocks
    BY <1>2 DEF List!PostSocialListCreate, Creating
  <2> QED BY <2>1 DEF Sheltered, List!IsBlockedEither
<1>3. ASSUME NEW r \in Request, List!WriteEntry(r) PROVE Sheltered'
  <2>1. \A s \in Request : req'[s] = req[s] \/ req'[s] = List!Idle
    BY <1>3, WriteFacts DEF List!WriteEntry
  <2>2. UNCHANGED <<curator, member, blocks, held>>
    BY <1>3 DEF List!WriteEntry
  <2>3. \A u \in User : List!Admitted(u)' => List!Admitted(u)
    BY <2>1, <2>2, ListIsIdle DEF List!Admitted
  <2> QED BY <2>2, <2>3, FewerAdmitted
<1>4. ASSUME NEW r \in Request, List!WriteMember(r) PROVE Sheltered'
  <2>1. \A s \in Request : req'[s] = req[s] \/ req'[s] = List!Idle
    BY <1>4, WriteFacts DEF List!WriteMember
  <2>2. UNCHANGED <<curator, blocks, held>>
    BY <1>4 DEF List!WriteMember
  <2>3. /\ req[r].op = "member"
        /\ \A u \in User : member'[u] = member[u] \/ (u = req[r].user /\ member'[u] = req[r].role)
    BY <1>4, MemberWriteFacts DEF ListRows
  <2>4. \A u \in User : List!Admitted(u)' => List!Admitted(u)
    BY <2>1, <2>2, <2>3, ListIsIdle DEF List!Admitted
  <2> QED BY <2>2, <2>4, FewerAdmitted
<1>5. ASSUME NEW u \in User, List!Erase(u) PROVE Sheltered'
  <2>1. \A v \in User : List!Admitted(v)' => List!Admitted(v)
    BY <1>5, ErasedFromList DEF List!Admitted
  <2> QED BY <1>5, <2>1, ErasedFromList, FewerAdmitted
<1>6. ASSUME NEW m \in List!SharedListDeleteRequest, List!PostSocialListDelete(m) PROVE Sheltered'
  BY <1>6, DeletedList DEF List!PostSocialListDelete, Sheltered
<1>7. ASSUME ListQuiet PROVE Sheltered'
  <2>1. \A s \in Request : req'[s] = req[s] \/ req'[s] = List!Idle
    BY <1>7, WriteFacts DEF ListQuiet
  <2>2. UNCHANGED <<curator, member>> /\ held \subseteq held'
    BY <1>7 DEF ListQuiet
  <2>3. \A u \in User : List!Admitted(u)' => List!Admitted(u)
    BY <2>1, <2>2, ListIsIdle DEF List!Admitted
  <2>4. \A u \in User \ {curator} :
          List!IsBlockedEither(blocks', u, curator) /\ List!Admitted(u)
            => u \in held' \/ List!IsBlockedEither(blocks, u, curator)
    BY <1>7 DEF ListQuiet
  <2> QED BY <2>2, <2>3, <2>4 DEF Sheltered
<1> QED
  BY <1>1, <1>2, <1>3, <1>4, <1>5, <1>6, <1>7, ListCases

LEMMA CapSizes ==
  ASSUME ListRows, NEW r \in Request
  PROVE  /\ IsFiniteSet(Request) /\ Cardinality(Request) \in Nat \ {0}
         /\ IsFiniteSet(entries) /\ Cardinality(entries) \in Nat
         /\ IsFiniteSet(Adding) /\ Cardinality(Adding) \in Nat /\ Cardinality(Adding) <= Cardinality(Request)
         /\ IsFiniteSet(Joining) /\ Cardinality(Joining) \in Nat /\ Cardinality(Joining) <= Cardinality(Request)
         /\ IsFiniteSet(List!Collaborators) /\ Cardinality(List!Collaborators) \in Nat
         /\ Slack \in Nat /\ EntryCap \in Nat /\ CollaboratorCap \in Nat
<1>1. IsFiniteSet(Request) /\ Cardinality(Request) \in Nat \ {0}
  BY PeopleAssumption, FS_CardinalityType, FS_EmptySet
<1>2. IsFiniteSet(entries) /\ Cardinality(entries) \in Nat
  BY FS_CardinalityType DEF ListRows
<1>3. IsFiniteSet(Adding) /\ Cardinality(Adding) \in Nat /\ Cardinality(Adding) <= Cardinality(Request)
  <2>1. Adding \in SUBSET Request
    BY DEF Adding
  <2> QED BY <1>1, <2>1, FS_Subset, FS_CardinalityType
<1>4. IsFiniteSet(Joining) /\ Cardinality(Joining) \in Nat /\ Cardinality(Joining) <= Cardinality(Request)
  <2> DEFINE S == {q \in Request : req[q].op = "member" /\ req[q].role \in {"invited", "collaborator"}}
             f == [q \in S |-> req[q].user]
  <2>1. S \in SUBSET Request
    OBVIOUS
  <2>2. IsFiniteSet(S) /\ Cardinality(S) \in Nat /\ Cardinality(S) <= Cardinality(Request)
    <3> HIDE DEF S
    <3> QED BY <1>1, <2>1, FS_Subset, FS_CardinalityType
  <2>3. DOMAIN f = S /\ Joining = {f[q] : q \in S}
    BY DEF Joining
  <2> HIDE DEF S, f
  <2>4. IsFiniteSet(Joining) /\ Cardinality(Joining) <= Cardinality(S)
    BY <2>2, <2>3, ImageSize
  <2>5. Cardinality(Joining) \in Nat
    BY <2>4, FS_CardinalityType
  <2> QED BY <1>1, <2>2, <2>4, <2>5
<1>5. IsFiniteSet(List!Collaborators) /\ Cardinality(List!Collaborators) \in Nat
  <2>1. List!Collaborators \in SUBSET User
    BY DEF ListRows, List!Collaborators, List!GetSocialListMembers
  <2> QED BY <2>1, GroupsAssumption, FS_Subset, FS_CardinalityType
<1>6. Slack \in Nat /\ EntryCap \in Nat /\ CollaboratorCap \in Nat
  BY <1>1, PeopleAssumption DEF Slack, ListRows
<1> QED BY <1>1, <1>2, <1>3, <1>4, <1>5, <1>6

LEMMA UnionGrows ==
  ASSUME NEW C, IsFiniteSet(C), NEW J, IsFiniteSet(J)
  PROVE  /\ Cardinality(C \cup J) \in Nat /\ IsFiniteSet(C \cup J)
         /\ Cardinality(C \cup J) <= Cardinality(C) + Cardinality(J)
         /\ \A x : /\ Cardinality(C \cup (J \cup {x})) \in Nat
                   /\ Cardinality(C \cup (J \cup {x})) <= Cardinality(C \cup J) + 1
                   /\ x \in C => Cardinality(C \cup (J \cup {x})) = Cardinality(C \cup J)
                   /\ J = {} => Cardinality(C \cup (J \cup {x})) <= Cardinality(C) + 1
                   /\ Cardinality(C \cup (J \cup {x})) <= Cardinality(C) + Cardinality(J \cup {x})
<1>1. ASSUME NEW S, IsFiniteSet(S), NEW T, IsFiniteSet(T)
      PROVE  /\ IsFiniteSet(S \cup T) /\ Cardinality(S \cup T) \in Nat
             /\ Cardinality(S \cup T) <= Cardinality(S) + Cardinality(T)
  <2>1. IsFiniteSet(S \cup T) /\ IsFiniteSet(S \cap T)
    <3>1. S \cap T \in SUBSET S
      OBVIOUS
    <3> QED BY <1>1, <3>1, FS_Union, FS_Subset
  <2>2. /\ Cardinality(S) \in Nat /\ Cardinality(T) \in Nat
        /\ Cardinality(S \cup T) \in Nat /\ Cardinality(S \cap T) \in Nat
    BY <1>1, <2>1, FS_CardinalityType
  <2>3. Cardinality(S \cup T) = Cardinality(S) + Cardinality(T) - Cardinality(S \cap T)
    BY <1>1, FS_Union
  <2> QED BY <2>1, <2>2, <2>3
<1>2. ASSUME NEW x
      PROVE  /\ Cardinality(C \cup (J \cup {x})) \in Nat
             /\ Cardinality(C \cup (J \cup {x})) <= Cardinality(C \cup J) + 1
             /\ x \in C => Cardinality(C \cup (J \cup {x})) = Cardinality(C \cup J)
             /\ J = {} => Cardinality(C \cup (J \cup {x})) <= Cardinality(C) + 1
             /\ Cardinality(C \cup (J \cup {x})) <= Cardinality(C) + Cardinality(J \cup {x})
  <2>1. IsFiniteSet({x}) /\ Cardinality({x}) = 1
    BY FS_Singleton
  <2>2. IsFiniteSet(J \cup {x}) /\ IsFiniteSet(C \cup J)
    BY <1>1, <2>1
  <2>3. C \cup (J \cup {x}) = (C \cup J) \cup {x}
    OBVIOUS
  <2>4. Cardinality((C \cup J) \cup {x}) <= Cardinality(C \cup J) + 1
    BY <1>1, <2>1, <2>2
  <2>5. J = {} => C \cup (J \cup {x}) = C \cup {x}
    OBVIOUS
  <2>6. Cardinality(C \cup {x}) <= Cardinality(C) + 1
    BY <1>1, <2>1
  <2>7. x \in C => C \cup (J \cup {x}) = C \cup J
    OBVIOUS
  <2>8. /\ Cardinality(C \cup (J \cup {x})) \in Nat
        /\ Cardinality(C \cup (J \cup {x})) <= Cardinality(C) + Cardinality(J \cup {x})
    BY <1>1, <2>2
  <2>9. Cardinality(C \cup (J \cup {x})) <= Cardinality(C \cup J) + 1
    BY <2>3, <2>4
  <2>10. x \in C => Cardinality(C \cup (J \cup {x})) = Cardinality(C \cup J)
    BY <2>7
  <2>11. J = {} => Cardinality(C \cup (J \cup {x})) <= Cardinality(C) + 1
    BY <2>5, <2>6
  <2> QED BY <2>8, <2>9, <2>10, <2>11
<1> QED BY <1>1, <1>2

LEMMA CappedSpend ==
  ASSUME ListRows, ListRows', Capped, NEW r \in Request, NEW next \in List!EntryWrite \cup List!MemberWrite,
         Spending(r, next)
  PROVE  Capped'
<1>1. /\ req[r] = List!Idle /\ req' = [req EXCEPT ![r] = next]
      /\ raced' = (raced \/ \E q \in Request : req[q] # List!Idle)
      /\ UNCHANGED <<entries, member, joined>> /\ faults \in Nat
      /\ faults' = faults \/ faults' = faults + 1
  BY DEF Spending, List!Spend, ListRows
<1>2. \A s \in Request : req'[s] = IF s = r THEN next ELSE req[s]
  BY <1>1 DEF ListRows
<1>3. \A s \in Request : req[s].op = "add" \/ req[s].op = "member" => req[s] # List!Idle /\ s # r
  BY <1>1, ListIsIdle
<1>4. /\ Adding' = (IF next.op = "add" THEN Adding \cup {r} ELSE Adding) /\ r \notin Adding
  BY <1>2, <1>3 DEF Adding
<1>5. Joining' = IF next.op = "member" /\ next.role \in {"invited", "collaborator"}
                 THEN Joining \cup {next.user} ELSE Joining
  BY <1>2, <1>3 DEF Joining
<1>6. ~raced' => Adding = {} /\ Joining = {} /\ ~raced
  BY <1>1, <1>3 DEF Adding, Joining
<1>7. List!Collaborators' = List!Collaborators
  BY <1>1 DEF List!Collaborators, List!GetSocialListMembers
<1> DEFINE N == Cardinality(Request)
           C == List!Collaborators
<1>8. Slack' = faults' + IF raced' THEN N - 1 ELSE 0
  BY DEF Slack
<1>9. /\ IsFiniteSet(Request) /\ N \in Nat \ {0} /\ Slack \in Nat
      /\ IsFiniteSet(entries) /\ Cardinality(entries) \in Nat
      /\ IsFiniteSet(Adding) /\ Cardinality(Adding) \in Nat
      /\ IsFiniteSet(Joining) /\ IsFiniteSet(C) /\ Cardinality(C) \in Nat
      /\ EntryCap \in Nat /\ CollaboratorCap \in Nat
  BY CapSizes
<1>10. /\ IsFiniteSet(Adding') /\ Cardinality(Adding') \in Nat /\ Cardinality(Adding') <= N
       /\ IsFiniteSet(Joining') /\ Cardinality(Joining') \in Nat /\ Cardinality(Joining') <= N
  <2>1. Adding' \in SUBSET Request
    BY DEF Adding
  <2>2. IsFiniteSet(Adding') /\ Cardinality(Adding') \in Nat /\ Cardinality(Adding') <= N
    BY <1>9, <2>1, FS_Subset, FS_CardinalityType
  <2> DEFINE S == {q \in Request : req'[q].op = "member" /\ req'[q].role \in {"invited", "collaborator"}}
             f == [q \in S |-> req'[q].user]
  <2>3. S \in SUBSET Request
    OBVIOUS
  <2>4. IsFiniteSet(S) /\ Cardinality(S) \in Nat /\ Cardinality(S) <= N
    <3> HIDE DEF S
    <3> QED BY <1>9, <2>3, FS_Subset, FS_CardinalityType
  <2>5. DOMAIN f = S /\ Joining' = {f[q] : q \in S}
    BY DEF Joining
  <2> HIDE DEF S, f
  <2>6. IsFiniteSet(Joining') /\ Cardinality(Joining') <= Cardinality(S)
    BY <2>4, <2>5, ImageSize
  <2>7. Cardinality(Joining') \in Nat
    BY <2>6, FS_CardinalityType
  <2> QED BY <1>9, <2>2, <2>4, <2>6, <2>7
<1>11. /\ Slack' \in Nat /\ Slack' >= Slack /\ (faults' = faults + 1 => Slack' >= Slack + 1)
       /\ raced' => Slack' >= N - 1
  <2>1. Slack = faults + IF raced THEN N - 1 ELSE 0
    BY DEF Slack
  <2>a. N \in Nat \ {0}
    BY <1>9
  <2> HIDE DEF N
  <2>b. N - 1 \in Nat
    BY <2>a
  <2>2. (raced => raced') /\ N - 1 \in Nat /\ faults \in Nat /\ (faults' = faults \/ faults' = faults + 1)
    BY <1>1, <2>b
  <2> QED BY <1>8, <2>1, <2>2
<1>12. Cardinality(Adding') = IF next.op = "add" THEN Cardinality(Adding) + 1 ELSE Cardinality(Adding)
  BY <1>4, <1>9, FS_AddElement
<1> HIDE DEF N, C
<1>13. Cardinality(entries') + Cardinality(Adding') <= EntryCap + Slack'
  <2>1. entries' = entries /\ Cardinality(entries) + Cardinality(Adding) <= EntryCap + Slack
    BY <1>1 DEF Capped
  <2>2. CASE next.op # "add" \/ faults' = faults + 1
    BY <1>1, <1>9, <1>11, <1>12, <2>1, <2>2
  <2>3. CASE next.op = "add" /\ faults' # faults + 1
    <3>1. Cardinality(entries) < EntryCap
      BY <2>3 DEF Spending
    <3>2. CASE raced'
      BY <1>9, <1>10, <1>11, <2>1, <3>1, <3>2
    <3>3. CASE ~raced'
      <4>1. Cardinality(Adding) = 0
        BY <1>6, <3>3, FS_EmptySet
      <4> QED BY <1>9, <1>11, <1>12, <2>1, <2>3, <3>1, <4>1
    <3> QED BY <3>2, <3>3
  <2> QED BY <2>2, <2>3
<1>14. Cardinality(C \cup Joining') <= CollaboratorCap + Slack'
  <2>1. Cardinality(C \cup Joining) <= CollaboratorCap + Slack
    BY DEF Capped, C
  <2>2. CASE Joining' = Joining
    <3>1. Cardinality(C \cup Joining) \in Nat
      BY <1>9, UnionGrows
    <3> QED BY <1>9, <1>11, <2>1, <2>2, <3>1
  <2>3. CASE Joining' = Joining \cup {next.user} /\ next.op = "member" /\ next.role \in {"invited", "collaborator"}
    <3> DEFINE x == next.user
               small == Cardinality(C \cup Joining)
               large == Cardinality(C \cup Joining')
               c == Cardinality(C)
               j == Cardinality(Joining')
               n == Cardinality(Request)
               before == Slack
               after == Slack'
    <3>1. /\ small \in Nat /\ large \in Nat /\ large <= small + 1
          /\ x \in C => large = small
          /\ Joining = {} => large <= c + 1
          /\ large <= c + j
      BY <1>9, <2>3, UnionGrows
    <3>2. small <= CollaboratorCap + before
      BY <2>1
    <3>3. faults' = faults + 1 \/ c < CollaboratorCap \/ x \in C
      BY <2>3 DEF Spending, C
    <3>4. (~raced' => Joining = {}) /\ j \in Nat /\ j <= n
      BY <1>6, <1>10 DEF N
    <3>5. c \in Nat /\ CollaboratorCap \in Nat /\ before \in Nat /\ n \in Nat \ {0}
      BY <1>9 DEF N
    <3>6. /\ after \in Nat /\ after >= before /\ (faults' = faults + 1 => after >= before + 1)
          /\ raced' => after >= n - 1
      BY <1>11 DEF N
    <3> HIDE DEF x, small, large, c, j, n, before, after
    <3>7. ASSUME faults' = faults + 1 PROVE large <= CollaboratorCap + after
      <4>1. after >= before + 1
        BY <3>6, <3>7
      <4> QED BY <3>1, <3>2, <3>5, <3>6, <4>1
    <3>8. ASSUME x \in C PROVE large <= CollaboratorCap + after
      <4>1. large = small
        BY <3>1, <3>8
      <4> QED BY <3>1, <3>2, <3>5, <3>6, <4>1
    <3>9. ASSUME c < CollaboratorCap /\ raced' PROVE large <= CollaboratorCap + after
      <4>1. after >= n - 1
        BY <3>6, <3>9
      <4> QED BY <3>1, <3>4, <3>5, <3>6, <3>9, <4>1
    <3>10. ASSUME c < CollaboratorCap /\ ~raced' PROVE large <= CollaboratorCap + after
      <4>1. large <= c + 1
        BY <3>1, <3>4, <3>10
      <4> QED BY <3>1, <3>5, <3>6, <3>10, <4>1
    <3>11. large <= CollaboratorCap + after
      BY <3>3, <3>7, <3>8, <3>9, <3>10
    <3> QED BY <3>11 DEF large, after
  <2> QED BY <1>5, <2>2, <2>3
<1> QED
  BY <1>7, <1>13, <1>14 DEF Capped, C

LEMMA CollaboratorsAre ==
  List!Collaborators = {u \in joined : member[u] \in {"invited", "collaborator"}}
BY DEF List!Collaborators, List!GetSocialListMembers

(* A step that only takes away from what the caps count. *)
LEMMA CappedShrinks ==
  ASSUME ListRows, ListRows', Capped, NEW r \in Request,
         faults' = faults, raced' = raced,
         \/ Cardinality(entries') <= Cardinality(entries) /\ Adding' \subseteq Adding
         \/ /\ Cardinality(entries') <= Cardinality(entries) + 1
            /\ r \in Adding /\ Adding' = Adding \ {r},
         (List!Collaborators \cup Joining)' \subseteq List!Collaborators \cup Joining
  PROVE  Capped'
<1>1. Slack' = Slack
  BY DEF Slack
<1>2. /\ IsFiniteSet(Adding) /\ Cardinality(Adding) \in Nat /\ Cardinality(entries) \in Nat
      /\ Slack \in Nat /\ EntryCap \in Nat /\ CollaboratorCap \in Nat
      /\ IsFiniteSet(List!Collaborators) /\ IsFiniteSet(Joining)
  BY CapSizes
<1>3. Cardinality(entries') \in Nat
  BY FS_CardinalityType DEF ListRows
<1>4. Cardinality(entries') + Cardinality(Adding') <= EntryCap + Slack
  <2>1. Cardinality(entries) + Cardinality(Adding) <= EntryCap + Slack
    BY DEF Capped
  <2>2. CASE Cardinality(entries') <= Cardinality(entries) /\ Adding' \subseteq Adding
    <3>1. Cardinality(Adding') <= Cardinality(Adding) /\ Cardinality(Adding') \in Nat
      BY <1>2, <2>2, FS_Subset, FS_CardinalityType
    <3> QED BY <1>2, <1>3, <2>1, <2>2, <3>1
  <2>3. CASE Cardinality(entries') <= Cardinality(entries) + 1 /\ r \in Adding /\ Adding' = Adding \ {r}
    <3>1. Cardinality(Adding') = Cardinality(Adding) - 1
      BY <1>2, <2>3, FS_RemoveElement
    <3> QED BY <1>2, <1>3, <2>1, <2>3, <3>1
  <2> QED BY <2>2, <2>3
<1>5. Cardinality((List!Collaborators \cup Joining)') <= CollaboratorCap + Slack
  <2>1. /\ IsFiniteSet(List!Collaborators \cup Joining) /\ Cardinality(List!Collaborators \cup Joining) \in Nat
        /\ Cardinality(List!Collaborators \cup Joining) <= CollaboratorCap + Slack
    BY <1>2, UnionGrows DEF Capped
  <2>2. /\ Cardinality((List!Collaborators \cup Joining)') <= Cardinality(List!Collaborators \cup Joining)
        /\ Cardinality((List!Collaborators \cup Joining)') \in Nat
    BY <2>1, FS_Subset, FS_CardinalityType
  <2> QED BY <1>2, <2>1, <2>2
<1> QED BY <1>1, <1>4, <1>5 DEF Capped

LEMMA NoJoining ==
  ASSUME ListRows, NEW r \in Request, req' = req \/ List!Go(r, List!Idle)
  PROVE  /\ Adding' \subseteq Adding /\ Joining' \subseteq Joining
         /\ List!Go(r, List!Idle) => Adding' = Adding \ {r}
<1>1. /\ \A s \in Request : req'[s] = req[s] \/ (s = r /\ req'[s] = List!Idle)
      /\ List!Go(r, List!Idle) => req'[r] = List!Idle
  BY WriteFacts
<1>2. /\ \A s \in Request : req'[s].op \in {"add", "member"} => req'[s] = req[s]
      /\ List!Go(r, List!Idle) => req'[r].op = "idle"
  BY <1>1, ListIsIdle
<1> QED BY <1>1, <1>2 DEF Adding, Joining

LEMMA CappedStep == ListInv /\ [List!Next]_(List!vars) => Capped'
<1> SUFFICES ASSUME ListRows, Creating, Capped, ListRows', [List!Next]_(List!vars) PROVE Capped'
  BY ListRowsStep DEF ListInv
<1>1. ASSUME NEW r \in Request, NEW next \in List!EntryWrite \cup List!MemberWrite, Spending(r, next)
      PROVE  Capped'
  BY <1>1, CappedSpend
<1>2. ASSUME NEW r \in Request, List!WriteEntry(r) PROVE Capped'
  <2>1. List!Go(r, List!Idle) /\ raced' = raced /\ UNCHANGED <<member, joined, faults>>
    BY <1>2 DEF List!WriteEntry, List!people, List!Go
  <2>2. Adding' = Adding \ {r} /\ Joining' \subseteq Joining
    BY <2>1, NoJoining
  <2>3. Cardinality(entries') <= Cardinality(entries) + IF req[r].op = "add" THEN 1 ELSE 0
    BY <1>2, EntryWriteFacts
  <2>4. (List!Collaborators \cup Joining)' \subseteq List!Collaborators \cup Joining
    BY <2>1, <2>2, CollaboratorsAre DEF List!Collaborators, List!GetSocialListMembers
  <2>5. CASE req[r].op = "add"
    <3>1. r \in Adding
      BY <2>5 DEF Adding
    <3> QED BY <2>1, <2>2, <2>3, <2>4, <2>5, <3>1, CappedShrinks
  <2>6. CASE req[r].op # "add"
    <3>1. Cardinality(entries) \in Nat /\ Cardinality(entries') \in Nat
      BY FS_CardinalityType DEF ListRows
    <3>2. Cardinality(entries') <= Cardinality(entries)
      BY <2>3, <2>6, <3>1
    <3> QED BY <2>1, <2>2, <2>4, <3>2, CappedShrinks
  <2> QED BY <2>5, <2>6
<1>3. ASSUME NEW r \in Request, List!WriteMember(r) PROVE Capped'
  <2>1. /\ List!Go(r, List!Idle) /\ raced' = raced /\ UNCHANGED <<entries, joined, faults>>
    BY <1>3 DEF List!WriteMember, List!people, List!Go
  <2>2. Adding' \subseteq Adding /\ Joining' \subseteq Joining
    BY <2>1, NoJoining
  <2>3. /\ req[r].op = "member" /\ req[r].user \in User
        /\ \A u \in User : member'[u] = member[u] \/ (u = req[r].user /\ member'[u] = req[r].role)
    BY <1>3, MemberWriteFacts DEF ListRows
  <2>4. req[r].role \in {"invited", "collaborator"} => req[r].user \in Joining
    BY <2>3 DEF Joining
  <2>5. joined \subseteq User
    BY DEF ListRows
  <2>6. List!Collaborators' = {u \in joined : member'[u] \in {"invited", "collaborator"}}
    BY <2>1 DEF List!Collaborators, List!GetSocialListMembers
  <2>7. List!Collaborators' \subseteq List!Collaborators \cup Joining
    BY <2>3, <2>4, <2>5, <2>6, CollaboratorsAre
  <2>8. (List!Collaborators \cup Joining)' \subseteq List!Collaborators \cup Joining
    BY <2>2, <2>7
  <2>9. Cardinality(entries') <= Cardinality(entries)
    <3>1. Cardinality(entries) \in Nat
      BY FS_CardinalityType DEF ListRows
    <3> QED BY <2>1, <3>1
  <2> QED BY <2>1, <2>2, <2>8, <2>9, CappedShrinks
<1>4. ASSUME UNCHANGED <<req, faults, raced>>, Cardinality(entries') <= Cardinality(entries),
             joined' \subseteq joined,
             \A u \in User : member'[u] = "none" \/ member'[u] = member[u]
      PROVE  Capped'
  <2>1. Adding' = Adding /\ Joining' = Joining
    BY <1>4 DEF Adding, Joining
  <2>2. joined \subseteq User
    BY DEF ListRows
  <2>3. List!Collaborators' = {u \in joined' : member'[u] \in {"invited", "collaborator"}}
    BY DEF List!Collaborators, List!GetSocialListMembers
  <2>4. (List!Collaborators \cup Joining)' \subseteq List!Collaborators \cup Joining
    BY <1>4, <2>1, <2>2, <2>3, CollaboratorsAre
  <2>5. PICK r \in Request : TRUE
    BY PeopleAssumption
  <2> QED BY <1>4, <2>1, <2>4, <2>5, CappedShrinks
<1>5. ASSUME NEW u \in User, List!Erase(u) PROVE Capped'
  <2>1. /\ UNCHANGED <<req, faults, raced>> /\ Cardinality(entries') <= Cardinality(entries)
        /\ joined' \subseteq joined
        /\ \A v \in User : member'[v] = "none" \/ member'[v] = member[v]
    BY <1>5, ErasedFromList
  <2> QED BY <1>4, <2>1
<1>6. ASSUME NEW m \in List!SharedListDeleteRequest, List!PostSocialListDelete(m) PROVE Capped'
  <2>1. /\ UNCHANGED <<req, faults, raced, joined>> /\ entries' = {}
        /\ \A v \in User : member'[v] = "none"
    BY <1>6, DeletedList DEF List!PostSocialListDelete, List!Once, List!people
  <2>2. Cardinality(entries) \in Nat /\ Cardinality({}) = 0
    BY FS_CardinalityType, FS_EmptySet DEF ListRows
  <2> QED BY <1>4, <2>1, <2>2
<1>7. ASSUME ListQuiet PROVE Capped'
  <2>1. UNCHANGED <<curator, entries, member, joined, late, faults>>
    BY <1>7 DEF ListQuiet
  <2>2. Cardinality(entries') <= Cardinality(entries)
    <3>1. Cardinality(entries) \in Nat
      BY FS_CardinalityType DEF ListRows
    <3> QED BY <2>1, <3>1
  <2>3. CASE req' = req /\ raced' = raced
    BY <1>4, <2>1, <2>2, <2>3
  <2>4. ASSUME NEW r \in Request, List!Go(r, List!Idle) PROVE Capped'
    <3>1. Adding' \subseteq Adding /\ Joining' \subseteq Joining /\ raced' = raced
      BY <2>4, NoJoining DEF List!Go
    <3>2. (List!Collaborators \cup Joining)' \subseteq List!Collaborators \cup Joining
      BY <2>1, <3>1 DEF List!Collaborators, List!GetSocialListMembers
    <3> QED BY <2>1, <2>2, <3>1, <3>2, CappedShrinks
  <2> QED BY <1>7, <2>3, <2>4 DEF ListQuiet
<1>8. ASSUME NEW r \in Request, List!PostSocialListCreate(r) PROVE Capped'
  <2>1. UNCHANGED <<member, joined>> /\ \A u \in User : member[u] = "none"
    BY <1>8 DEF List!PostSocialListCreate, List!people, Creating
  <2>2. \A s \in Request : req'[s] = List!Idle
    <3>1. \A s \in Request \ {r} : req[s] = List!Idle
      BY <1>8 DEF List!PostSocialListCreate, Creating
    <3>2. \A s \in Request : req'[s] = IF s = r THEN List!Idle ELSE req[s]
      BY <1>8, WriteFacts DEF List!PostSocialListCreate
    <3> QED BY <3>1, <3>2
  <2>3. Adding' = {} /\ (List!Collaborators \cup Joining)' = {}
    <3>1. Adding' = {} /\ Joining' = {}
      BY <2>2, ListIsIdle DEF Adding, Joining
    <3>2. joined \subseteq User
      BY DEF ListRows
    <3>3. List!Collaborators' = {}
      BY <2>1, <3>2 DEF List!Collaborators, List!GetSocialListMembers
    <3> QED BY <3>1, <3>3
  <2>4. Cardinality(entries') \in {0, 1}
    BY <1>8, CreateFacts
  <2>5. Slack' = Slack /\ Slack \in Nat
    BY <1>8, CapSizes DEF List!PostSocialListCreate, List!Go, Slack
  <2>6. EntryCap \in Nat \ {0} /\ CollaboratorCap \in Nat \ {0} /\ Cardinality({}) = 0
    BY PeopleAssumption, FS_EmptySet
  <2>7. Cardinality(entries') + Cardinality(Adding') <= EntryCap + Slack'
    BY <2>3, <2>4, <2>5, <2>6
  <2>8. Cardinality((List!Collaborators \cup Joining)') = 0
    BY <2>3, FS_EmptySet
  <2>9. 0 <= CollaboratorCap + Slack'
    BY <2>5, <2>6
  <2> QED BY <2>7, <2>8, <2>9 DEF Capped
<1> QED
  BY <1>1, <1>2, <1>3, <1>5, <1>6, <1>7, <1>8, ListCases

LEMMA ListStepInv == ListInv /\ [List!Next]_(List!vars) => ListInv'
BY ListRowsStep, GoneStep, CreatingStep, ShelteredStep, CappedStep DEF ListInv

LEMMA CapsFollow == ListInv => List!CapsHold
<1> SUFFICES ASSUME ListInv PROVE List!CapsHold
  OBVIOUS
<1> DEFINE slack == faults + (IF raced THEN List!Cardinality(Request) - 1 ELSE 0)
<1>1. slack = Slack
  BY ListCardinality DEF Slack
<1>2. ListRows /\ Capped
  BY DEF ListInv
<1>3. Cardinality(entries) <= EntryCap + Slack /\ Cardinality(List!Collaborators) <= CollaboratorCap + Slack
  <2>1. CASE Request = {}
    BY <2>1, PeopleAssumption
  <2>2. ASSUME NEW r \in Request
        PROVE  Cardinality(entries) <= EntryCap + Slack /\ Cardinality(List!Collaborators) <= CollaboratorCap + Slack
    <3>1. /\ Cardinality(entries) \in Nat /\ Cardinality(Adding) \in Nat /\ Slack \in Nat
          /\ EntryCap \in Nat /\ CollaboratorCap \in Nat
          /\ Cardinality(List!Collaborators) \in Nat
          /\ IsFiniteSet(List!Collaborators) /\ IsFiniteSet(Joining)
      BY <1>2, CapSizes
    <3>2. /\ IsFiniteSet(List!Collaborators \cup Joining)
          /\ Cardinality(List!Collaborators \cup Joining) \in Nat
      BY <3>1, UnionGrows
    <3>3. List!Collaborators \in SUBSET (List!Collaborators \cup Joining)
      OBVIOUS
    <3>4. Cardinality(List!Collaborators) <= Cardinality(List!Collaborators \cup Joining)
      BY <3>2, <3>3, FS_Subset
    <3> QED BY <1>2, <3>1, <3>2, <3>4 DEF Capped
  <2> QED BY <2>1, <2>2
<1>4. List!CountSocialListEntries = Cardinality(entries)
      /\ List!Cardinality(List!Collaborators) = Cardinality(List!Collaborators)
  BY ListCardinality DEF List!CountSocialListEntries
<1> HIDE DEF slack
<1>5. /\ List!CountSocialListEntries <= EntryCap + slack
      /\ List!Cardinality(List!Collaborators) <= CollaboratorCap + slack
  BY <1>1, <1>3, <1>4
<1> QED BY <1>5 DEF List!CapsHold, slack

LEMMA HiddenFollows == ListInv => List!HiddenAcrossBlock
<1> SUFFICES ASSUME ListInv PROVE List!HiddenAcrossBlock
  OBVIOUS
<1>1. ListRows /\ "anonymous" \notin User /\ NoOne \notin User
  BY PeopleAssumption, GroupsAssumption DEF ListInv
<1>2. ASSUME NEW m \in List!SharedListEntriesRequest,
             {<<m.by, curator>>, <<curator, m.by>>} \cap blocks # {}
      PROVE  ~List!PostSocialListEntries(m).found
  <2>1. m.by \in User /\ m.by # curator
    BY <1>1, <1>2 DEF ListRows
  <2>2. m.by # List!Anonymous
    BY <1>1, <2>1 DEF List!Anonymous
  <2>3. List!IsBlockedEither(blocks, m.by, curator)
    BY <1>2 DEF List!IsBlockedEither
  <2>4. ~List!canViewSocialList(m.by)
    BY <2>1, <2>2, <2>3 DEF List!canViewSocialList
  <2> QED BY <2>4 DEF List!PostSocialListEntries
<1>3. ASSUME NEW u \in joined \ {curator}
      PROVE  LET all   == List!SharedListsResponse(u)
                 shown == all.lists \cup all.invites
             IN /\ all.lists = {} \/ all.invites = {}
                /\ \A l \in shown : l.members = {}
                /\ u \notin held => \A l \in shown : {<<u, l.owner>>, <<l.owner, u>>} \cap blocks = {}
  <2>0. u \in User \ {curator}
    BY <1>1, <1>3 DEF ListRows
  <2>1. /\ List!SharedList(u).yourRole = member[u] /\ List!SharedList(u).members = {}
        /\ List!SharedList(u).owner = curator
    <3>1. u # List!Anonymous
      BY <1>1, <2>0 DEF List!Anonymous
    <3>2. List!socialListRole(u) = member[u]
      BY <1>3, <3>1 DEF List!socialListRole, List!GetSocialListMember
    <3> QED BY <1>3, <3>2 DEF List!SharedList
  <2>2. /\ List!SharedListsResponse(u).lists = {l \in List!GetSocialListsForUser(u) : l.yourRole # "invited"}
        /\ List!SharedListsResponse(u).invites = List!GetSocialListInvitesForUser(u)
    BY DEF List!SharedListsResponse
  <2>3. \A l \in List!GetSocialListsForUser(u) \cup List!GetSocialListInvitesForUser(u) : l = List!SharedList(u)
    BY DEF List!GetSocialListsForUser, List!GetSocialListInvitesForUser
  <2>4. List!GetSocialListInvitesForUser(u) # {} => member[u] = "invited"
    BY DEF List!GetSocialListInvitesForUser
  <2>5. List!GetSocialListsForUser(u) \cup List!GetSocialListInvitesForUser(u) # {}
          => curator # NoOne /\ List!Admitted(u)
    BY <2>0, SameNoOne DEF List!GetSocialListsForUser, List!GetSocialListInvitesForUser, List!GetSocialList,
                      List!Admitted
  <2>6. curator # NoOne /\ List!Admitted(u) /\ u \notin held => {<<u, curator>>, <<curator, u>>} \cap blocks = {}
    BY <2>0 DEF ListInv, Sheltered, List!IsBlockedEither
  <2> QED BY <2>1, <2>2, <2>3, <2>4, <2>5, <2>6
<1> QED BY <1>2, <1>3 DEF List!HiddenAcrossBlock

----------------------------------------------------------------------------
(* The limits: the daily quota of reports. *)
ReportType ==
  {Quota!Idle} \cup [op : {"lock", "count", "insert"}, by : Client, created : 1 .. MaxClock]
Recent(S, c, t) == {y \in S : y.by = c /\ y.created + Day > t}

(* Those who hold the lock of a reporter are as many as there is of it, one;
   whoever is about to insert counted less than the quota, which the reports
   committed since were not the reporter's and the clock only lessens. *)
ReportInv ==
  /\ now \in 1 .. MaxClock
  /\ report \in [Request -> ReportType]
  /\ \A r \in Request : report[r].op # "idle" => report[r].created <= now
  /\ lock = {r \in Request : report[r].op \in {"count", "insert"}}
  /\ \A q, r \in lock : report[q].by = report[r].by => q = r
  /\ IsFiniteSet(reports)
  /\ \A x \in reports : x.by \in Client /\ x.created \in 1 .. now /\ x.id \in 1 .. Cardinality(reports)
  /\ \A c \in Client : Cardinality(Recent(reports, c, now)) <= ReportsPerDay
  /\ \A r \in Request : report[r].op = "insert" =>
       Cardinality(Recent(reports, report[r].by, now)) < ReportsPerDay

LEMMA QuotaCardinality == \A S : Quota!Cardinality(S) = Cardinality(S)
BY Zenon DEF Quota!Cardinality, Cardinality

LEMMA CountIs ==
  ASSUME NEW c, NEW t
  PROVE  Quota!CountRecentModerationReportsByReporter(c, t) = Cardinality(Recent(reports, c, t))
BY QuotaCardinality DEF Recent, Quota!CountRecentModerationReportsByReporter

LEMMA ReportFields ==
  ASSUME report \in [Request -> ReportType], NEW r \in Request
  PROVE  /\ report[r].op \in {"idle", "lock", "count", "insert"}
         /\ report[r] = Quota!Idle <=> report[r].op = "idle"
         /\ report[r].op # "idle" =>
              /\ report[r].by \in Client /\ report[r].created \in 1 .. MaxClock
              /\ report[r] = [op |-> report[r].op, by |-> report[r].by, created |-> report[r].created]
<1>1. report[r] \in ReportType
  OBVIOUS
<1> QED BY <1>1 DEF ReportType, Quota!Idle

LEMMA RecentFacts ==
  ASSUME ReportInv, NEW c
  PROVE  /\ IsFiniteSet(Recent(reports, c, now)) /\ Cardinality(Recent(reports, c, now)) \in Nat
         /\ IsFiniteSet(Recent(reports, c, now + 1)) /\ Cardinality(Recent(reports, c, now + 1)) \in Nat
         /\ Cardinality(Recent(reports, c, now + 1)) <= Cardinality(Recent(reports, c, now))
<1>1. Recent(reports, c, now) \in SUBSET reports
  BY DEF Recent
<1>2. Recent(reports, c, now + 1) \in SUBSET Recent(reports, c, now)
  BY PeopleAssumption DEF Recent, ReportInv
<1>3. IsFiniteSet(reports)
  BY DEF ReportInv
<1>4. IsFiniteSet(Recent(reports, c, now)) /\ IsFiniteSet(Recent(reports, c, now + 1))
  BY <1>1, <1>2, <1>3, FS_Subset
<1> QED BY <1>2, <1>4, FS_Subset, FS_CardinalityType

LEMMA ReportInit == Quota!Init => ReportInv
<1> SUFFICES ASSUME Quota!Init PROVE ReportInv
  OBVIOUS
<1>1. /\ now = 1 /\ reports = {} /\ lock = {} /\ report = [r \in Request |-> Quota!Idle]
  BY DEF Quota!Init
<1>2. Quota!Idle.op = "idle"
  BY DEF Quota!Idle
<1>3. \A c, t : Recent(reports, c, t) = {} /\ Cardinality(Recent(reports, c, t)) = 0
  BY <1>1, FS_EmptySet DEF Recent
<1>4. report \in [Request -> ReportType] /\ now \in 1 .. MaxClock /\ ReportsPerDay \in Nat
  BY <1>1, PeopleAssumption DEF ReportType
<1> QED BY <1>1, <1>2, <1>3, <1>4, FS_EmptySet DEF ReportInv

LEMMA ReportStep == ReportInv /\ [Quota!Next]_(Quota!vars) => ReportInv'
<1> SUFFICES ASSUME ReportInv, [Quota!Next]_(Quota!vars) PROVE ReportInv'
  OBVIOUS
<1> USE PeopleAssumption
<1>0. ASSUME UNCHANGED <<now, reports, lock, report>> PROVE ReportInv'
  BY <1>0 DEF ReportInv, Recent
<1>1. ASSUME NEW r \in Request, NEW c \in Client, Quota!BeginReport(r, c) PROVE ReportInv'
  <2>1. /\ report[r].op = "idle" /\ UNCHANGED <<now, reports, lock>>
        /\ report' = [report EXCEPT ![r] = [op |-> "lock", by |-> c, created |-> now]]
    BY <1>1, ReportFields DEF ReportInv, Quota!BeginReport, Quota!Try
  <2>2. report' \in [Request -> ReportType]
    BY <2>1 DEF ReportInv, ReportType
  <2>3. \A q \in Request \ {r} : report'[q] = report[q]
    BY <2>1 DEF ReportInv
  <2>4. report'[r] = [op |-> "lock", by |-> c, created |-> now]
    BY <2>1 DEF ReportInv
  <2>5. r \notin lock /\ now <= now
    BY <2>1 DEF ReportInv
  <2>6. /\ \A q \in Request : report'[q].op # "idle" => report'[q].created <= now
        /\ lock = {q \in Request : report'[q].op \in {"count", "insert"}}
        /\ \A q, s \in lock : report'[q].by = report'[s].by => q = s
        /\ \A q \in Request : report'[q].op = "insert" => Cardinality(Recent(reports, report'[q].by, now)) < ReportsPerDay
    BY <2>3, <2>4, <2>5 DEF ReportInv
  <2> QED BY <2>1, <2>2, <2>6 DEF ReportInv, Recent
<1>2. ASSUME NEW r \in Request, Quota!LockRateLimitBucket(r) PROVE ReportInv'
  <2>1. /\ report[r].op = "lock" /\ UNCHANGED <<now, reports>>
        /\ ~\E q \in lock : report[q].by = report[r].by
        /\ lock' = lock \cup {r}
        /\ report' = [report EXCEPT ![r].op = "count"]
    BY <1>2 DEF Quota!LockRateLimitBucket
  <2>2. report[r] = [op |-> "lock", by |-> report[r].by, created |-> report[r].created]
        /\ report[r].by \in Client /\ report[r].created \in 1 .. MaxClock
    BY <2>1, ReportFields DEF ReportInv
  <2>3. report'[r] = [op |-> "count", by |-> report[r].by, created |-> report[r].created]
    BY <2>1, <2>2 DEF ReportInv
  <2>4. \A q \in Request \ {r} : report'[q] = report[q]
    BY <2>1 DEF ReportInv
  <2>5. report' \in [Request -> ReportType]
    BY <2>1, <2>2, <2>3 DEF ReportInv, ReportType
  <2>6. /\ \A q \in Request : report'[q].op # "idle" => report'[q].created <= now
        /\ lock' = {q \in Request : report'[q].op \in {"count", "insert"}}
    <3>1. \A q \in Request : report'[q].op # "idle" => report'[q].created <= now
      BY <2>1, <2>2, <2>3, <2>4 DEF ReportInv
    <3>2. report'[r].op = "count" /\ \A q \in Request \ {r} : report'[q].op = report[q].op
      BY <2>3, <2>4
    <3> QED BY <2>1, <3>1, <3>2 DEF ReportInv
  <2>7. \A q, s \in lock' : report'[q].by = report'[s].by => q = s
    BY <2>1, <2>3, <2>4 DEF ReportInv
  <2>8. \A q \in Request : report'[q].op = "insert" => Cardinality(Recent(reports, report'[q].by, now)) < ReportsPerDay
    BY <2>3, <2>4 DEF ReportInv
  <2> QED BY <2>1, <2>5, <2>6, <2>7, <2>8 DEF ReportInv, Recent
<1>3. ASSUME NEW r \in Request, Quota!withModerationReportQuota(r) PROVE ReportInv'
  <2>1. report[r].op = "count" /\ UNCHANGED <<now, reports>> /\ report[r].by \in Client
        /\ report[r].created \in 1 .. MaxClock
        /\ report[r] = [op |-> "count", by |-> report[r].by, created |-> report[r].created]
    BY <1>3, ReportFields DEF ReportInv, Quota!withModerationReportQuota
  <2>2. CASE Cardinality(Recent(reports, report[r].by, now)) >= ReportsPerDay
    <3>1. report' = [report EXCEPT ![r] = Quota!Idle] /\ lock' = lock \ {r}
      BY <1>3, <2>2, CountIs DEF Quota!withModerationReportQuota
    <3>2. \A q \in Request \ {r} : report'[q] = report[q]
      BY <3>1 DEF ReportInv
    <3>3. report'[r].op = "idle" /\ report' \in [Request -> ReportType]
      BY <3>1 DEF ReportInv, ReportType, Quota!Idle
    <3>4. /\ \A q \in Request : report'[q].op # "idle" => report'[q].created <= now
          /\ lock' = {q \in Request : report'[q].op \in {"count", "insert"}}
          /\ \A q, s \in lock' : report'[q].by = report'[s].by => q = s
          /\ \A q \in Request : report'[q].op = "insert" => Cardinality(Recent(reports, report'[q].by, now)) < ReportsPerDay
      BY <3>1, <3>2, <3>3 DEF ReportInv
    <3> QED BY <2>1, <3>3, <3>4 DEF ReportInv, Recent
  <2>3. CASE ~(Cardinality(Recent(reports, report[r].by, now)) >= ReportsPerDay)
    <3>1. report' = [report EXCEPT ![r].op = "insert"] /\ lock' = lock
      BY <1>3, <2>3, CountIs DEF Quota!withModerationReportQuota
    <3>2. \A q \in Request \ {r} : report'[q] = report[q]
      BY <3>1 DEF ReportInv
    <3>3. report'[r] = [op |-> "insert", by |-> report[r].by, created |-> report[r].created]
      BY <2>1, <3>1 DEF ReportInv
    <3>4. report' \in [Request -> ReportType]
      BY <2>1, <3>1, <3>3 DEF ReportInv, ReportType
    <3>5. Cardinality(Recent(reports, report[r].by, now)) < ReportsPerDay
      BY <2>3, RecentFacts
    <3>6. /\ \A q \in Request : report'[q].op # "idle" => report'[q].created <= now
          /\ lock' = {q \in Request : report'[q].op \in {"count", "insert"}}
          /\ \A q, s \in lock' : report'[q].by = report'[s].by => q = s
          /\ \A q \in Request : report'[q].op = "insert" => Cardinality(Recent(reports, report'[q].by, now)) < ReportsPerDay
      BY <2>1, <3>1, <3>2, <3>3, <3>5 DEF ReportInv
    <3> QED BY <2>1, <3>4, <3>6 DEF ReportInv, Recent
  <2> QED BY <2>2, <2>3
<1>4. ASSUME NEW r \in Request, Quota!InsertModerationReport(r) PROVE ReportInv'
  <2>0. PICK me, x : /\ me = report[r].by /\ me \in Client
                    /\ x = [id |-> Cardinality(reports) + 1, by |-> me, created |-> report[r].created]
    BY <1>4, ReportFields DEF ReportInv, Quota!InsertModerationReport
  <2>1. /\ report[r].op = "insert" /\ now' = now
        /\ report' = [report EXCEPT ![r] = Quota!Idle] /\ lock' = lock \ {r}
        /\ reports' = reports \cup {x} \/ reports' = reports
    BY <1>4, <2>0, QuotaCardinality DEF Quota!InsertModerationReport
  <2>2. /\ me \in Client /\ report[r].created \in 1 .. now
        /\ x.id = Cardinality(reports) + 1 /\ x.by = me /\ x.created = report[r].created
    BY <2>0, <2>1, ReportFields DEF ReportInv
  <2>3. \A q \in Request \ {r} : report'[q] = report[q]
    BY <2>1 DEF ReportInv
  <2>4. report'[r].op = "idle" /\ report' \in [Request -> ReportType]
    BY <2>1 DEF ReportInv, ReportType, Quota!Idle
  <2>5. /\ \A q \in Request : report'[q].op # "idle" => report'[q].created <= now
        /\ lock' = {q \in Request : report'[q].op \in {"count", "insert"}}
        /\ \A q, s \in lock' : report'[q].by = report'[s].by => q = s
    BY <2>1, <2>3, <2>4 DEF ReportInv
  <2>6. \A q \in Request : report'[q].op = "insert" => report'[q].by # me
    BY <2>0, <2>1, <2>3, <2>4 DEF ReportInv
  <2>7. CASE reports' = reports
    BY <2>1, <2>3, <2>4, <2>5, <2>7 DEF ReportInv, Recent
  <2>8. CASE reports' = reports \cup {x}
    <3>1. IsFiniteSet(reports) /\ Cardinality(reports) \in Nat
      BY FS_CardinalityType DEF ReportInv
    <3>2. x \notin reports
      BY <2>2, <3>1 DEF ReportInv
    <3>3. IsFiniteSet(reports') /\ Cardinality(reports') = Cardinality(reports) + 1
      <4> QED BY <2>8, <3>1, <3>2, FS_AddElement
    <3>4. \A y \in reports' : y.by \in Client /\ y.created \in 1 .. now /\ y.id \in 1 .. Cardinality(reports')
      <4> SUFFICES ASSUME NEW y \in reports'
                   PROVE  y.by \in Client /\ y.created \in 1 .. now /\ y.id \in 1 .. Cardinality(reports')
        OBVIOUS
      <4>1. CASE y = x
        BY <2>2, <3>1, <3>3, <4>1
      <4>2. CASE y \in reports
        BY <3>1, <3>3, <4>2 DEF ReportInv
      <4> QED BY <2>8, <4>1, <4>2
    <3>5. \A c \in Client \ {me} : Recent(reports', c, now') = Recent(reports, c, now)
      BY <2>1, <2>2, <2>8 DEF Recent
    <3>6. Recent(reports', me, now') \in SUBSET (Recent(reports, me, now) \cup {x})
      BY <2>1, <2>8 DEF Recent
    <3>7. Cardinality(Recent(reports', me, now')) <= ReportsPerDay
      <4>1. IsFiniteSet(Recent(reports, me, now)) /\ Cardinality(Recent(reports, me, now)) \in Nat
        BY RecentFacts
      <4>2. Cardinality(Recent(reports, me, now)) < ReportsPerDay
        BY <2>0, <2>1 DEF ReportInv
      <4>3. /\ IsFiniteSet(Recent(reports, me, now) \cup {x})
            /\ Cardinality(Recent(reports, me, now) \cup {x}) <= Cardinality(Recent(reports, me, now)) + 1
            /\ Cardinality(Recent(reports, me, now) \cup {x}) \in Nat
        <5> DEFINE R == Recent(reports, me, now)
        <5> HIDE DEF R
        <5>1. /\ IsFiniteSet(R \cup {x})
              /\ Cardinality(R \cup {x}) = IF x \in R THEN Cardinality(R) ELSE Cardinality(R) + 1
          BY <4>1, FS_AddElement DEF R
        <5> QED BY <4>1, <5>1 DEF R
      <4>4. Cardinality(Recent(reports', me, now')) \in Nat
            /\ Cardinality(Recent(reports', me, now')) <= Cardinality(Recent(reports, me, now) \cup {x})
        BY <3>6, <4>3, FS_Subset, FS_CardinalityType
      <4> QED BY <4>1, <4>2, <4>3, <4>4
    <3>8. \A c \in Client : Cardinality(Recent(reports', c, now')) <= ReportsPerDay
      BY <3>5, <3>7 DEF ReportInv
    <3>9. \A q \in Request : report'[q].op = "insert" => Cardinality(Recent(reports', report'[q].by, now')) < ReportsPerDay
      <4> SUFFICES ASSUME NEW q \in Request, report'[q].op = "insert"
                   PROVE  Cardinality(Recent(reports', report'[q].by, now')) < ReportsPerDay
        OBVIOUS
      <4>1. q # r /\ report'[q] = report[q] /\ report[q].by \in Client \ {me}
        BY <2>3, <2>4, <2>6, ReportFields DEF ReportInv
      <4> QED BY <3>5, <4>1 DEF ReportInv
    <3> QED
      BY <2>1, <2>4, <2>5, <3>3, <3>4, <3>8, <3>9 DEF ReportInv, Recent
  <2> QED BY <2>1, <2>7, <2>8
<1>5. ASSUME Quota!Tick PROVE ReportInv'
  <2>1. now < MaxClock /\ now' = now + 1 /\ UNCHANGED <<reports, lock, report>>
    BY <1>5 DEF Quota!Tick, Quota!quotaVars
  <2>2. \A c : Recent(reports', c, now') = Recent(reports, c, now + 1)
    BY <2>1 DEF Recent
  <2>3. now' \in 1 .. MaxClock
    BY <2>1 DEF ReportInv
  <2>4. \A r \in Request : report'[r].op # "idle" => report'[r].created <= now'
    BY <2>1, ReportFields DEF ReportInv
  <2>5. \A x \in reports' : x.by \in Client /\ x.created \in 1 .. now' /\ x.id \in 1 .. Cardinality(reports')
    BY <2>1 DEF ReportInv
  <2>8. \A c \in Client : /\ Cardinality(Recent(reports', c, now')) \in Nat /\ Cardinality(Recent(reports, c, now)) \in Nat
                         /\ Cardinality(Recent(reports', c, now')) <= Cardinality(Recent(reports, c, now))
    BY <2>2, RecentFacts
  <2>6. \A c \in Client : Cardinality(Recent(reports', c, now')) <= ReportsPerDay
    BY <2>8 DEF ReportInv
  <2>7. \A r \in Request : report'[r].op = "insert" => Cardinality(Recent(reports', report'[r].by, now')) < ReportsPerDay
    BY <2>1, <2>8, ReportFields DEF ReportInv
  <2> QED BY <2>1, <2>3, <2>4, <2>5, <2>6, <2>7 DEF ReportInv, Recent
<1>6. ASSUME NEW c \in Client, Quota!redisLimit(c) \/ Quota!allow(c) PROVE ReportInv'
  BY <1>0, <1>6 DEF Quota!redisLimit, Quota!allow, Quota!Try, Quota!quotaVars
<1>7. CASE UNCHANGED Quota!vars
  BY <1>0, <1>7 DEF Quota!vars, Quota!quotaVars
<1> QED
  BY <1>1, <1>2, <1>3, <1>4, <1>5, <1>6, <1>7
     DEF Quota!Next, Quota!ReportNext, Quota!LimitNext, Quota!AllowNext

----------------------------------------------------------------------------
(* The fixed windows.  A request let through is of its key's current window,
   which started Window before it expires, or of an earlier one. *)
OfWindow(x)    == x.at + Window >= counter[x.key].expires
SamePlace(x, y) == x.key = y.key /\ x.nth = y.nth

(* Within a window every request has a place of its own, below the count; two
   in the same place are in different windows, so that of three the first and
   the last are a window's length apart: the lemma WindowFollows counts two for
   each of the Limit places. *)
WindowInv ==
  /\ now \in 1 .. MaxClock
  /\ counter \in [Client -> [count : Nat, expires : Nat]]
  /\ IsFiniteSet(allowed) /\ allowed \subseteq [key : Client, at : 1 .. now, nth : 1 .. Limit]
  /\ \A c \in Client : counter[c] = Quota!Expired
                       \/ \E x \in allowed : x.key = c /\ counter[c].expires = x.at + Window
  /\ \A x \in allowed : x.at < counter[x.key].expires /\ (OfWindow(x) => x.nth <= counter[x.key].count)
  /\ \A x, y \in allowed : SamePlace(x, y) /\ OfWindow(x) /\ OfWindow(y) => x = y
  /\ \A x, y \in allowed : SamePlace(x, y) /\ x.at < y.at /\ ~OfWindow(y) =>
       x.at + 2 * Window <= counter[x.key].expires
  /\ \A x, y, z \in allowed : SamePlace(x, y) /\ SamePlace(y, z) /\ x.at < y.at /\ y.at < z.at =>
       x.at + Window <= z.at

LEMMA WindowInit == Quota!Init => WindowInv
BY PeopleAssumption, FS_EmptySet DEF Quota!Init, Quota!Expired, WindowInv

LEMMA RowFields ==
  ASSUME WindowInv, NEW x \in allowed
  PROVE  /\ x.key \in Client /\ x.at \in 1 .. now /\ x.nth \in 1 .. Limit
         /\ x = [key |-> x.key, at |-> x.at, nth |-> x.nth]
         /\ counter[x.key].count \in Nat /\ counter[x.key].expires \in Nat
         /\ counter[x.key].expires <= now + Window
         /\ x.at < counter[x.key].expires
<1>1. x \in [key : Client, at : 1 .. now, nth : 1 .. Limit]
  BY DEF WindowInv
<1>2. counter[x.key] \in [count : Nat, expires : Nat] /\ x.at < counter[x.key].expires
  BY <1>1 DEF WindowInv
<1>3. counter[x.key] # Quota!Expired
  BY <1>1, <1>2 DEF Quota!Expired
<1>4. PICK y \in allowed : y.key = x.key /\ counter[x.key].expires = y.at + Window
  BY <1>1, <1>3 DEF WindowInv
<1>5. y.at \in 1 .. now
  BY <1>4 DEF WindowInv
<1> QED BY <1>1, <1>2, <1>4, <1>5, PeopleAssumption DEF WindowInv

(* Of two requests in one place before a window, the first is at least a
   window's length older than its start. *)
LEMMA Apart ==
  ASSUME WindowInv, NEW x \in allowed, NEW y \in allowed, SamePlace(x, y), x.at < y.at
  PROVE  /\ ~OfWindow(x) /\ x.at + Window < counter[x.key].expires
         /\ ~OfWindow(y) => x.at + 2 * Window <= counter[x.key].expires
<1>1. x.at \in Nat /\ y.at \in Nat /\ counter[x.key].expires \in Nat /\ Window \in Nat /\ x.key = y.key
  BY RowFields, PeopleAssumption DEF SamePlace
<1>2. ~OfWindow(y) => x.at + 2 * Window <= counter[x.key].expires
  BY DEF WindowInv
<1>3. ~OfWindow(x)
  <2>1. CASE OfWindow(y)
    BY <1>1, <2>1 DEF WindowInv
  <2>2. CASE ~OfWindow(y)
    BY <1>1, <1>2, <2>2 DEF OfWindow
  <2> QED BY <2>1, <2>2
<1> QED BY <1>1, <1>2, <1>3 DEF OfWindow

LEMMA WindowStep == WindowInv /\ [Quota!Next]_(Quota!vars) => WindowInv'
<1> SUFFICES ASSUME WindowInv, [Quota!Next]_(Quota!vars) PROVE WindowInv'
  OBVIOUS
<1> USE PeopleAssumption
<1>0. ASSUME UNCHANGED <<now, counter, allowed>> PROVE WindowInv'
  BY <1>0 DEF WindowInv, OfWindow, SamePlace
<1>1. ASSUME Quota!Tick PROVE WindowInv'
  <2>1. now' = now + 1 /\ now' \in 1 .. MaxClock /\ UNCHANGED <<counter, allowed>>
    BY <1>1 DEF Quota!Tick, Quota!windowVars, WindowInv
  <2>2. allowed' \subseteq [key : Client, at : 1 .. now', nth : 1 .. Limit]
    <3>1. 1 .. now \subseteq 1 .. now'
      BY <2>1 DEF WindowInv
    <3> QED BY <2>1, <3>1 DEF WindowInv
  <2> QED BY <2>1, <2>2 DEF WindowInv, OfWindow, SamePlace
<1>2. ASSUME NEW c \in Client, Quota!redisLimit(c) PROVE WindowInv'
  <2> DEFINE new == Quota!distributedFixedWindowScript(c)
             fresh == counter[c].expires <= now
  <2>0. PICK z : z = [key |-> c, at |-> now, nth |-> new.count]
    OBVIOUS
  <2>1. /\ now' = now /\ counter' = [counter EXCEPT ![c] = new]
        /\ allowed' = IF new.count > Limit THEN allowed ELSE allowed \cup {z}
    <3>1. counter'[c] = new
      BY <1>2 DEF Quota!redisLimit, WindowInv
    <3>2. allowed' = IF new.count > Limit THEN allowed ELSE allowed \cup {[key |-> c, at |-> now, nth |-> new.count]}
      BY <1>2, <3>1 DEF Quota!redisLimit
    <3> QED BY <1>2, <2>0, <3>2 DEF Quota!redisLimit, Quota!Try
  <2>2. now \in Nat \ {0} /\ Limit \in Nat \ {0} /\ Window \in Nat \ {0} /\ now \in 1 .. MaxClock
    BY DEF WindowInv
  <2>3. counter[c].count \in Nat /\ counter[c].expires \in Nat
    BY DEF WindowInv
  <2>4. fresh => new = [count |-> 1, expires |-> now + Window]
    BY <2>2, <2>3 DEF Quota!distributedFixedWindowScript, Quota!Count, Quota!Expired
  <2>5. ~fresh => new = [count |-> counter[c].count + 1, expires |-> counter[c].expires]
    BY <2>2, <2>3 DEF Quota!distributedFixedWindowScript, Quota!Count, Quota!Expired
  <2>6. counter'[c] = new /\ \A k \in Client \ {c} : counter'[k] = counter[k]
    BY <2>1 DEF WindowInv
  <2>7. new.count \in Nat \ {0} /\ new.expires \in Nat /\ new.expires > now /\ new.expires <= now + Window
    <3>1. CASE fresh
      BY <2>2, <2>4, <3>1
    <3>2. CASE ~fresh
      <4>1. counter[c] # Quota!Expired
        BY <2>2, <3>2 DEF Quota!Expired
      <4>2. PICK x \in allowed : x.key = c /\ counter[c].expires = x.at + Window
        BY <4>1 DEF WindowInv
      <4> QED BY <2>2, <2>3, <2>5, <3>2, <4>2, RowFields
    <3> QED BY <3>1, <3>2
  <2>8. counter' \in [Client -> [count : Nat, expires : Nat]]
    <3>1. new = [count |-> new.count, expires |-> new.expires]
      BY <2>4, <2>5
    <3>2. new \in [count : Nat, expires : Nat]
      BY <2>7, <3>1
    <3> HIDE DEF new
    <3> QED BY <2>1, <3>2 DEF WindowInv
  <2>9. /\ IsFiniteSet(allowed') /\ allowed \subseteq allowed'
        /\ \A x \in allowed' : x \in allowed \/ (x = z /\ new.count <= Limit)
    <3>1. IsFiniteSet(allowed)
      BY DEF WindowInv
    <3> HIDE DEF new
    <3> QED BY <2>1, <2>7, <3>1, FS_AddElement
  <2>10. z.key = c /\ z.at = now /\ z.nth = new.count
    BY <2>0
  <2>11. z.nth <= Limit => z \in [key : Client, at : 1 .. now, nth : 1 .. Limit]
    BY <2>0, <2>2, <2>7
  <2> HIDE DEF new
  (* The rows that were there, and what has become of their windows. *)
  <2>12. ASSUME NEW x \in allowed
         PROVE  /\ x.at \in Nat /\ x.at <= now /\ x.key \in Client /\ x.nth \in Nat
                /\ counter'[x.key].expires \in Nat
                /\ x.at < counter'[x.key].expires
                /\ OfWindow(x)' => OfWindow(x) /\ ~(x.key = c /\ fresh)
                /\ OfWindow(x)' => x.nth <= counter'[x.key].count
                /\ OfWindow(x)' /\ x.key = c => x.nth < new.count
                /\ ~OfWindow(x)' => ~OfWindow(x) \/ (x.key = c /\ fresh)
                /\ counter[x.key].expires <= counter'[x.key].expires
                /\ x.key = c /\ fresh => counter[x.key].expires <= now /\ counter'[x.key].expires = now + Window
    <3>1. /\ x.at \in 1 .. now /\ x.key \in Client /\ x.nth \in 1 .. Limit
          /\ counter[x.key].count \in Nat /\ counter[x.key].expires \in Nat /\ x.at < counter[x.key].expires
          /\ OfWindow(x) => x.nth <= counter[x.key].count
      BY RowFields DEF WindowInv
    <3>2. CASE x.key # c
      BY <2>2, <2>6, <3>1, <3>2 DEF OfWindow
    <3>3. CASE x.key = c /\ fresh
      BY <2>2, <2>4, <2>6, <3>1, <3>3 DEF OfWindow
    <3>4. CASE x.key = c /\ ~fresh
      BY <2>2, <2>5, <2>6, <3>1, <3>4 DEF OfWindow
    <3> QED BY <3>2, <3>3, <3>4
  <2>13. OfWindow(z)' /\ counter'[z.key] = new
    BY <2>2, <2>6, <2>7, <2>10 DEF OfWindow
  (* Of two rows of the key in the place of the new one, the first is out of
     its reach. *)
  <2>14. ASSUME NEW x \in allowed, NEW y \in allowed, SamePlace(x, y), x.at < y.at
         PROVE  /\ ~OfWindow(y)' => x.at + 2 * Window <= counter'[x.key].expires
                /\ y.key = c /\ ~OfWindow(y)' => x.at + Window <= now
    <3>1. /\ x.at + Window < counter[x.key].expires /\ x.key = y.key
          /\ ~OfWindow(y) => x.at + 2 * Window <= counter[x.key].expires
      BY <2>14, Apart DEF SamePlace
    <3>2. x.at \in Nat /\ counter[x.key].expires \in Nat /\ counter'[x.key].expires \in Nat
          /\ counter[x.key].expires <= counter'[x.key].expires /\ counter[x.key].expires <= now + Window
      BY <2>12, RowFields
    <3>3. CASE ~OfWindow(y)
      BY <2>2, <3>1, <3>2, <3>3
    <3>4. CASE OfWindow(y) /\ ~OfWindow(y)'
      <4>1. y.key = c /\ fresh /\ counter[x.key].expires <= now /\ counter'[x.key].expires = now + Window
        BY <2>12, <3>1, <3>4
      <4> QED BY <2>2, <3>1, <3>2, <4>1
    <3> QED BY <3>3, <3>4
  <2>15. allowed' \subseteq [key : Client, at : 1 .. now', nth : 1 .. Limit]
    BY <2>1, <2>9, <2>10, <2>11 DEF WindowInv
  <2>16. \A k \in Client : counter'[k] = Quota!Expired
                           \/ \E x \in allowed' : x.key = k /\ counter'[k].expires = x.at + Window
    <3> SUFFICES ASSUME NEW k \in Client, counter'[k] # Quota!Expired
                 PROVE  \E x \in allowed' : x.key = k /\ counter'[k].expires = x.at + Window
      OBVIOUS
    <3>1. CASE k = c /\ fresh
      <4>1. new.count = 1 /\ new.expires = now + Window
        BY <2>4, <3>1
      <4>2. z \in allowed'
        BY <2>1, <2>2, <4>1
      <4> QED BY <2>6, <2>10, <3>1, <4>1, <4>2
    <3>2. CASE ~(k = c /\ fresh)
      <4>1. counter[k] # Quota!Expired /\ counter'[k].expires = counter[k].expires
        BY <2>2, <2>3, <2>5, <2>6, <3>2 DEF Quota!Expired
      <4> QED BY <2>9, <4>1 DEF WindowInv
    <3> QED BY <3>1, <3>2
  <2>17. \A x \in allowed' : x.at < counter'[x.key].expires /\ (OfWindow(x)' => x.nth <= counter'[x.key].count)
    <3> SUFFICES ASSUME NEW x \in allowed'
                 PROVE  x.at < counter'[x.key].expires /\ (OfWindow(x)' => x.nth <= counter'[x.key].count)
      OBVIOUS
    <3>1. CASE x \in allowed
      BY <2>12, <3>1
    <3>2. CASE x = z
      BY <2>2, <2>7, <2>10, <2>13, <3>2
    <3> QED BY <2>9, <3>1, <3>2
  <2>18. ASSUME NEW x \in allowed', NEW y \in allowed', SamePlace(x, y), OfWindow(x)', OfWindow(y)'
         PROVE  x = y
    <3>1. CASE x \in allowed /\ y \in allowed
      BY <2>12, <2>18, <3>1 DEF WindowInv
    <3>2. CASE x = z /\ y \in allowed
      BY <2>2, <2>7, <2>10, <2>12, <2>18, <3>2 DEF SamePlace
    <3>3. CASE y = z /\ x \in allowed
      BY <2>2, <2>7, <2>10, <2>12, <2>18, <3>3 DEF SamePlace
    <3> QED BY <2>9, <3>1, <3>2, <3>3
  <2>19. ASSUME NEW x \in allowed', NEW y \in allowed', SamePlace(x, y), x.at < y.at, ~OfWindow(y)'
         PROVE  x.at + 2 * Window <= counter'[x.key].expires
    <3>1. y \in allowed
      BY <2>9, <2>13, <2>19
    <3>2. x \in allowed
      BY <2>2, <2>9, <2>10, <2>12, <2>19, <3>1
    <3> QED BY <2>14, <2>19, <3>1, <3>2
  <2>20. ASSUME NEW x \in allowed', NEW y \in allowed', NEW w \in allowed',
                SamePlace(x, y), SamePlace(y, w), x.at < y.at, y.at < w.at
         PROVE  x.at + Window <= w.at
    <3>1. \A k \in allowed' : k.at \in Nat /\ k.at <= now
      BY <2>2, <2>9, <2>10, <2>12
    <3>2. x # z /\ y # z
      BY <2>2, <2>10, <2>20, <3>1
    <3>3. x \in allowed /\ y \in allowed
      BY <2>9, <3>2
    <3>4. CASE w \in allowed
      BY <2>20, <3>3, <3>4 DEF WindowInv
    <3>5. CASE w = z
      <4>1. y.key = c /\ y.nth = new.count
        BY <2>10, <2>20, <3>5 DEF SamePlace
      <4>2. ~OfWindow(y)'
        BY <2>7, <2>12, <3>3, <4>1
      <4> QED BY <2>10, <2>14, <2>20, <3>3, <3>5, <4>1, <4>2
    <3> QED BY <2>9, <3>4, <3>5
  <2>21. now' \in 1 .. MaxClock
    BY <2>1, <2>2
  <2> QED
    BY <2>8, <2>9, <2>15, <2>16, <2>17, <2>18, <2>19, <2>20, <2>21 DEF WindowInv, SamePlace
<1>3. ASSUME NEW r \in Request,
             \/ Quota!LockRateLimitBucket(r)
             \/ Quota!withModerationReportQuota(r) \/ Quota!InsertModerationReport(r)
      PROVE  WindowInv'
  BY <1>0, <1>3 DEF Quota!LockRateLimitBucket, Quota!withModerationReportQuota,
     Quota!InsertModerationReport, Quota!windowVars
<1>4. ASSUME NEW r \in Request, NEW c \in Client, Quota!BeginReport(r, c) PROVE WindowInv'
  BY <1>0, <1>4 DEF Quota!BeginReport, Quota!Try, Quota!windowVars
<1>5. ASSUME NEW c \in Client, Quota!allow(c) PROVE WindowInv'
  BY <1>0, <1>5 DEF Quota!allow, Quota!Try, Quota!windowVars
<1>6. CASE UNCHANGED Quota!vars
  BY <1>0, <1>6 DEF Quota!vars, Quota!windowVars
<1> QED
  BY <1>1, <1>2, <1>3, <1>4, <1>5, <1>6 DEF Quota!Next, Quota!ReportNext, Quota!LimitNext, Quota!AllowNext

(* A key gets through at most twice per place in an interval as long as the
   window: of three the first would be too old. *)
LEMMA WindowFollows == WindowInv => Quota!WindowLimit /\ Quota!WindowReopens
<1> SUFFICES ASSUME WindowInv PROVE Quota!WindowLimit /\ Quota!WindowReopens
  OBVIOUS
<1>1. Quota!WindowReopens
  BY PeopleAssumption DEF WindowInv, Quota!WindowReopens, Quota!Expired
<1>2. ASSUME NEW c \in Client, NEW from \in 1 .. MaxClock PROVE Quota!Within(c, from) <= 2 * Limit
  <2> DEFINE S == {x \in allowed : x.key = c /\ x.at \in from .. from + Window - 1}
             T == (1 .. Limit) \X (1 .. 2)
             Later(x) == \E y \in S : y.nth = x.nth /\ y.at < x.at
             f == [x \in S |-> <<x.nth, IF Later(x) THEN 2 ELSE 1>>]
  <2>1. \A x \in S : x.key = c /\ x.at \in Nat /\ x.nth \in 1 .. Limit /\ x \in allowed
                     /\ x = [key |-> c, at |-> x.at, nth |-> x.nth]
    BY RowFields
  <2>2. ASSUME NEW x \in S, NEW y \in S, x.nth = y.nth, x.at < y.at PROVE Later(y) /\ ~Later(x)
    <3>1. Later(y)
      BY <2>2
    <3>2. ASSUME NEW w \in S, w.nth = x.nth, w.at < x.at PROVE FALSE
      <4>1. w.at + Window <= y.at
        BY <2>1, <2>2, <3>2 DEF WindowInv, SamePlace
      <4>2. w.at >= from /\ y.at <= from + Window - 1 /\ w.at \in Nat /\ y.at \in Nat
        OBVIOUS
      <4> QED BY <4>1, <4>2, PeopleAssumption
    <3> QED BY <3>1, <3>2
  <2>3. ASSUME NEW x \in S, NEW y \in S, x.nth = y.nth, Later(x) <=> Later(y) PROVE x = y
    <3>1. ~(x.at < y.at) /\ ~(y.at < x.at)
      BY <2>2, <2>3
    <3>2. x.at = y.at
      BY <2>1, <3>1
    <3> QED BY <2>1, <2>3, <3>2
  <2>4. f \in [S -> T]
    BY <2>1
  <2>5. \A x, y \in S : f[x] = f[y] => x = y
    <3> HIDE DEF Later
    <3> QED BY <2>3
  <2>6. f \in Injection(S, T)
    <3> HIDE DEF f, S, T
    <3> QED BY <2>4, <2>5 DEF Injection, IsInjective
  <2>7. IsFiniteSet(T) /\ Cardinality(T) = Limit * 2
    <3>1. /\ IsFiniteSet(1 .. Limit) /\ Cardinality(1 .. Limit) = Limit
          /\ IsFiniteSet(1 .. 2) /\ Cardinality(1 .. 2) = 2
      <4>1. 1 \in Int /\ 2 \in Int /\ Limit \in Int /\ ~(1 > Limit) /\ Limit - 1 + 1 = Limit /\ 2 - 1 + 1 = 2 /\ ~(1 > 2)
        BY PeopleAssumption
      <4>2. IsFiniteSet(1 .. Limit) /\ Cardinality(1 .. Limit) = Limit
        BY <4>1, FS_Interval
      <4>3. IsFiniteSet(1 .. 2) /\ Cardinality(1 .. 2) = 2
        BY <4>1, FS_Interval
      <4> QED BY <4>2, <4>3
    <3>2. IsFiniteSet(T) /\ Cardinality(T) = Cardinality(1 .. Limit) * Cardinality(1 .. 2)
      BY <3>1, FS_Product
    <3> QED BY <3>1, <3>2
  <2>8. Cardinality(S) <= Limit * 2
    <3> HIDE DEF f, S, T
    <3> QED BY <2>6, <2>7, FS_Injection
  <2>9. Quota!Within(c, from) = Cardinality(S)
    BY QuotaCardinality DEF Quota!Within
  <2> QED BY <2>8, <2>9, PeopleAssumption
<1> QED BY <1>1, <1>2 DEF Quota!WindowLimit

----------------------------------------------------------------------------
(* The token buckets. *)
Bucket == [tokens : 0 .. Quota!Burst, at : Nat, lastSeen : Nat]
Owed(b, t) == b.tokens + (t - b.at) * PerMinute

(* A client in the map has the bucket it would have had without eviction; one
   that is not would have a full one by now. *)
BucketInv ==
  /\ now \in 1 .. MaxClock
  /\ clients \in [Client -> Bucket] /\ ideal \in [Client -> Bucket]
  /\ \A c \in Client : ideal[c].at \in 1 .. now
  /\ \A c \in Client : clients[c] = Quota!Unknown
                       \/ (clients[c] = ideal[c] /\ clients[c].lastSeen = clients[c].at)
  /\ \A c \in Client : clients[c] = Quota!Unknown => Owed(ideal[c], now) >= Quota!Burst

(* What a bucket is owed grows with time; twice the rate fills it. *)
LEMMA Owing ==
  ASSUME NEW b \in Bucket, NEW s \in Nat, NEW t \in Nat, b.at <= s, s <= t
  PROVE  /\ Quota!Burst \in Nat /\ Owed(b, s) \in Nat /\ Owed(b, t) \in Nat /\ Owed(b, s) <= Owed(b, t)
         /\ t >= b.at + 2 => Owed(b, t) >= Quota!Burst
<1>1. PerMinute \in Nat /\ Quota!Burst = 2 * PerMinute /\ Quota!Burst \in Nat
  BY PeopleAssumption DEF Quota!Burst
<1>2. b.tokens \in Nat /\ b.at \in Nat
  BY <1>1 DEF Bucket
<1>3. ASSUME NEW i \in Nat, NEW j \in Nat, i <= j
      PROVE  i * PerMinute \in Nat /\ j * PerMinute \in Nat /\ i * PerMinute <= j * PerMinute
  <2>1. PICK d \in Nat : j = i + d
    <3>1. j - i \in Nat /\ j = i + (j - i)
      BY <1>3
    <3> QED BY <3>1
  <2>2. j * PerMinute = i * PerMinute + d * PerMinute
    BY <1>1, <2>1
  <2>3. i * PerMinute \in Nat /\ d * PerMinute \in Nat
    BY <1>1
  <2> QED BY <2>2, <2>3
<1>4. s - b.at \in Nat /\ t - b.at \in Nat /\ s - b.at <= t - b.at
  BY <1>2
<1>5. (s - b.at) * PerMinute \in Nat /\ (t - b.at) * PerMinute \in Nat
      /\ (s - b.at) * PerMinute <= (t - b.at) * PerMinute
  BY <1>3, <1>4
<1>6. t >= b.at + 2 => (t - b.at) * PerMinute >= 2 * PerMinute
  <2> SUFFICES ASSUME t >= b.at + 2 PROVE (t - b.at) * PerMinute >= 2 * PerMinute
    OBVIOUS
  <2>1. 2 <= t - b.at
    BY <1>2
  <2>2. 2 * PerMinute <= (t - b.at) * PerMinute
    BY <1>3, <1>4, <2>1
  <2> QED BY <1>1, <1>5, <2>2
<1> QED
  <2> DEFINE p == (s - b.at) * PerMinute
             q == (t - b.at) * PerMinute
  <2>1. Owed(b, s) = b.tokens + p /\ Owed(b, t) = b.tokens + q /\ p \in Nat /\ q \in Nat /\ p <= q
        /\ (t >= b.at + 2 => q >= Quota!Burst)
    BY <1>1, <1>5, <1>6 DEF Owed
  <2> HIDE DEF p, q
  <2> QED BY <1>1, <1>2, <2>1

LEMMA Refilled ==
  ASSUME NEW b \in Bucket, NEW t \in Nat, b.at <= t
  PROVE  Quota!Refill(b, t) = [tokens |-> IF Owed(b, t) >= Quota!Burst THEN Quota!Burst ELSE Owed(b, t),
                               at |-> t, lastSeen |-> b.lastSeen]
<1>1. Quota!Burst \in Nat /\ Owed(b, t) \in Nat /\ b.at \in Nat
  BY Owing DEF Bucket
<1>2. \A i, j \in Nat : Quota!Min({i, j}) = IF j >= i THEN i ELSE j
  <2> SUFFICES ASSUME NEW i \in Nat, NEW j \in Nat PROVE Quota!Min({i, j}) = IF j >= i THEN i ELSE j
    OBVIOUS
  <2>1. Quota!Min({i, j}) = CHOOSE x \in {i, j} : \A y \in {i, j} : x <= y
    BY DEF Quota!Min
  <2> QED BY <2>1
<1>3. b = [tokens |-> b.tokens, at |-> b.at, lastSeen |-> b.lastSeen]
  BY DEF Bucket
<1>4. Quota!Min({Quota!Burst, Owed(b, t)}) = IF Owed(b, t) >= Quota!Burst THEN Quota!Burst ELSE Owed(b, t)
  BY <1>1, <1>2
<1>5. Quota!Refill(b, t) = [b EXCEPT !.tokens = Quota!Min({Quota!Burst, Owed(b, t)}), !.at = t]
  BY DEF Quota!Refill, Owed
<1> QED BY <1>3, <1>4, <1>5

LEMMA Taken ==
  ASSUME NEW b \in Bucket, NEW t \in Nat \ {0}, b.at <= t
  PROVE  LET n == IF Owed(b, t) >= Quota!Burst THEN Quota!Burst ELSE Owed(b, t)
         IN /\ Quota!TakeToken(b, t) = [tokens |-> IF n >= 1 THEN n - 1 ELSE n, at |-> t, lastSeen |-> t]
            /\ n \in 0 .. Quota!Burst /\ Quota!TakeToken(b, t) \in Bucket
            /\ Quota!TakeToken(b, t).at = t /\ Quota!TakeToken(b, t).lastSeen = t
<1> DEFINE n == IF Owed(b, t) >= Quota!Burst THEN Quota!Burst ELSE Owed(b, t)
<1>1. Quota!Burst \in Nat /\ Owed(b, t) \in Nat /\ n \in 0 .. Quota!Burst
  BY Owing DEF Bucket
<1>2. Quota!Refill(b, t) = [tokens |-> n, at |-> t, lastSeen |-> b.lastSeen]
  BY Refilled
<1> HIDE DEF n
<1>3. Quota!TakeToken(b, t) = [tokens |-> IF n >= 1 THEN n - 1 ELSE n, at |-> t, lastSeen |-> t]
  BY <1>2 DEF Quota!TakeToken
<1>4. Quota!TakeToken(b, t) \in Bucket
  BY <1>1, <1>3 DEF Bucket
<1> QED BY <1>1, <1>3, <1>4 DEF n

LEMMA BucketInit == Quota!Init => BucketInv
<1> SUFFICES ASSUME Quota!Init PROVE BucketInv
  OBVIOUS
<1>1. PerMinute \in Nat /\ Quota!Burst \in Nat
  BY PeopleAssumption DEF Quota!Burst
<1>2. Quota!Full(1) \in Bucket /\ Quota!Unknown \in Bucket /\ Quota!Full(1).at = 1
  BY <1>1 DEF Bucket, Quota!Full, Quota!Unknown
<1>3. now = 1 /\ clients = [c \in Client |-> Quota!Unknown] /\ ideal = [c \in Client |-> Quota!Full(1)]
  BY DEF Quota!Init
<1>4. Owed(Quota!Full(1), 1) >= Quota!Burst
  BY <1>1 DEF Owed, Quota!Full
<1> QED BY <1>2, <1>3, <1>4, PeopleAssumption DEF BucketInv

LEMMA BucketStep == BucketInv /\ [Quota!Next]_(Quota!vars) => BucketInv'
<1> SUFFICES ASSUME BucketInv, [Quota!Next]_(Quota!vars) PROVE BucketInv'
  OBVIOUS
<1>0. ASSUME UNCHANGED <<now, clients, ideal>> PROVE BucketInv'
  BY <1>0 DEF BucketInv
<1>1. ASSUME Quota!Tick PROVE BucketInv'
  <2>1. now' = now + 1 /\ now' \in 1 .. MaxClock /\ now \in Nat /\ now' \in Nat /\ UNCHANGED <<clients, ideal>>
    BY <1>1, PeopleAssumption DEF Quota!Tick, Quota!bucketVars, BucketInv
  <2>2. \A c \in Client : ideal[c] \in Bucket /\ ideal[c].at \in 1 .. now
    BY DEF BucketInv
  <2>3. \A c \in Client : /\ Owed(ideal[c], now) <= Owed(ideal[c], now') /\ Quota!Burst \in Nat
                          /\ Owed(ideal[c], now) \in Nat /\ Owed(ideal[c], now') \in Nat
    BY <2>1, <2>2, Owing
  <2>4. \A c \in Client : clients'[c] = Quota!Unknown => Owed(ideal'[c], now') >= Quota!Burst
    BY <2>1, <2>3 DEF BucketInv
  <2> QED BY <2>1, <2>2, <2>4 DEF BucketInv
<1>2. ASSUME NEW c \in Client, Quota!allow(c) PROVE BucketInv'
  <2> DEFINE known == {k \in Client : clients[k] # Quota!Unknown}
             mine  == IF c \in known THEN clients[c] ELSE Quota!Full(now)
  <2>1. PICK after \in {clients, Quota!Swept} :
          /\ clients' = [after EXCEPT ![c] = Quota!TakeToken(mine, now)]
          /\ ideal' = [ideal EXCEPT ![c] = Quota!TakeToken(ideal[c], now)] /\ now' = now
    BY <1>2 DEF Quota!allow, Quota!Try
  <2>2. now \in Nat \ {0} /\ now \in 1 .. MaxClock /\ Quota!Burst \in Nat /\ EvictAfter \in Nat /\ EvictAfter >= 2
    BY PeopleAssumption DEF BucketInv, Quota!Burst
  <2>3. \A k \in Client : /\ ideal[k] \in Bucket /\ ideal[k].at \in 1 .. now /\ clients[k] \in Bucket
    BY DEF BucketInv
  <2>4. Quota!Unknown \in Bucket /\ Quota!Unknown.at = 0 /\ Quota!Unknown.lastSeen = 0
    BY <2>2 DEF Quota!Unknown, Bucket
  <2>5. Quota!Full(now) \in Bucket /\ Quota!Full(now).at = now /\ Owed(Quota!Full(now), now) >= Quota!Burst
    BY <2>2, PeopleAssumption DEF Quota!Full, Bucket, Owed
  <2>6. ASSUME NEW k \in Client
        PROVE  /\ after[k] = Quota!Unknown \/ after[k] = clients[k]
               /\ after[k] = Quota!Unknown => Owed(ideal[k], now) >= Quota!Burst
    <3>1. CASE after[k] = clients[k]
      BY <3>1 DEF BucketInv
    <3>2. CASE after[k] # clients[k]
      <4>1. after = Quota!Swept
        BY <3>2
      <4>2. after[k] = Quota!Unknown /\ now - clients[k].lastSeen > EvictAfter
        BY <3>2, <4>1 DEF Quota!Swept
      <4>3. clients[k] # Quota!Unknown
        BY <3>2, <4>2
      <4>4. clients[k] = ideal[k] /\ clients[k].lastSeen = ideal[k].at
        BY <4>3 DEF BucketInv
      <4>5. now >= ideal[k].at + 2
        BY <2>2, <2>3, <4>2, <4>4
      <4>6. Owed(ideal[k], now) >= Quota!Burst
        BY <2>2, <2>3, <4>5, Owing
      <4> QED BY <4>2, <4>6
    <3> QED BY <3>1, <3>2
  <2>7. Quota!TakeToken(mine, now) = Quota!TakeToken(ideal[c], now)
    <3>1. CASE c \in known
      BY <3>1 DEF BucketInv
    <3>2. CASE c \notin known
      <4>1. Owed(ideal[c], now) >= Quota!Burst
        BY <3>2 DEF BucketInv
      <4>2. mine = Quota!Full(now)
        BY <3>2
      <4> QED BY <2>2, <2>3, <2>5, <4>1, <4>2, Taken
    <3> QED BY <3>1, <3>2
  <2>8. PICK b \in Bucket : b = Quota!TakeToken(ideal[c], now) /\ b.at = now /\ b.lastSeen = now
    BY <2>2, <2>3, Taken
  <2>9. after \in [Client -> Bucket]
    <3>1. DOMAIN after = Client /\ after = [k \in Client |-> after[k]]
      BY DEF BucketInv, Quota!Swept
    <3> QED BY <2>3, <2>4, <2>6, <3>1
  <2>10. clients' = [after EXCEPT ![c] = b] /\ ideal' = [ideal EXCEPT ![c] = b]
    BY <2>1, <2>7, <2>8
  <2>11. clients' \in [Client -> Bucket] /\ ideal' \in [Client -> Bucket]
    BY <2>9, <2>10 DEF BucketInv
  <2>12. /\ clients'[c] = b /\ ideal'[c] = b
         /\ \A k \in Client \ {c} : clients'[k] = after[k] /\ ideal'[k] = ideal[k]
    BY <2>9, <2>10 DEF BucketInv
  <2>13. b # Quota!Unknown
    BY <2>2, <2>4, <2>8
  <2>14. \A k \in Client : ideal'[k].at \in 1 .. now
    BY <2>2, <2>3, <2>8, <2>12
  <2>15. \A k \in Client : clients'[k] = Quota!Unknown
                       \/ (clients'[k] = ideal'[k] /\ clients'[k].lastSeen = clients'[k].at)
    BY <2>6, <2>8, <2>12 DEF BucketInv
  <2>16. \A k \in Client : clients'[k] = Quota!Unknown => Owed(ideal'[k], now) >= Quota!Burst
    BY <2>6, <2>12, <2>13
  <2> QED BY <2>1, <2>2, <2>11, <2>14, <2>15, <2>16 DEF BucketInv
<1>3. ASSUME NEW r \in Request,
             \/ Quota!LockRateLimitBucket(r)
             \/ Quota!withModerationReportQuota(r) \/ Quota!InsertModerationReport(r)
      PROVE  BucketInv'
  BY <1>0, <1>3 DEF Quota!LockRateLimitBucket, Quota!withModerationReportQuota,
     Quota!InsertModerationReport, Quota!bucketVars
<1>4. ASSUME NEW r \in Request, NEW c \in Client, Quota!BeginReport(r, c) PROVE BucketInv'
  BY <1>0, <1>4 DEF Quota!BeginReport, Quota!Try, Quota!bucketVars
<1>5. ASSUME NEW c \in Client, Quota!redisLimit(c) PROVE BucketInv'
  BY <1>0, <1>5 DEF Quota!redisLimit, Quota!Try, Quota!bucketVars
<1>6. CASE UNCHANGED Quota!vars
  BY <1>0, <1>6 DEF Quota!vars, Quota!bucketVars
<1> QED
  BY <1>1, <1>2, <1>3, <1>4, <1>5, <1>6 DEF Quota!Next, Quota!ReportNext, Quota!LimitNext, Quota!AllowNext

LEMMA EvictionFollows == BucketInv => Quota!EvictionExact
<1> SUFFICES ASSUME BucketInv, NEW c \in Client
             PROVE  LET b == IF clients[c] = Quota!Unknown THEN Quota!Full(now) ELSE Quota!Refill(clients[c], now)
                    IN b.tokens = Quota!Refill(ideal[c], now).tokens
  BY DEF Quota!EvictionExact
<1>1. ideal[c] \in Bucket /\ ideal[c].at \in 1 .. now /\ now \in Nat
  BY PeopleAssumption DEF BucketInv
<1>2. CASE clients[c] = Quota!Unknown
  <2>1. Owed(ideal[c], now) >= Quota!Burst
    BY <1>2 DEF BucketInv
  <2>2. Quota!Refill(ideal[c], now).tokens = Quota!Burst
    BY <1>1, <2>1, Refilled
  <2> QED BY <1>2, <2>2 DEF Quota!Full
<1>3. CASE clients[c] # Quota!Unknown
  BY <1>3 DEF BucketInv
<1> QED BY <1>2, <1>3

----------------------------------------------------------------------------
LEMMA ListInvariant == PeopleSpec => [](part = "list" => ListInv)
<1>1. PeopleInit => (part = "list" => ListInv)
  BY ListInit DEF PeopleInit
<1>2. (part = "list" => ListInv) /\ [PeopleNext]_peopleVars => (part = "list" => ListInv)'
  BY PartSteps, ListStepInv
<1> QED
  BY <1>1, <1>2, PTL DEF PeopleSpec

LEMMA ReadsInvariant == PeopleSpec => [](part = "reads" => ReadsInv)
<1>1. PeopleInit => (part = "reads" => ReadsInv)
  BY ReadsInit DEF PeopleInit
<1>2. (part = "reads" => ReadsInv) /\ [PeopleNext]_peopleVars => (part = "reads" => ReadsInv)'
  BY PartSteps, ReadsStep
<1> QED
  BY <1>1, <1>2, PTL DEF PeopleSpec

QuotaInv == ReportInv /\ WindowInv /\ BucketInv

LEMMA QuotaInvariant == PeopleSpec => [](part \notin {"group", "list", "reads"} => QuotaInv)
<1>1. PeopleInit => (part \notin {"group", "list", "reads"} => QuotaInv)
  BY ReportInit, WindowInit, BucketInit DEF PeopleInit, QuotaInv
<1>2. (part \notin {"group", "list", "reads"} => QuotaInv) /\ [PeopleNext]_peopleVars
        => (part \notin {"group", "list", "reads"} => QuotaInv)'
  BY PartSteps, ReportStep, WindowStep, BucketStep DEF QuotaInv
<1> QED
  BY <1>1, <1>2, PTL DEF PeopleSpec

LEMMA QuotaType == QuotaInv => Quota!TypeOK
<1> SUFFICES ASSUME QuotaInv PROVE Quota!TypeOK
  OBVIOUS
<1>1. lock \subseteq {r \in Request : report[r].op \in {"count", "insert"}}
  BY DEF QuotaInv, ReportInv
<1>2. \A c \in Client : clients[c].tokens \in 0 .. Quota!Burst /\ clients[c].at <= now
  <2> SUFFICES ASSUME NEW c \in Client
               PROVE  clients[c].tokens \in 0 .. Quota!Burst /\ clients[c].at <= now
    OBVIOUS
  <2>1. clients[c] \in Bucket /\ (clients[c] = Quota!Unknown \/ clients[c].at \in 1 .. now) /\ now \in 1 .. MaxClock
    BY DEF QuotaInv, BucketInv
  <2> QED BY <2>1, PeopleAssumption DEF Bucket, Quota!Unknown
<1>3. \A x \in reports : x.by \in Client /\ x.created \in 1 .. MaxClock
  <2> SUFFICES ASSUME NEW x \in reports PROVE x.by \in Client /\ x.created \in 1 .. MaxClock
    OBVIOUS
  <2>1. x.by \in Client /\ x.created \in 1 .. now /\ now \in 1 .. MaxClock
    BY DEF QuotaInv, ReportInv
  <2> QED BY <2>1, PeopleAssumption
<1> QED BY <1>1, <1>2, <1>3 DEF Quota!TypeOK

LEMMA ListType == ListInv => List!TypeOK
<1> SUFFICES ASSUME ListInv PROVE List!TypeOK
  OBVIOUS
<1> DEFINE f == [e \in entries |-> e.ep]
<1>1. IsFiniteSet(entries) /\ \A x, y \in entries : f[x] = f[y] => x = y
  BY DEF ListInv, ListRows, Distinct
<1>2. {e.ep : e \in entries} = {f[e] : e \in entries} /\ DOMAIN f = entries
  OBVIOUS
<1>3. Cardinality({f[e] : e \in entries}) = Cardinality(entries)
  <2> HIDE DEF f
  <2> QED BY <1>1, <1>2, ImageSize
<1>4. List!Cardinality({e.ep : e \in entries}) = List!Cardinality(entries)
  <2> HIDE DEF f
  <2> QED BY <1>2, <1>3, ListCardinality
<1> QED BY <1>4, SameNoOne DEF ListInv, ListRows, List!TypeOK

(* Group, list, graph and limiters have their types; tenure orders the members
   and an episode is listed once. *)
THEOREM PeopleTypeCorrect == PeopleSpec => []TypesOK
<1> DEFINE Parts == /\ part = "group" => GroupInv
                    /\ part = "list" => ListInv
                    /\ part = "reads" => ReadsInv
                    /\ part \notin {"group", "list", "reads"} => QuotaInv
<1>1. Parts => TypesOK
  <2> SUFFICES ASSUME Parts PROVE TypesOK
    OBVIOUS
  <2>1. CASE part = "group"
    BY <2>1 DEF GroupInv, TypesOK
  <2>2. CASE part = "list"
    BY <2>2, ListType DEF TypesOK
  <2>3. CASE part = "reads"
    BY <2>3 DEF ReadsInv, TypesOK
  <2>4. CASE part \notin {"group", "list", "reads"}
    BY <2>4, QuotaType DEF TypesOK
  <2> QED BY <2>1, <2>2, <2>3, <2>4
<1> QED
  BY <1>1, GroupInvariant, ListInvariant, ReadsInvariant, QuotaInvariant, PTL

(* The limits hold, for any number of clients and any rates: a list its caps, up
   to one for each other request that may overlap and each count that could not
   be read; the quota of reports, however many count at once; twice the limit of
   a key in any interval of the window's length, whose end reopens it; and the
   buckets, which eviction never makes fuller. *)
THEOREM LimitsAlwaysHold == PeopleSpec => []LimitsHold
<1>1. ReportInv => Quota!ReportQuota
  BY CountIs DEF ReportInv, Quota!ReportQuota
<1>2. (part = "list" => ListInv) /\ (part \notin {"group", "list", "reads"} => QuotaInv) => LimitsHold
  BY <1>1, CapsFollow, WindowFollows, EvictionFollows DEF LimitsHold, QuotaInv
<1> QED
  BY <1>2, ListInvariant, QuotaInvariant, PTL

(* Whoever was erased owns no list, is a member of none and is named by no
   entry, unless a write of theirs was under way, be it the list's creation. *)
THEOREM ErasureReachesLists == PeopleSpec => []ErasedLeavesNothing
<1>1. (part = "list" => ListInv) => ErasedLeavesNothing
  BY SameNoOne DEF ListInv, Gone, ErasedLeavesNothing, List!ErasedLeavesNothing
<1> QED
  BY <1>1, ListInvariant, PTL

(* Privacy as far as the code keeps it.  The reads that ask for blocks name
   nobody across one, those that rely on deleted follows do so only by a follow
   whose deletion is under way, failed or was overtaken; no shared list opens
   across a block, and its overview crosses one only to those who were on the
   list when the block was made.  No read names anyone erased, and what reaches
   others does so as far as its tier says. *)
THEOREM PrivacyRespected == PeopleSpec => []ReadsRespectPrivacy
<1>1. (part = "reads" => ReadsInv) /\ (part = "list" => ListInv) => ReadsRespectPrivacy
  BY InvisibleFollows, TiersFollow, TotalsFollow, HiddenFollows DEF ReadsRespectPrivacy
<1> QED
  BY <1>1, ReadsInvariant, ListInvariant, PTL
===============================================================================
