------------------------------ MODULE Sessions ------------------------------
(***************************************************************************)
(* The refresh tokens of one account (account.go): login, rotation, reuse  *)
(* detection, revocation, password change and reset, account deletion.     *)
(*                                                                         *)
(* Transactions run at READ COMMITTED.  GetRefreshTokenByHash locks the    *)
(* token's row until the transaction ends; an UPDATE of many rows sees the *)
(* rows committed when the statement starts, waits for those that are      *)
(* locked and does not see rows inserted meanwhile.  A request with an     *)
(* unknown or expired token, or a wrong password, changes nothing and is   *)
(* left out.  Tokens are numbered in the order they are inserted; a family *)
(* is named after its first token.  A rotated token is bound to the device *)
(* of its family; a request comes from that device or from another one.    *)
(***************************************************************************)
EXTENDS Naturals, FiniteSets

CONSTANTS
  Request,          \* requests that may be under way at the same time
  MaxTokens,        \* bound: refresh tokens issued
  MaxPasswords,     \* bound: passwords the account has had
  MaxFaults         \* bound: statements that fail

Token == 1 .. MaxTokens

VARIABLES
  used,             \* tokens issued so far
  family, parent,   \* columns of refresh_tokens
  live,             \* the tokens with revoked_at NULL
  password,         \* the number of the account's current password
  deleted,          \* users.deleted_at is set
  code,             \* password_reset_codes: "none", "issued" or "consumed"
  req,              \* the requests under way
  faults,
  born,             \* history: the password a family was opened with
  closed,           \* history: families revoked by presenting one of their tokens
  escaped,          \* history: families a revocation could not see
  underway, since   \* history: requests under way at deletion, tokens issued since

tokens  == <<used, family, parent, live>>
account == <<password, deleted, code>>
history == <<born, closed, escaped, underway, since>>
vars    == <<tokens, account, req, faults, history>>

(* The requests.  Passwords are numbered in the order the account has them. *)
RegisterRequest           == {1}                  \* the first password
UserLoginRequest          == 1 .. MaxPasswords
UserTokenRequest          == [token : Token, device : {"bound", "other"}]
UserRevokeRequest         == Token
UserChangePasswordRequest == 1 .. MaxPasswords    \* the old one
UserResetPasswordRequest  == {"issued"}           \* the code

Issued == 1 .. used
Idle == [op |-> "idle"]
ReqType ==
  {Idle}
  \cup [op : {"login"}, password : UserLoginRequest]
  \cup [op : {"rotate"}, token : Token]
  \cup [op : {"family"}, token : Token, snap : SUBSET Token]
  \cup [op : {"change", "changed"}]
  \cup [op : {"all"}, why : {"change", "reset", "delete"}, snap : SUBSET Token]

Start(r, next) == req[r] = Idle /\ req' = [req EXCEPT ![r] = next]
Go(r, next)    == req' = [req EXCEPT ![r] = next]

(* The rows a request has locked, and whether another one holds the account's. *)
Holds(r) == IF req[r].op \in {"rotate", "family"} THEN {req[r].token} ELSE {}
LockedByOther(r, S) == \E s \in Request \ {r} : Holds(s) \cap S # {}
AccountLocked == \E r \in Request : req[r].op = "all" /\ req[r].why # "change"

(* PostUserRegister: the account and its first token in one transaction. *)
Init ==
  /\ used = 1 /\ family = [t \in Token |-> IF t = 1 THEN 1 ELSE 0]
  /\ parent = [t \in Token |-> 0]
  /\ live = {1} /\ password \in RegisterRequest /\ deleted = FALSE /\ code = "none"
  /\ req = [r \in Request |-> Idle] /\ faults = 0
  /\ born = [t \in Token |-> 1] /\ closed = {} /\ escaped = {}
  /\ underway = 0 /\ since = 0

(* issueRefreshToken *)
Issue(f, from) ==
  /\ used < MaxTokens /\ used' = used + 1
  /\ family' = [family EXCEPT ![used'] = f]
  /\ parent' = [parent EXCEPT ![used'] = from]
  /\ since' = IF deleted THEN since + 1 ELSE since

----------------------------------------------------------------------------
(* PostUserLogin: the password is checked and then the token inserted. *)
BeginLogin(r, presented) ==
  /\ ~deleted /\ presented = password
  /\ Start(r, [op |-> "login", password |-> presented])
  /\ UNCHANGED <<tokens, account, faults, history>>

Login(r) ==
  /\ req[r].op = "login"
  /\ Issue(used + 1, 0)
  /\ live' = live \cup {used'}
  /\ born' = [born EXCEPT ![used'] = req[r].password]
  /\ escaped' = IF req[r].password < password THEN escaped \cup {used'} ELSE escaped
  /\ Go(r, Idle)
  /\ UNCHANGED <<account, faults, closed, underway>>

(* PostUserToken: the token's row is locked; a revoked token or another
   device revokes the family, otherwise the token is rotated. *)
Family(t) == {s \in Issued : family[s] = family[t]}

Exchange(r, t, d) ==
  /\ t \in Issued /\ ~LockedByOther(r, {t})
  /\ IF t \notin live \/ d # "bound"
     THEN Start(r, [op |-> "family", token |-> t, snap |-> Family(t)])
     ELSE ~deleted /\ Start(r, [op |-> "rotate", token |-> t])
  /\ UNCHANGED <<tokens, account, faults, history>>

(* rotateRefreshToken, seen when its transaction commits. *)
Rotate(r) ==
  /\ req[r].op = "rotate"
  /\ LET t == req[r].token
     IN /\ Issue(family[t], t)
        /\ live' = (live \ {t}) \cup {used'}
  /\ Go(r, Idle)
  /\ UNCHANGED <<account, faults, born, closed, escaped, underway>>

(* PostUserTokenRevoke *)
BeginRevoke(r, t) ==
  /\ t \in Issued /\ ~LockedByOther(r, {t})
  /\ Start(r, [op |-> "family", token |-> t, snap |-> Family(t)])
  /\ UNCHANGED <<tokens, account, faults, history>>

(* RevokeRefreshTokenFamily ends and its transaction commits. *)
RevokePresented(r) ==         \* mutant: only the presented token is revoked
  /\ req[r].op = "family" /\ ~LockedByOther(r, req[r].snap)
  /\ closed' = closed \cup {family[req[r].token]}
  /\ live' = live \ {req[r].token}
  /\ Go(r, Idle)
  /\ UNCHANGED <<used, family, parent, account, faults, born, escaped, underway, since>>
RevokeFamily(r) ==
  /\ req[r].op = "family" /\ ~LockedByOther(r, req[r].snap)
  /\ LET f == family[req[r].token]
     IN /\ closed' = closed \cup {f}
        /\ escaped' = IF \E t \in live \ req[r].snap : family[t] = f
                      THEN escaped \cup {f} ELSE escaped
  /\ live' = live \ req[r].snap
  /\ Go(r, Idle)
  /\ UNCHANGED <<used, family, parent, account, faults, born, underway, since>>

----------------------------------------------------------------------------
(* PostChangePassword: check, update and revocation are separate. *)
BeginChange(r, old) ==
  /\ ~deleted /\ old = password /\ Start(r, [op |-> "change"])
  /\ UNCHANGED <<tokens, account, faults, history>>

SetPassword(r) ==
  /\ req[r].op = "change" /\ ~AccountLocked /\ password < MaxPasswords
  /\ password' = IF deleted THEN password ELSE password + 1
  /\ Go(r, [op |-> "changed"])
  /\ UNCHANGED <<tokens, deleted, code, faults, history>>

BeginRevokeAll(r) ==
  /\ req[r].op = "changed"
  /\ Go(r, [op |-> "all", why |-> "change", snap |-> live])
  /\ UNCHANGED <<tokens, account, faults, history>>

(* The revocation fails after the password was changed. *)
ChangeFails(r) ==
  /\ req[r].op = "changed" \/ (req[r].op = "all" /\ req[r].why = "change")
  /\ faults < MaxFaults
  /\ faults' = faults + 1
  /\ escaped' = escaped \cup {family[t] : t \in live}
  /\ Go(r, Idle)
  /\ UNCHANGED <<tokens, account, born, closed, underway, since>>

(* The operator issues a reset code; PostResetPassword consumes it. *)
IssueCode ==
  /\ code = "none" /\ ~deleted /\ code' = "issued"
  /\ UNCHANGED <<tokens, password, deleted, req, faults, history>>

BeginReset(r, presented) ==
  /\ code = presented /\ ~deleted /\ ~AccountLocked /\ password < MaxPasswords
  /\ Start(r, [op |-> "all", why |-> "reset", snap |-> live])
  /\ UNCHANGED <<tokens, account, faults, history>>

(* PostDeleteAccount, of which social erasure is modelled elsewhere. *)
BeginDelete(r) ==
  /\ ~deleted /\ ~AccountLocked
  /\ Start(r, [op |-> "all", why |-> "delete", snap |-> live])
  /\ UNCHANGED <<tokens, account, faults, history>>

(* RevokeAllRefreshTokens ends; in a reset or a deletion the transaction
   commits with it. *)
Underway == Cardinality({s \in Request : req[s].op \in {"login", "rotate"}})

RevokeNone(r) ==              \* mutant: the live tokens are not revoked
  /\ req[r].op = "all" /\ ~LockedByOther(r, req[r].snap)
  /\ escaped' = escaped \cup {family[t] : t \in live \ req[r].snap}
  /\ password' = IF req[r].why = "reset" THEN password + 1 ELSE password
  /\ code' = IF req[r].why = "reset" THEN "consumed" ELSE code
  /\ deleted' = (deleted \/ req[r].why = "delete")
  /\ underway' = IF req[r].why = "delete" THEN Underway ELSE underway
  /\ Go(r, Idle)
  /\ UNCHANGED <<tokens, faults, born, closed, since>>
RevokeAll(r) ==
  /\ req[r].op = "all" /\ ~LockedByOther(r, req[r].snap)
  /\ live' = live \ req[r].snap
  /\ escaped' = escaped \cup {family[t] : t \in live \ req[r].snap}
  /\ password' = IF req[r].why = "reset" THEN password + 1 ELSE password
  /\ code' = IF req[r].why = "reset" THEN "consumed" ELSE code
  /\ deleted' = (deleted \/ req[r].why = "delete")
  /\ underway' = IF req[r].why = "delete" THEN Underway ELSE underway
  /\ Go(r, Idle)
  /\ UNCHANGED <<used, family, parent, faults, born, closed, since>>

(* Any statement may fail: the request ends and its transaction rolls back. *)
Fails(r) ==
  /\ req[r].op \notin {"idle", "changed"} /\ ~(req[r].op = "all" /\ req[r].why = "change")
  /\ Go(r, Idle)
  /\ UNCHANGED <<tokens, account, faults, history>>

Step(r) ==
  \/ \E presented \in UserLoginRequest : BeginLogin(r, presented)
  \/ \E m \in UserTokenRequest : Exchange(r, m.token, m.device)
  \/ \E t \in UserRevokeRequest : BeginRevoke(r, t)
  \/ \E old \in UserChangePasswordRequest : BeginChange(r, old)
  \/ \E presented \in UserResetPasswordRequest : BeginReset(r, presented)
  \/ Login(r) \/ Rotate(r) \/ RevokeFamily(r)
  \/ SetPassword(r) \/ BeginRevokeAll(r) \/ ChangeFails(r)
  \/ BeginDelete(r) \/ RevokeAll(r) \/ Fails(r)

Next == IssueCode \/ \E r \in Request : Step(r)

Spec == Init /\ [][Next]_vars

----------------------------------------------------------------------------
(* The state has its type; a live token was issued. *)
TypeOK ==
  /\ used \in Token /\ live \subseteq Issued
  /\ family \in [Token -> 0 .. MaxTokens] /\ parent \in [Token -> 0 .. MaxTokens]
  /\ password \in 1 .. MaxPasswords /\ deleted \in BOOLEAN
  /\ code \in {"none", "issued", "consumed"}
  /\ req \in [Request -> ReqType] /\ faults \in 0 .. MaxFaults
  /\ born \in [Token -> 1 .. MaxPasswords]
  /\ closed \subseteq Token /\ escaped \subseteq Token
  /\ underway \in Nat /\ since \in Nat

(* "Concurrent attempts cannot both mint a valid replacement": a token is
   replaced at most once, and a family has one live token at most. *)
RotatedOnce ==
  /\ \A s, t \in Issued : parent[s] = parent[t] /\ parent[s] # 0 => s = t
  /\ \A s, t \in live : family[s] = family[t] => s = t

(* A family revoked because one of its tokens was reused, came from another
   device or was handed back stays revoked, unless a rotation of its current
   token was under way while the revocation ran. *)
FamilyStaysClosed ==
  \A t \in live : family[t] \in closed => family[t] \in escaped

(* Once no password change or reset is under way, a session opened with an
   earlier password is alive only if its login or a rotation overlapped the
   revocation, or the revocation failed. *)
OldSessionsEnd ==
  (\A r \in Request : req[r].op \notin {"changed", "all"}) =>
    \A t \in live : born[family[t]] < password => family[t] \in escaped

(* After deletion a token is issued only by a request that had passed its
   checks before: no session of a deleted account goes on. *)
DeletedRunsDry == deleted => since <= underway
=============================================================================
