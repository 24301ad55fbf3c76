---------------------------- MODULE PushDelivery ----------------------------
(***************************************************************************)
(* Push registrations (handlers/push.go) and the delivery of alerts        *)
(* (push/notifier.go, push/client.go) to the phones of some accounts.      *)
(*                                                                         *)
(* A phone may be used by several accounts and then has one token in a row *)
(* of each.  Apple's service replaces a phone's token now and then and     *)
(* answers for the old one that it is unregistered, for good; it answers   *)
(* the same for a token of the other environment.  A try may also fail in  *)
(* a way that says nothing about whether the alert was accepted; repeats   *)
(* of an alert carry its collapse id and show once.                        *)
(***************************************************************************)
EXTENDS Naturals, FiniteSets

CONSTANTS
  Account, Phone,
  Request,          \* registrations that may be under way at the same time
  Sender,           \* notifier runs that may be under way at the same time
  MaxTokens,        \* bound: tokens the service gives out
  MaxRegistrations, MaxSends, MaxAttempts

Token == 1 .. MaxTokens
Env   == {"production", "sandbox"}

VARIABLES
  tokens,           \* how many tokens were given out
  current, home,    \* the phones' tokens and environments at the service
  rows,             \* devices: push_token (0 for ''), push_on, push_environment
  notify,           \* user_podcasts.notify_enabled for the podcast
  social,           \* the accounts with a profile that allows social pushes
  deleted,          \* users.deleted_at
  req, send, registered, sends,
  last,             \* history: the token a phone last registered for an account
  late,             \* history: registrations stored after the account's deletion
  misrouted         \* history: tokens tried in the environment they are not of

service == <<tokens, current, home>>
account == <<notify, social, deleted>>
counts  == <<registered, sends>>
vars == <<service, rows, account, req, send, counts, last, late, misrouted>>

Row     == Account \X Phone
DeviceRow == [token : {0} \cup Token, on : BOOLEAN, env : Env]
NoPush  == [token |-> 0, on |-> FALSE, env |-> "production"]
PushTarget == [row : Row, token : Token, env : Env]
Idle    == [op |-> "idle"]
(* Refreshes with a token and pushes on, with or without the environment and
   the per-podcast string, and those without a token yet or with pushes off. *)
UpdateRequest ==
  [account : Account, phone : Phone, token : Token, on : {TRUE},
   env : {""} \cup Env, messages : {"", "1"}]
  \cup [account : Account, phone : Phone, token : {0}, on : BOOLEAN, env : {""}, messages : {"0"}]
Sending == [op : {"send", "clear"}, clears : BOOLEAN, targets : SUBSET PushTarget, left : SUBSET PushTarget,
            trying : SUBSET PushTarget, tries : Nat,
            shown : SUBSET PushTarget, failed : SUBSET PushTarget, dropped : SUBSET Token]

Init ==
  /\ tokens = Cardinality(Phone)
  /\ current \in [Phone -> Token] /\ \A p, q \in Phone : p # q => current[p] # current[q]
  /\ \A p \in Phone : current[p] <= tokens
  /\ home = [p \in Phone |-> "production"]
  /\ rows = [r \in Row |-> NoPush] /\ notify = {} /\ deleted = {}
  /\ social = Account
  /\ req = [r \in Request |-> Idle] /\ send = [s \in Sender |-> Idle]
  /\ registered = 0 /\ sends = 0 /\ last = [r \in Row |-> 0] /\ late = {} /\ misrouted = {}

----------------------------------------------------------------------------
(* persistPushState: the account is read, then the device row is written,
   then the flags.  A refresh without push fields is left out.  The phone
   sends its token unless it has none yet, and may leave its environment out. *)
persistPushState(r, m) ==
  /\ req[r] = Idle /\ registered < MaxRegistrations /\ registered' = registered + 1
  /\ m.account \notin deleted
  /\ m.token \in {0, current[m.phone]} /\ m.env \in {"", home[m.phone]}
  /\ req' = [req EXCEPT ![r] = [op |-> "upsert", m |-> m]]
  /\ UNCHANGED <<service, rows, account, send, sends, last, late, misrouted>>

UpsertDevicePush(d, m) ==
  [token |-> IF m.token # 0 THEN m.token ELSE d.token, on |-> m.on,
   env |-> IF m.env # "" THEN m.env ELSE d.env]
StoreDevice(r) ==
  /\ req[r].op = "upsert"
  /\ LET m == req[r].m
         x == <<m.account, m.phone>>
     IN /\ rows' = [rows EXCEPT ![x] = UpsertDevicePush(@, m)]
        /\ last' = [last EXCEPT ![x] = rows'[x].token]
        /\ late' = IF m.account \in deleted THEN late \cup {x} ELSE late
        /\ req' = [req EXCEPT ![r] = IF m.messages = "" THEN Idle ELSE [op |-> "flags", m |-> m]]
  /\ UNCHANGED <<service, account, send, counts, misrouted>>

SetPodcastNotifyFlags(r) ==
  /\ req[r].op = "flags"
  /\ notify' = IF req[r].m.messages = "1" THEN notify \cup {req[r].m.account}
               ELSE notify \ {req[r].m.account}
  /\ req' = [req EXCEPT ![r] = Idle]
  /\ UNCHANGED <<service, rows, social, deleted, send, counts, last, late, misrouted>>

(* Errors are logged and swallowed. *)
RegistrationFails(r) ==
  /\ req[r] # Idle /\ req' = [req EXCEPT ![r] = Idle]
  /\ UNCHANGED <<service, rows, account, send, counts, last, late, misrouted>>

(* PostDeleteAccount, one transaction. *)
OnlySwitchedOff(a) ==           \* mutant: the tokens stay
  [r \in Row |-> IF r[1] = a THEN [rows[r] EXCEPT !.on = FALSE] ELSE rows[r]]
ClearPushStateForUser(a) ==
  [r \in Row |-> IF r[1] = a THEN [rows[r] EXCEPT !.token = 0, !.on = FALSE] ELSE rows[r]]
DeleteAccount(a) ==
  /\ a \notin deleted /\ deleted' = deleted \cup {a}
  /\ rows' = ClearPushStateForUser(a) /\ social' = social \ {a}
  /\ UNCHANGED <<service, notify, req, send, counts, last, late, misrouted>>

(* The service replaces a phone's token, or the app is installed from the
   other environment. *)
ReplaceToken(p) ==
  /\ tokens < MaxTokens /\ tokens' = tokens + 1
  /\ current' = [current EXCEPT ![p] = tokens']
  /\ home' \in {home, [home EXCEPT ![p] = "sandbox"]}
  /\ UNCHANGED <<rows, account, req, send, counts, last, late, misrouted>>

----------------------------------------------------------------------------
(* The runs of the notifier: an episode for everyone who asked for it, an
   event or the digest for one account, a person's appearance, which leaves
   dead tokens alone. *)
Reachable == {r \in Row : rows[r].on /\ rows[r].token # 0}
Targets(S) == {[row |-> r, token |-> rows[r].token, env |-> rows[r].env] : r \in S}
GetPushTargetsForPodcast == Targets({r \in Reachable : r[1] \in notify})
GetPushTargetsForUser(a) == Targets({r \in Reachable : r[1] = a})

Begin(s, clears, T) ==
  /\ send[s] = Idle /\ sends < MaxSends /\ sends' = sends + 1 /\ T # {}
  /\ send' = [send EXCEPT ![s] = [op |-> "send", clears |-> clears, targets |-> T, left |-> T,
                                  trying |-> {}, tries |-> 0,
                                  shown |-> {}, failed |-> {}, dropped |-> {}]]
  /\ UNCHANGED <<service, rows, account, req, registered, last, late, misrouted>>
NotifyNewEpisodes(s)         == Begin(s, TRUE, GetPushTargetsForPodcast)
NotifySocial(s, a)           == a \in social /\ Begin(s, TRUE, GetPushTargetsForUser(a))
NotifyPersonAppearance(s, a) == Begin(s, FALSE, GetPushTargetsForUser(a))

(* One try of Send, by the environment of the row (Router): the answers of
   deliver.  The next phone is not tried before this one is done. *)
Accepts(t) == t.token = current[t.row[2]] /\ t.env = home[t.row[2]]
Done(x, t) == [x EXCEPT !.left = @ \ {t}, !.trying = {}, !.tries = 0]
Delivered(x, t) == [Done(x, t) EXCEPT !.shown = @ \cup {t}]
Refused(x, t) ==
  IF x.clears THEN [Done(x, t) EXCEPT !.op = "clear", !.dropped = @ \cup {t.token}] ELSE Done(x, t)
OnceMore(x, t, got) ==          \* mutant: one attempt too many
  IF x.tries < MaxAttempts
  THEN [x EXCEPT !.trying = {t}, !.tries = @ + 1, !.shown = @ \cup got]
  ELSE [Done(x, t) EXCEPT !.shown = @ \cup got, !.failed = @ \cup {t}]
Unclear(x, t, got) ==
  IF x.tries + 1 < MaxAttempts
  THEN [x EXCEPT !.trying = {t}, !.tries = @ + 1, !.shown = @ \cup got]
  ELSE [Done(x, t) EXCEPT !.shown = @ \cup got, !.failed = @ \cup {t}]
deliver(s, t) ==
  /\ send[s].op = "send" /\ t \in send[s].left /\ t.token \notin send[s].dropped
  /\ send[s].trying \subseteq {t}
  /\ LET x   == send[s]
         got == IF Accepts(t) THEN {t} ELSE {}
     IN send' \in {[send EXCEPT ![s] = y] :
          y \in {IF Accepts(t) THEN Delivered(x, t) ELSE Refused(x, t),       \* 200; 410 and the like
                 Unclear(x, t, {}), Unclear(x, t, got),                       \* 429, 5xx, no answer
                 [Done(x, t) EXCEPT !.failed = @ \cup {t}]}}                  \* any other answer
  /\ misrouted' = IF t.token = current[t.row[2]] /\ ~Accepts(t)
                  THEN misrouted \cup {t.token} ELSE misrouted
  /\ UNCHANGED <<service, rows, account, req, counts, last, late>>

ClearPushToken(s) ==
  [r \in Row |-> IF rows[r].token \in send[s].dropped THEN [rows[r] EXCEPT !.token = 0] ELSE rows[r]]
ClearDead(s) ==
  /\ send[s].op = "clear"
  /\ rows' \in {ClearPushToken(s), rows}
  /\ send' = [send EXCEPT ![s].op = "send"]
  /\ UNCHANGED <<service, account, req, counts, last, late, misrouted>>

(* The run ends, or dies with its process. *)
SendEnds(s) ==
  /\ send[s] # Idle /\ send' = [send EXCEPT ![s] = Idle]
  /\ UNCHANGED <<service, rows, account, req, counts, last, late, misrouted>>

Next ==
  \/ \E r \in Request : StoreDevice(r) \/ SetPodcastNotifyFlags(r) \/ RegistrationFails(r)
       \/ \E m \in UpdateRequest : persistPushState(r, m)
  \/ \E s \in Sender : NotifyNewEpisodes(s) \/ ClearDead(s) \/ SendEnds(s)
       \/ (\E a \in Account : NotifySocial(s, a) \/ NotifyPersonAppearance(s, a))
       \/ (\E t \in PushTarget : deliver(s, t))
  \/ \E a \in Account : DeleteAccount(a)
  \/ \E p \in Phone : ReplaceToken(p)

Spec == Init /\ [][Next]_vars

----------------------------------------------------------------------------
(* The state has its type. *)
TypeOK ==
  /\ rows \in [Row -> DeviceRow] /\ notify \cup social \cup deleted \subseteq Account
  /\ \A s \in Sender : send[s] # Idle =>
       send[s] \in Sending /\ send[s].left \cup send[s].shown \subseteq send[s].targets
  /\ \A s \in Sender : send[s] # Idle => send[s].tries < MaxAttempts

(* A phone that registered its current token keeps it, though an alert to an
   older token of it, or for another account, is refused meanwhile; only a
   token tried in the wrong environment is cleared while it is in use. *)
LiveTokenKept ==
  \A r \in Row :
    r[1] \notin deleted /\ last[r] = current[r[2]] /\ last[r] \notin misrouted
      => rows[r].token = last[r]

(* A deleted account is reached on none of its phones, but for those whose
   registration was under way. *)
DeletedIsUnreachable ==
  \A r \in Row : r[1] \in deleted => r \in late \/ (rows[r].token = 0 /\ ~rows[r].on)

(* No phone misses an alert because of another's: a target is waiting, was
   shown the alert, failed every attempt, or its token is refused. *)
OneFailureOnePhone ==
  \A s \in Sender : send[s] # Idle =>
    \A t \in send[s].targets \ (send[s].left \cup send[s].shown \cup send[s].failed) : ~Accepts(t)
=============================================================================
