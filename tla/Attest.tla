------------------------------- MODULE Attest -------------------------------
(***************************************************************************)
(* App attestation: challenges and enrolment (handlers/attest.go) and the  *)
(* assertion that an install signs for each request (attest_middleware.go, *)
(* package attest).                                                        *)
(*                                                                         *)
(* Certificates, hashes and signatures are taken at their word: what an    *)
(* install signed verifies under its key and for its content only.  A      *)
(* message is lost or delivered any number of times, in any order.  The    *)
(* handlers write no revocation; an operator does, in the table.           *)
(***************************************************************************)
EXTENDS Naturals, FiniteSets

CONSTANTS
  Install,          \* app installs, each with one key
  Request,          \* requests that may be under way at the same time
  MaxChallenges, MaxCounter, MaxDeliveries    \* bounds: challenges, signatures, deliveries

Challenge == 1 .. MaxChallenges
Counter   == 1 .. MaxCounter

VARIABLES
  mode,             \* the Mode of the endpoint
  issued,           \* challenges handed out
  open, expired,    \* rows of attest_challenges, and those past expires_at
  attested,         \* attestation objects made: <<install, challenge>>
  keys,             \* attest_keys, NoKey without a row
  signed,           \* the counter of each install's key
  req, deliveries,
  enrolled,         \* history: the enrolments each challenge led to
  verified,         \* history: how often each assertion passed
  answered,         \* history: verdicts given to requests just as they were signed
  revoked           \* history: keys that an operator revoked

store   == <<open, expired, keys>>
devices == <<attested, signed>>
history == <<enrolled, verified, answered, revoked>>
vars == <<mode, issued, store, devices, req, deliveries, history>>

NoKey     == [status |-> "none"]
AttestKey == [status : {"active", "revoked"}, counter : 0 .. MaxCounter]
Assertion == [key : Install, counter : Counter]
Target    == {"as signed", "other", "noncanonical"}
Idle      == [op |-> "idle"]
ReqType   ==
  {Idle} \cup [op : {"insert"}, key : Install, challenge : Challenge]
         \cup [op : {"advance", "recheck"}, key : Install, counter : Counter]

Deliver(r, next) ==
  /\ req[r] = Idle /\ deliveries < MaxDeliveries
  /\ deliveries' = deliveries + 1 /\ req' = [req EXCEPT ![r] = next]
Go(r, next) == req' = [req EXCEPT ![r] = next] /\ UNCHANGED deliveries

Init ==
  /\ mode \in {"log-only", "required"} /\ issued = 0 /\ open = {} /\ expired = {}
  /\ attested = {} /\ keys = [i \in Install |-> NoKey] /\ signed = [i \in Install |-> 0]
  /\ req = [r \in Request |-> Idle] /\ deliveries = 0
  /\ enrolled = [c \in Challenge |-> 0] /\ verified = [a \in Install \X Counter |-> 0]
  /\ answered = {} /\ revoked = {}

----------------------------------------------------------------------------
(* GetAttestChallenge sweeps and hands out a new challenge, whose lifetime
   ends some time; the install attests its key for it. *)
DeleteExpiredChallenges == open \ expired
GetAttestChallenge ==
  /\ issued < MaxChallenges /\ issued' = issued + 1
  /\ open' = DeleteExpiredChallenges \cup {issued'} /\ expired' = {}
  /\ UNCHANGED <<mode, keys, devices, req, deliveries, history>>

Expire ==
  /\ open # expired /\ expired' = open
  /\ UNCHANGED <<mode, issued, open, keys, devices, req, deliveries, history>>

Attests(i) ==
  /\ issued > 0 /\ <<i, issued>> \notin attested
  /\ attested' = attested \cup {<<i, issued>>}
  /\ UNCHANGED <<mode, issued, store, signed, req, deliveries, history>>

(* PostAttestEnroll burns the challenge, verifies, and inserts the key; the
   first row of a key stays. *)
VerifyAttestation(i, c) == <<i, c>> \in attested
ConsumeKept(c) == open                          \* mutant: the challenge is only looked up
ConsumeChallenge(c) == open \ {c}
PostAttestEnroll(r, i, c) ==
  /\ c \in open \ expired /\ open' = ConsumeChallenge(c)
  /\ Deliver(r, IF VerifyAttestation(i, c) THEN [op |-> "insert", key |-> i, challenge |-> c] ELSE Idle)
  /\ UNCHANGED <<mode, issued, expired, keys, devices, history>>

InsertAttestKey(i) ==
  IF keys[i] = NoKey THEN [keys EXCEPT ![i] = [status |-> "active", counter |-> 0]] ELSE keys
Enroll(r) ==
  /\ req[r].op = "insert"
  /\ keys' = InsertAttestKey(req[r].key)
  /\ enrolled' = [enrolled EXCEPT ![req[r].challenge] = @ + 1]
  /\ Go(r, Idle)
  /\ UNCHANGED <<mode, issued, open, expired, devices, verified, answered, revoked>>

----------------------------------------------------------------------------
(* An enrolled install signs a request. *)
Sign(i) ==
  /\ keys[i] # NoKey /\ signed[i] < MaxCounter
  /\ signed' = [signed EXCEPT ![i] = @ + 1]
  /\ UNCHANGED <<mode, issued, store, attested, req, deliveries, history>>
Sent == {a \in Assertion : a.counter <= signed[a.key]}

(* AttestVerify: the key, the canonical request, the signature; then the
   counter; only when that is not advanced the key again.  deny answers when
   the mode requires attestation and otherwise lets the request through. *)
GetAttestKey(i) == keys[i].status
CanonicalRequest(t) == t # "noncanonical"
VerifyAssertion(a, t) == a \in Sent /\ t = "as signed"
deny(i, t, verdict) ==
  answered' = IF mode = "required" /\ t = "as signed" THEN answered \cup {<<i, verdict>>} ELSE answered

AttestVerify(r, a, t) ==
  /\ a \in Sent
  /\ IF GetAttestKey(a.key) # "active"
     THEN Deliver(r, Idle) /\ deny(a.key, t, "invalid")
     ELSE IF ~CanonicalRequest(t) THEN Deliver(r, Idle) /\ UNCHANGED answered
     ELSE IF ~VerifyAssertion(a, t) THEN Deliver(r, Idle) /\ deny(a.key, t, "invalid")
     ELSE Deliver(r, [op |-> "advance", key |-> a.key, counter |-> a.counter]) /\ UNCHANGED answered
  /\ UNCHANGED <<mode, issued, store, devices, enrolled, verified, revoked>>

AdvanceAttestCounter(r) ==
  /\ req[r].op = "advance"
  /\ LET i == req[r].key
         n == req[r].counter
     IN IF keys[i].status = "active" /\ keys[i].counter < n
        THEN /\ keys' = [keys EXCEPT ![i].counter = n]
             /\ verified' = [verified EXCEPT ![<<i, n>>] = @ + 1]
             /\ Go(r, Idle)
        ELSE Go(r, [req[r] EXCEPT !.op = "recheck"]) /\ UNCHANGED <<keys, verified>>
  /\ UNCHANGED <<mode, issued, open, expired, devices, enrolled, answered, revoked>>

Recheck(r) ==
  /\ req[r].op = "recheck"
  /\ deny(req[r].key, "as signed", IF GetAttestKey(req[r].key) = "active" THEN "stale" ELSE "invalid")
  /\ Go(r, Idle)
  /\ UNCHANGED <<mode, issued, store, devices, enrolled, verified, revoked>>

(* A statement fails or the process dies. *)
RequestFails(r) ==
  /\ req[r] # Idle /\ Go(r, Idle)
  /\ UNCHANGED <<mode, issued, store, devices, history>>

Revoke(i) ==
  /\ keys[i] # NoKey /\ i \notin revoked
  /\ keys' = [keys EXCEPT ![i].status = "revoked"] /\ revoked' = revoked \cup {i}
  /\ UNCHANGED <<mode, issued, open, expired, devices, req, deliveries, enrolled, verified, answered>>

Step(r) == Enroll(r) \/ AdvanceAttestCounter(r) \/ Recheck(r) \/ RequestFails(r)
Next ==
  \/ GetAttestChallenge \/ Expire
  \/ \E i \in Install : Attests(i) \/ Sign(i) \/ Revoke(i)
  \/ \E r \in Request : Step(r)
       \/ (\E i \in Install, c \in Challenge : PostAttestEnroll(r, i, c))
       \/ (\E a \in Assertion, t \in Target : AttestVerify(r, a, t))

Spec == Init /\ [][Next]_vars

----------------------------------------------------------------------------
(* The state has its type; a key's counter is one its install has reached. *)
TypeOK ==
  /\ expired \subseteq open /\ open \subseteq 1 .. issued
  /\ keys \in [Install -> AttestKey \cup {NoKey}] /\ req \in [Request -> ReqType]
  /\ \A i \in Install : keys[i] # NoKey => keys[i].counter <= signed[i]

(* A signed request passes at most once, however often it is delivered, and
   whether or not the install enrolled again in between; a challenge leads to
   at most one enrolment. *)
CountsOnce ==
  /\ \A a \in Install \X Counter : verified[a] <= 1
  /\ \A c \in Challenge : enrolled[c] <= 1

(* "a client discards a healthy key" on invalid_attestation: the key of an
   install that was never revoked is not answered so, though its requests
   overtake each other and are delivered twice. *)
HealthyKeyKept == \A i \in Install \ revoked : <<i, "invalid">> \notin answered
=============================================================================
