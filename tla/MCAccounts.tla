----------------------------- MODULE MCAccounts -----------------------------
(***************************************************************************)
(* What clients send about an account, on small instances: records and     *)
(* settings (SyncMerge, whose definitions are those of this module too),   *)
(* restores, attested requests and push registrations.  A behaviour        *)
(* follows the one that part names while the others keep their initial     *)
(* state.                                                                  *)
(***************************************************************************)
EXTENDS SyncMerge, TLC

CONSTANTS
  MaxCommits,                                          \* Library
  Request, Device,
  MaxChallenges, MaxCounter, MaxDeliveries,            \* Attest
  Account, Phone, MaxTokens, MaxRegistrations, MaxSends, MaxAttempts   \* PushDelivery

ASSUME AccountsAssumption ==
  /\ MaxCommits \in Nat
  /\ MaxChallenges \in Nat \ {0} /\ MaxCounter \in Nat \ {0} /\ MaxDeliveries \in Nat
  /\ MaxTokens \in Nat \ {0} /\ MaxRegistrations \in Nat /\ MaxSends \in Nat
  /\ MaxAttempts \in Nat \ {0}
  /\ IsFiniteSet(Phone)

VARIABLES
  part, req,
  library, syncLastModified, todo, wanted, half, cursor, copy, commits,
  mode, issued, open, expired, attested, keys, signed, deliveries,
  enrolled, verified, answered, revoked,
  tokens, current, home, rows, notify, social, deleted, send, registered, sends,
  last, late, misrouted

Restore == INSTANCE Library
  WITH Podcast <- Podcasts, Episode <- Episodes, Bookmark <- Bookmarks,
       Folder <- {"folder"}, Playlist <- {"playlist"}, NoFolder <- "none", Content <- Excerpts,
       rows <- library
Attested == INSTANCE Attest WITH Install <- Device
Push   == INSTANCE PushDelivery WITH Request <- {"refresh"}, Sender <- {"notifier"}

libraryOnly == <<library, syncLastModified, todo, wanted, half, cursor, copy, commits>>
attestOnly == <<mode, issued, open, expired, attested, keys, signed, deliveries,
                enrolled, verified, answered, revoked>>
pushOnly   == <<tokens, current, home, rows, notify, social, deleted, send, registered, sends,
                last, late, misrouted>>
accountVars == <<part, req, vars, libraryOnly, attestOnly, pushOnly>>

NoLibrary ==
  /\ library = << >> /\ syncLastModified = 0 /\ todo = {} /\ wanted = {} /\ half = {}
  /\ cursor = 0 /\ copy = << >> /\ commits = 0
NoAttestation ==
  /\ mode = "off" /\ issued = 0 /\ open = {} /\ expired = {} /\ attested = {} /\ keys = << >>
  /\ signed = << >> /\ deliveries = 0 /\ enrolled = << >> /\ verified = << >>
  /\ answered = {} /\ revoked = {}
NoPhones ==
  /\ tokens = 0 /\ current = << >> /\ home = << >> /\ rows = << >> /\ notify = {} /\ social = {}
  /\ deleted = {} /\ send = << >> /\ registered = 0 /\ sends = 0 /\ last = << >> /\ late = {}
  /\ misrouted = {}
AccountsInit ==
  /\ part \in {"records", "library", "attest", "push"}
  /\ Init /\ (part # "records" => subject = "episode")
  /\ IF part = "library" THEN Restore!Init ELSE NoLibrary
  /\ IF part = "attest" THEN Attested!Init ELSE NoAttestation
  /\ IF part = "push" THEN Push!Init ELSE NoPhones
  /\ (part \in {"records", "library"} => req = << >>)

RecordStep  == part = "records" /\ Next /\ UNCHANGED <<part, req, libraryOnly, attestOnly, pushOnly>>
LibraryStep == part = "library" /\ Restore!Next /\ UNCHANGED <<part, req, vars, attestOnly, pushOnly>>
AttestStep  == part = "attest" /\ Attested!Next /\ UNCHANGED <<part, vars, libraryOnly, pushOnly>>
PushStep    == part = "push" /\ Push!Next /\ UNCHANGED <<part, vars, libraryOnly, attestOnly>>

(* The bounds on challenges or registrations are reached, or every account is
   deleted. *)
Ends ==
  /\ \/ part = "attest" /\ issued = MaxChallenges
     \/ part = "push" /\ (registered = MaxRegistrations \/ deleted = Account)
  /\ UNCHANGED accountVars

AccountsNext == RecordStep \/ LibraryStep \/ AttestStep \/ PushStep \/ Ends

AccountsSpec == AccountsInit /\ [][AccountsNext]_accountVars

Symmetry == Permutations(Excerpts)

----------------------------------------------------------------------------
(* Lists, keys and registrations have their types. *)
TypesOK ==
  /\ part = "library" => Restore!TypeOK
  /\ part = "attest" => Attested!TypeOK
  /\ part = "push" => Push!TypeOK

(* A device restored from lists that were read at different times shows the
   account as it is once it has synced past the last commit, and a podcast
   whose folder it lacks is one that the next sync repairs, or that the account
   itself keeps in a folder that is not live. *)
RestoreConverges == part = "library" => Restore!RestoreConverges /\ Restore!DanglingIsRepaired

(* A signed request and a challenge count once, however often and in whatever
   order they are delivered, and a healthy key is never called invalid. *)
AttestedOnce == part = "attest" => Attested!CountsOnce /\ Attested!HealthyKeyKept

(* A phone keeps the token it registered, a deleted account is unreachable and
   no phone misses an alert because of another, whatever overlaps. *)
PhonesStayReachable ==
  part = "push" => Push!LiveTokenKept /\ Push!DeletedIsUnreachable /\ Push!OneFailureOnePhone
=============================================================================
