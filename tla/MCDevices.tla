------------------------------ MODULE MCDevices ------------------------------
(***************************************************************************)
(* What the devices of an account share, on small instances: the Up Next   *)
(* queue (UpNext, whose definitions are those of this module too) and the  *)
(* history.  A behaviour follows the one that part names while the other   *)
(* keeps its initial state.                                                *)
(***************************************************************************)
EXTENDS UpNext

CONSTANT Cap        \* History

ASSUME DevicesAssumption == Cap \in Nat

VARIABLES
  part,
  rows, historyModified, historyClearedAt, hopen, hwork, cleared, nchg, hreply, hseen,
  sent, workSent, erased

(* A history change may leave its stamp out; one of the queue has one. *)
Listened == INSTANCE History
  WITH Stamp <- Stamp \cup {0}, open <- hopen, work <- hwork, reply <- hreply, seen <- hseen

historyVars == <<rows, historyModified, historyClearedAt, hopen, hwork, cleared, nchg,
                 hreply, hseen, sent, workSent, erased>>

deviceVars == <<part, vars, historyVars>>

DevicesInit ==
  /\ part \in {"queue", "history"}
  /\ Init /\ Listened!Init

QueueStep   == part = "queue" /\ Next /\ UNCHANGED <<part, historyVars>>
HistoryStep == part = "history" /\ Listened!Next /\ UNCHANGED <<part, vars>>

DevicesNext == QueueStep \/ HistoryStep

DevicesSpec == DevicesInit /\ [][DevicesNext]_deviceVars

Symmetry == Permutations(Device) \cup Permutations(Episodes)

----------------------------------------------------------------------------
(* A token names one queue, and one history, wherever it is held: stored, on
   the wire or on a device. *)
TokensNameLists == TokenNamesQueue /\ Listened!TokenNamesHistory
(* Adds and deletes of an episode leave the newest one. *)
NewestChangeKept == Listened!NewestChangeKept
=============================================================================
