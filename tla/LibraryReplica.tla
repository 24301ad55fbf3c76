---------------------------- MODULE LibraryReplica ----------------------------
(***************************************************************************)
(* What incremental sync promises a device, with no tokens, stamps or      *)
(* deltas: each device keeps a copy of the library, and every successful   *)
(* sync replaces the whole copy by the library as it was at one instant,   *)
(* the commit of that sync.  A response that gets lost changes nothing.    *)
(***************************************************************************)
CONSTANTS Device, Empty
VARIABLES db,       \* the library
          copy,     \* copy[d]: what device d holds
          sent      \* sent[d]: the snapshot on its way to d, as <<>> or <<snapshot>>

rvars == <<db, copy, sent>>

Init ==
  /\ db = Empty
  /\ copy = [d \in Device |-> Empty]
  /\ sent = [d \in Device |-> <<>>]

(* A write of one device or of the server. *)
Write == UNCHANGED <<copy, sent>>

(* A sync of d commits its writes and snapshots the result. *)
Sync(d) ==
  /\ sent[d] = <<>>
  /\ sent' = [sent EXCEPT ![d] = <<db'>>]
  /\ UNCHANGED copy

Deliver(d) ==
  /\ sent[d] # <<>>
  /\ copy' = [copy EXCEPT ![d] = sent[d][1]]
  /\ sent' = [sent EXCEPT ![d] = <<>>]
  /\ UNCHANGED db

Lose(d) ==
  /\ sent[d] # <<>>
  /\ sent' = [sent EXCEPT ![d] = <<>>]
  /\ UNCHANGED <<db, copy>>

Reset(d) ==
  /\ copy' = [copy EXCEPT ![d] = Empty]
  /\ UNCHANGED <<db, sent>>

Next ==
  \/ Write
  \/ \E d \in Device : Sync(d) \/ Deliver(d) \/ Lose(d) \/ Reset(d)

Spec == Init /\ [][Next]_rvars
=============================================================================
