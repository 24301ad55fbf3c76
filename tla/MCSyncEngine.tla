----------------------------- MODULE MCSyncEngine -----------------------------
(* SyncEngine on small instances.  Devices are interchangeable. *)
EXTENDS SyncEngine, TLC

Symmetry == Permutations(Device)
=============================================================================
