----------------------------- MODULE MCSyncWorker -----------------------------
(* Instance of SyncWorker for TLC. *)
EXTENDS SyncWorker, TLC

Symmetry == Permutations(Callers)
===============================================================================
