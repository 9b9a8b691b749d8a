----------------------------- MODULE MCSyncLease -----------------------------
(* Instances of SyncLease for TLC. *)
EXTENDS SyncLease, TLC

Symmetry == Permutations(Pods)
=============================================================================
