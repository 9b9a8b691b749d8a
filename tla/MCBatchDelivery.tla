--------------------------- MODULE MCBatchDelivery ---------------------------
(* Instances of BatchDelivery for TLC. *)
EXTENDS BatchDelivery, TLC

Symmetry == Permutations(Messages)

(* What the pipeline must survive without losing a message. *)
Tolerated == FaultKinds \ {"readError", "seekError"}

(* Every fault but the one DeadAfterAllAttempts excepts. *)
NoRebalances == FaultKinds \ {"rebalance"}
=============================================================================
