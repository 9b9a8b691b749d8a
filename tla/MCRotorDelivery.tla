--------------------------- MODULE MCRotorDelivery ---------------------------
(* Instances of RotorDelivery for TLC.                                         *)
EXTENDS RotorDelivery, TLC

CONSTANTS c1, c2

(* One connection with everything, one with its destination only *)
MixedSteps == (c1 :> {"transformation", "udf"}) @@ (c2 :> {})
FullSteps == (c1 :> {"transformation", "udf"})

(* Partitions and messages are interchangeable (safety runs only) *)
Symmetry == Permutations(Partitions) \cup Permutations(Messages)
=============================================================================
