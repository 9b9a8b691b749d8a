------------------------ MODULE MCStatusNotifications ------------------------
(* Instances of StatusNotifications for TLC: tables are interchangeable.       *)
EXTENDS StatusNotifications, TLC

TableSymmetry == Permutations(Tables)
=============================================================================
