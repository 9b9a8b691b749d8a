------------------------ MODULE CheckpointedDelivery ------------------------
(***************************************************************************)
(* What an incremental reverse-ETL sync promises its user: the provider     *)
(* gets rows, and the cursor from which the next run reads moves forward    *)
(* only over rows the provider has.  Rows behind the cursor may be sent     *)
(* again; none is skipped.                                                  *)
(***************************************************************************)
EXTENDS Integers

CONSTANT MaxRows

VARIABLES
    delivered,  \* rows, by their position in cursor order, the provider has taken
    cursor      \* the position the next run starts behind

Init == delivered = {} /\ cursor = 0

(* The provider takes rows *)
Take ==
    /\ delivered' \in SUBSET (1 .. MaxRows)
    /\ delivered \subseteq delivered' /\ delivered # delivered'
    /\ UNCHANGED cursor

(* A checkpoint *)
Advance ==
    /\ \E c \in (cursor + 1) .. MaxRows : 1 .. c \subseteq delivered /\ cursor' = c
    /\ UNCHANGED delivered

Next == Take \/ Advance

Spec == Init /\ [][Next]_<<delivered, cursor>>
=============================================================================
