------------------------- MODULE MCReverseDelivery -------------------------
(* Instances of ReverseDelivery for TLC. *)
EXTENDS ReverseDelivery

Audience == [asynchronous |-> TRUE, cursor |-> TRUE, insertOnly |-> FALSE]
Upload == [asynchronous |-> FALSE, cursor |-> TRUE, insertOnly |-> FALSE]
Events == [asynchronous |-> TRUE, cursor |-> FALSE, insertOnly |-> TRUE]

AllStreams == {Audience, Upload, Events}
Audiences == {Audience}
=============================================================================
