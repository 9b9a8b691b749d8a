--------------------------- MODULE MCSnapshotMirror --------------------------
(* Instances of SnapshotMirror for TLC: members are interchangeable.          *)
EXTENDS SnapshotMirror, TLC

MemberSymmetry == Permutations(Members)

Setup(asynchronous, replace, overlap, faults) ==
    [asynchronous |-> asynchronous, replace |-> replace, overlap |-> overlap, faults |-> faults]

OneByOne == {Setup(FALSE, FALSE, FALSE, FaultKinds), Setup(TRUE, FALSE, FALSE, FaultKinds),
             Setup(TRUE, TRUE, FALSE, FaultKinds)}
Overlapping == {Setup(TRUE, FALSE, TRUE, {}), Setup(TRUE, TRUE, TRUE, {})}
AllSetups == OneByOne \cup Overlapping
=============================================================================
