SPECIFICATION Spec
CONSTANTS
    Pods = {p1, p2, p3}
    NoLease = NoLease
    LeaseDuration = 3
    MaxAttempts = 2
    MaxDelay = 2
    MaxSkew = 1
    PutAnswers = {"conflict", "created"}
    RenewerFails = FALSE
SYMMETRY Symmetry
INVARIANTS TypeOK OneRun
PROPERTIES LeaseKept
CHECK_DEADLOCK FALSE
