SPECIFICATION FairSpec
CONSTANTS
    Pods = {p1, p2}
    NoLease = NoLease
    LeaseDuration = 2
    MaxAttempts = 2
    MaxDelay = 3
    MaxSkew = 1
    PutAnswers = {"conflict", "notFound", "created"}
    RenewerFails = TRUE
PROPERTIES UsurpedPodStops
CHECK_DEADLOCK FALSE
