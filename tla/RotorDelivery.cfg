CONSTANTS
    c1 = c1
    c2 = c2
    None = None
    Messages = {m1}
    Connections = {c1, c2}
    Partitions = {p1}
    Steps <- MixedSteps
    Concurrency = 1
    RetryCount = 1
    CustomAttempts = {0}
    MaxFailures = 2
    Faults <- FaultKinds
    MaxFaults = 1
SPECIFICATION FairSpec
INVARIANTS NothingDisappears RetriedIndependently DeadAfterAllAttempts
CHECK_DEADLOCK FALSE
PROPERTIES EventuallySettled
