SPECIFICATION Spec
CONSTANTS
    Messages = {m1, m2}
    BatchSize = 2
    RetryBatchSize = 2
    MessagesRetryCount = 1
    Faults <- NoRebalances
    MaxFaults = 1
INVARIANTS DeadAfterAllAttempts
SYMMETRY Symmetry
CHECK_DEADLOCK FALSE
