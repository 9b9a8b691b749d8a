SPECIFICATION FairSpec
CONSTANTS
    Messages = {m1, m2}
    BatchSize = 2
    RetryBatchSize = 2
    MessagesRetryCount = 1
    Faults <- Tolerated
    MaxFaults = 1
INVARIANTS TypeOK NoLoss ExactlyOnceWithoutFaults
PROPERTIES EventuallySettled
CHECK_DEADLOCK FALSE
