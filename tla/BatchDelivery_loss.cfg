SPECIFICATION Spec
CONSTANTS
    Messages = {m1, m2}
    BatchSize = 2
    RetryBatchSize = 2
    MessagesRetryCount = 1
    Faults = {"readError", "seekError"}
    MaxFaults = 1
INVARIANTS NoLoss
CHECK_DEADLOCK FALSE
