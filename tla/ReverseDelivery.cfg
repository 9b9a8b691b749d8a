CONSTANTS
    Workers = {w1}
    MaxRows = 2
    MaxRuns = 2
    BatchSize = 1
    CheckpointEvery = 1
    Streams <- AllStreams
    Faults = {"crash", "interrupt", "throw", "reject"}
SPECIFICATION Spec
INVARIANTS CheckpointSafe ReceiptsAreTrue CompleteIsDelivered NoBlindReplay FinishExcludesAbort EventsOnce HeadsAreSettled
PROPERTIES ImplementsCheckpointedDelivery
CHECK_DEADLOCK FALSE
