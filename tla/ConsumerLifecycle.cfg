CONSTANTS
    MaxMessages = 2
    BatchSize = 2
    Suspends = TRUE
SPECIFICATION FairSpec
INVARIANTS SkippedOnlyBeside JobHasConsumer Attended
PROPERTIES SuspendsQuietly RetiredCloses ExtraRuns
CHECK_DEADLOCK FALSE
