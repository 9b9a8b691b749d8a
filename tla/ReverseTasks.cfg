CONSTANTS
    None = None
    Tasks = {t1, t2}
    MaxRuns = 2
    MaxPolls = 1
    MaxAttempt = 2
    Settings <- AllSettings
SPECIFICATION Spec
INVARIANTS EachCheckOnce RestoredWithoutVerdict TogetherUninterrupted
PROPERTIES OnlyUsersReopen
SYMMETRY TaskSymmetry
CHECK_DEADLOCK FALSE
