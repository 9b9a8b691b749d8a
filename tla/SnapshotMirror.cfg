CONSTANTS
    Members = {m1, m2}
    MaxRuns = 3
    BatchSize = 2
    Setups <- AllSetups
SPECIFICATION Spec
INVARIANTS AudienceTracked NoGap ExactMirror
CHECK_DEADLOCK FALSE
SYMMETRY MemberSymmetry
