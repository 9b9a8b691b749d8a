CONSTANTS
    Tables = {t1, t2}
    Others = {"conn", "dead"}
    MaxEvents = 3
    MaxTime = 4
    MaxFaults = 1
    Overlap = 1
    Window = 2
    Threshold = 1
    Day = 2
    Period = 1
    DeadQuiet = 2
    StaleAfter = 2
SPECIFICATION Spec
 
PROPERTIES NotNoisy
SYMMETRY TableSymmetry
CHECK_DEADLOCK FALSE
