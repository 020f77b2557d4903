SPECIFICATION Spec
CONSTANTS
    j1 = j1
    j2 = j2
    j3 = j3
    Jobs = {j1, j2, j3}
    Counts = {1}
    Ages = {1}
    Keep = 1
    MaxClock = 1
SYMMETRY Requests
INVARIANTS TypeOK NewestSurvive RetentionHonoured JobsTruthful
PROPERTIES ImplementsShelf
CHECK_DEADLOCK FALSE
