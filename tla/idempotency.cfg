CONSTANTS
    Reqs = {r1, r2, r3}
    Keys = {k1, k2}
    NoKey = NoKey
    TTL = 2
    MaxTime = 5
    MaxCrashes = 1
SPECIFICATION Spec
SYMMETRY Symmetry
INVARIANTS TypeOK NoOverlap
PROPERTIES RefusedOnlyRepeats
CHECK_DEADLOCK FALSE
