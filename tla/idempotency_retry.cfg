CONSTANTS
    Reqs = {r1, r2}
    Keys = {k1}
    NoKey = NoKey
    TTL = 2
    MaxTime = 4
    MaxCrashes = 0
SPECIFICATION Spec
INVARIANT RepeatRefused
CHECK_DEADLOCK FALSE
