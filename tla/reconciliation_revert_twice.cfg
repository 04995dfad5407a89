CONSTANTS
    e1 = e1
    e2 = e2
    e3 = e3
    e4 = e4
    e5 = e5
    k1 = k1
    ExpenseIds = {e1, e2, e3}
    Procs = {p1, p2}
    Keys = {k1}
    NoKey = NoKey
    None = None
    Targets <- MCTargets
    MaxAmount = 2
    UserRows <- NoUserRows
    Ledgers <- NoLedger
    MaxTime = 1
    MaxCrashes = 1
SPECIFICATION Spec
INVARIANT UndoneOnce
CHECK_DEADLOCK FALSE
