CONSTANTS
    e1 = e1
    e2 = e2
    e3 = e3
    e4 = e4
    e5 = e5
    k1 = k1
    ExpenseIds = {e1, e2, e3, e4, e5}
    Procs = {p1, p2}
    Keys = {k1}
    NoKey = NoKey
    None = None
    Targets <- MCTargets
    MaxAmount = 2
    UserRows <- MCUserRows
    Ledgers <- MCLedgers
    MaxTime = 1
    MaxCrashes = 1
SPECIFICATION FairSpec
INVARIANTS TypeOK RecordsBacked RevertsOffset
PROPERTIES MovesTogether LockedImmutable AlignedUnlessOvertaken BootLocksLegacy AnswersArrive BootCompletes
CHECK_DEADLOCK FALSE
