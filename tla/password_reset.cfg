CONSTANTS
    Procs = {p1, p2}
    Codes = {c1, c2}
    NoCode = NoCode
    Cooldown = 1
    TTL = 1
    MaxAttempts = 2
    MaxTime = 2
    MaxChanges = 1
    MaxCrashes = 1
SPECIFICATION Spec
SYMMETRY Symmetry
INVARIANTS TypeOK TimelyCodeWins GuessesBounded OldSessionsEnd
PROPERTIES SpentCodesRefused
CHECK_DEADLOCK FALSE
