CONSTANTS
    coffee = coffee
    nameless = nameless
    Events = {e1, e2, e3}
    Procs = {p1, p2}
    Purchases = {coffee, nameless}
    NoTime = NoTime
    None = None
    Payloads <- MCPayloads
    Window = 1
    MaxTime = 1
    MaxCrashes = 1
SPECIFICATION Spec
SYMMETRY Symmetry
INVARIANTS TypeOK OneDraft DuplicatesHaveOriginal
CHECK_DEADLOCK FALSE
