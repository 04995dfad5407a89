CONSTANTS
    old = old
    new1 = new1
    new2 = new2
    t1 = t1
    t2 = t2
    command = command
    receipt = receipt
    editAmount = editAmount
    editName = editName
    delete = delete
    cancel = cancel
    Messages = {t1, receipt, editAmount}
    Expenses = {old, new1, new2}
    Procs = {p1, p2}
    Initial = {old}
    Content <- MCContent
    None = None
    KeyTTL = 0
    SessionTTL = 0
    MaxTime = 1
    MaxDeliveries = 4
    MaxFaults = 1
SPECIFICATION Spec
SYMMETRY Symmetry
INVARIANTS TypeOK EventsAccount
PROPERTIES TakenInOnce
CHECK_DEADLOCK FALSE
