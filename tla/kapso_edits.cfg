CONSTANTS
    old = old
    new1 = new1
    new2 = new2
    t1 = t1
    t2 = t2
    command = command
    receipt = receipt
    editAmount = editAmount
    editName = editName
    delete = delete
    cancel = cancel
    Messages = {t1, command, editAmount, editName, delete, cancel}
    Expenses = {old, new1, new2}
    Procs = {p1, p2}
    Initial = {old}
    Content <- MCContent
    None = None
    KeyTTL = 0
    SessionTTL = 0
    MaxTime = 1
    MaxDeliveries = 4
    MaxFaults = 0
SPECIFICATION Spec
SYMMETRY Symmetry
INVARIANTS ServedOnce EditsKept
CHECK_DEADLOCK FALSE
