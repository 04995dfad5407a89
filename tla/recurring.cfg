CONSTANTS
    Rules = {r1}
    NoRuleId = NoRuleId
    Procs = {p1, p2}
    Plans <- MCPlans
    NoPlan = NoPlan
    Times = {40, 45, 46}
    EditDates = {20, 45}
    MaxVersion = 3
SPECIFICATION Spec
SYMMETRY Symmetry
INVARIANTS TypeOK NoLeftovers ScheduleKept MonthlyOnItsDay
CHECK_DEADLOCK FALSE
