------------------------------- MODULE Recurring -------------------------------
(***************************************************************************)
(* The recurring movements of one user: AddRecurringExpense,               *)
(* UpdateRecurringExpense and RemoveRecurringExpense of                    *)
(* internal/storage/databaseStore.go, which keep a rule and the expenses   *)
(* generated from it, beside the edits and deletions that the user makes   *)
(* of single instances.                                                    *)
(*                                                                         *)
(* An update or a removal is a transaction.  Its first statement writes    *)
(* the rule's row and so holds it until the end; what it deletes and       *)
(* inserts is seen when it commits.  Its DELETE and the generator read the *)
(* clock each for itself.  The instant t lies between the dates t - 1 and  *)
(* t, for none falls on a date to the nanosecond.                          *)
(*                                                                         *)
(* expenses_user_recurring_date_key is taken to exist: the start-up leaves *)
(* it out of a database that already holds duplicates.  Left out: names,   *)
(* amounts, currencies and tags, and the Idempotency-Key.                  *)
(***************************************************************************)
EXTENDS Calendar

CONSTANTS
    Rules,      \* ids of rules; their number bounds a run
    NoRuleId,   \* none of them
    Procs,      \* requests the server works on at a time
    Plans,      \* start date, interval and occurrences that clients send
    NoPlan,     \* no such thing
    Times,      \* bound: instants of a run
    EditDates,  \* bound: dates an instance is moved to
    MaxVersion  \* bound: versions of a rule

Plan == [start : Nat, interval : Intervals, occ : Nat]

\* RecurringExpense.Validate asks for two occurrences and a known interval.
ASSUME PlansAssumption ==
    /\ Plans \subseteq Plan /\ NoPlan \notin Plans /\ NoRuleId \notin Rules
    /\ \A q \in Plans : q.occ >= 2
    /\ Times \subseteq Nat /\ EditDates \subseteq Nat /\ MaxVersion \in Nat

\* The dates that follow from a plan, one interval after another.
Occurrence ==
    [q \in Plans |->
       LET f[k \in 0 .. q.occ] ==
             IF k = 0 THEN q.start ELSE AddDate(q.interval, f[k - 1])
       IN  f]

ByHand == 0

VARIABLES
    now,      \* the clock
    rule,     \* table recurring_expenses
    expenses, \* rows of expenses with a recurring_id
    pc,       \* where each request is
    loc,      \* its arguments, the clock it read, its uncommitted rows
    owed,     \* history: the dates a rule should have
    hand,     \* history: dates the user laid hands on
    crossed,  \* history: dates that came between the two readings of a clock
    kept      \* history: the reading before which a change keeps instances

hist == <<owed, hand, crossed, kept>>
vars == <<now, rule, expenses, pc, loc, hist>>

Rule == [state : {"none", "live", "removed"}, plan : Plans \cup {NoPlan}, ver : Nat]
NoRule == [state |-> "none", plan |-> NoPlan, ver |-> 0]
Expense == [rule : Rules, date : Nat, ver : Nat, plan : Plans]
Loc == [rule : Rules \cup {NoRuleId}, plan : Plans \cup {NoPlan}, all : BOOLEAN,
        at : Nat, till : Nat, gone : SUBSET Expense, new : SUBSET Nat]
NoLoc == [rule |-> NoRuleId, plan |-> NoPlan, all |-> FALSE,
          at |-> 0, till |-> 0, gone |-> {}, new |-> {}]

PCs == {"idle", "lock", "delete", "generate", "copy", "lock_removal", "remove"}

Init ==
    /\ now \in Times /\ \A t \in Times : now <= t
    /\ rule = [r \in Rules |-> NoRule]
    /\ expenses = {}
    /\ pc = [p \in Procs |-> "idle"]
    /\ loc = [p \in Procs |-> NoLoc]
    /\ owed = [r \in Rules |-> {}]
    /\ hand = [r \in Rules |-> {}]
    /\ crossed = [r \in Rules |-> {}]
    /\ kept = [r \in Rules |-> 0]

----------------------------------------------------------------------------
Goto(p, l) == pc' = [pc EXCEPT ![p] = l]
Answer(p) == Goto(p, "idle") /\ loc' = [loc EXCEPT ![p] = NoLoc]

Instances(r) == {e \in expenses : e.rule = r}
Dates(rows) == {e.date : e \in rows}
Schedule(q) == {Occurrence[q][k] : k \in 0 .. q.occ - 1}

\* A transaction past its first statement holds the row of its rule.
Holds(p) == pc[p] \in {"delete", "generate", "copy", "remove"}
Free(r) == \A p \in Procs : Holds(p) => loc[p].rule # r

\* Faulty variant: the first date after today is skipped too.
GeneratedLate(q, t) == {d \in Schedule(q) : d > t}

\* generateExpensesFromRecurring: the loop skips the dates before today, and
\* counts them against the occurrences.
Generated(q, t) == {d \in Schedule(q) : t <= d}

Stamped(r, dates, n, q) ==
    {[rule |-> r, date |-> d, ver |-> n, plan |-> q] : d \in dates}

----------------------------------------------------------------------------
\* AddRecurringExpense: the rule and all its instances in one transaction.
AddRecurringExpense(r, q) ==
    /\ rule[r].state = "none"
    /\ rule' = [rule EXCEPT ![r] = [state |-> "live", plan |-> q, ver |-> 1]]
    /\ expenses' = expenses \cup Stamped(r, Schedule(q), 1, q)
    /\ owed' = [owed EXCEPT ![r] = Schedule(q)]
    /\ UNCHANGED <<now, pc, loc, hand, crossed, kept>>

----------------------------------------------------------------------------
(* UpdateRecurringExpense *)

UpdateBegin(p) ==
    /\ pc[p] = "idle"
    /\ \E r \in Rules, q \in Plans, a \in BOOLEAN :
         /\ rule[r].state # "none"
         /\ loc' = [loc EXCEPT ![p] = [@ EXCEPT !.rule = r, !.plan = q, !.all = a]]
    /\ Goto(p, "lock")
    /\ UNCHANGED <<now, rule, expenses, hist>>

\* Faulty variant: the UPDATE of the rule comes last, so that nothing waits.
UpdateRuleUnlocked(p) ==
    /\ pc[p] = "lock"
    /\ Goto(p, "delete")
    /\ UNCHANGED <<now, rule, expenses, loc, hist>>

\* The UPDATE of the rule: it waits for the row, and finds it or answers.
UpdateRule(p) ==
    /\ pc[p] = "lock"
    /\ Free(loc[p].rule)
    /\ rule[loc[p].rule].ver < MaxVersion
    /\ IF rule[loc[p].rule].state = "live"
       THEN Goto(p, "delete") /\ UNCHANGED loc
       ELSE Answer(p)
    /\ UNCHANGED <<now, rule, expenses, hist>>

\* DELETE FROM expenses, of all instances or of those dated after now.
DeleteInstances(p) ==
    /\ pc[p] = "delete"
    /\ LET t == IF loc[p].all THEN 0 ELSE now
       IN  loc' = [loc EXCEPT ![p] = [@ EXCEPT !.at = t,
                     !.gone = {e \in Instances(loc[p].rule) : t <= e.date}]]
    /\ Goto(p, "generate")
    /\ UNCHANGED <<now, rule, expenses, hist>>

\* The generator's own reading of the clock.
Generate(p) ==
    /\ pc[p] = "generate"
    /\ LET t == IF loc[p].all THEN 0 ELSE now
       IN  loc' = [loc EXCEPT ![p] = [@ EXCEPT !.till = t,
                     !.new = Generated(loc[p].plan, t)]]
    /\ Goto(p, "copy")
    /\ UNCHANGED <<now, rule, expenses, hist>>

\* COPY and COMMIT.  A date that a row of the rule already has breaks the
\* unique index and the whole transaction with it.
Copy(p) ==
    /\ pc[p] = "copy"
    /\ LET r == loc[p].rule  q == loc[p].plan  t == loc[p].at
           stay == expenses \ loc[p].gone
           n == rule[r].ver + 1
       IN  IF loc[p].new \cap Dates(stay \cap Instances(r)) # {}
           THEN UNCHANGED <<rule, expenses, hist>>
           ELSE /\ rule' = [rule EXCEPT ![r] = [state |-> "live", plan |-> q, ver |-> n]]
                /\ expenses' = stay \cup Stamped(r, loc[p].new, n, q)
                /\ owed' = [owed EXCEPT ![r] =
                     {d \in @ : d < t} \cup {d \in Schedule(q) : t <= d}]
                /\ hand' = [hand EXCEPT ![r] = {d \in @ : d < t}]
                /\ crossed' = [crossed EXCEPT ![r] = {d \in @ : d < t}
                     \cup {d \in Schedule(q) : t <= d /\ d < loc[p].till}]
                /\ kept' = [kept EXCEPT ![r] = t]
    /\ Answer(p)
    /\ UNCHANGED now

----------------------------------------------------------------------------
(* RemoveRecurringExpense *)

RemoveBegin(p) ==
    /\ pc[p] = "idle"
    /\ \E r \in Rules, a \in BOOLEAN :
         /\ rule[r].state # "none"
         /\ loc' = [loc EXCEPT ![p] = [@ EXCEPT !.rule = r, !.all = a]]
    /\ Goto(p, "lock_removal")
    /\ UNCHANGED <<now, rule, expenses, hist>>

\* The DELETE of the rule: it waits for the row, and finds it or answers.
RemoveRule(p) ==
    /\ pc[p] = "lock_removal"
    /\ Free(loc[p].rule)
    /\ IF rule[loc[p].rule].state = "live"
       THEN Goto(p, "remove") /\ UNCHANGED loc
       ELSE Answer(p)
    /\ UNCHANGED <<now, rule, expenses, hist>>

\* The DELETE of the instances, and COMMIT.
RemoveInstances(p) ==
    /\ pc[p] = "remove"
    /\ LET r == loc[p].rule  t == IF loc[p].all THEN 0 ELSE now
       IN  /\ rule' = [rule EXCEPT ![r].state = "removed"]
           /\ expenses' = {e \in expenses : e.rule = r => e.date < t}
           /\ owed' = [owed EXCEPT ![r] = {d \in @ : d < t}]
           /\ kept' = [kept EXCEPT ![r] = t]
    /\ Answer(p)
    /\ UNCHANGED <<now, hand, crossed>>

\* A statement fails, the client goes away or the server dies: rolled back.
Fail(p) ==
    /\ pc[p] # "idle"
    /\ Answer(p)
    /\ UNCHANGED <<now, rule, expenses, hist>>

----------------------------------------------------------------------------
(* EditExpense and DeleteExpense of single instances *)

\* A row that an open transaction deleted is waited for.
Settled(e) == \A p \in Procs : e \notin loc[p].gone

\* Faulty variant: the client's recurringID is taken, which it does not send.
EditExpenseUnlinked(e, d) ==
    /\ Settled(e)
    /\ d \notin Dates(Instances(e.rule) \ {e})
    /\ expenses' = (expenses \ {e})
         \cup {[e EXCEPT !.rule = NoRuleId, !.date = d, !.ver = ByHand]}
    /\ hand' = [hand EXCEPT ![e.rule] = @ \cup {e.date}]
    /\ UNCHANGED <<now, rule, pc, loc, owed, crossed, kept>>

\* The link to the rule is kept; a date that another row has is refused.
EditExpense(e, d) ==
    /\ Settled(e)
    /\ d \notin Dates(Instances(e.rule) \ {e})
    /\ expenses' = (expenses \ {e}) \cup {[e EXCEPT !.date = d, !.ver = ByHand]}
    /\ hand' = [hand EXCEPT ![e.rule] = @ \cup {e.date}]
    /\ UNCHANGED <<now, rule, pc, loc, owed, crossed, kept>>

DeleteExpense(e) ==
    /\ Settled(e)
    /\ expenses' = expenses \ {e}
    /\ hand' = [hand EXCEPT ![e.rule] = @ \cup {e.date}]
    /\ UNCHANGED <<now, rule, pc, loc, owed, crossed, kept>>

----------------------------------------------------------------------------
Tick ==
    /\ \E t \in Times : now < t /\ now' = t
    /\ UNCHANGED <<rule, expenses, pc, loc, hist>>

Update(p) == \/ UpdateBegin(p) \/ UpdateRule(p) \/ DeleteInstances(p)
             \/ Generate(p) \/ Copy(p)
Remove(p) == RemoveBegin(p) \/ RemoveRule(p) \/ RemoveInstances(p)

Next ==
    \/ Tick
    \/ \E r \in Rules, q \in Plans : AddRecurringExpense(r, q)
    \/ \E p \in Procs : Update(p) \/ Remove(p) \/ Fail(p)
    \/ \E e \in expenses : DeleteExpense(e) \/ \E d \in EditDates : EditExpense(e, d)

Spec == Init /\ [][Next]_vars

----------------------------------------------------------------------------
TypeOK ==
    /\ now \in Nat
    /\ rule \in [Rules -> Rule]
    /\ expenses \subseteq Expense
    /\ pc \in [Procs -> PCs]
    /\ loc \in [Procs -> Loc]
    /\ owed \in [Rules -> SUBSET Nat] /\ hand \in [Rules -> SUBSET Nat]
    /\ crossed \in [Rules -> SUBSET Nat]
    /\ kept \in [Rules -> Nat]

Generates(r) == {e \in Instances(r) : e.ver # ByHand}

\* An instance that no hand has touched belongs to the rule as it stands, or
\* was due before the change that replaced it: of overlapping changes of one
\* rule none leaves the instances of the other behind.
NoLeftovers ==
    \A r \in Rules : \A e \in Generates(r) :
        e.date < kept[r] \/ (rule[r].state = "live" /\ e.ver = rule[r].ver)

\* The instances are those that the plans ask for, no more and no fewer, but
\* for what the user did to single ones and for the dates that came between
\* the readings of the clock of one update.
ScheduleKept ==
    \A r \in Rules :
        /\ Dates(Generates(r)) \subseteq owed[r]
        /\ owed[r] \ Dates(Generates(r)) \subseteq hand[r] \cup crossed[r]

\* A monthly rule that starts on a day every month has stays on that day.
MonthlyOnItsDay ==
    \A r \in Rules : \A e \in Generates(r) :
        e.plan.interval = "monthly" /\ DayOfMonth(e.plan.start) <= 28 =>
            DayOfMonth(e.date) = DayOfMonth(e.plan.start)
=============================================================================
