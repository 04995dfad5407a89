---------------------------- MODULE Reconciliation ----------------------------
(***************************************************************************)
(* The cash ledger of one user and the reconciliation of its balance:      *)
(* internal/storage/databaseStore.go over PostgreSQL at READ COMMITTED,    *)
(* without SELECT ... FOR UPDATE.  A request is a process; it takes one    *)
(* step per point at which another request's commit can show or a lock can *)
(* make it wait, so consecutive statements that neither see nor block      *)
(* anything in between are one step.  What a transaction has written and   *)
(* not committed is in its own loc; a commit publishes it.                 *)
(*                                                                         *)
(* Startup (createTables) runs before the server listens: it turns the     *)
(* conciliation movements that older versions kept as ordinary expenses    *)
(* into reconciliation rows and locks them.  A crash may fall anywhere,    *)
(* and a row the migration cannot take ends every start.                   *)
(*                                                                         *)
(* Left out: card and foreign-currency sums other than the reconciled one  *)
(* (a row is in that sum or not, field cash), names, notes.                *)
(***************************************************************************)
EXTENDS Integers, FiniteSets, FiniteSetsExt

CONSTANTS
    ExpenseIds,   \* uuids an expense row can get; their number bounds a run
    Procs,        \* requests the server works on at a time
    Keys,         \* values of the Idempotency-Key header
    NoKey,        \* the header is absent
    None,         \* no expense
    Targets,      \* bank balances the user may report
    MaxAmount,    \* NUMERIC(10, 2) holds amounts up to this
    UserRows,     \* rows the expense endpoints may write
    Ledgers,      \* databases an older version may have left: rows by id
    MaxTime,      \* bound: the clock stops there
    MaxCrashes    \* bound: crashes of the server in a run

Amounts == -MaxAmount .. MaxAmount

\* A difference as a request remembers it: what the column cannot hold is alike.
Overflow == MaxAmount + 1
Clip(d) == IF d \in Amounts THEN d ELSE Overflow

Kinds == {"plain", "adjustment", "reversal"}  \* by category and name

\* What the migration makes of a row: "unread" has NULL in a column its scan
\* reads, "unfit" has tags that no column of reconciliations holds (a target
\* beyond NUMERIC(14, 2), a key of more than 120 characters).
Forms == {"good", "unfit", "unread"}

\* tag: the expense a legacy reversal's tags refer to; key: the key in the tags.
Row == [amount : Amounts, date : Nat, cash : BOOLEAN, kind : Kinds, locked : BOOLEAN,
        tag : ExpenseIds \cup {None}, key : Keys \cup {NoKey}, form : Forms]

NoRec == [status |-> "none", delta |-> 0, key |-> NoKey, reversal |-> None]
Rec == [status : {"applied", "reverted"}, delta : Amounts,
        key : Keys \cup {NoKey}, reversal : ExpenseIds \cup {None}]

\* Faulty variant: the system row is stored unlocked, as AddExpense stores rows.
SystemRowUnlocked(a, k, t) ==
    [amount |-> a, date |-> t, cash |-> TRUE, kind |-> k, locked |-> FALSE,
     tag |-> None, key |-> NoKey, form |-> "good"]

\* A system row is dated by the clock its request read on arrival.
SystemRow(a, k, t) ==
    [amount |-> a, date |-> t, cash |-> TRUE, kind |-> k, locked |-> TRUE,
     tag |-> None, key |-> NoKey, form |-> "good"]

ASSUME ReconciliationAssumption ==
    /\ MaxAmount \in Nat \ {0}
    /\ MaxTime \in Nat
    /\ MaxCrashes \in Nat
    /\ None \notin ExpenseIds
    /\ NoKey \notin Keys
    /\ Targets \subseteq Int
    /\ \A r \in UserRows : r \in Row /\ ~r.locked /\ r.form # "unread"
    /\ \A legacy \in Ledgers :
         /\ DOMAIN legacy \subseteq ExpenseIds
         /\ \A i \in DOMAIN legacy : legacy[i] \in Row /\ ~legacy[i].locked

\* A database has finitely many rows.
ASSUME FiniteLedger == \A legacy \in Ledgers : IsFiniteSet(DOMAIN legacy)

VARIABLES
    live,        \* ids of the committed rows of table expenses
    exp,         \* their contents, by id
    rec,         \* table reconciliations, by adjustment_expense_id (unique)
    server,      \* "down", "scan" and "boot" (createTables) or "up"
    todo,        \* boot: legacy rows still to visit
    half,        \* boot: row recorded and not yet locked
    pc,          \* where each request is
    loc,         \* what each request holds in memory
    used,        \* history: ids of rows ever committed (a uuid is never reused)
    undone,      \* history: <<adjustment, reversal>> of each revert answered 200
    overlapped,  \* history: applies that another commit overtook
    time,        \* the clock
    crashes      \* crashes so far

db == <<live, exp, rec>>
boot == <<server, todo, half>>
hist == <<used, undone, overlapped>>
env == <<time, crashes>>
vars == <<db, boot, pc, loc, hist, env>>

PCs == {"idle", "asked", "find", "record", "applied", "revert", "update", "reverted",
        "edit", "remove"}

Loc == [target : Int, key : Keys \cup {NoKey}, delta : Amounts \cup {Overflow},
        ids : SUBSET ExpenseIds, new : ExpenseIds \cup {None}, now : Nat]
NoLoc == [target |-> 0, key |-> NoKey, delta |-> 0, ids |-> {}, new |-> None, now |-> 0]

BlankRow == SystemRow(0, "plain", 0)

Init ==
    /\ \E legacy \in Ledgers :
         /\ live = DOMAIN legacy
         /\ exp = [i \in ExpenseIds |-> IF i \in DOMAIN legacy
                                        THEN legacy[i] ELSE BlankRow]
         /\ used = DOMAIN legacy
    /\ rec = [i \in ExpenseIds |-> NoRec]
    /\ server = "down" /\ todo = {} /\ half = None
    /\ pc = [p \in Procs |-> "idle"]
    /\ loc = [p \in Procs |-> NoLoc]
    /\ undone = {} /\ overlapped = {}
    /\ time = 0 /\ crashes = 0

----------------------------------------------------------------------------
(* Helpers *)

\* SUM(amount) over the rows of the cash account.
Total(ids, rows) ==
    MapThenSumSet(LAMBDA i : rows[i].amount, {i \in ids : rows[i].cash})

\* The same, of the rows dated t or earlier: the balance at the time t.
Balance(ids, rows, t) == Total({i \in ids : rows[i].date <= t}, rows)

Recorded == {i \in ExpenseIds : rec[i] # NoRec}

\* The unique index on (user_id, idempotency_key), over committed rows.
KeyTaken(k) == k # NoKey /\ \E i \in Recorded : rec[i].key = k

\* Rows a foreign key of reconciliations protects (ON DELETE RESTRICT).
Referenced(i) == i \in Recorded \/ \E j \in Recorded : rec[j].reversal = i

Goto(p, l) == pc' = [pc EXCEPT ![p] = l]

\* A new uuid: no row has or had it and no open transaction drew it.  One such
\* id is as good as another, so that one is taken of those that are left.
Undrawn == ExpenseIds \ (used \cup {loc[p].new : p \in Procs})
Fresh == {i \in Undrawn : i = CHOOSE j \in Undrawn : TRUE}

\* The request is answered; its memory is gone.
Answer(p) == Goto(p, "idle") /\ loc' = [loc EXCEPT ![p] = NoLoc]

At(p, l) == server = "up" /\ pc[p] = l

\* What an apply holds since it read the balance.
Computed == {"find", "record", "applied"}

\* p commits a change of the ledger under the feet of every apply that has read it.
Commit(p) == overlapped' = {q \in Procs \ {p} : pc[q] \in Computed}

----------------------------------------------------------------------------
(* ApplyReconciliation *)

\* The handler reads the clock, for the sum and for the date of its adjustment.
ApplyBegin(p) ==
    /\ At(p, "idle")
    /\ \E t \in Targets, k \in Keys \cup {NoKey}, i \in Fresh :
         loc' = [loc EXCEPT ![p].target = t, ![p].key = k, ![p].new = i,
                            ![p].now = time]
    /\ Goto(p, "asked")
    /\ UNCHANGED <<db, boot, hist, env>>

\* Faulty variant: movements dated ahead count at once.
DifferenceUndated(p) == loc[p].target - Total(live, exp)

\* What the bank has and the ledger lacks, by the clock of the request.
Difference(p) == loc[p].target - Balance(live, exp, loc[p].now)

\* SELECT SUM(amount) ... date <= now.
ApplyRead(p) ==
    /\ At(p, "asked")
    /\ Difference(p) # 0
    /\ loc' = [loc EXCEPT ![p].delta = Clip(Difference(p))]
    /\ Goto(p, "find")
    /\ overlapped' = overlapped \ {p}
    /\ UNCHANGED <<db, boot, used, undone, env>>

\* The balance agrees: answered "noop", and nothing is written.
ApplyNoop(p) ==
    /\ At(p, "asked")
    /\ Difference(p) = 0
    /\ Answer(p)
    /\ UNCHANGED <<db, boot, hist, env>>

\* getReconciliationByIdempotencyTx finds the key: answered "duplicate".
ApplyDuplicate(p) ==
    /\ At(p, "find")
    /\ KeyTaken(loc[p].key)
    /\ Answer(p)
    /\ UNCHANGED <<db, boot, hist, env>>

\* The adjustment does not fit its column: answered 500, nothing written.
ApplyOverflow(p) ==
    /\ At(p, "find")
    /\ ~KeyTaken(loc[p].key)
    /\ loc[p].delta = Overflow
    /\ Answer(p)
    /\ UNCHANGED <<db, boot, hist, env>>

\* Faulty variant: no limit on the amount.
ApplyInsertUnbounded(p) ==
    /\ At(p, "find")
    /\ ~KeyTaken(loc[p].key)
    /\ Goto(p, "record")
    /\ UNCHANGED <<db, boot, loc, hist, env>>

\* The locked adjustment is inserted, visible to this transaction only.
ApplyInsert(p) ==
    /\ At(p, "find")
    /\ ~KeyTaken(loc[p].key)
    /\ loc[p].delta # Overflow
    /\ Goto(p, "record")
    /\ UNCHANGED <<db, boot, loc, hist, env>>

\* Faulty variant: waits for any transaction that wants the key.
KeyWanted(p) ==
    /\ loc[p].key # NoKey
    /\ \E q \in Procs \ {p} :
         pc[q] \in {"record", "applied"} /\ loc[q].key = loc[p].key

\* Another transaction holds an uncommitted entry for the same key.
KeyPending(p) ==
    /\ loc[p].key # NoKey
    /\ \E q \in Procs \ {p} : pc[q] = "applied" /\ loc[q].key = loc[p].key

\* Faulty variant: no unique index on the key.
ApplyRecordUnindexed(p) ==
    /\ At(p, "record")
    /\ Goto(p, "applied")
    /\ UNCHANGED <<db, boot, loc, hist, env>>

\* Insert into reconciliations: waits for a pending entry of its key.
ApplyRecord(p) ==
    /\ At(p, "record")
    /\ ~KeyPending(p)
    /\ ~KeyTaken(loc[p].key)
    /\ Goto(p, "applied")
    /\ UNCHANGED <<db, boot, loc, hist, env>>

\* 23505: the lookup that follows runs in the aborted transaction and fails
\* too, so the request is rolled back and answered 500, never "duplicate".
ApplyCollision(p) ==
    /\ At(p, "record")
    /\ ~KeyPending(p)
    /\ KeyTaken(loc[p].key)
    /\ Answer(p)
    /\ UNCHANGED <<db, boot, hist, env>>

ApplyCommit(p) ==
    /\ At(p, "applied")
    /\ LET i == loc[p].new
       IN  /\ live' = live \cup {i}
           /\ exp' = [exp EXCEPT ![i] = SystemRow(loc[p].delta, "adjustment", loc[p].now)]
           /\ rec' = [rec EXCEPT ![i] =
                [status |-> "applied", delta |-> loc[p].delta,
                 key |-> loc[p].key, reversal |-> None]]
           /\ used' = used \cup {i}
    /\ Answer(p)
    /\ Commit(p)
    /\ UNCHANGED <<boot, undone, env>>

----------------------------------------------------------------------------
(* RevertReconciliation *)

\* The handler reads the clock for the date of the reversal.  An id that no
\* record has is answered 404 and changes nothing.
RevertBegin(p) ==
    /\ At(p, "idle")
    /\ \E a \in Recorded, i \in Fresh :
         loc' = [loc EXCEPT ![p].ids = {a}, ![p].new = i, ![p].now = time]
    /\ Goto(p, "revert")
    /\ UNCHANGED <<db, boot, hist, env>>

Reverted(a) == rec[a].status = "reverted" \/ rec[a].reversal # None

\* Faulty variant: the reversal repeats the adjustment instead of cancelling it.
RevertReadUnnegated(p) ==
    /\ At(p, "revert")
    /\ \E a \in loc[p].ids :
         /\ ~Reverted(a)
         /\ loc' = [loc EXCEPT ![p].delta = exp[a].amount]
    /\ Goto(p, "update")
    /\ UNCHANGED <<db, boot, hist, env>>

\* Reads the record and its adjustment and inserts the locked reversal.
RevertRead(p) ==
    /\ At(p, "revert")
    /\ \E a \in loc[p].ids :
         /\ ~Reverted(a)
         /\ loc' = [loc EXCEPT ![p].delta = -exp[a].amount]
    /\ Goto(p, "update")
    /\ UNCHANGED <<db, boot, hist, env>>

\* ErrReconciliationAlreadyReverted: answered 409.
RevertRefused(p) ==
    /\ At(p, "revert")
    /\ \A a \in loc[p].ids : Reverted(a)
    /\ Answer(p)
    /\ UNCHANGED <<db, boot, hist, env>>

\* UPDATE reconciliations ... WHERE id: waits for the row lock of another
\* uncommitted revert, and does not look at the status again.
RevertUpdate(p) ==
    /\ At(p, "update")
    /\ \A q \in Procs \ {p} : pc[q] = "reverted" => loc[q].ids # loc[p].ids
    /\ Goto(p, "reverted")
    /\ UNCHANGED <<db, boot, loc, hist, env>>

RevertCommit(p) ==
    /\ At(p, "reverted")
    /\ LET i == loc[p].new
       IN  /\ live' = live \cup {i}
           /\ exp' = [exp EXCEPT ![i] = SystemRow(loc[p].delta, "reversal", loc[p].now)]
           /\ rec' = [a \in ExpenseIds |->
                IF a \in loc[p].ids
                THEN [rec[a] EXCEPT !.status = "reverted", !.reversal = i]
                ELSE rec[a]]
           /\ undone' = undone \cup (loc[p].ids \X {i})
           /\ used' = used \cup {i}
    /\ Answer(p)
    /\ Commit(p)
    /\ UNCHANGED <<boot, env>>

----------------------------------------------------------------------------
(* The expense endpoints: single statements, the lock checked beforehand *)

AddExpense(p) ==
    /\ At(p, "idle")
    /\ \E i \in Fresh, r \in UserRows :
         /\ live' = live \cup {i}
         /\ exp' = [exp EXCEPT ![i] = r]
         /\ used' = used \cup {i}
    /\ Commit(p)
    /\ UNCHANGED <<rec, boot, pc, loc, undone, env>>

\* Faulty variant: the lock is not looked at.
EditCheckUnlocked(p) ==
    /\ At(p, "idle")
    /\ \E i \in live : loc' = [loc EXCEPT ![p].ids = {i}]
    /\ Goto(p, "edit")
    /\ UNCHANGED <<db, boot, hist, env>>

\* SELECT system_locked; a locked or missing row is refused.
EditCheck(p) ==
    /\ At(p, "idle")
    /\ \E i \in live : ~exp[i].locked /\ loc' = [loc EXCEPT ![p].ids = {i}]
    /\ Goto(p, "edit")
    /\ UNCHANGED <<db, boot, hist, env>>

EditWrite(p) ==
    /\ At(p, "edit")
    /\ \E r \in UserRows :
         exp' = [i \in ExpenseIds |->
            IF i \in loc[p].ids \cap live
            THEN [r EXCEPT !.locked = exp[i].locked] ELSE exp[i]]
    /\ Answer(p)
    /\ Commit(p)
    /\ UNCHANGED <<live, rec, boot, used, undone, env>>

\* RemoveExpense and RemoveMultipleExpenses: one locked row refuses them all.
RemoveCheck(p) ==
    /\ At(p, "idle")
    /\ \E ids \in SUBSET live :
         /\ ids # {}
         /\ \A i \in ids : ~exp[i].locked
         /\ loc' = [loc EXCEPT ![p].ids = ids]
    /\ Goto(p, "remove")
    /\ UNCHANGED <<db, boot, hist, env>>

\* A foreign key makes the whole statement fail.
RemoveWrite(p) ==
    /\ At(p, "remove")
    /\ live' = IF \E i \in loc[p].ids \cap live : Referenced(i)
               THEN live ELSE live \ loc[p].ids
    /\ Answer(p)
    /\ Commit(p)
    /\ UNCHANGED <<exp, rec, boot, used, undone, env>>

----------------------------------------------------------------------------
(* createTables: backfillLegacyReconciliations, one statement per step *)

\* Rows the migration visits, by category and name; a reversal needs its tag.
Legacy(r) == \/ r.kind = "adjustment"
             \/ r.kind = "reversal" /\ r.tag # None

BootStart ==
    /\ server = "down"
    /\ server' = "scan"
    /\ UNCHANGED <<db, todo, half, pc, loc, hist, env>>

Readable == \A i \in live : exp[i].form # "unread"

\* One scan over the rows of all users makes the lists of the migration.
Scan ==
    /\ server = "scan"
    /\ Readable
    /\ server' = "boot"
    /\ todo' = {i \in live : Legacy(exp[i])}
    /\ UNCHANGED <<db, half, pc, loc, hist, env>>

\* A row it cannot read: createTables returns the error, the program ends.
ScanFails ==
    /\ server = "scan"
    /\ ~Readable
    /\ server' = "down"
    /\ UNCHANGED <<db, todo, half, pc, loc, hist, env>>

Booting(i) == server = "boot" /\ half = None /\ i \in todo

\* Faulty variant: a row that has its record is skipped altogether.
BackfillKnownSkipped(i) ==
    /\ Booting(i)
    /\ exp[i].kind = "adjustment"
    /\ i \in Recorded
    /\ todo' = todo \ {i}
    /\ UNCHANGED <<db, server, half, pc, loc, hist, env>>

\* A row that has its record only needs its lock.
BackfillKnown(i) ==
    /\ Booting(i)
    /\ exp[i].kind = "adjustment"
    /\ i \in Recorded
    /\ half' = i
    /\ UNCHANGED <<db, server, todo, pc, loc, hist, env>>

\* The insert goes through: the tags fit their columns and the key is new.
Recordable(i) == exp[i].form # "unfit" /\ ~KeyTaken(exp[i].key)

BackfillRecord(i) ==
    /\ Booting(i)
    /\ exp[i].kind = "adjustment"
    /\ i \notin Recorded
    /\ Recordable(i)
    /\ rec' = [rec EXCEPT ![i] = [status |-> "applied", delta |-> exp[i].amount,
                                  key |-> exp[i].key, reversal |-> None]]
    /\ half' = i
    /\ UNCHANGED <<live, exp, server, todo, pc, loc, hist, env>>

\* Two rows with one key, or tags that fit no column: the insert fails,
\* createTables returns the error and the program ends.
BackfillRefused(i) ==
    /\ Booting(i)
    /\ exp[i].kind = "adjustment"
    /\ i \notin Recorded
    /\ ~Recordable(i)
    /\ server' = "down" /\ todo' = {}
    /\ UNCHANGED <<db, half, pc, loc, hist, env>>

\* Reversals come after every adjustment.  One that names no record updates
\* nothing and is locked all the same.
BackfillReversal(i) ==
    /\ Booting(i)
    /\ exp[i].kind = "reversal"
    /\ \A j \in todo : exp[j].kind = "reversal"
    /\ rec' = [a \in ExpenseIds |->
         IF a \in Recorded /\ a = exp[i].tag
         THEN [rec[a] EXCEPT !.status = "reverted", !.reversal = i] ELSE rec[a]]
    /\ half' = i
    /\ UNCHANGED <<live, exp, server, todo, pc, loc, hist, env>>

\* Faulty variant: the row stays on the list.
BackfillLockRepeated ==
    /\ server = "boot"
    /\ half # None
    /\ exp' = [exp EXCEPT ![half].locked = TRUE]
    /\ half' = None
    /\ UNCHANGED <<live, rec, server, todo, pc, loc, hist, env>>

BackfillLock ==
    /\ server = "boot"
    /\ half # None
    /\ exp' = [exp EXCEPT ![half].locked = TRUE]
    /\ todo' = todo \ {half}
    /\ half' = None
    /\ UNCHANGED <<live, rec, server, pc, loc, hist, env>>

BootDone ==
    /\ server = "boot" /\ half = None /\ todo = {}
    /\ server' = "up"
    /\ UNCHANGED <<db, todo, half, pc, loc, hist, env>>

\* The process dies: PostgreSQL rolls back what was not committed.
Crash ==
    /\ server # "down"
    /\ crashes < MaxCrashes
    /\ crashes' = crashes + 1
    /\ server' = "down" /\ todo' = {} /\ half' = None
    /\ pc' = [p \in Procs |-> "idle"]
    /\ loc' = [p \in Procs |-> NoLoc]
    /\ overlapped' = {}
    /\ UNCHANGED <<db, used, undone, time>>

Tick ==
    /\ time < MaxTime
    /\ time' = time + 1
    /\ UNCHANGED <<db, boot, pc, loc, hist, crashes>>

----------------------------------------------------------------------------
Apply(p) == \/ ApplyRead(p) \/ ApplyNoop(p) \/ ApplyDuplicate(p) \/ ApplyOverflow(p)
            \/ ApplyInsert(p) \/ ApplyRecord(p) \/ ApplyCollision(p) \/ ApplyCommit(p)
Revert(p) == RevertRead(p) \/ RevertRefused(p) \/ RevertUpdate(p) \/ RevertCommit(p)
Write(p) == EditWrite(p) \/ RemoveWrite(p)

\* A request that has begun takes its next step.
Proceed(p) == Apply(p) \/ Revert(p) \/ Write(p)

\* A client sends a request.
Begin(p) == \/ ApplyBegin(p) \/ RevertBegin(p) \/ AddExpense(p)
            \/ EditCheck(p) \/ RemoveCheck(p)

Backfill == \E i \in ExpenseIds : \/ BackfillKnown(i) \/ BackfillRecord(i)
                                  \/ BackfillRefused(i) \/ BackfillReversal(i)

Boot == BootStart \/ Scan \/ ScanFails \/ Backfill \/ BackfillLock \/ BootDone

Next == Boot \/ Crash \/ Tick \/ \E p \in Procs : Begin(p) \/ Proceed(p)

Spec == Init /\ [][Next]_vars

\* The scheduler runs every request and the startup code; clients and crashes
\* owe nothing.
FairSpec == Spec /\ WF_vars(Boot) /\ \A p \in Procs : WF_vars(Proceed(p))

----------------------------------------------------------------------------
TypeOK ==
    /\ live \subseteq ExpenseIds
    /\ exp \in [ExpenseIds -> Row]
    /\ rec \in [ExpenseIds -> Rec \cup {NoRec}]
    /\ server \in {"down", "scan", "boot", "up"}
    /\ todo \subseteq ExpenseIds
    /\ half \in ExpenseIds \cup {None}
    /\ pc \in [Procs -> PCs]
    /\ loc \in [Procs -> Loc]
    /\ used \subseteq ExpenseIds
    /\ undone \subseteq ExpenseIds \X ExpenseIds
    /\ overlapped \subseteq Procs
    /\ time \in Nat
    /\ crashes \in Nat

\* What the history screen lists is what the ledger holds: a record has its
\* adjustment row, with the amount it states, a reverted record has its
\* reversal row, and while the server listens nobody can edit or delete them
\* (handlers: "Este movimiento es de sistema").
RecordsBacked ==
    \A a \in Recorded :
        /\ a \in live
        /\ exp[a].amount = rec[a].delta
        /\ server = "up" => exp[a].locked
        /\ rec[a].status = "reverted" <=> rec[a].reversal # None
        /\ rec[a].reversal # None =>
             /\ rec[a].reversal \in live \ {a}
             /\ server = "up" => exp[rec[a].reversal].locked

\* However two applies with one Idempotency-Key interleave, with each other
\* and with the migration, the key adjusts the balance once.
KeysUnique ==
    \A a, b \in Recorded : rec[a].key = rec[b].key /\ rec[a].key # NoKey => a = b

\* A revert that was answered 200 left a locked row that cancels the
\* adjustment, and the record stays reverted for good.
RevertsOffset ==
    \A u \in undone :
        /\ {u[1], u[2]} \subseteq live
        /\ exp[u[2]].amount = -exp[u[1]].amount
        /\ exp[u[2]].locked
        /\ rec[u[1]].status = "reverted"

\* No request, however its check and its write are separated, changes or
\* removes a locked row (ErrSystemLockedExpense).
LockedImmutable ==
    [][\A i \in live : exp[i].locked => i \in live' /\ exp'[i] = exp[i]]_vars

\* A movement of the account that the clock of p was too early for.
Late(p, i) == exp[i].cash /\ loc[p].now < exp[i].date /\ exp[i].date <= time

\* An apply leaves the balance the user asked for, as the screen shows it at its
\* commit, unless another commit overtook its read, or a movement it left out is
\* dated after its clock: an adjustment of a request that arrived later, though
\* it was committed before the read, is one.
AlignedUnlessOvertaken ==
    [][\A p \in Procs :
          /\ ApplyCommit(p)
          /\ p \notin overlapped
          /\ \A i \in live : ~Late(p, i)
          => Balance(live', exp', time) = loc[p].target]_vars

\* When the server starts to listen every legacy movement is locked and every
\* legacy adjustment recorded, wherever earlier boots crashed.
BootLocksLegacy ==
    [][BootDone => \A i \in live : Legacy(exp[i]) =>
            /\ exp[i].locked
            /\ exp[i].kind = "adjustment" => i \in Recorded]_vars

LegacyKeysDistinct ==
    \A i, j \in live :
        exp[i].kind = "adjustment" /\ i \notin Recorded /\ exp[i].key # NoKey =>
            /\ ~KeyTaken(exp[i].key)
            /\ exp[j].kind = "adjustment" /\ exp[j].key = exp[i].key => i = j

\* Every request is answered: no wait on a key or a row is for ever.
AnswersArrive == \A p \in Procs : pc[p] # "idle" ~> pc[p] = "idle"

\* Nothing in the ledger ends the migration at every start.
MigrationPossible ==
    /\ Readable
    /\ \A i \in live : exp[i].kind = "adjustment" /\ i \notin Recorded
                        => exp[i].form # "unfit"
    /\ LegacyKeysDistinct

\* The server comes back after every crash, however often the migration is
\* cut short, unless the ledger has a row the migration cannot take.
BootCompletes == server # "up" /\ MigrationPossible ~> server = "up"

\* The statements of all requests and of the migration, each a step of its own,
\* do what a history does that moves in one piece with the balance: no adjustment
\* without its entry, none twice under one key, none changed by the user.
Abstract == INSTANCE CashLedger WITH
    Ids <- ExpenseIds,
    entry <- [i \in ExpenseIds |-> [delta |-> rec[i].delta, key |-> rec[i].key,
                                    status |-> rec[i].status]],
    own <- Total({i \in live : ~exp[i].locked}, exp),
    system <- Total({i \in live : exp[i].locked}, exp)

MovesTogether == Abstract!Spec

\* storage_test.go: the second revert of one adjustment gets
\* ErrReconciliationAlreadyReverted, so an adjustment is undone at most once.
UndoneOnce == \A u, v \in undone : u[1] = v[1] => u = v
=============================================================================
