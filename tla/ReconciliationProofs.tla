-------------------------- MODULE ReconciliationProofs --------------------------
(***************************************************************************)
(* Theorems about Reconciliation, for any number of rows, requests, keys   *)
(* and crashes.  The four invariants are proved together: none of them is  *)
(* inductive alone, because what a transaction will commit was decided in  *)
(* an earlier step, from a state that other requests have changed since.   *)
(***************************************************************************)
EXTENDS Reconciliation, FiniteSetTheorems, TLAPS

\* The uuid a transaction drew is nobody else's.
DrawnFresh ==
    \A p \in Procs : loc[p].new # None =>
        /\ loc[p].new \notin used
        /\ \A q \in Procs \ {p} : loc[q].new # loc[p].new

\* Nothing is in flight before the server listens.
Quiet == server # "up" => \A p \in Procs : pc[p] = "idle"

IdleBlank == \A p \in Procs : pc[p] = "idle" => loc[p] = NoLoc

\* A transaction that will insert a system row knows its id and its amount.
InsertReady ==
    \A p \in Procs :
        /\ pc[p] \notin {"idle", "edit", "remove"} => loc[p].new \in ExpenseIds
        /\ pc[p] \in {"record", "applied"} => loc[p].delta \in Amounts

\* An uncommitted entry of the key index is the only one of its key.
KeyHeld ==
    \A p \in Procs : pc[p] = "applied" /\ loc[p].key # NoKey =>
        /\ \A a \in Recorded : rec[a].key # loc[p].key
        /\ \A q \in Procs \ {p} : pc[q] = "applied" => loc[q].key # loc[p].key

\* The record of a revert stays, and what it read of its adjustment is still so
\* when it commits.
RevertCurrent ==
    \A p \in Procs : pc[p] \in {"revert", "update", "reverted"} =>
        \E a \in Recorded :
            /\ loc[p].ids = {a}
            /\ pc[p] # "revert" => loc[p].delta = -exp[a].amount

\* What an edit or removal found unlocked has not been locked since.
UncheckedRows ==
    \A p \in Procs : pc[p] \in {"edit", "remove"} =>
        /\ loc[p].ids \subseteq used
        /\ \A i \in loc[p].ids \cap live : ~exp[i].locked

\* Only the migration knows rows that are recorded and not yet locked.
UnlockedPending ==
    \A i \in ExpenseIds : Referenced(i) /\ ~exp[i].locked =>
        /\ server # "up"
        /\ Legacy(exp[i])
        /\ server = "boot" => i \in todo

RecordedRows ==
    \A a \in Recorded :
        /\ a \in live
        /\ exp[a].kind = "adjustment"
        /\ exp[a].amount = rec[a].delta
        /\ rec[a].status \in {"applied", "reverted"}
        /\ rec[a].status = "reverted" <=> rec[a].reversal # None
        /\ rec[a].reversal # None => rec[a].reversal \in live \ {a}

MigrationState ==
    /\ live \subseteq used
    /\ half # None => half \in todo
    /\ server = "up" => todo = {} /\ half = None
    /\ \A i \in todo : i \in live /\ Legacy(exp[i])

UndoneRows ==
    \A u \in undone :
        /\ u[1] \in Recorded /\ rec[u[1]].status = "reverted"
        /\ u[2] \in live /\ u[2] # u[1]
        /\ exp[u[1]].locked /\ exp[u[2]].locked
        /\ exp[u[2]].amount = -exp[u[1]].amount

Ledger == KeysUnique /\ UnlockedPending /\ RecordedRows /\ MigrationState
            /\ UndoneRows
InFlight == DrawnFresh /\ Quiet /\ IdleBlank /\ InsertReady /\ KeyHeld
              /\ RevertCurrent /\ UncheckedRows

IInv == TypeOK /\ Ledger /\ InFlight

----------------------------------------------------------------------------
(* Type correctness *)

\* An update of one field of a row or of a record stays in its set.
LEMMA LockField ==
    ASSUME NEW r \in Row, NEW b \in BOOLEAN
    PROVE  /\ [r EXCEPT !.locked = b] \in Row
           /\ [r EXCEPT !.locked = b].locked = b
           /\ [r EXCEPT !.locked = b].amount = r.amount
           /\ [r EXCEPT !.locked = b].kind = r.kind
           /\ [r EXCEPT !.locked = b].tag = r.tag
           /\ r.locked = b => [r EXCEPT !.locked = b] = r
  BY DEF Row

\* A reverted record stays a record and keeps its amount and its key.
LEMMA RevertFields ==
    ASSUME NEW r \in Rec, NEW i \in ExpenseIds
    PROVE  /\ [r EXCEPT !.status = "reverted", !.reversal = i] \in Rec
           /\ [r EXCEPT !.status = "reverted", !.reversal = i].status = "reverted"
           /\ [r EXCEPT !.status = "reverted", !.reversal = i].reversal = i
           /\ [r EXCEPT !.status = "reverted", !.reversal = i].delta = r.delta
           /\ [r EXCEPT !.status = "reverted", !.reversal = i].key = r.key
  BY DEF Rec

\* A reversal fits wherever its adjustment fits.
LEMMA Negated == \A a \in Amounts : -a \in Amounts
  BY ReconciliationAssumption DEF Amounts

\* The database of an older version is within the types.
LEMMA TypeInit == ASSUME Init PROVE TypeOK
<1>1. PICK legacy \in Ledgers :
        /\ live = DOMAIN legacy /\ used = DOMAIN legacy
        /\ exp = [i \in ExpenseIds |-> IF i \in DOMAIN legacy
                                       THEN legacy[i] ELSE BlankRow]
  BY DEF Init
<1>2. /\ DOMAIN legacy \subseteq ExpenseIds
      /\ \A i \in DOMAIN legacy : legacy[i] \in Row
      /\ BlankRow \in Row
  BY ReconciliationAssumption DEF BlankRow, SystemRow, Row, Amounts, Kinds, Forms
<1>3. NoLoc \in Loc
  BY ReconciliationAssumption DEF NoLoc, Loc, Amounts
<1>4. exp \in [ExpenseIds -> Row] /\ live \subseteq ExpenseIds /\ used \subseteq ExpenseIds
  BY <1>1, <1>2
<1> QED BY <1>3, <1>4 DEF Init, TypeOK, PCs

\* Every action keeps every variable in its set.
LEMMA TypeStep == ASSUME TypeOK, InFlight, [Next]_vars PROVE TypeOK'
<1> USE ReconciliationAssumption
    DEF TypeOK, PCs, At, Goto, Answer, Commit, db, boot, hist, env
<1>0. NoLoc \in Loc
  BY DEF NoLoc, Loc, Amounts
<1> USE <1>0
<1>1. ASSUME NEW p \in Procs, Begin(p) PROVE TypeOK'
  <2>1. CASE ApplyBegin(p)
    BY <2>1 DEF ApplyBegin, Loc, Fresh, Undrawn
  <2>2. CASE RevertBegin(p)
    BY <2>2 DEF RevertBegin, Loc, Fresh, Undrawn, Recorded
  <2>3. CASE AddExpense(p)
    BY <2>3 DEF AddExpense, Fresh, Undrawn
  <2>4. CASE EditCheck(p)
    <3>1. PICK i \in live : loc' = [loc EXCEPT ![p].ids = {i}]
      BY <2>4 DEF EditCheck
    <3>2. [loc[p] EXCEPT !.ids = {i}] \in Loc
      BY <3>1 DEF Loc
    <3> QED BY <2>4, <3>1, <3>2 DEF EditCheck
  <2>5. CASE RemoveCheck(p)
    <3>1. PICK ids \in SUBSET live : loc' = [loc EXCEPT ![p].ids = ids]
      BY <2>5 DEF RemoveCheck
    <3>2. loc[p] \in Loc /\ ids \in SUBSET ExpenseIds
      OBVIOUS
    <3>3. [loc[p] EXCEPT !.ids = ids] \in Loc
      BY ONLY <3>2 DEF Loc
    <3>4. loc' = [loc EXCEPT ![p] = [loc[p] EXCEPT !.ids = ids]]
      BY <3>1
    <3> QED BY <2>5, <3>3, <3>4 DEF RemoveCheck
  <2> QED BY <1>1, <2>1, <2>2, <2>3, <2>4, <2>5 DEF Begin
<1>2. ASSUME NEW p \in Procs, Apply(p) PROVE TypeOK'
  <2>1. CASE ApplyCommit(p)
    <3> DEFINE i == loc[p].new
    <3>1. i \in ExpenseIds /\ loc[p].delta \in Amounts
      BY <2>1 DEF ApplyCommit, InFlight, InsertReady, Loc
    <3>2. SystemRow(loc[p].delta, "adjustment", loc[p].now) \in Row
      BY <3>1 DEF SystemRow, Row, Kinds, Forms, Loc
    <3>3. [status |-> "applied", delta |-> loc[p].delta,
           key |-> loc[p].key, reversal |-> None] \in Rec
      BY <3>1 DEF Rec, Loc
    <3> QED BY <2>1, <3>1, <3>2, <3>3 DEF ApplyCommit
  <2>2. CASE ApplyRead(p)
    BY <2>2 DEF ApplyRead, Loc, Clip, Amounts, Overflow
  <2>3. CASE ~ApplyCommit(p) /\ ~ApplyRead(p)
    BY <1>2, <2>3 DEF Apply, ApplyNoop, ApplyDuplicate, ApplyOverflow, ApplyInsert,
                      ApplyRecord, ApplyCollision
  <2> QED BY <2>1, <2>2, <2>3
<1>3. ASSUME NEW p \in Procs, Revert(p) PROVE TypeOK'
  <2>1. CASE RevertCommit(p)
    <3> DEFINE i == loc[p].new
    <3>1. PICK a \in Recorded : loc[p].ids = {a} /\ loc[p].delta = -exp[a].amount
      BY <2>1 DEF RevertCommit, InFlight, RevertCurrent
    <3>2. i \in ExpenseIds /\ loc[p].delta \in Amounts
      <4>1. i \in ExpenseIds
        BY <2>1 DEF RevertCommit, InFlight, InsertReady
      <4>2. exp[a].amount \in Amounts
        BY <3>1 DEF Recorded, Row
      <4> QED BY <3>1, <4>1, <4>2, Negated
    <3>3. SystemRow(loc[p].delta, "reversal", loc[p].now) \in Row
      BY <3>2 DEF SystemRow, Row, Kinds, Forms, Loc
    <3>4. rec' \in [ExpenseIds -> Rec \cup {NoRec}]
      <4>1. rec[a] \in Rec
        BY <3>1 DEF Recorded
      <4>2. [rec[a] EXCEPT !.status = "reverted", !.reversal = i] \in Rec
        BY <3>2, <4>1, RevertFields
      <4> QED BY <2>1, <3>1, <4>2 DEF RevertCommit
    <3> QED BY <2>1, <3>1, <3>2, <3>3, <3>4 DEF RevertCommit, Recorded
  <2>2. CASE RevertUpdate(p) \/ RevertRefused(p)
    BY <2>2 DEF RevertUpdate, RevertRefused
  <2>3. CASE RevertRead(p)
    <3>1. PICK a \in loc[p].ids : loc' = [loc EXCEPT ![p].delta = -exp[a].amount]
      BY <2>3 DEF RevertRead
    <3>2. exp[a].amount \in Amounts
      BY DEF Loc, Row
    <3>3. -exp[a].amount \in Amounts
      BY <3>2, Negated
    <3>4. loc[p] \in Loc /\ [loc[p] EXCEPT !.delta = -exp[a].amount] \in Loc
      BY <3>3 DEF Loc
    <3>5. loc' \in [Procs -> Loc]
      BY <3>1, <3>4
    <3> QED BY <2>3, <3>5 DEF RevertRead
  <2> QED BY <1>3, <2>1, <2>2, <2>3 DEF Revert
<1>4. ASSUME NEW p \in Procs, Write(p) PROVE TypeOK'
  <2>1. CASE EditWrite(p)
    <3>1. \A r \in UserRows, i \in ExpenseIds :
            [r EXCEPT !.locked = exp[i].locked] \in Row
      BY LockField DEF Row
    <3> QED BY <2>1, <3>1 DEF EditWrite
  <2>2. CASE RemoveWrite(p)
    BY <2>2 DEF RemoveWrite
  <2> QED BY <1>4, <2>1, <2>2 DEF Write
<1>5. ASSUME Boot PROVE TypeOK'
  <2>1. ASSUME NEW i \in ExpenseIds, BackfillRecord(i) PROVE TypeOK'
    <3>1. exp[i] \in Row
      OBVIOUS
    <3>2. [status |-> "applied", delta |-> exp[i].amount,
           key |-> exp[i].key, reversal |-> None] \in Rec
      BY <3>1 DEF Row, Rec
    <3> QED BY <2>1, <3>2 DEF BackfillRecord
  <2>2. ASSUME NEW i \in ExpenseIds, BackfillReversal(i) PROVE TypeOK'
    BY <2>2, RevertFields DEF BackfillReversal, Booting, Recorded
  <2>3. CASE BackfillLock
    BY <2>3, LockField DEF BackfillLock
  <2>4. CASE BootStart \/ Scan \/ ScanFails \/ BootDone
    BY <2>4 DEF BootStart, Scan, ScanFails, BootDone
  <2>5. ASSUME NEW i \in ExpenseIds, BackfillKnown(i) \/ BackfillRefused(i)
        PROVE  TypeOK'
    BY <2>5 DEF BackfillKnown, BackfillRefused
  <2> QED BY <1>5, <2>1, <2>2, <2>3, <2>4, <2>5 DEF Boot, Backfill
<1>6. CASE Crash \/ Tick
  BY <1>6 DEF Crash, Tick
<1>7. CASE UNCHANGED vars
  BY <1>7 DEF vars
<1> QED BY <1>1, <1>2, <1>3, <1>4, <1>5, <1>6, <1>7 DEF Next, Proceed


----------------------------------------------------------------------------
(* The initial state *)

\* The initial state satisfies the inductive invariant.
LEMMA InvInit == ASSUME Init PROVE IInv
<1> USE ReconciliationAssumption
<1>1. TypeOK
  BY TypeInit
<1>2. Recorded = {}
  BY DEF Init, Recorded
<1>3. Ledger
  <2>1. live = used
    BY DEF Init
  <2> QED BY <1>2, <2>1 DEF Init, Ledger, KeysUnique, UnlockedPending, Referenced,
                            RecordedRows, MigrationState, UndoneRows
<1>4. InFlight
  BY DEF Init, NoLoc, InFlight, DrawnFresh, Quiet, IdleBlank, InsertReady, KeyHeld,
         RevertCurrent, UncheckedRows
<1> QED BY <1>1, <1>3, <1>4 DEF IInv

----------------------------------------------------------------------------
(* Steps that leave the database alone *)

\* A step that writes nothing keeps what holds of the ledger.
LEMMA LedgerStays ==
    ASSUME Ledger, UNCHANGED <<db, boot, used, undone>>
    PROVE  Ledger'
  BY DEF db, boot, hist, env, Ledger, KeysUnique, UnlockedPending, Referenced, RecordedRows,
         Recorded, MigrationState, UndoneRows

\* A refused request leaves the others as they were.
LEMMA AnswerStep ==
    ASSUME TypeOK, InFlight, NEW p \in Procs, Answer(p),
           UNCHANGED <<db, boot, used>>
    PROVE  InFlight'
<1> USE DEF TypeOK, InFlight, db, boot, hist, env, Answer, Goto, NoLoc
<1>1. DrawnFresh'
  BY DEF DrawnFresh
<1>2. Quiet' /\ IdleBlank' /\ InsertReady'
  BY DEF Quiet, IdleBlank, InsertReady
<1>3. KeyHeld'
  BY DEF KeyHeld, Recorded
<1>4. RevertCurrent' /\ UncheckedRows'
  BY DEF RevertCurrent, UncheckedRows, Recorded
<1> QED BY <1>1, <1>2, <1>3, <1>4

\* What such a step may change: the place and the memory of one request.
Others(p) == /\ UNCHANGED <<live, exp, rec, server, todo, half, used>>
             /\ \A q \in Procs \ {p} : pc'[q] = pc[q] /\ loc'[q] = loc[q]

\* The arrival of a request that will insert a system row.
LEMMA ArriveStep ==
    ASSUME IInv, NEW p \in Procs, ApplyBegin(p) \/ RevertBegin(p)
    PROVE  InFlight'
<1> USE DEF IInv, InFlight
<1>1. server = "up" /\ server' = server /\ Others(p)
  BY DEF TypeOK, ApplyBegin, RevertBegin, At, Goto, db, boot, hist, env, Others
<1>2. pc'[p] \in {"asked", "revert"}
  BY DEF TypeOK, ApplyBegin, RevertBegin, Goto
<1>3. /\ loc'[p].new \in Undrawn
      /\ pc'[p] = "revert" => \E a \in Recorded : loc'[p].ids = {a}
  <2>1. CASE ApplyBegin(p)
    <3>1. PICK t \in Targets, k \in Keys \cup {NoKey}, i \in Fresh :
            loc' = [loc EXCEPT ![p].target = t, ![p].key = k, ![p].new = i,
                               ![p].now = time]
      BY <2>1 DEF ApplyBegin
    <3>2. loc'[p].new = i
      BY <3>1 DEF TypeOK, Loc
    <3> QED BY <2>1, <3>2 DEF TypeOK, ApplyBegin, Goto, Fresh
  <2>2. CASE RevertBegin(p)
    <3>1. PICK a \in Recorded, i \in Fresh :
            loc' = [loc EXCEPT ![p].ids = {a}, ![p].new = i, ![p].now = time]
      BY <2>2 DEF RevertBegin
    <3> QED BY <3>1 DEF TypeOK, Loc, Fresh
  <2> QED BY <2>1, <2>2
<1>4. DrawnFresh'
  BY <1>1, <1>3 DEF Others, DrawnFresh, Undrawn
<1>5. Quiet' /\ IdleBlank' /\ InsertReady'
  BY <1>1, <1>2, <1>3 DEF Others, Quiet, IdleBlank, InsertReady, Undrawn
<1>6. KeyHeld' /\ UncheckedRows'
  BY <1>1, <1>2 DEF Others, KeyHeld, UncheckedRows, Recorded
<1>7. RevertCurrent'
  BY <1>1, <1>2, <1>3 DEF Others, RevertCurrent, Recorded
<1> QED BY <1>4, <1>5, <1>6, <1>7

\* A read decides what the transaction will insert.
LEMMA ReadStep ==
    ASSUME IInv, NEW p \in Procs, ApplyRead(p) \/ RevertRead(p)
    PROVE  InFlight'
<1> USE DEF IInv, InFlight
<1>1. server = "up" /\ server' = server /\ Others(p)
  BY DEF TypeOK, ApplyRead, RevertRead, At, Goto, db, boot, hist, env, Others
<1>2. /\ loc'[p].new = loc[p].new /\ loc'[p].ids = loc[p].ids
      /\ \/ pc[p] = "asked" /\ pc'[p] = "find"
         \/ pc[p] = "revert" /\ pc'[p] = "update"
  BY DEF TypeOK, Loc, ApplyRead, RevertRead, At, Goto
<1>3. pc'[p] = "update" =>
        \E a \in Recorded : loc'[p].ids = {a} /\ loc'[p].delta = -exp[a].amount
  <2>1. SUFFICES ASSUME RevertRead(p)
                 PROVE  \E a \in Recorded :
                            loc'[p].ids = {a} /\ loc'[p].delta = -exp[a].amount
    BY DEF TypeOK, ApplyRead, Goto
  <2>2. PICK a \in Recorded : loc[p].ids = {a}
    BY <2>1 DEF RevertRead, At, RevertCurrent
  <2>3. loc' = [loc EXCEPT ![p].delta = -exp[a].amount]
    BY <2>1, <2>2 DEF RevertRead
  <2> QED BY <2>2, <2>3 DEF TypeOK, Loc
<1>4. DrawnFresh' /\ Quiet' /\ IdleBlank' /\ InsertReady'
  BY <1>1, <1>2 DEF Others, DrawnFresh, Quiet, IdleBlank, InsertReady
<1>5. KeyHeld' /\ UncheckedRows'
  BY <1>1, <1>2 DEF Others, KeyHeld, UncheckedRows, Recorded
<1>6. RevertCurrent'
  BY <1>1, <1>2, <1>3 DEF Others, RevertCurrent, Recorded
<1> QED BY <1>4, <1>5, <1>6

\* The step that inserts a record waits for, or refuses, a key that is taken.
LEMMA WithinStep ==
    ASSUME IInv, NEW p \in Procs,
           ApplyInsert(p) \/ ApplyRecord(p) \/ RevertUpdate(p)
    PROVE  InFlight'
<1> USE DEF IInv, InFlight
<1>1. server = "up" /\ server' = server /\ Others(p) /\ loc' = loc
  BY DEF TypeOK, ApplyInsert, ApplyRecord, RevertUpdate, At, Goto, db, boot, hist, env, Others
<1>2. \/ pc[p] = "find" /\ pc'[p] = "record" /\ loc[p].delta \in Amounts
      \/ pc[p] = "record" /\ pc'[p] = "applied"
      \/ pc[p] = "update" /\ pc'[p] = "reverted"
  BY DEF TypeOK, Loc, ApplyInsert, ApplyRecord, RevertUpdate, At, Goto
<1>3. pc'[p] = "applied" /\ loc[p].key # NoKey =>
        /\ \A a \in Recorded : rec[a].key # loc[p].key
        /\ \A q \in Procs \ {p} : pc[q] = "applied" => loc[q].key # loc[p].key
  BY DEF TypeOK, ApplyInsert, ApplyRecord, RevertUpdate, KeyPending, KeyTaken, At, Goto
<1>4. DrawnFresh' /\ Quiet' /\ IdleBlank' /\ InsertReady'
  BY <1>1, <1>2 DEF Others, DrawnFresh, Quiet, IdleBlank, InsertReady
<1>5. KeyHeld'
  BY <1>1, <1>3 DEF Others, KeyHeld, Recorded
<1>6. RevertCurrent' /\ UncheckedRows'
  BY <1>1, <1>2 DEF Others, RevertCurrent, UncheckedRows, Recorded
<1> QED BY <1>4, <1>5, <1>6

\* An edit or removal goes on only with rows it found unlocked.
LEMMA CheckStep ==
    ASSUME IInv, NEW p \in Procs, EditCheck(p) \/ RemoveCheck(p)
    PROVE  InFlight'
<1> USE DEF IInv, InFlight
<1>1. server = "up" /\ server' = server /\ Others(p)
  BY DEF TypeOK, EditCheck, RemoveCheck, At, Goto, db, boot, hist, env, Others
<1>2. pc'[p] \in {"edit", "remove"} /\ loc'[p].new = None
  BY DEF TypeOK, Loc, NoLoc, IdleBlank, EditCheck, RemoveCheck, At, Goto
<1>3. loc'[p].ids \subseteq live /\ \A i \in loc'[p].ids : ~exp[i].locked
  BY DEF TypeOK, Loc, EditCheck, RemoveCheck
<1>4. DrawnFresh' /\ Quiet' /\ IdleBlank' /\ InsertReady'
  BY <1>1, <1>2 DEF Others, DrawnFresh, Quiet, IdleBlank, InsertReady
<1>5. KeyHeld' /\ RevertCurrent'
  BY <1>1, <1>2 DEF Others, KeyHeld, RevertCurrent, Recorded
<1>6. UncheckedRows'
  BY <1>1, <1>3 DEF Others, UncheckedRows, Ledger, MigrationState
<1> QED BY <1>4, <1>5, <1>6

----------------------------------------------------------------------------
(* Steps that commit *)

\* The committed row is new, so nothing that refers to an older row is touched.
LEMMA ApplyCommitStep == ASSUME IInv, NEW p \in Procs, ApplyCommit(p) 
    PROVE  Ledger' /\ InFlight'
<1> DEFINE i == loc[p].new
<1> USE DEF IInv
<1>1. i \in ExpenseIds /\ i \notin used /\ i \notin live /\ i # None
  BY ReconciliationAssumption
  DEF ApplyCommit, At, InFlight, InsertReady, DrawnFresh, Ledger, MigrationState
<1>2. i \notin Recorded /\ \A a \in Recorded : rec[a].reversal # i
  BY <1>1 DEF Ledger, RecordedRows
<1>3. /\ live' = live \cup {i} /\ used' = used \cup {i}
      /\ UNCHANGED <<server, todo, half, undone>>
      /\ server = "up" /\ pc[p] = "applied"
      /\ pc' = [pc EXCEPT ![p] = "idle"] /\ loc' = [loc EXCEPT ![p] = NoLoc]
  BY DEF ApplyCommit, At, Answer, Goto, boot
<1>4. /\ exp'[i].locked /\ exp'[i].kind = "adjustment"
      /\ exp'[i].amount = loc[p].delta
      /\ \A j \in ExpenseIds \ {i} : exp'[j] = exp[j]
  BY <1>1 DEF ApplyCommit, TypeOK, SystemRow
<1>5. /\ rec'[i].status = "applied" /\ rec'[i].delta = loc[p].delta
      /\ rec'[i].key = loc[p].key /\ rec'[i].reversal = None
      /\ \A j \in ExpenseIds \ {i} : rec'[j] = rec[j]
  BY <1>1 DEF ApplyCommit, TypeOK
<1>6. Recorded' = Recorded \cup {i}
  BY <1>1, <1>5 DEF Recorded, NoRec
<1>7. Ledger'
  <2>1. KeysUnique'
    BY <1>2, <1>3, <1>5, <1>6 DEF Ledger, KeysUnique, InFlight, KeyHeld, Recorded
  <2>2. UnlockedPending'
    BY <1>1, <1>2, <1>3, <1>4, <1>5, <1>6, ReconciliationAssumption
    DEF Ledger, UnlockedPending, Referenced, Recorded
  <2>3. RecordedRows'
    BY <1>1, <1>2, <1>3, <1>4, <1>5, <1>6 DEF Ledger, RecordedRows, Recorded
  <2>4. MigrationState'
    BY <1>1, <1>3, <1>4 DEF TypeOK, Ledger, MigrationState
  <2>5. UndoneRows'
    <3>1. ASSUME NEW u \in undone
          PROVE  {u[1], u[2]} \subseteq ExpenseIds \ {i}
      BY <1>1, <1>2, <3>1 DEF TypeOK, Ledger, UndoneRows
    <3> QED BY <1>3, <1>4, <1>5, <1>6, <3>1 DEF Ledger, UndoneRows
  <2> QED BY <2>1, <2>2, <2>3, <2>4, <2>5 DEF Ledger
<1>8. InFlight'
  <2> USE DEF InFlight
  <2>1. DrawnFresh' /\ Quiet' /\ IdleBlank' /\ InsertReady'
    BY <1>1, <1>3 DEF TypeOK, DrawnFresh, Quiet, IdleBlank, InsertReady, NoLoc
  <2>2. KeyHeld'
    BY <1>3, <1>5, <1>6 DEF TypeOK, KeyHeld, Recorded
  <2>3. RevertCurrent'
    BY <1>2, <1>3, <1>4, <1>6 DEF TypeOK, RevertCurrent, Recorded
  <2>4. UncheckedRows'
    BY <1>1, <1>3, <1>4 DEF TypeOK, Loc, UncheckedRows
  <2> QED BY <2>1, <2>2, <2>3, <2>4
<1> QED BY <1>7, <1>8

\* The reversal cancels the adjustment that the revert read.
LEMMA RevertCommitStep == ASSUME IInv, NEW p \in Procs, RevertCommit(p) 
    PROVE  Ledger' /\ InFlight'
<1> DEFINE i == loc[p].new
<1> USE DEF IInv
<1>1. i \in ExpenseIds /\ i \notin used /\ i \notin live /\ i # None
  BY ReconciliationAssumption
  DEF RevertCommit, At, InFlight, InsertReady, DrawnFresh, Ledger, MigrationState
<1>2. PICK a \in Recorded : loc[p].ids = {a} /\ loc[p].delta = -exp[a].amount
  BY DEF RevertCommit, At, InFlight, RevertCurrent
<1>3. /\ a \in ExpenseIds /\ a \in live /\ a # i
      /\ i \notin Recorded /\ \A b \in Recorded : rec[b].reversal # i
  BY <1>1, <1>2 DEF Ledger, RecordedRows, Recorded
<1>4. /\ live' = live \cup {i} /\ used' = used \cup {i}
      /\ undone' = undone \cup ({a} \X {i})
      /\ UNCHANGED <<server, todo, half>>
      /\ server = "up" /\ pc[p] = "reverted"
      /\ pc' = [pc EXCEPT ![p] = "idle"] /\ loc' = [loc EXCEPT ![p] = NoLoc]
  BY <1>2 DEF RevertCommit, At, Answer, Goto, boot
<1>5. /\ exp'[i].locked /\ exp'[i].amount = loc[p].delta
      /\ \A j \in ExpenseIds \ {i} : exp'[j] = exp[j]
  BY <1>1 DEF RevertCommit, TypeOK, SystemRow
<1>6. /\ rec'[a] # NoRec /\ rec'[a].status = "reverted" /\ rec'[a].reversal = i
      /\ rec'[a].delta = rec[a].delta /\ rec'[a].key = rec[a].key
      /\ \A j \in ExpenseIds \ {a} : rec'[j] = rec[j]
  <2>1. rec[a] \in Rec /\ a \in ExpenseIds
    BY <1>2 DEF TypeOK, Recorded
  <2>2. /\ rec'[a] = [rec[a] EXCEPT !.status = "reverted", !.reversal = i]
        /\ \A j \in ExpenseIds \ {a} : rec'[j] = rec[j]
    BY <1>2, <2>1 DEF RevertCommit
  <2> DEFINE r == [rec[a] EXCEPT !.status = "reverted", !.reversal = i]
  <2>3. /\ r.status = "reverted" /\ r.reversal = i
        /\ r.delta = rec[a].delta /\ r.key = rec[a].key
    BY <1>1, <2>1, RevertFields
  <2>4. r # NoRec
    BY <2>3 DEF NoRec
  <2> QED BY <2>2, <2>3, <2>4
<1>7. Recorded' = Recorded
  BY <1>2, <1>6 DEF Recorded, NoRec
<1>8. exp[a].locked
  BY <1>2, <1>4 DEF Ledger, UnlockedPending, Referenced, Recorded
<1>9. Ledger'
  <2>1. KeysUnique'
    BY <1>3, <1>6, <1>7 DEF Ledger, KeysUnique, Recorded
  <2>2. UnlockedPending'
    BY <1>1, <1>3, <1>4, <1>5, <1>6, <1>7
    DEF Ledger, UnlockedPending, Referenced, Recorded
  <2>3. RecordedRows'
    BY <1>1, <1>3, <1>4, <1>5, <1>6, <1>7 DEF Ledger, RecordedRows, Recorded
  <2>4. MigrationState'
    BY <1>1, <1>4, <1>5 DEF TypeOK, Ledger, MigrationState
  <2>5. UndoneRows'
    <3>1. ASSUME NEW u \in undone
          PROVE  {u[1], u[2]} \subseteq ExpenseIds \ {i}
      BY <1>1, <1>3, <3>1 DEF TypeOK, Ledger, UndoneRows
    <3>2. ASSUME NEW u \in undone' PROVE u \in undone \/ (u[1] = a /\ u[2] = i)
      <4>1. undone' = undone \cup ({a} \X {i})
        BY <1>4
      <4>2. u \in undone \/ u \in ({a} \X {i})
        BY <3>2, <4>1
      <4> QED BY <4>2
    <3> QED BY <1>2, <1>3, <1>4, <1>5, <1>6, <1>7, <1>8, <3>1, <3>2
            DEF Ledger, UndoneRows
  <2> QED BY <2>1, <2>2, <2>3, <2>4, <2>5 DEF Ledger
<1>10. InFlight'
  <2> USE DEF InFlight
  <2>1. DrawnFresh' /\ Quiet' /\ IdleBlank' /\ InsertReady'
    BY <1>1, <1>4 DEF TypeOK, DrawnFresh, Quiet, IdleBlank, InsertReady, NoLoc
  <2>2. KeyHeld'
    BY <1>3, <1>4, <1>6, <1>7 DEF TypeOK, KeyHeld, Recorded
  <2>3. RevertCurrent'
    BY <1>3, <1>4, <1>5, <1>7 DEF TypeOK, RevertCurrent, Recorded
  <2>4. UncheckedRows'
    BY <1>1, <1>4, <1>5 DEF TypeOK, Loc, UncheckedRows
  <2> QED BY <2>1, <2>2, <2>3, <2>4
<1> QED BY <1>9, <1>10

\* An expense the user adds is a row that nothing refers to.
LEMMA AddStep ==
    ASSUME IInv, NEW p \in Procs, AddExpense(p)
    PROVE  Ledger' /\ InFlight'
<1> USE DEF IInv
<1>1. PICK i \in Fresh, r \in UserRows :
        /\ live' = live \cup {i} /\ used' = used \cup {i}
        /\ exp' = [exp EXCEPT ![i] = r]
        /\ UNCHANGED <<rec, server, todo, half, undone, pc, loc>>
        /\ server = "up"
  BY DEF AddExpense, At, boot
<1>2. /\ i \in ExpenseIds /\ i \notin used /\ i \notin live /\ i \notin Recorded
      /\ \A a \in Recorded : rec[a].reversal # i
      /\ \A p1 \in Procs : loc[p1].new # i
  BY ReconciliationAssumption DEF Fresh, Undrawn, Ledger, MigrationState, RecordedRows
<1>3. ~Referenced(i) /\ \A j \in ExpenseIds \ {i} : exp'[j] = exp[j]
  BY <1>1, <1>2 DEF TypeOK, Referenced
<1>4. Ledger'
  <2>1. KeysUnique' /\ UnlockedPending'
    BY <1>1, <1>2, <1>3 DEF Ledger, KeysUnique, UnlockedPending, Referenced, Recorded
  <2>2. RecordedRows'
    BY <1>1, <1>2, <1>3 DEF Ledger, RecordedRows, Recorded
  <2>3. MigrationState'
    BY <1>1, <1>2, <1>3 DEF TypeOK, Ledger, MigrationState
  <2>4. UndoneRows'
    <3>1. ASSUME NEW u \in undone
          PROVE  {u[1], u[2]} \subseteq ExpenseIds \ {i}
      BY <1>2, <3>1 DEF TypeOK, Ledger, UndoneRows
    <3> QED BY <1>1, <1>3, <3>1 DEF Ledger, UndoneRows, Recorded
  <2> QED BY <2>1, <2>2, <2>3, <2>4 DEF Ledger
<1>5. InFlight'
  <2> USE DEF InFlight
  <2>1. DrawnFresh' /\ Quiet' /\ IdleBlank' /\ InsertReady' /\ KeyHeld'
    BY <1>1, <1>2
    DEF DrawnFresh, Quiet, IdleBlank, InsertReady, KeyHeld, Recorded
  <2>2. RevertCurrent'
    BY <1>1, <1>2, <1>3 DEF RevertCurrent, Recorded
  <2>3. UncheckedRows'
    BY <1>1, <1>2, <1>3 DEF TypeOK, Loc, UncheckedRows
  <2> QED BY <2>1, <2>2, <2>3
<1> QED BY <1>4, <1>5

\* A write that was allowed before touches no locked row and none that a record
\* refers to: those are the same rows while the server listens.
LEMMA WriteKeeps ==
    ASSUME IInv, NEW p \in Procs, Write(p)
    PROVE  /\ live' \subseteq live
           /\ \A i \in live : exp[i].locked \/ Referenced(i) =>
                 i \in live' /\ exp'[i] = exp[i]
           /\ \A i \in ExpenseIds : exp'[i].locked = exp[i].locked
<1> USE DEF IInv
<1>1. server = "up"
  BY DEF Write, EditWrite, RemoveWrite, At
<1>2. \A i \in loc[p].ids \cap live : ~exp[i].locked /\ ~Referenced(i)
  BY <1>1 DEF Write, EditWrite, RemoveWrite, At, InFlight, UncheckedRows,
              Ledger, UnlockedPending, TypeOK, Loc
<1>3. CASE EditWrite(p)
  <2>1. PICK r \in UserRows :
          exp' = [i \in ExpenseIds |-> IF i \in loc[p].ids \cap live
                    THEN [r EXCEPT !.locked = exp[i].locked] ELSE exp[i]]
    BY <1>3 DEF EditWrite
  <2>2. \A i \in ExpenseIds :
          [r EXCEPT !.locked = exp[i].locked].locked = exp[i].locked
    BY ReconciliationAssumption, LockField DEF TypeOK, Row
  <2>3. live' = live
    BY <1>3 DEF EditWrite
  <2> QED BY <1>2, <2>1, <2>2, <2>3 DEF TypeOK, Referenced
<1>4. CASE RemoveWrite(p)
  BY <1>2, <1>4 DEF RemoveWrite
<1> QED BY <1>3, <1>4 DEF Write

\* The writes of the expense endpoints keep the invariant.
LEMMA WriteStep ==
    ASSUME IInv, NEW p \in Procs, Write(p)
    PROVE  Ledger' /\ InFlight'
<1> USE DEF IInv
<1>1. /\ UNCHANGED <<rec, server, todo, half, undone, used>>
      /\ server = "up" /\ Answer(p)
  BY DEF Write, EditWrite, RemoveWrite, At, boot
<1>2. /\ live' \subseteq live
      /\ \A i \in live : exp[i].locked \/ Referenced(i) =>
            i \in live' /\ exp'[i] = exp[i]
      /\ \A i \in ExpenseIds : exp'[i].locked = exp[i].locked
  BY WriteKeeps
<1>3. Ledger'
  <2>1. KeysUnique'
    BY <1>1 DEF Ledger, KeysUnique, Recorded
  <2>2. UnlockedPending'
    BY <1>1, <1>2 DEF Ledger, UnlockedPending, Referenced, Recorded
  <2>3. RecordedRows'
    BY <1>1, <1>2 DEF TypeOK, Ledger, RecordedRows, Referenced, Recorded
  <2>4. MigrationState'
    BY <1>1, <1>2 DEF TypeOK, Ledger, MigrationState
  <2>5. UndoneRows'
    <3>1. \A u \in undone : u[1] \in live /\ u[2] \in live
      BY DEF Ledger, UndoneRows, RecordedRows
    <3> QED BY <1>1, <1>2, <3>1 DEF Ledger, UndoneRows, Recorded
  <2> QED BY <2>1, <2>2, <2>3, <2>4, <2>5 DEF Ledger
<1>4. InFlight'
  <2> USE DEF InFlight, Answer, Goto
  <2>1. DrawnFresh' /\ Quiet' /\ IdleBlank'
    BY <1>1 DEF TypeOK, NoLoc, DrawnFresh, Quiet, IdleBlank
  <2>4. InsertReady' /\ KeyHeld'
    BY <1>1 DEF TypeOK, NoLoc, InsertReady, KeyHeld, Recorded
  <2>2. RevertCurrent'
    <3>1. Recorded' = Recorded /\ \A a \in Recorded : exp'[a] = exp[a]
      BY <1>1, <1>2 DEF Ledger, RecordedRows, Referenced, Recorded
    <3> QED BY <1>1, <3>1 DEF TypeOK, NoLoc, RevertCurrent
  <2>3. UncheckedRows'
    BY <1>1, <1>2 DEF TypeOK, Loc, UncheckedRows
  <2> QED BY <2>1, <2>2, <2>3, <2>4
<1> QED BY <1>3, <1>4

----------------------------------------------------------------------------
(* Startup and crashes: no request is in flight *)

\* With every request answered nothing is left to say about requests.
LEMMA QuietStep ==
    ASSUME \A p \in Procs : pc'[p] = "idle" /\ loc'[p] = NoLoc
    PROVE  InFlight'
  BY DEF InFlight, NoLoc, DrawnFresh, Quiet, IdleBlank, InsertReady, KeyHeld,
         RevertCurrent, UncheckedRows

\* Each statement of the migration keeps the invariant.
LEMMA BootStep == ASSUME IInv, Boot PROVE Ledger' /\ InFlight'
<1> USE DEF IInv
<1>1. server # "up" /\ UNCHANGED <<live, undone, used, pc, loc>>
  BY DEF Boot, BootStart, Backfill, BackfillKnown, BackfillRecord, BackfillRefused,
         BackfillReversal, BackfillLock, BootDone, Booting, Scan, ScanFails, db, hist
<1>2. InFlight'
  BY <1>1, QuietStep DEF InFlight, Quiet, IdleBlank
<1>10. CASE BootStart \/ ScanFails
  BY <1>1, <1>2, <1>10
  DEF BootStart, ScanFails, db, Ledger, KeysUnique, RecordedRows, UndoneRows,
      UnlockedPending, Referenced, Recorded, MigrationState
<1>3. CASE Scan
  <2> USE <1>1, <1>3 DEF Scan, Ledger, db
  <2>1. KeysUnique' /\ RecordedRows' /\ UndoneRows'
    BY DEF KeysUnique, RecordedRows, UndoneRows, Recorded
  <2>2. UnlockedPending'
    BY ReconciliationAssumption DEF UnlockedPending, Referenced, RecordedRows, Recorded
  <2>3. MigrationState'
    BY DEF TypeOK, MigrationState
  <2> QED BY <1>2, <2>1, <2>2, <2>3
<1>4. ASSUME NEW i \in ExpenseIds, BackfillKnown(i) PROVE Ledger'
  BY <1>1, <1>4
  DEF BackfillKnown, Booting, db, hist, env, Ledger, KeysUnique, RecordedRows, UndoneRows,
      UnlockedPending, Referenced, Recorded, MigrationState
<1>5. ASSUME NEW i \in ExpenseIds, BackfillRecord(i) PROVE Ledger'
  <2>1. /\ server = "boot" /\ i \in todo /\ i \in live /\ i \notin Recorded
        /\ exp[i].kind = "adjustment" /\ ~KeyTaken(exp[i].key)
        /\ half' = i /\ UNCHANGED <<live, exp, server, todo>>
    BY <1>5 DEF BackfillRecord, Recordable, Booting, Ledger, MigrationState
  <2>2. /\ rec'[i].status = "applied" /\ rec'[i].delta = exp[i].amount
        /\ rec'[i].key = exp[i].key /\ rec'[i].reversal = None
        /\ \A j \in ExpenseIds \ {i} : rec'[j] = rec[j]
    BY <1>5 DEF BackfillRecord, TypeOK
  <2>3. Recorded' = Recorded \cup {i}
    BY <2>2 DEF Recorded, NoRec
  <2>4. KeysUnique'
    BY <2>1, <2>2, <2>3 DEF Ledger, KeysUnique, KeyTaken, Recorded
  <2>5. UnlockedPending'
    BY ReconciliationAssumption, <2>1, <2>2, <2>3
    DEF Ledger, UnlockedPending, Referenced, Recorded, Legacy
  <2>6. RecordedRows'
    BY <2>1, <2>2, <2>3 DEF Ledger, RecordedRows, Recorded
  <2>7. MigrationState' /\ UndoneRows'
    BY <1>1, <2>1, <2>2, <2>3 DEF Ledger, MigrationState, UndoneRows, Recorded
  <2> QED BY <2>4, <2>5, <2>6, <2>7 DEF Ledger
<1>6. ASSUME NEW i \in ExpenseIds, BackfillRefused(i) PROVE Ledger'
  BY <1>1, <1>6
  DEF BackfillRefused, Booting, db, hist, env, Ledger, KeysUnique, RecordedRows, UndoneRows,
      UnlockedPending, Referenced, Recorded, MigrationState
<1>7. ASSUME NEW i \in ExpenseIds, BackfillReversal(i) PROVE Ledger'
  <2>1. /\ server = "boot" /\ i \in todo /\ i \in live /\ Legacy(exp[i])
        /\ exp[i].kind = "reversal"
        /\ half' = i /\ UNCHANGED <<live, exp, server, todo>>
    BY <1>7 DEF BackfillReversal, Booting, Ledger, MigrationState
  <2>2. \A a \in Recorded : a # i
    BY <2>1 DEF Ledger, RecordedRows
  <2>3. Recorded' = Recorded
        /\ \A a \in Recorded :
             /\ rec'[a].delta = rec[a].delta /\ rec'[a].key = rec[a].key
             /\ \/ rec'[a] = rec[a]
                \/ rec'[a].status = "reverted" /\ rec'[a].reversal = i
    <3>1. ASSUME NEW a \in ExpenseIds \ Recorded PROVE rec'[a] = rec[a]
      BY <1>7, <3>1 DEF BackfillReversal
    <3>2. ASSUME NEW a \in Recorded
          PROVE  /\ rec'[a] # NoRec
                 /\ rec'[a].delta = rec[a].delta /\ rec'[a].key = rec[a].key
                 /\ \/ rec'[a] = rec[a]
                    \/ rec'[a].status = "reverted" /\ rec'[a].reversal = i
      <4> DEFINE r == [rec[a] EXCEPT !.status = "reverted", !.reversal = i]
      <4>1. a \in ExpenseIds /\ rec[a] \in Rec /\ rec[a] # NoRec
        BY <3>2 DEF TypeOK, Recorded
      <4>2. /\ r.status = "reverted" /\ r.reversal = i
            /\ r.delta = rec[a].delta /\ r.key = rec[a].key
        BY <4>1, RevertFields
      <4>3. r # NoRec
        BY <4>2 DEF NoRec
      <4>4. rec'[a] = r \/ rec'[a] = rec[a]
        BY <1>7, <4>1 DEF BackfillReversal
      <4> QED BY <4>1, <4>2, <4>3, <4>4
    <3> QED BY <3>1, <3>2 DEF Recorded
  <2>4. KeysUnique'
    BY <2>3 DEF Ledger, KeysUnique
  <2>5. UnlockedPending'
    BY ReconciliationAssumption, <2>1, <2>3
    DEF Ledger, UnlockedPending, Referenced, Recorded
  <2>6. RecordedRows'
    BY ReconciliationAssumption, <2>1, <2>2, <2>3 DEF Ledger, RecordedRows
  <2>7. MigrationState' /\ UndoneRows'
    BY <1>1, <2>1, <2>3 DEF Ledger, MigrationState, UndoneRows
  <2> QED BY <2>4, <2>5, <2>6, <2>7 DEF Ledger
<1>8. CASE BackfillLock
  <2>1. /\ half \in todo /\ half \in ExpenseIds
        /\ todo' = todo \ {half} /\ half' = None /\ UNCHANGED <<live, rec, server>>
    BY <1>8 DEF TypeOK, BackfillLock, Ledger, MigrationState
  <2>2. /\ exp'[half].locked
        /\ \A i \in ExpenseIds \ {half} : exp'[i] = exp[i]
        /\ \A i \in ExpenseIds : /\ exp[i].locked => exp'[i].locked
                                 /\ exp'[i].amount = exp[i].amount
                                 /\ exp'[i].kind = exp[i].kind
                                 /\ exp'[i].tag = exp[i].tag
    <3>1. exp[half] \in Row
      BY <2>1 DEF TypeOK
    <3>2. exp'[half] = [exp[half] EXCEPT !.locked = TRUE]
          /\ \A i \in ExpenseIds \ {half} : exp'[i] = exp[i]
      BY <1>8, <2>1 DEF TypeOK, BackfillLock
    <3>3. /\ exp'[half].locked
          /\ exp'[half].amount = exp[half].amount
          /\ exp'[half].kind = exp[half].kind
          /\ exp'[half].tag = exp[half].tag
      BY <3>1, <3>2, LockField
    <3> QED BY <3>2, <3>3
  <2>3. KeysUnique' /\ RecordedRows'
    BY <2>1, <2>2 DEF Ledger, KeysUnique, RecordedRows, Recorded
  <2>4. UnlockedPending'
    BY <1>1, <2>1, <2>2 DEF Ledger, UnlockedPending, Referenced, Recorded, Legacy
  <2>5. MigrationState'
    BY <1>1, <2>1, <2>2 DEF TypeOK, Ledger, MigrationState, Legacy
  <2>6. UndoneRows'
    <3>1. ASSUME NEW u \in undone PROVE u[1] \in ExpenseIds /\ u[2] \in ExpenseIds
      BY <3>1 DEF TypeOK
    <3> QED BY <1>1, <2>1, <2>2, <3>1 DEF Ledger, UndoneRows, Recorded
  <2> QED BY <1>2, <2>3, <2>4, <2>5, <2>6 DEF Ledger
<1>9. CASE BootDone
  BY <1>1, <1>2, <1>9
  DEF BootDone, db, hist, env, Ledger, KeysUnique, RecordedRows, UndoneRows, UnlockedPending,
      Referenced, Recorded, MigrationState
<1> QED BY <1>2, <1>3, <1>4, <1>5, <1>6, <1>7, <1>8, <1>9, <1>10 DEF Boot, Backfill

\* A crash loses requests, and no row.
LEMMA CrashStep == ASSUME IInv, Crash PROVE Ledger' /\ InFlight'
<1>1. InFlight'
  BY QuietStep DEF Crash
<1>2. Ledger'
  BY DEF IInv, Crash, db, hist, env, Ledger, KeysUnique, RecordedRows, UndoneRows,
         UnlockedPending, Referenced, Recorded, MigrationState
<1> QED BY <1>1, <1>2

----------------------------------------------------------------------------
(* The invariant and the theorems *)

\* Every step keeps the inductive invariant.
LEMMA InvStep == ASSUME IInv, [Next]_vars PROVE IInv'
<1>1. TypeOK'
  BY TypeStep DEF IInv
<1>2. ASSUME NEW p \in Procs, Begin(p) PROVE Ledger' /\ InFlight'
  <2>1. CASE ApplyBegin(p) \/ RevertBegin(p)
    BY <2>1, ArriveStep, LedgerStays DEF IInv, ApplyBegin, RevertBegin, hist
  <2>2. CASE EditCheck(p) \/ RemoveCheck(p)
    BY <2>2, CheckStep, LedgerStays DEF IInv, EditCheck, RemoveCheck, hist
  <2> QED BY <1>2, <2>1, <2>2, AddStep DEF Begin
<1>3. ASSUME NEW p \in Procs, Apply(p) PROVE Ledger' /\ InFlight'
  <2>1. CASE ApplyNoop(p) \/ ApplyDuplicate(p) \/ ApplyOverflow(p) \/ ApplyCollision(p)
    BY <2>1, AnswerStep, LedgerStays
    DEF IInv, ApplyNoop, ApplyDuplicate, ApplyOverflow, ApplyCollision, hist
  <2>2. CASE ApplyInsert(p) \/ ApplyRecord(p)
    BY <2>2, WithinStep, LedgerStays DEF IInv, ApplyInsert, ApplyRecord, hist
  <2>3. CASE ApplyRead(p)
    BY <2>3, ReadStep, LedgerStays DEF IInv, ApplyRead
  <2> QED BY <1>3, <2>1, <2>2, <2>3, ApplyCommitStep DEF Apply
<1>4. ASSUME NEW p \in Procs, Revert(p) PROVE Ledger' /\ InFlight'
  <2>1. CASE RevertUpdate(p)
    BY <2>1, WithinStep, LedgerStays DEF IInv, RevertUpdate, hist
  <2>2. CASE RevertRead(p)
    BY <2>2, ReadStep, LedgerStays DEF IInv, RevertRead, hist
  <2>3. CASE RevertRefused(p)
    BY <2>3, AnswerStep, LedgerStays DEF IInv, RevertRefused, hist
  <2> QED BY <1>4, <2>1, <2>2, <2>3, RevertCommitStep DEF Revert
<1>5. CASE UNCHANGED vars
  <2>1. InFlight'
    BY <1>5 DEF vars, db, boot, hist, env, IInv, InFlight, DrawnFresh, Quiet, IdleBlank,
                InsertReady, KeyHeld, RevertCurrent, UncheckedRows, Recorded
  <2> QED BY <1>1, <1>5, <2>1, LedgerStays DEF vars, hist, IInv
<1>6. CASE Tick
  <2>1. InFlight'
    BY <1>6 DEF Tick, db, boot, hist, IInv, InFlight, DrawnFresh, Quiet, IdleBlank,
                InsertReady, KeyHeld, RevertCurrent, UncheckedRows, Recorded
  <2> QED BY <1>1, <1>6, <2>1, LedgerStays DEF Tick, hist, IInv
<1> QED BY <1>1, <1>2, <1>3, <1>4, <1>5, <1>6, WriteStep, BootStep, CrashStep
        DEF IInv, Next, Proceed

\* The inductive invariant holds in every state of every behaviour.
THEOREM Invariance == Spec => []IInv
  BY InvInit, InvStep, PTL DEF Spec

\* Every column, request and history stays within its type: an amount that is
\* stored fits its column whatever balance the difference was taken from.
THEOREM TypeCorrect == Spec => []TypeOK
<1>1. IInv => TypeOK
  BY DEF IInv
<1> QED BY <1>1, Invariance, PTL

\* The records of the history screen and the rows of the ledger agree, and the
\* rows are locked while the server listens.
THEOREM HistoryBacked == Spec => []RecordsBacked
<1>1. IInv => RecordsBacked
  BY ReconciliationAssumption
  DEF IInv, Ledger, RecordedRows, UnlockedPending, TypeOK, RecordsBacked, Referenced,
      Recorded
<1> QED BY <1>1, Invariance, PTL

\* A client that retries with its Idempotency-Key adjusts the balance once, even
\* when the attempts overlap.
THEOREM KeyAdjustsOnce == Spec => []KeysUnique
<1>1. IInv => KeysUnique
  BY DEF IInv, Ledger
<1> QED BY <1>1, Invariance, PTL

\* A revert that was answered with success stays in effect.
THEOREM RevertCancels == Spec => []RevertsOffset
<1>1. IInv => RevertsOffset
  BY DEF IInv, Ledger, UndoneRows, RecordedRows, RevertsOffset
<1> QED BY <1>1, Invariance, PTL

\* No step of any request, and no part of the migration, changes a locked row.
THEOREM LockedRowsStay == Spec => LockedImmutable
<1> DEFINE Kept == \A i \in live : exp[i].locked => i \in live' /\ exp'[i] = exp[i]
<1>1. ASSUME IInv, [Next]_vars PROVE Kept
  <2> USE <1>1
  <2>1. CASE UNCHANGED <<live, exp>>
    BY <2>1
  <2>2. ASSUME NEW p \in Procs, Begin(p) PROVE Kept
    <3>1. CASE AddExpense(p)
      BY <3>1 DEF AddExpense, Fresh, Undrawn, IInv, TypeOK, Ledger, MigrationState
    <3> QED BY <2>1, <2>2, <3>1
            DEF Begin, ApplyBegin, RevertBegin, EditCheck, RemoveCheck, db
  <2>3. ASSUME NEW p \in Procs, Apply(p) PROVE Kept
    <3>1. CASE ApplyCommit(p)
      BY <3>1, ReconciliationAssumption
      DEF ApplyCommit, At, IInv, TypeOK, InFlight, InsertReady, DrawnFresh, Ledger,
          MigrationState
    <3> QED BY <2>1, <2>3, <3>1
            DEF Apply, ApplyRead, ApplyNoop, ApplyDuplicate, ApplyOverflow, ApplyInsert,
                ApplyRecord, ApplyCollision, db
  <2>4. ASSUME NEW p \in Procs, Revert(p) PROVE Kept
    <3>1. CASE RevertCommit(p)
      BY <3>1, ReconciliationAssumption
      DEF RevertCommit, At, IInv, TypeOK, InFlight, InsertReady, DrawnFresh, Ledger,
          MigrationState
    <3> QED BY <2>1, <2>4, <3>1 DEF Revert, RevertRead, RevertRefused, RevertUpdate, db
  <2>5. ASSUME NEW p \in Procs, Write(p) PROVE Kept
    BY <2>5, WriteKeeps
  <2>6. CASE Boot
    <3>1. CASE BackfillLock
      <4>1. half \in ExpenseIds /\ exp[half] \in Row
        BY <3>1 DEF BackfillLock, IInv, TypeOK
      <4>2. /\ live' = live /\ \A i \in ExpenseIds \ {half} : exp'[i] = exp[i]
            /\ exp'[half] = [exp[half] EXCEPT !.locked = TRUE]
        BY <3>1, <4>1 DEF BackfillLock, IInv, TypeOK
      <4>3. exp[half].locked => exp'[half] = exp[half]
        BY <4>1, <4>2, LockField
      <4> QED BY <4>2, <4>3 DEF IInv, TypeOK
    <3> QED BY <2>1, <2>6, <3>1
            DEF Boot, BootStart, Scan, ScanFails, Backfill, BackfillKnown, BackfillRecord,
                BackfillRefused, BackfillReversal, BootDone, db
  <2> QED BY <2>1, <2>2, <2>3, <2>4, <2>5, <2>6 DEF Next, Proceed, Crash, Tick, db, vars
<1>2. IInv /\ [Next]_vars => [Kept]_vars
  BY <1>1
<1> QED BY <1>2, Invariance, PTL DEF Spec, LockedImmutable

----------------------------------------------------------------------------
(* What the migration has done *)

\* A boot has locked the legacy rows it is done with, and only rows that are
\* recorded are locked as adjustments, by whichever boot or request.
LegacyDone ==
    /\ server = "boot" => \A i \in live : Legacy(exp[i]) /\ i \notin todo => exp[i].locked
    /\ \A i \in live : exp[i].kind = "adjustment" /\ exp[i].locked => i \in Recorded
    /\ half # None /\ exp[half].kind = "adjustment" => half \in Recorded

\* A record that is marked reverted is a record.
LEMMA StaysRecord ==
    ASSUME NEW r \in Rec, NEW i \in ExpenseIds
    PROVE  [r EXCEPT !.status = "reverted", !.reversal = i] # NoRec
<1>1. [r EXCEPT !.status = "reverted", !.reversal = i].status = "reverted"
  BY RevertFields
<1> QED BY <1>1 DEF NoRec

\* A request that inserts or records nothing leaves all of it.
LEMMA LegacyStays ==
    ASSUME LegacyDone, UNCHANGED <<live, exp, rec, server, todo, half>>
    PROVE  LegacyDone'
  BY DEF LegacyDone, Recorded

\* A commit of a request: the server is up, and the rows it leaves locked are
\* the old ones, recorded as before, and one new row.
LEMMA LegacyCommit ==
    ASSUME IInv, LegacyDone, NEW p \in Procs,
           \/ ApplyCommit(p) \/ RevertCommit(p) \/ AddExpense(p) \/ Write(p)
    PROVE  LegacyDone'
<1> USE DEF IInv
<1>1. server = "up" /\ server' = "up" /\ half' = None
  BY DEF ApplyCommit, RevertCommit, AddExpense, Write, EditWrite, RemoveWrite, At, boot,
         Ledger, MigrationState
<1>2. CASE ApplyCommit(p) \/ RevertCommit(p)
  <2> DEFINE i == loc[p].new
  <2>1. i \in ExpenseIds /\ i \notin live
    <3>1. pc[p] \in {"applied", "reverted"}
      BY <1>2 DEF ApplyCommit, RevertCommit, At
    <3>2. i \in ExpenseIds
      BY <3>1 DEF InFlight, InsertReady
    <3> QED BY <3>2, ReconciliationAssumption
            DEF InFlight, DrawnFresh, Ledger, MigrationState
  <2>2. /\ live' = live \cup {i}
        /\ \A j \in ExpenseIds \ {i} : exp'[j] = exp[j]
    BY <1>2 DEF ApplyCommit, RevertCommit, TypeOK
  <2>3. \A j \in Recorded : j # i => j \in Recorded'
    <3>1. CASE ApplyCommit(p)
      BY <2>1, <3>1 DEF ApplyCommit, Recorded, TypeOK
    <3>2. CASE RevertCommit(p)
      <4>1. ASSUME NEW j \in Recorded PROVE rec'[j] # NoRec
        <5>1. j \in ExpenseIds /\ rec[j] \in Rec /\ rec[j] # NoRec
          BY <4>1 DEF Recorded, TypeOK
        <5>2. rec'[j] = rec[j] \/ rec'[j] = [rec[j] EXCEPT !.status = "reverted", !.reversal = i]
          BY <3>2, <5>1 DEF RevertCommit
        <5> QED BY <2>1, <5>1, <5>2, StaysRecord
      <4> QED BY <4>1 DEF Recorded
    <3> QED BY <1>2, <3>1, <3>2
  <2>4. exp'[i].kind = "adjustment" => i \in Recorded'
    <3>1. CASE ApplyCommit(p)
      BY <2>1, <3>1 DEF ApplyCommit, Recorded, NoRec, TypeOK
    <3>2. CASE RevertCommit(p)
      BY <2>1, <3>2 DEF RevertCommit, SystemRow, TypeOK
    <3> QED BY <1>2, <3>1, <3>2
  <2> QED BY <1>1, <2>1, <2>2, <2>3, <2>4 DEF LegacyDone, TypeOK
<1>3. CASE AddExpense(p)
  <2>1. PICK i \in Fresh, r \in UserRows :
          live' = live \cup {i} /\ exp' = [exp EXCEPT ![i] = r] /\ rec' = rec
    BY <1>3 DEF AddExpense
  <2>2. i \in ExpenseIds /\ ~r.locked
    BY <2>1, ReconciliationAssumption DEF Fresh, Undrawn
  <2> QED BY <1>1, <2>1, <2>2 DEF LegacyDone, Recorded, TypeOK
<1>4. CASE Write(p)
  <2>1. /\ live' \subseteq live
        /\ \A i \in live : exp[i].locked => exp'[i] = exp[i]
        /\ \A i \in ExpenseIds : exp'[i].locked = exp[i].locked
    BY <1>4, WriteKeeps
  <2>2. rec' = rec
    BY <1>4 DEF Write, EditWrite, RemoveWrite
  <2> QED BY <1>1, <2>1, <2>2 DEF LegacyDone, Recorded, TypeOK
<1> QED BY <1>2, <1>3, <1>4

\* Each statement of the migration.
LEMMA LegacyBoot == ASSUME IInv, LegacyDone, Boot PROVE LegacyDone'
<1> USE DEF IInv
<1>1. CASE BootStart \/ Scan \/ ScanFails \/ BootDone
  BY <1>1 DEF BootStart, Scan, ScanFails, BootDone, LegacyDone, Recorded, Ledger,
              MigrationState, db
<1>2. ASSUME NEW i \in ExpenseIds, BackfillKnown(i) \/ BackfillRefused(i) PROVE LegacyDone'
  BY <1>2 DEF BackfillKnown, BackfillRefused, LegacyDone, Recorded, db, hist, env
<1>3. ASSUME NEW i \in ExpenseIds, BackfillRecord(i) PROVE LegacyDone'
  <2>1. rec'[i] # NoRec /\ \A j \in ExpenseIds \ {i} : rec'[j] = rec[j]
    BY <1>3 DEF BackfillRecord, NoRec, TypeOK
  <2>2. half' = i /\ UNCHANGED <<live, exp, server, todo>>
    BY <1>3 DEF BackfillRecord
  <2> QED BY <2>1, <2>2 DEF LegacyDone, Recorded
<1>4. ASSUME NEW i \in ExpenseIds, BackfillReversal(i) PROVE LegacyDone'
  <2>1. half' = i /\ exp[i].kind = "reversal" /\ UNCHANGED <<live, exp, server, todo>>
    BY <1>4 DEF BackfillReversal
  <2>2. ASSUME NEW a \in Recorded PROVE rec'[a] # NoRec
    <3>1. a \in ExpenseIds /\ rec[a] \in Rec /\ rec[a] # NoRec
      BY <2>2 DEF Recorded, TypeOK
    <3>2. rec'[a] = rec[a] \/ rec'[a] = [rec[a] EXCEPT !.status = "reverted", !.reversal = i]
      BY <1>4, <3>1 DEF BackfillReversal
    <3> QED BY <3>1, <3>2, StaysRecord
  <2> QED BY <2>1, <2>2 DEF LegacyDone, Recorded
<1>5. CASE BackfillLock
  <2>1. half \in ExpenseIds /\ exp[half] \in Row /\ half \in todo
    BY <1>5 DEF BackfillLock, Ledger, MigrationState, TypeOK
  <2>2. /\ exp'[half] = [exp[half] EXCEPT !.locked = TRUE]
        /\ \A i \in ExpenseIds \ {half} : exp'[i] = exp[i]
        /\ todo' = todo \ {half} /\ half' = None /\ UNCHANGED <<live, rec, server>>
    BY <1>5, <2>1 DEF BackfillLock, TypeOK
  <2>3. exp'[half].locked /\ exp'[half].kind = exp[half].kind
    BY <2>1, <2>2, LockField
  <2> QED BY <1>5, <2>1, <2>2, <2>3 DEF BackfillLock, LegacyDone, Recorded, TypeOK
<1> QED BY <1>1, <1>2, <1>3, <1>4, <1>5 DEF Boot, Backfill

\* It holds from the database of the older version on.
LEMMA LegacyInit == ASSUME Init PROVE LegacyDone
<1>1. PICK legacy \in Ledgers :
        /\ live = DOMAIN legacy
        /\ exp = [i \in ExpenseIds |-> IF i \in DOMAIN legacy
                                       THEN legacy[i] ELSE BlankRow]
  BY DEF Init
<1>2. \A i \in live : ~exp[i].locked
  BY <1>1, ReconciliationAssumption
<1> QED BY <1>2 DEF Init, LegacyDone

LEMMA LegacyStep == ASSUME IInv, LegacyDone, [Next]_vars PROVE LegacyDone'
<1>1. ASSUME NEW p \in Procs, Begin(p) \/ Proceed(p) PROVE LegacyDone'
  <2>1. CASE ApplyBegin(p) \/ RevertBegin(p) \/ EditCheck(p) \/ RemoveCheck(p)
    BY <2>1, LegacyStays DEF ApplyBegin, RevertBegin, EditCheck, RemoveCheck, db, boot
  <2>2. CASE \/ ApplyRead(p) \/ ApplyNoop(p) \/ ApplyDuplicate(p) \/ ApplyOverflow(p)
             \/ ApplyInsert(p) \/ ApplyRecord(p) \/ ApplyCollision(p)
             \/ RevertRead(p) \/ RevertRefused(p) \/ RevertUpdate(p)
    BY <2>2, LegacyStays
    DEF ApplyRead, ApplyNoop, ApplyDuplicate, ApplyOverflow, ApplyInsert, ApplyRecord,
        ApplyCollision, RevertRead, RevertRefused, RevertUpdate, db, boot
  <2> QED BY <1>1, <2>1, <2>2, LegacyCommit DEF Begin, Proceed, Apply, Revert
<1>2. CASE Crash
  BY <1>2 DEF Crash, LegacyDone, Recorded, db
<1>3. CASE Tick \/ UNCHANGED vars
  BY <1>3, LegacyStays DEF Tick, vars, db, boot
<1> QED BY <1>1, <1>2, <1>3, LegacyBoot DEF Next

\* However many boots were cut short, the server listens only over a ledger whose
\* legacy movements are locked and whose legacy adjustments have their records.
THEOREM MigrationFinished == Spec => BootLocksLegacy
<1> DEFINE Finished == BootDone => \A i \in live : Legacy(exp[i]) =>
                          /\ exp[i].locked
                          /\ exp[i].kind = "adjustment" => i \in Recorded
<1>1. Init => LegacyDone
  BY LegacyInit
<1>2. IInv /\ LegacyDone /\ [Next]_vars => LegacyDone'
  BY LegacyStep
<1>3. LegacyDone => [Finished]_vars
  BY DEF LegacyDone, BootDone
<1> QED BY <1>1, <1>2, <1>3, Invariance, PTL DEF Spec, BootLocksLegacy

----------------------------------------------------------------------------
(* Sums over finite sets of rows: induction on the set, since a minimal     *)
(* counterexample would be a minimal element of the strict subset order     *)

\* The element a sum takes next; g holds the sums over every subset of S.
First(s) == CHOOSE x \in s : TRUE
Sums(rows, S, g) ==
    g = [s \in SUBSET S |-> IF s = {} THEN 0
                            ELSE rows[First(s)].amount + g[s \ {First(s)}]]
Sum(rows, S) == (CHOOSE g : Sums(rows, S, g))[S]

LEMMA TotalSums ==
    ASSUME NEW ids, NEW rows
    PROVE  Total(ids, rows) = Sum(rows, {i \in ids : rows[i].cash})
  BY Zenon DEF Total, MapThenSumSet, MapThenFoldSet, Sum, Sums, First

LEMMA SubsetInduction ==
    ASSUME NEW S, IsFiniteSet(S), NEW G,
           \A T \in SUBSET S : (\A U \in SUBSET T : U # T => U \in G) => T \in G
    PROVE  SUBSET S \subseteq G
<1>1. SUBSET S = FiniteSubsetsOf(S)
  BY FS_FiniteSubsetsOfFinite
<1>2. IsWellFoundedOn(StrictSubsetOrdering(S), FiniteSubsetsOf(S))
  BY FS_StrictSubsetOrderingWellFounded
<1> DEFINE Rest == {T \in SUBSET S : T \notin G}
<1>3. SUFFICES ASSUME Rest # {} PROVE FALSE
  OBVIOUS
<1>4. PICK T \in Rest : \A U \in Rest : ~ (<<U, T>> \in StrictSubsetOrdering(S))
  <2>1. Rest \subseteq FiniteSubsetsOf(S)
    BY <1>1
  <2> HIDE DEF Rest
  <2> QED BY <1>2, <1>3, <2>1, WFMin
<1> QED BY <1>4 DEF StrictSubsetOrdering

LEMMA FirstIn == \A s : s # {} => First(s) \in s
  BY DEF First

\* Two tables of sums agree where both have an entry and the rows are alike.
LEMMA SumsAgree ==
    ASSUME NEW S, IsFiniteSet(S), NEW f, NEW g, NEW X, NEW Y, NEW x, NEW y,
           S \subseteq X, S \subseteq Y, Sums(x, X, f), Sums(y, Y, g),
           \A i \in S : x[i].amount = y[i].amount
    PROVE  \A s \in SUBSET S : f[s] = g[s]
<1> DEFINE Same == {s \in SUBSET S : f[s] = g[s]}
<1>1. ASSUME NEW T \in SUBSET S, \A U \in SUBSET T : U # T => U \in Same
      PROVE  T \in Same
  <2>1. T \in SUBSET X /\ T \in SUBSET Y
    OBVIOUS
  <2>2. CASE T = {}
    <3>1. f[T] = 0 /\ g[T] = 0
      BY <2>1, <2>2 DEF Sums
    <3> QED BY <3>1
  <2>3. CASE T # {}
    <3> DEFINE i == First(T)
    <3>1. i \in T
      BY <2>3, FirstIn
    <3>2. f[T] = x[i].amount + f[T \ {i}] /\ g[T] = y[i].amount + g[T \ {i}]
      BY <2>1, <2>3 DEF Sums
    <3>3. T \ {i} \in Same
      <4>1. T \ {i} \in SUBSET T /\ T \ {i} # T
        BY <3>1
      <4> QED BY <1>1, <4>1
    <3>4. x[i].amount = y[i].amount
      BY <3>1
    <3> HIDE DEF i
    <3> QED BY <3>2, <3>3, <3>4
  <2> QED BY <2>2, <2>3
<1>2. SUBSET S \subseteq Same
  <2> HIDE DEF Same
  <2> QED BY <1>1, SubsetInduction
<1> QED BY <1>2

\* The recursion of the sum has a solution.
LEMMA SumsExist ==
    ASSUME NEW S, IsFiniteSet(S), NEW rows
    PROVE  \A T \in SUBSET S : \E g : Sums(rows, T, g)
<1> DEFINE Solved == {T \in SUBSET S : \E g : Sums(rows, T, g)}
<1>1. ASSUME NEW T \in SUBSET S, \A U \in SUBSET T : U # T => U \in Solved
      PROVE  T \in Solved
  <2> DEFINE G(U) == CHOOSE g : Sums(rows, U, g)
             Less(s) == s \ {First(s)}
             h == [s \in SUBSET T |-> IF s = {} THEN 0
                     ELSE rows[First(s)].amount + G(Less(s))[Less(s)]]
  <2>1. ASSUME NEW U \in SUBSET T, U # T PROVE Sums(rows, U, G(U))
    BY <1>1, <2>1
  <2>2. ASSUME NEW s \in SUBSET T, s # {}
        PROVE  h[Less(s)] = G(Less(s))[Less(s)]
    <3> DEFINE u == Less(s)
    <3>1. u \in SUBSET T /\ u # T
      BY <2>2, FirstIn
    <3>2. Sums(rows, u, G(u))
      BY <2>1, <3>1
    <3>3. CASE u = {}
      <4> HIDE DEF u, G
      <4>1. G(u)[u] = 0
        BY <3>2, <3>3 DEF Sums
      <4> QED BY <3>1, <3>3, <4>1 DEF u
    <3>4. CASE u # {}
      <4> DEFINE v == Less(u)
      <4>1. v \in SUBSET u /\ v # T /\ v \in SUBSET T
        BY <3>1, <3>4, FirstIn
      <4>2. h[u] = rows[First(u)].amount + G(v)[v]
        BY <3>1, <3>4
      <4>3. G(u)[u] = rows[First(u)].amount + G(u)[v]
        <5> HIDE DEF G, u
        <5> QED BY <3>2, <3>4 DEF Sums
      <4>4. G(v)[v] = G(u)[v]
        <5>1. Sums(rows, v, G(v))
          BY <2>1, <4>1
        <5>2. IsFiniteSet(v) 
          BY <4>1, FS_Subset
        <5> HIDE DEF G, u, v
        <5> QED BY <3>2, <4>1, <5>1, <5>2, SumsAgree
      <4> QED BY <4>2, <4>3, <4>4
    <3> QED BY <3>3, <3>4
  <2>3. Sums(rows, T, h)
    <3>1. ASSUME NEW s \in SUBSET T
          PROVE  h[s] = IF s = {} THEN 0 ELSE rows[First(s)].amount + h[Less(s)]
      <4>1. h[s] = IF s = {} THEN 0 ELSE rows[First(s)].amount + G(Less(s))[Less(s)]
        OBVIOUS
      <4> HIDE DEF h, G, Less
      <4> QED BY <2>2, <4>1
    <3>2. h = [s \in SUBSET T |-> h[s]]
      OBVIOUS
    <3> HIDE DEF h, G
    <3> QED BY <3>1, <3>2 DEF Sums
  <2> QED BY <2>3
<1>2. SUBSET S \subseteq Solved
  <2> HIDE DEF Solved
  <2> QED BY <1>1, SubsetInduction
<1> QED BY <1>2

\* The sums of a finite set: nothing, and one row at a time.
LEMMA SumStep ==
    ASSUME NEW S, IsFiniteSet(S), NEW rows
    PROVE  /\ Sum(rows, {}) = 0
           /\ S # {} => Sum(rows, S) = rows[First(S)].amount + Sum(rows, S \ {First(S)})
<1> DEFINE G(X) == CHOOSE g : Sums(rows, X, g)
           R == S \ {First(S)}
<1>1. IsFiniteSet({}) /\ IsFiniteSet(R)
  BY FS_EmptySet, FS_RemoveElement
<1>2. Sums(rows, S, G(S)) /\ Sums(rows, R, G(R)) /\ Sums(rows, {}, G({}))
  BY <1>1, SumsExist
<1>3. Sum(rows, {}) = G({})[{}] /\ Sum(rows, S) = G(S)[S] /\ Sum(rows, R) = G(R)[R]
  BY DEF Sum
<1> HIDE DEF G
<1>4. G({})[{}] = 0
  BY <1>2 DEF Sums
<1>5. ASSUME S # {} PROVE G(S)[S] = rows[First(S)].amount + G(S)[R]
  BY <1>2, <1>5 DEF Sums
<1>6. G(S)[R] = G(R)[R]
  <2>1. R \subseteq S
    OBVIOUS
  <2> HIDE DEF R
  <2> QED BY <1>1, <1>2, <2>1, SumsAgree
<1> QED BY <1>3, <1>4, <1>5, <1>6

\* The sum is a number, and does not depend on the order of its rows.
LEMMA SumAdd ==
    ASSUME NEW S, IsFiniteSet(S), NEW rows, \A i \in S : rows[i].amount \in Int
    PROVE  /\ Sum(rows, S) \in Int
           /\ \A i \in S : Sum(rows, S) = rows[i].amount + Sum(rows, S \ {i})
<1> DEFINE Good == {T \in SUBSET S :
              /\ Sum(rows, T) \in Int
              /\ \A i \in T : Sum(rows, T) = rows[i].amount + Sum(rows, T \ {i})}
<1>1. ASSUME NEW T \in SUBSET S, \A U \in SUBSET T : U # T => U \in Good
      PROVE  T \in Good
  <2>1. IsFiniteSet(T)
    BY FS_Subset
  <2>2. CASE T = {}
    BY <2>1, <2>2, SumStep
  <2>3. CASE T # {}
    <3> DEFINE j == First(T)
    <3>1. j \in T
      BY <2>3, FirstIn
    <3>2. Sum(rows, T) = rows[j].amount + Sum(rows, T \ {j})
      BY <2>1, <2>3, SumStep
    <3>3. ASSUME NEW i \in T
          PROVE  /\ Sum(rows, T \ {i}) \in Int
                 /\ \A k \in T \ {i} : Sum(rows, T \ {i})
                            = rows[k].amount + Sum(rows, (T \ {i}) \ {k})
      <4>1. T \ {i} \in SUBSET T /\ T \ {i} # T
        OBVIOUS
      <4>2. T \ {i} \in Good
        BY <1>1, <4>1
      <4> QED BY <4>2
    <3>4. ASSUME NEW i \in T PROVE Sum(rows, T) = rows[i].amount + Sum(rows, T \ {i})
      <4>1. CASE i = j
        BY <3>2, <4>1
      <4>2. CASE i # j
        <5> DEFINE a == Sum(rows, (T \ {j}) \ {i})
        <5>1. Sum(rows, T \ {j}) = rows[i].amount + a
          BY <3>1, <3>3, <4>2
        <5>2. Sum(rows, T \ {i}) = rows[j].amount + a
          <6>1. (T \ {i}) \ {j} = (T \ {j}) \ {i}
            OBVIOUS
          <6> QED BY <3>1, <3>3, <4>2, <6>1
        <5>3. a \in Int
          <6>1. (T \ {j}) \ {i} \in SUBSET T /\ (T \ {j}) \ {i} # T
            BY <3>1
          <6>2. (T \ {j}) \ {i} \in Good
            BY <1>1, <6>1
          <6> QED BY <6>2
        <5>4. rows[i].amount \in Int /\ rows[j].amount \in Int
          BY <3>1
        <5> HIDE DEF a, j
        <5> QED BY <3>2, <5>1, <5>2, <5>3, <5>4
      <4> QED BY <4>1, <4>2
    <3>5. Sum(rows, T) \in Int
      <4>1. Sum(rows, T \ {j}) \in Int /\ rows[j].amount \in Int
        BY <3>1, <3>3
      <4> QED BY <3>2, <4>1
    <3> QED BY <3>4, <3>5
  <2> QED BY <2>2, <2>3
<1>2. SUBSET S \subseteq Good
  <2> HIDE DEF Good
  <2> QED BY <1>1, SubsetInduction
<1> QED BY <1>2

\* Rows with the same amounts have the same sum.
LEMMA SumSame ==
    ASSUME NEW S, IsFiniteSet(S), NEW x, NEW y, \A i \in S : x[i].amount = y[i].amount
    PROVE  Sum(x, S) = Sum(y, S)
<1> DEFINE f == CHOOSE g : Sums(x, S, g)
           h == CHOOSE g : Sums(y, S, g)
<1>1. Sums(x, S, f) /\ Sums(y, S, h)
  BY SumsExist
<1>2. f[S] = h[S]
  <2> HIDE DEF f, h
  <2> QED BY <1>1, SumsAgree
<1> QED BY <1>2 DEF Sum

----------------------------------------------------------------------------
(* The balance an apply leaves *)

\* The balance is a number, and depends on the amounts of its rows only.
LEMMA TotalInt ==
    ASSUME NEW ids, IsFiniteSet(ids), NEW x, \A j \in ids : x[j].amount \in Int
    PROVE  Total(ids, x) \in Int
<1> DEFINE S == {j \in ids : x[j].cash}
<1>1. IsFiniteSet(S)
  BY FS_Subset
<1> QED BY <1>1, SumAdd, TotalSums

LEMMA TotalSame ==
    ASSUME NEW ids, IsFiniteSet(ids), NEW x, NEW y,
           \A j \in ids : y[j].amount = x[j].amount /\ y[j].cash = x[j].cash
    PROVE  Total(ids, y) = Total(ids, x)
<1> DEFINE S == {j \in ids : x[j].cash}
<1>1. {j \in ids : y[j].cash} = S
  OBVIOUS
<1>2. IsFiniteSet(S)
  BY FS_Subset
<1>3. Sum(y, S) = Sum(x, S)
  BY <1>2, SumSame
<1>4. Total(ids, x) = Sum(x, S) /\ Total(ids, y) = Sum(y, S)
  BY <1>1, TotalSums
<1> QED BY <1>3, <1>4

\* A row more adds its amount if it is a row of the account, and nothing if not.
LEMMA TotalAdd ==
    ASSUME NEW ids, IsFiniteSet(ids), NEW i, i \notin ids, NEW x, x[i].cash,
           \A j \in ids : x[j].amount \in Int, x[i].amount \in Int
    PROVE  Total(ids \cup {i}, x) = Total(ids, x) + x[i].amount
<1> DEFINE S == {j \in ids : x[j].cash}
           T == {j \in ids \cup {i} : x[j].cash}
<1>1. IsFiniteSet(ids \cup {i}) /\ IsFiniteSet(S) /\ IsFiniteSet(T)
  <2>1. IsFiniteSet(ids \cup {i})
    BY FS_AddElement
  <2> QED BY <2>1, FS_Subset
<1>2. Sum(x, S) \in Int
  BY <1>1, SumAdd
<1>3. Sum(x, T) = Sum(x, S) + x[i].amount
  <2>1. i \in T /\ T \ {i} = S
    OBVIOUS
  <2>2. \A j \in T : x[j].amount \in Int
    OBVIOUS
  <2> HIDE DEF S, T
  <2>3. Sum(x, T) = x[i].amount + Sum(x, T \ {i})
    BY <1>1, <2>1, <2>2, SumAdd
  <2>4. Sum(x, T) = x[i].amount + Sum(x, S)
    BY <2>1, <2>3
  <2> DEFINE a == x[i].amount
             b == Sum(x, S)
  <2>5. a \in Int /\ b \in Int /\ Sum(x, T) = a + b
    BY <1>2, <2>1, <2>4
  <2> HIDE DEF a, b
  <2>6. Sum(x, T) = b + a
    BY <2>5
  <2> QED BY <2>6 DEF a, b
<1>4. Total(ids, x) = Sum(x, S) /\ Total(ids \cup {i}, x) = Sum(x, T)
  BY TotalSums
<1> HIDE DEF S, T
<1> QED BY <1>3, <1>4

LEMMA TotalSkip ==
    ASSUME NEW ids, NEW i, i \notin ids, NEW x, ~x[i].cash
    PROVE  Total(ids \cup {i}, x) = Total(ids, x)
<1>1. {j \in ids \cup {i} : x[j].cash} = {j \in ids : x[j].cash}
  OBVIOUS
<1> QED BY <1>1, TotalSums

\* A sum is over finitely many rows, no clock was read ahead of its time, and what
\* an apply that nobody overtook will insert is the difference as it still is.
Aligned ==
    /\ IsFiniteSet(live)
    /\ \A p \in Procs : loc[p].now <= time
    /\ \A p \in Procs \ overlapped : pc[p] \in Computed => loc[p].delta = Clip(Difference(p))

\* The ledger stays finite.
LEMMA FiniteStep == ASSUME IInv, IsFiniteSet(live), [Next]_vars PROVE IsFiniteSet(live')
<1>1. CASE live' = live
  BY <1>1
<1>2. ASSUME NEW i, live' = live \cup {i} PROVE IsFiniteSet(live')
  BY <1>2, FS_AddElement
<1>3. CASE live' \subseteq live
  BY <1>3, FS_Subset
<1>4. ASSUME NEW p \in Procs, Begin(p) \/ Proceed(p) PROVE IsFiniteSet(live')
  <2>1. CASE AddExpense(p) \/ ApplyCommit(p) \/ RevertCommit(p)
    BY <1>2, <2>1 DEF AddExpense, ApplyCommit, RevertCommit
  <2>2. CASE RemoveWrite(p)
    BY <1>1, <1>3, <2>2 DEF RemoveWrite
  <2> QED BY <1>1, <1>4, <2>1, <2>2
          DEF Begin, Proceed, Apply, Revert, Write, ApplyBegin, RevertBegin, EditCheck,
              RemoveCheck, ApplyRead, ApplyNoop, ApplyDuplicate, ApplyOverflow, ApplyInsert,
              ApplyRecord, ApplyCollision, RevertRead, RevertRefused, RevertUpdate,
              EditWrite, db
<1> QED BY <1>1, <1>4
        DEF Next, Boot, BootStart, Scan, ScanFails, Backfill, BackfillKnown,
            BackfillRecord, BackfillRefused, BackfillReversal, BackfillLock, BootDone,
            Crash, Tick, db, vars

\* The clock of a request is one the server has shown.
LEMMA ClockStep ==
    ASSUME IInv, \A p \in Procs : loc[p].now <= time, [Next]_vars, NEW p \in Procs
    PROVE  loc'[p].now <= time'
<1> USE DEF IInv, TypeOK
<1>1. time \in Nat /\ time' \in {time, time + 1}
  <2>1. ASSUME NEW q \in Procs, Begin(q) \/ Proceed(q) PROVE time' = time
    BY <2>1
    DEF Begin, ApplyBegin, RevertBegin, AddExpense, EditCheck, RemoveCheck, Proceed, Apply,
        ApplyRead, ApplyNoop, ApplyDuplicate, ApplyOverflow, ApplyInsert, ApplyRecord,
        ApplyCollision, ApplyCommit, Revert, RevertRead, RevertRefused, RevertUpdate,
        RevertCommit, Write, EditWrite, RemoveWrite, env
  <2>2. Boot => time' = time
    BY DEF Boot, BootStart, Scan, ScanFails, Backfill, BackfillKnown, BackfillRecord,
           BackfillRefused, BackfillReversal, BackfillLock, BootDone, env
  <2> QED BY <2>1, <2>2 DEF Next, Tick, Crash, env, vars
<1>2. loc[p].now \in Nat /\ loc[p].now <= time
  BY DEF Loc
<1>3. loc'[p].now \in {0, time, loc[p].now}
  <2>1. ASSUME NEW q \in Procs, ApplyBegin(q) \/ RevertBegin(q)
        PROVE  loc'[p].now \in {time, loc[p].now}
    <3>1. CASE ApplyBegin(q)
      <4>1. PICK t \in Targets, k \in Keys \cup {NoKey}, i \in Fresh :
              loc' = [loc EXCEPT ![q].target = t, ![q].key = k, ![q].new = i,
                                 ![q].now = time]
        BY <3>1 DEF ApplyBegin
      <4> QED BY <4>1 DEF Loc
    <3>2. CASE RevertBegin(q)
      <4>1. PICK b \in Recorded, i \in Fresh :
              loc' = [loc EXCEPT ![q].ids = {b}, ![q].new = i, ![q].now = time]
        BY <3>2 DEF RevertBegin
      <4> QED BY <4>1 DEF Loc
    <3> QED BY <2>1, <3>1, <3>2
  <2>2. ASSUME NEW q \in Procs, EditCheck(q) \/ RemoveCheck(q) \/ ApplyRead(q) \/ RevertRead(q)
        PROVE  loc'[p].now = loc[p].now
    BY <2>2 DEF EditCheck, RemoveCheck, ApplyRead, RevertRead, Loc
  <2>3. ASSUME NEW q \in Procs, Answer(q) PROVE loc'[p].now \in {0, loc[p].now}
    BY <2>3 DEF Answer, NoLoc
  <2>4. CASE UNCHANGED loc
    BY <2>4
  <2>5. ASSUME NEW q \in Procs, Begin(q) PROVE loc'[p].now \in {0, time, loc[p].now}
    BY <2>1, <2>2, <2>4, <2>5 DEF Begin, AddExpense
  <2>6. ASSUME NEW q \in Procs, Proceed(q) PROVE loc'[p].now \in {0, time, loc[p].now}
    BY <2>2, <2>3, <2>4, <2>6
    DEF Proceed, Apply, ApplyNoop, ApplyDuplicate, ApplyOverflow, ApplyInsert, ApplyRecord,
        ApplyCollision, ApplyCommit, Revert, RevertRefused, RevertUpdate, RevertCommit,
        Write, EditWrite, RemoveWrite
  <2>7. CASE Boot \/ Tick \/ UNCHANGED vars
    BY <2>4, <2>7
    DEF Boot, BootStart, Scan, ScanFails, Backfill, BackfillKnown, BackfillRecord,
        BackfillRefused, BackfillReversal, BackfillLock, BootDone, Tick, vars
  <2>8. CASE Crash
    BY <2>8 DEF Crash, NoLoc
  <2> QED BY <2>5, <2>6, <2>7, <2>8 DEF Next
<1> QED BY <1>1, <1>2, <1>3

\* Whoever commits overtakes all others; what else may change the ledger runs
\* while nothing is in flight.
LEMMA AlignedStep == ASSUME IInv, Aligned, [Next]_vars PROVE Aligned'
<1> USE DEF IInv
<1>1. IsFiniteSet(live') /\ \A p \in Procs : loc'[p].now <= time'
  BY FiniteStep, ClockStep DEF Aligned
<1> DEFINE Kept(p) == p \notin overlapped' /\ pc'[p] \in Computed
                        => loc'[p].delta = Clip(Difference(p)')
<1> SUFFICES ASSUME NEW p \in Procs PROVE Kept(p)
  BY <1>1 DEF Aligned
<1>9. ASSUME UNCHANGED <<live, exp, loc[p]>> PROVE Difference(p)' = Difference(p)
  BY <1>9 DEF Difference
<1>2. CASE UNCHANGED <<live, exp, overlapped, pc[p], loc[p]>>
  BY <1>2, <1>9 DEF Aligned
<1>3. CASE pc'[p] \notin Computed
  BY <1>3
<1>4. ASSUME NEW q \in Procs, Begin(q) PROVE Kept(p)
  <2>1. CASE ApplyBegin(q) \/ RevertBegin(q) \/ EditCheck(q) \/ RemoveCheck(q)
    <3>1. CASE p = q
      BY <1>3, <2>1, <3>1 DEF ApplyBegin, RevertBegin, EditCheck, RemoveCheck, Goto, TypeOK,
                              Computed
    <3>2. CASE p # q
      BY <1>2, <2>1, <3>2 DEF ApplyBegin, RevertBegin, EditCheck, RemoveCheck, Goto, TypeOK,
                              db, hist
    <3> QED BY <3>1, <3>2
  <2>3. CASE AddExpense(q)
    BY <2>3 DEF AddExpense, At, Commit, Computed, TypeOK
  <2> QED BY <1>4, <2>1, <2>3 DEF Begin
<1>5. ASSUME NEW q \in Procs, Proceed(q) PROVE Kept(p)
  <2>1. CASE \/ ApplyCommit(q) \/ RevertCommit(q) \/ Write(q)
    BY <1>3, <2>1 DEF ApplyCommit, RevertCommit, Write, EditWrite, RemoveWrite, Answer,
                      Goto, Commit, Computed, TypeOK
  <2>2. CASE \/ ApplyNoop(q) \/ ApplyDuplicate(q) \/ ApplyOverflow(q) \/ ApplyCollision(q)
             \/ RevertRead(q) \/ RevertRefused(q) \/ RevertUpdate(q)
    <3>1. CASE p = q
      BY <1>3, <2>2, <3>1
      DEF ApplyNoop, ApplyDuplicate, ApplyOverflow, ApplyCollision, RevertRead,
          RevertRefused, RevertUpdate, Answer, Goto, TypeOK, Computed
    <3>2. CASE p # q
      BY <1>2, <2>2, <3>2
      DEF ApplyNoop, ApplyDuplicate, ApplyOverflow, ApplyCollision, RevertRead,
          RevertRefused, RevertUpdate, Answer, Goto, TypeOK, db, hist
    <3> QED BY <3>1, <3>2
  <2>3. CASE ApplyInsert(q) \/ ApplyRecord(q)
    <3>1. UNCHANGED <<live, exp, loc, overlapped>>
          /\ (pc'[p] = pc[p] \/ pc[p] \in Computed)
      BY <2>3 DEF ApplyInsert, ApplyRecord, At, Goto, TypeOK, db, hist, Computed
    <3> QED BY <1>9, <3>1 DEF Aligned
  <2>4. CASE ApplyRead(q)
    <3>1. CASE p # q
      <4>1. UNCHANGED <<live, exp, pc[p], loc[p]>> /\ (p \in overlapped' <=> p \in overlapped)
        BY <2>4, <3>1 DEF ApplyRead, Goto, TypeOK, db
      <4> QED BY <1>9, <4>1 DEF Aligned
    <3>2. CASE p = q
      <4>1. /\ loc'[p].delta = Clip(Difference(p))
            /\ loc'[p].target = loc[p].target /\ loc'[p].now = loc[p].now
            /\ UNCHANGED <<live, exp>>
        BY <2>4, <3>2 DEF ApplyRead, TypeOK, Loc, db
      <4>2. Difference(p)' = Difference(p)
        BY <4>1 DEF Difference
      <4> QED BY <4>1, <4>2
    <3> QED BY <3>1, <3>2
  <2> QED BY <1>5, <2>1, <2>2, <2>3, <2>4 DEF Proceed, Apply, Revert
<1>6. CASE Boot
  <2>1. pc[p] = "idle" /\ pc'[p] = "idle"
    BY <1>6 DEF Boot, BootStart, Scan, ScanFails, Backfill, BackfillKnown, BackfillRecord,
                BackfillRefused, BackfillReversal, BackfillLock, BootDone, Booting,
                InFlight, Quiet
  <2> QED BY <1>3, <2>1 DEF Computed
<1>7. CASE Crash
  BY <1>3, <1>7 DEF Crash, Computed
<1>8. CASE Tick \/ UNCHANGED vars
  BY <1>2, <1>8 DEF Tick, vars, db, hist
<1> QED BY <1>4, <1>5, <1>6, <1>7, <1>8 DEF Next

\* An apply leaves the balance the user asked for, whatever the ledger holds and
\* however long the request took, unless another commit came in between or the
\* ledger has a movement dated after the clock the handler read (reconciliation.go:55)
\* which its sum leaves out (databaseStore.go:2271).
THEOREM BalanceReached == Spec => AlignedUnlessOvertaken
<1> DEFINE Reached == \A p \in Procs :
                          /\ ApplyCommit(p)
                          /\ p \notin overlapped
                          /\ \A i \in live : ~Late(p, i)
                          => Balance(live', exp', time) = loc[p].target
<1>1. Init => Aligned
  BY FiniteLedger DEF Init, Aligned, NoLoc, Computed
<1>2. IInv /\ Aligned /\ [Next]_vars => Aligned'
  BY AlignedStep
<1>3. ASSUME IInv, Aligned, NEW p \in Procs, ApplyCommit(p), p \notin overlapped,
             \A j \in live : ~Late(p, j)
      PROVE  Balance(live', exp', time) = loc[p].target
  <2> DEFINE i == loc[p].new
             t == loc[p].now
             b == Balance(live, exp, t)
             S == {j \in live : exp[j].date <= t}
             D == {j \in live : exp'[j].date <= time}
  <2>1. /\ pc[p] = "applied" /\ i \in ExpenseIds /\ i \notin live
        /\ loc[p].delta \in Amounts /\ loc[p].target \in Int
        /\ t \in Nat /\ time \in Nat /\ t <= time
    BY <1>3, ReconciliationAssumption
    DEF ApplyCommit, At, IInv, TypeOK, Loc, InFlight, InsertReady, DrawnFresh, Ledger,
        MigrationState, Aligned
  <2>2. /\ live' = live \cup {i} /\ exp'[i] = SystemRow(loc[p].delta, "adjustment", t)
        /\ \A j \in live : exp'[j] = exp[j]
    BY <1>3, <2>1 DEF ApplyCommit, IInv, TypeOK
  <2>3. \A j \in live : exp[j].amount \in Int /\ exp[j].date \in Nat
    BY <1>3 DEF IInv, TypeOK, Row, Amounts
  <2>4. /\ exp'[i].amount = loc[p].delta /\ exp'[i].cash /\ exp'[i].date = t
        /\ loc[p].delta \in Int
    BY <2>1, <2>2 DEF SystemRow, Amounts
  <2>5. IsFiniteSet(S) /\ IsFiniteSet(D) /\ S \subseteq live /\ D \subseteq live
    BY <1>3, FS_Subset DEF Aligned
  <2>6. Total(S, exp) \in Int
    BY <2>3, <2>5, TotalInt
  <2>7. Total(D, exp') = Total(S, exp)
    <3>1. {j \in D : exp'[j].cash} = {j \in S : exp[j].cash}
      BY <1>3, <2>1, <2>2, <2>3 DEF Late
    <3>2. Total(D, exp') = Total(S, exp')
      <4>1. {j \in S : exp'[j].cash} = {j \in S : exp[j].cash}
        BY <2>2, <2>5
      <4> HIDE DEF S, D
      <4> QED BY <3>1, <4>1, TotalSums
    <3>3. Total(S, exp') = Total(S, exp)
      <4>1. \A j \in S : exp'[j].amount = exp[j].amount /\ exp'[j].cash = exp[j].cash
        BY <2>2, <2>5
      <4> HIDE DEF S
      <4> QED BY <2>5, <4>1, TotalSame
    <3> QED BY <3>2, <3>3
  <2>8. Total(D \cup {i}, exp') = Total(D, exp') + exp'[i].amount
    <3>1. /\ \A j \in D : exp'[j].amount \in Int
          /\ exp'[i].amount \in Int /\ exp'[i].cash /\ i \notin D
      BY <2>1, <2>2, <2>3, <2>4, <2>5
    <3> HIDE DEF i, D
    <3> QED BY ONLY <2>5, <3>1, TotalAdd
  <2>9. {j \in live' : exp'[j].date <= time} = D \cup {i}
    BY <2>1, <2>2, <2>4
  <2>10. Balance(live', exp', time) = b + loc[p].delta
    BY <2>4, <2>7, <2>8, <2>9 DEF Balance
  <2>11. loc[p].delta = Clip(loc[p].target - b) /\ b \in Int
    BY <1>3, <2>1, <2>6 DEF Aligned, Difference, Computed, Balance
  <2>12. loc[p].delta = loc[p].target - b
    BY <2>1, <2>11, ReconciliationAssumption DEF Clip, Amounts, Overflow
  <2> HIDE DEF b
  <2> QED BY <2>1, <2>10, <2>11, <2>12
<1>4. IInv /\ Aligned /\ [Next]_vars => [Reached]_vars
  BY <1>3
<1> QED BY <1>1, <1>2, <1>4, Invariance, PTL DEF Spec, AlignedUnlessOvertaken

----------------------------------------------------------------------------
(* The migration ends *)

\* Where every row can be taken, a start only goes on: the program runs, the scan
\* makes its list, a statement begins the work on a row of the list or crosses off
\* the row it was at, or the server listens.  No such step fails, and none leaves a
\* row that a later one fails on.
BootAdvances ==
    [][MigrationPossible /\ Boot =>
          /\ MigrationPossible'
          /\ \/ server = "down" /\ server' = "scan"
             \/ server = "scan" /\ server' = "boot"
             \/ /\ server = "boot" /\ server' = "boot"
                /\ \/ half = None /\ half' \in todo /\ todo' = todo
                   \/ half \in todo /\ half' = None /\ todo' = todo \ {half}
             \/ server = "boot" /\ server' = "up" /\ todo = {}]_vars

\* What a boot can do next: there is always a row whose turn it is.
BootHasNext ==
    server = "boot" =>
        \/ half # None
        \/ todo = {}
        \/ \E i \in todo : \/ exp[i].kind = "adjustment"
                           \/ /\ exp[i].kind = "reversal"
                              /\ \A j \in todo : exp[j].kind = "reversal"

\* Recording a row takes its key for good; every row that still waits for its
\* record has another.
LEMMA RecordKeepsKeys ==
    ASSUME IInv, LegacyKeysDistinct, NEW i \in ExpenseIds, BackfillRecord(i)
    PROVE  LegacyKeysDistinct'
<1> USE DEF IInv, TypeOK
<1>1. i \in live /\ exp[i].kind = "adjustment" /\ i \notin Recorded
  BY DEF BackfillRecord, Booting, Ledger, MigrationState
<1>2. live' = live /\ exp' = exp
  BY DEF BackfillRecord
<1>3. rec'[i].key = exp[i].key /\ \A a \in ExpenseIds \ {i} : rec'[a] = rec[a]
  BY DEF BackfillRecord
<1>4. Recorded' \subseteq Recorded \cup {i} /\ Recorded \ {i} \subseteq Recorded'
  BY <1>3 DEF Recorded
<1>5. i \in Recorded'
  BY DEF BackfillRecord, NoRec, Recorded
<1>6. ASSUME NEW j \in live, exp[j].kind = "adjustment", j \notin Recorded',
             exp[j].key # NoKey, NEW a \in Recorded', rec'[a].key = exp[j].key
      PROVE  FALSE
  <2>1. j \notin Recorded /\ j # i
    BY <1>4, <1>5, <1>6
  <2>2. CASE a = i
    BY <1>1, <1>3, <1>6, <2>1, <2>2 DEF LegacyKeysDistinct
  <2>3. CASE a # i
    BY <1>3, <1>4, <1>6, <2>1, <2>3 DEF LegacyKeysDistinct, KeyTaken, Recorded
  <2> QED BY <2>2, <2>3
<1>7. \A j \in live : j \notin Recorded' => j \notin Recorded
  BY <1>1, <1>4, <1>5
<1> QED BY <1>2, <1>6, <1>7 DEF LegacyKeysDistinct, KeyTaken

\* No step of a boot makes a row of the ledger one it cannot take.
LEMMA BootKeepsPossible ==
    ASSUME IInv, MigrationPossible, Boot
    PROVE  MigrationPossible'
<1> USE DEF IInv, TypeOK
<1>1. ASSUME live' = live, Recorded' = Recorded,
             \A a \in Recorded : rec'[a].key = rec[a].key,
             \A i \in live : /\ exp'[i].kind = exp[i].kind /\ exp'[i].key = exp[i].key
                             /\ exp'[i].form = exp[i].form
      PROVE  MigrationPossible'
  <2>1. LegacyKeysDistinct'
    BY <1>1 DEF MigrationPossible, LegacyKeysDistinct, KeyTaken
  <2> QED BY <1>1, <2>1 DEF MigrationPossible, Readable
<1>2. CASE BackfillLock
  <2>1. half \in ExpenseIds
    BY <1>2 DEF BackfillLock
  <2>2. \A i \in ExpenseIds : /\ exp'[i].kind = exp[i].kind /\ exp'[i].key = exp[i].key
                             /\ exp'[i].form = exp[i].form
    BY <1>2, <2>1 DEF BackfillLock, Row
  <2> QED BY <1>1, <1>2, <2>2 DEF BackfillLock, Recorded
<1>3. ASSUME NEW i \in ExpenseIds, BackfillReversal(i) PROVE MigrationPossible'
  <2>1. \A a \in Recorded : rec[a] \in Rec
    BY DEF Recorded
  <2>2. \A a \in Recorded :
          /\ [rec[a] EXCEPT !.status = "reverted", !.reversal = i].key = rec[a].key
          /\ [rec[a] EXCEPT !.status = "reverted", !.reversal = i].status = "reverted"
    BY <2>1, RevertFields
  <2>3. \A a \in ExpenseIds :
          rec'[a] = IF a \in Recorded /\ a = exp[i].tag
                    THEN [rec[a] EXCEPT !.status = "reverted", !.reversal = i] ELSE rec[a]
    BY <1>3 DEF BackfillReversal
  <2>4. Recorded' = Recorded
    <3>1. ASSUME NEW a \in Recorded PROVE rec'[a] # NoRec
      <4>1. rec[a] # NoRec /\ (rec'[a].status = "reverted" \/ rec'[a] = rec[a])
        BY <2>2, <2>3 DEF Recorded
      <4>2. NoRec.status # "reverted"
        BY DEF NoRec
      <4> QED BY <4>1, <4>2 DEF Recorded
    <3>2. \A a \in ExpenseIds \ Recorded : rec'[a] = NoRec
      BY <2>3 DEF Recorded
    <3> QED BY <3>1, <3>2 DEF Recorded
  <2>5. \A a \in Recorded : rec'[a].key = rec[a].key
    BY <2>2, <2>3 DEF Recorded
  <2> QED BY <1>1, <1>3, <2>4, <2>5 DEF BackfillReversal
<1>4. ASSUME NEW i \in ExpenseIds, BackfillKnown(i) \/ BackfillRefused(i)
      PROVE  MigrationPossible'
  BY <1>1, <1>4 DEF BackfillKnown, BackfillRefused, db, Recorded
<1>5. CASE BootStart \/ Scan \/ ScanFails \/ BootDone
  BY <1>1, <1>5 DEF BootStart, Scan, ScanFails, BootDone, db, Recorded
<1>6. ASSUME NEW i \in ExpenseIds, BackfillRecord(i) PROVE MigrationPossible'
  <2>1. LegacyKeysDistinct'
    BY <1>6, RecordKeepsKeys DEF MigrationPossible
  <2>2. live' = live /\ exp' = exp
    BY <1>6 DEF BackfillRecord
  <2>3. Recorded \subseteq Recorded'
    BY <1>6 DEF BackfillRecord, Recorded
  <2> QED BY <2>1, <2>2, <2>3 DEF MigrationPossible, Readable
<1> QED BY <1>2, <1>3, <1>4, <1>5, <1>6 DEF Boot, Backfill

\* Every start ends with the server listening: each of its steps takes a finite list
\* on and none of them fails, unless the ledger has a row that the scan cannot read,
\* or a row to be recorded whose tags fit no column or whose key is taken.
THEOREM BootGoesThrough == Spec => BootAdvances
<1> DEFINE Further ==
             \/ server = "down" /\ server' = "scan"
             \/ server = "scan" /\ server' = "boot"
             \/ /\ server = "boot" /\ server' = "boot"
                /\ \/ half = None /\ half' \in todo /\ todo' = todo
                   \/ half \in todo /\ half' = None /\ todo' = todo \ {half}
             \/ server = "boot" /\ server' = "up" /\ todo = {}
<1>1. ASSUME IInv, MigrationPossible, Boot PROVE MigrationPossible' /\ Further
  <2> USE <1>1
  <2>1. ASSUME NEW i \in ExpenseIds PROVE ~BackfillRefused(i)
    BY DEF IInv, Ledger, MigrationState, BackfillRefused, Recordable, Booting,
           MigrationPossible, LegacyKeysDistinct, KeyTaken
  <2>2. ASSUME NEW i \in ExpenseIds,
               BackfillKnown(i) \/ BackfillRecord(i) \/ BackfillReversal(i)
        PROVE  Further
    BY <2>2 DEF BackfillKnown, BackfillRecord, BackfillReversal, Booting
  <2>3. BackfillLock => Further
    BY DEF IInv, Ledger, MigrationState, BackfillLock
  <2>4. BootDone \/ BootStart \/ Scan => Further
    BY DEF BootDone, BootStart, Scan
  <2>5. ~ScanFails
    BY DEF ScanFails, MigrationPossible
  <2> QED BY <2>1, <2>2, <2>3, <2>4, <2>5, BootKeepsPossible DEF Boot, Backfill
<1>2. IInv => [MigrationPossible /\ Boot => MigrationPossible' /\ Further]_vars
  BY <1>1
<1> QED BY <1>2, Invariance, PTL DEF BootAdvances

\* The migration never waits: there is a row whose turn it is until the list is
\* empty, and the list is finite.
THEOREM BootNeverStuck == Spec => [](BootHasNext /\ IsFiniteSet(todo))
<1> DEFINE Finite == IsFiniteSet(live)
<1>1. ASSUME IInv, Finite PROVE BootHasNext /\ IsFiniteSet(todo)
  <2>1. \A i \in todo : exp[i].kind \in {"adjustment", "reversal"}
    BY <1>1 DEF IInv, Ledger, MigrationState, Legacy
  <2>2. todo \subseteq live
    BY <1>1 DEF IInv, Ledger, MigrationState
  <2> QED BY <1>1, <2>1, <2>2, FS_Subset DEF BootHasNext
<1>2. Init => Finite
  BY FiniteLedger DEF Init
<1>3. IInv /\ Finite /\ [Next]_vars => Finite'
  BY FiniteStep
<1> HIDE DEF Finite
<1> QED BY <1>1, <1>2, <1>3, Invariance, PTL DEF Spec

----------------------------------------------------------------------------
(* The ledger implements one in which history and balance move in one piece *)

Own == {i \in live : ~exp[i].locked}
System == {i \in live : exp[i].locked}

\* What the refinement needs of the two parts of the ledger.
LEMMA Parts ==
    ASSUME IInv, IsFiniteSet(live)
    PROVE  /\ IsFiniteSet(Own) /\ IsFiniteSet(System)
           /\ live \subseteq ExpenseIds
           /\ \A i \in ExpenseIds : /\ exp[i] \in Row /\ exp[i].amount \in Int
                                    /\ exp[i].cash \in BOOLEAN
                                    /\ exp[i].locked \in BOOLEAN
           /\ Total(Own, exp) \in Int /\ Total(System, exp) \in Int
<1>1. live \subseteq ExpenseIds
      /\ \A i \in ExpenseIds : /\ exp[i] \in Row /\ exp[i].amount \in Int
                               /\ exp[i].cash \in BOOLEAN /\ exp[i].locked \in BOOLEAN
  BY DEF IInv, TypeOK, Row, Amounts
<1>2. Own \subseteq live /\ System \subseteq live
  BY DEF Own, System
<1>3. IsFiniteSet(Own) /\ IsFiniteSet(System)
  BY <1>2, FS_Subset
<1> QED BY <1>1, <1>2, <1>3, TotalInt

\* An adjustment enters the history and the system's part in one step.
LEMMA AdjustStep ==
    ASSUME IInv, IsFiniteSet(live), NEW p \in Procs, ApplyCommit(p),
           NEW i, NEW d, NEW k, loc[p].new = i, loc[p].delta = d, loc[p].key = k
    PROVE  i \in ExpenseIds /\ d \in Amounts /\ k \in Keys \cup {NoKey}
           /\ Abstract!Adjust(i, d, k)
<1> USE DEF IInv
<1>0. /\ IsFiniteSet(Own) /\ IsFiniteSet(System) /\ live \subseteq ExpenseIds
      /\ \A j \in live : exp[j].amount \in Int
  BY Parts
<1>1. /\ i \in ExpenseIds /\ i \notin live /\ i \notin Recorded
      /\ d \in Amounts /\ d \in Int /\ k \in Keys \cup {NoKey} /\ ~KeyTaken(k)
  BY ReconciliationAssumption
  DEF ApplyCommit, At, TypeOK, Loc, InFlight, InsertReady, DrawnFresh, KeyHeld, KeyTaken,
      Ledger, MigrationState, RecordedRows, Amounts
<1>2. /\ live' = live \cup {i} /\ exp'[i] = SystemRow(d, "adjustment", loc[p].now)
      /\ \A j \in live : exp'[j] = exp[j]
      /\ rec' = [rec EXCEPT ![i] = [status |-> "applied", delta |-> d, key |-> k,
                                    reversal |-> None]]
  BY <1>0, <1>1 DEF ApplyCommit, TypeOK
<1>3. exp'[i].locked /\ exp'[i].cash /\ exp'[i].amount = d
  BY <1>2 DEF SystemRow
<1>4. Own' = Own /\ System' = System \cup {i} /\ i \notin System
  BY <1>1, <1>2, <1>3 DEF Own, System
<1>5. Total(Own, exp)' = Total(Own, exp)
  <2>1. \A j \in Own : exp'[j] = exp[j]
    BY <1>2 DEF Own
  <2>2. Total(Own, exp') = Total(Own, exp)
    BY <1>0, <2>1, TotalSame
  <2> QED BY <1>4, <2>2
<1>6. Total(System, exp)' = Total(System, exp) + d
  <2>1. \A j \in System : exp'[j] = exp[j]
    BY <1>2 DEF System
  <2>2. (\A j \in System : exp'[j].amount \in Int) /\ exp'[i].amount \in Int /\ exp'[i].cash
    BY <1>0, <1>1, <1>3, <2>1 DEF System
  <2>3. IsFiniteSet(System) /\ i \notin System
    BY <1>0, <1>4
  <2>4. Total(System, exp') = Total(System, exp)
    BY <2>1, <2>3, TotalSame
  <2>5. Total(System \cup {i}, exp') = Total(System, exp') + exp'[i].amount
    BY ONLY <2>2, <2>3, TotalAdd
  <2> QED BY <1>3, <1>4, <2>4, <2>5
<1>7. Abstract!Enter(i, d, k)
  <2> DEFINE e == [j \in ExpenseIds |-> [delta |-> rec[j].delta, key |-> rec[j].key,
                                         status |-> rec[j].status]]
  <2>1. e[i] = Abstract!Blank
    BY <1>1 DEF Abstract!Blank, Recorded, NoRec
  <2>2. e' = [e EXCEPT ![i] = [delta |-> d, key |-> k, status |-> "applied"]]
    BY <1>1, <1>2 DEF TypeOK
  <2>3. Abstract!Unused(k)
    BY <1>1 DEF Abstract!Unused, KeyTaken, Recorded, NoRec
  <2> QED BY <2>1, <2>2, <2>3 DEF Abstract!Enter
<1> QED BY <1>1, <1>5, <1>6, <1>7 DEF Abstract!Adjust, Own, System

\* A revert marks its entry and takes the entry's amount back in one step.
LEMMA UndoStep ==
    ASSUME IInv, IsFiniteSet(live), NEW p \in Procs, RevertCommit(p)
    PROVE  \E a \in ExpenseIds : Abstract!Undo(a)
<1> USE DEF IInv
<1>0. /\ IsFiniteSet(Own) /\ IsFiniteSet(System) /\ live \subseteq ExpenseIds
      /\ \A j \in live : exp[j].amount \in Int
  BY Parts
<1>1. PICK a \in Recorded : loc[p].ids = {a} /\ loc[p].delta = -exp[a].amount
  BY DEF RevertCommit, At, InFlight, RevertCurrent
<1>2. PICK i \in ExpenseIds : loc[p].new = i
  BY DEF RevertCommit, At, InFlight, InsertReady
<1>3. /\ i \notin live /\ a \in ExpenseIds /\ rec[a] \in Rec
      /\ rec[a].status # "none" /\ a \in live
      /\ exp[a].amount = rec[a].delta
  BY <1>1, <1>2, ReconciliationAssumption
  DEF InFlight, DrawnFresh, Ledger, MigrationState, RecordedRows, Recorded, TypeOK
<1>4. /\ live' = live \cup {i} /\ exp'[i] = SystemRow(-rec[a].delta, "reversal", loc[p].now)
      /\ \A j \in live : exp'[j] = exp[j]
      /\ rec' = [b \in ExpenseIds |-> IF b = a
                   THEN [rec[b] EXCEPT !.status = "reverted", !.reversal = i] ELSE rec[b]]
  BY <1>0, <1>1, <1>2, <1>3 DEF RevertCommit, TypeOK
<1>5. /\ exp'[i].locked /\ exp'[i].cash /\ exp'[i].amount = -rec[a].delta
      /\ rec[a].delta \in Int
  <2> DEFINE d == -rec[a].delta
  <2>1. exp'[i] = SystemRow(d, "reversal", loc[p].now)
    BY <1>4
  <2> HIDE DEF d
  <2>2. exp'[i].locked /\ exp'[i].cash /\ exp'[i].amount = d
    BY <2>1 DEF SystemRow
  <2> QED BY <1>0, <1>3, <2>2 DEF d
<1>6. Own' = Own /\ System' = System \cup {i} /\ i \notin System
  BY <1>3, <1>4, <1>5 DEF Own, System
<1>7. Total(Own, exp)' = Total(Own, exp)
  <2>1. \A j \in Own : exp'[j] = exp[j]
    BY <1>4 DEF Own
  <2>2. Total(Own, exp') = Total(Own, exp)
    BY <1>0, <2>1, TotalSame
  <2> QED BY <1>6, <2>2
<1>8. Total(System, exp)' = Total(System, exp) - rec[a].delta
  <2>1. \A j \in System : exp'[j] = exp[j]
    BY <1>4 DEF System
  <2>2. (\A j \in System : exp'[j].amount \in Int) /\ exp'[i].amount \in Int /\ exp'[i].cash
    BY <1>0, <1>5, <2>1 DEF System
  <2>3. IsFiniteSet(System) /\ i \notin System
    BY <1>0, <1>6
  <2>4. Total(System, exp') = Total(System, exp) /\ Total(System, exp) \in Int
    BY <2>1, <2>3, TotalSame, Parts
  <2>5. Total(System \cup {i}, exp') = Total(System, exp') + exp'[i].amount
    BY ONLY <2>2, <2>3, TotalAdd
  <2> QED BY <1>5, <1>6, <2>4, <2>5
<1>9. Abstract!Mark(a)
  <2> DEFINE e == [j \in ExpenseIds |-> [delta |-> rec[j].delta, key |-> rec[j].key,
                                         status |-> rec[j].status]]
  <2>1. e[a].status # "none"
    BY <1>3
  <2>2. e' = [e EXCEPT ![a].status = "reverted"]
    <3>1. /\ rec'[a].delta = rec[a].delta /\ rec'[a].key = rec[a].key
          /\ rec'[a].status = "reverted"
      BY <1>2, <1>3, <1>4, RevertFields
    <3>2. \A j \in ExpenseIds \ {a} : rec'[j] = rec[j]
      BY <1>4
    <3> QED BY <1>3, <3>1, <3>2
  <2> QED BY <2>1, <2>2 DEF Abstract!Mark
<1>10. [j \in ExpenseIds |-> [delta |-> rec[j].delta, key |-> rec[j].key,
                              status |-> rec[j].status]][a].delta = rec[a].delta
  BY <1>3
<1>11. Abstract!Undo(a)
  BY <1>7, <1>8, <1>9, <1>10 DEF Abstract!Undo, Own, System
<1> QED BY <1>3, <1>11

\* What the expense endpoints write changes the user's own part only.
LEMMA SpendStep ==
    ASSUME IInv, IInv', IsFiniteSet(live), IsFiniteSet(live'), rec' = rec,
           System' = System, \A i \in System : exp'[i] = exp[i]
    PROVE  Abstract!Spend
<1>1. Total(System, exp)' = Total(System, exp)
  <2>1. Total(System, exp') = Total(System, exp)
    BY Parts, TotalSame
  <2> QED BY <2>1
<1>2. Total(Own, exp)' \in Int
  <2>1. Own' \subseteq live' /\ live' \subseteq ExpenseIds
    BY DEF Own, IInv, TypeOK
  <2>2. IsFiniteSet(Own')
    BY <2>1, FS_Subset
  <2>3. \A j \in Own' : exp'[j].amount \in Int
    BY <2>1 DEF IInv, TypeOK, Row, Amounts
  <2>4. Total(Own', exp') \in Int
    BY <2>2, <2>3, TotalInt
  <2> QED BY <2>4
<1> QED BY <1>1, <1>2 DEF Abstract!Spend, Own, System

LEMMA WritesSpend ==
    ASSUME IInv, IInv', IsFiniteSet(live), IsFiniteSet(live'), NEW p \in Procs,
           AddExpense(p) \/ Write(p)
    PROVE  Abstract!Spend
<1> USE DEF IInv
<1>1. CASE AddExpense(p)
  <2>1. PICK i \in Fresh, r \in UserRows :
          live' = live \cup {i} /\ exp' = [exp EXCEPT ![i] = r] /\ rec' = rec
    BY <1>1 DEF AddExpense
  <2>2. /\ i \in ExpenseIds /\ i \notin live /\ ~r.locked
        /\ \A j \in ExpenseIds : j # i => exp'[j] = exp[j]
        /\ exp'[i] = r /\ live \subseteq ExpenseIds
    BY <2>1, ReconciliationAssumption DEF Fresh, Undrawn, Ledger, MigrationState, TypeOK
  <2>3. System' = System /\ \A j \in System : exp'[j] = exp[j]
    BY <2>1, <2>2 DEF System
  <2> QED BY <2>1, <2>3, SpendStep
<1>2. CASE Write(p)
  <2>1. /\ live' \subseteq live
        /\ \A i \in live : exp[i].locked => i \in live' /\ exp'[i] = exp[i]
        /\ \A i \in ExpenseIds : exp'[i].locked = exp[i].locked
        /\ rec' = rec /\ live \subseteq ExpenseIds
    BY <1>2, WriteKeeps DEF Write, EditWrite, RemoveWrite, TypeOK
  <2>2. System' = System /\ \A j \in System : exp'[j] = exp[j]
    BY <2>1 DEF System
  <2> QED BY <2>1, <2>2, SpendStep
<1> QED BY <1>1, <1>2

\* The statements of the migration, one by one.
LEMMA AdoptStep ==
    ASSUME IInv, NEW i \in ExpenseIds, BackfillRecord(i)
    PROVE  Abstract!Next
<1> USE DEF IInv
<1>1. PICK d, k : d = exp[i].amount /\ k = exp[i].key
  OBVIOUS
<1>2. /\ i \notin Recorded /\ ~KeyTaken(k) /\ d \in Amounts /\ k \in Keys \cup {NoKey}
      /\ rec' = [rec EXCEPT ![i] = [status |-> "applied", delta |-> d, key |-> k,
                                    reversal |-> None]]
      /\ UNCHANGED <<live, exp>>
  BY <1>1 DEF BackfillRecord, Recordable, TypeOK, Row
<1>3. Abstract!Enter(i, d, k)
  <2> DEFINE e == [j \in ExpenseIds |-> [delta |-> rec[j].delta, key |-> rec[j].key,
                                         status |-> rec[j].status]]
  <2>1. e[i] = Abstract!Blank
    BY <1>2 DEF Abstract!Blank, Recorded, NoRec
  <2>2. e' = [e EXCEPT ![i] = [delta |-> d, key |-> k, status |-> "applied"]]
    BY <1>2 DEF TypeOK
  <2>3. Abstract!Unused(k)
    BY <1>2 DEF Abstract!Unused, KeyTaken, Recorded, NoRec
  <2> QED BY <2>1, <2>2, <2>3 DEF Abstract!Enter
<1>4. Abstract!Adopt(i, d, k)
  BY <1>2, <1>3 DEF Abstract!Adopt
<1> QED BY <1>2, <1>4 DEF Abstract!Next

LEMMA AdoptUndoStep ==
    ASSUME IInv, NEW i \in ExpenseIds, BackfillReversal(i), UNCHANGED <<live, exp>>
    PROVE  rec' = rec \/ \E a \in ExpenseIds : Abstract!AdoptUndo(a)
<1> USE DEF IInv
<1> SUFFICES ASSUME exp[i].tag \in Recorded PROVE \E a \in ExpenseIds : Abstract!AdoptUndo(a)
  <2>1. ASSUME exp[i].tag \notin Recorded PROVE rec' = rec
    BY <2>1 DEF BackfillReversal, TypeOK
  <2> QED BY <2>1
<1>1. PICK a \in Recorded : a = exp[i].tag
  OBVIOUS
<1>2. /\ a \in ExpenseIds /\ rec[a] \in Rec /\ rec[a].status # "none"
      /\ rec'[a] = [rec[a] EXCEPT !.status = "reverted", !.reversal = i]
      /\ \A j \in ExpenseIds \ {a} : rec'[j] = rec[j]
  <2>1. a \in ExpenseIds /\ rec[a] \in Rec /\ rec[a].status # "none"
    BY <1>1 DEF Ledger, RecordedRows, Recorded, TypeOK
  <2>2. rec' = [b \in ExpenseIds |-> IF b \in Recorded /\ b = a
                  THEN [rec[b] EXCEPT !.status = "reverted", !.reversal = i] ELSE rec[b]]
    BY <1>1 DEF BackfillReversal
  <2> QED BY <1>1, <2>1, <2>2
<1>3. Abstract!Mark(a)
  <2> DEFINE e == [j \in ExpenseIds |-> [delta |-> rec[j].delta, key |-> rec[j].key,
                                         status |-> rec[j].status]]
  <2>1. e[a].status # "none"
    BY <1>2
  <2>2. e' = [e EXCEPT ![a].status = "reverted"]
    <3> DEFINE r == [rec[a] EXCEPT !.status = "reverted", !.reversal = i]
    <3>1. r.delta = rec[a].delta /\ r.key = rec[a].key /\ r.status = "reverted"
      BY <1>2, RevertFields
    <3>2. /\ rec'[a].delta = rec[a].delta /\ rec'[a].key = rec[a].key
          /\ rec'[a].status = "reverted"
      <4> HIDE DEF r
      <4>1. rec'[a] = r
        BY <1>2 DEF r
      <4> QED BY <3>1, <4>1
    <3> QED BY <1>2, <3>2
  <2> QED BY <2>1, <2>2 DEF Abstract!Mark
<1>4. Abstract!AdoptUndo(a)
  BY <1>3 DEF Abstract!AdoptUndo
<1> QED BY <1>2, <1>4

\* Locking a row moves it from one part to the other.
LEMMA TakeStep ==
    ASSUME IInv, IsFiniteSet(live), BackfillLock
    PROVE  Abstract!Take
<1> USE DEF IInv
<1>1. PICK h \in ExpenseIds : h = half
  BY DEF BackfillLock, TypeOK
<1>2. /\ h \in live /\ exp[h] \in Row /\ live' = live /\ rec' = rec
      /\ exp'[h] = [exp[h] EXCEPT !.locked = TRUE]
      /\ \A j \in live \ {h} : exp'[j] = exp[j]
      /\ live \subseteq ExpenseIds /\ \A j \in live : exp[j].amount \in Int
  BY <1>1, Parts DEF BackfillLock, TypeOK, Ledger, MigrationState
<1>3. exp'[h].locked /\ exp'[h].amount = exp[h].amount /\ exp'[h].cash = exp[h].cash
  BY <1>2, LockField DEF Row
<1>4. \A j \in live : /\ exp'[j].amount = exp[j].amount /\ exp'[j].cash = exp[j].cash
                      /\ exp'[j].amount \in Int
  BY <1>2, <1>3
<1> DEFINE O == Own \ {h}
           L == System \ {h}
           a == exp[h].amount
<1>5. /\ IsFiniteSet(O) /\ IsFiniteSet(L) /\ IsFiniteSet(Own) /\ IsFiniteSet(System)
      /\ h \notin O /\ h \notin L /\ O \subseteq live /\ L \subseteq live
  <2>1. IsFiniteSet(Own) /\ IsFiniteSet(System)
    BY Parts
  <2> QED BY <2>1, FS_RemoveElement DEF Own, System
<1>6. Own' = O /\ System' = L \cup {h}
  BY <1>2, <1>3 DEF Own, System
<1>7. Total(O, exp') = Total(O, exp) /\ Total(L, exp') = Total(L, exp)
      /\ Total(O, exp) \in Int /\ Total(L, exp) \in Int
  <2> HIDE DEF O, L
  <2>1. /\ \A j \in O : exp'[j].amount = exp[j].amount /\ exp'[j].cash = exp[j].cash
        /\ \A j \in L : exp'[j].amount = exp[j].amount /\ exp'[j].cash = exp[j].cash
        /\ \A j \in O : exp[j].amount \in Int
        /\ \A j \in L : exp[j].amount \in Int
    BY <1>2, <1>4, <1>5
  <2> QED BY <1>5, <2>1, TotalSame, TotalInt
<1>8. /\ exp[h].cash => Total(L \cup {h}, exp') = Total(L, exp') + a
      /\ ~exp[h].cash => Total(L \cup {h}, exp') = Total(L, exp')
  <2> HIDE DEF L
  <2>1. (\A j \in L : exp'[j].amount \in Int) /\ exp'[h].amount \in Int
    BY <1>2, <1>4, <1>5
  <2>2. IsFiniteSet(L) /\ h \notin L
    BY <1>5
  <2>3. ASSUME exp'[h].cash
        PROVE  Total(L \cup {h}, exp') = Total(L, exp') + exp'[h].amount
    BY ONLY <2>1, <2>2, <2>3, TotalAdd
  <2>4. ASSUME ~exp'[h].cash PROVE Total(L \cup {h}, exp') = Total(L, exp')
    BY ONLY <2>2, <2>4, TotalSkip
  <2> QED BY <1>3, <2>3, <2>4
<1>9. CASE exp[h].locked
  <2>1. Own = O /\ System = L \cup {h}
    BY <1>2, <1>9 DEF Own, System
  <2>2. exp'[h] = exp[h]
    BY <1>2, <1>9, LockField
  <2>3. Total(System, exp') = Total(System, exp)
    <3>1. \A j \in System : exp'[j] = exp[j]
      BY <1>2, <2>2 DEF System
    <3> QED BY <1>5, <3>1, TotalSame
  <2>4. /\ Total(Own, exp)' = Total(Own, exp)
        /\ Total(System, exp)' = Total(System, exp)
    BY <1>6, <1>7, <2>1, <2>3
  <2> QED BY <1>2, <2>4 DEF Abstract!Take, Own, System
<1>10. CASE ~exp[h].locked
  <2>1. Own = O \cup {h} /\ System = L
    BY <1>2, <1>10 DEF Own, System
  <2>2. /\ exp[h].cash => Total(O \cup {h}, exp) = Total(O, exp) + a
        /\ ~exp[h].cash => Total(O \cup {h}, exp) = Total(O, exp)
    <3> HIDE DEF O
    <3>1. (\A j \in O : exp[j].amount \in Int) /\ exp[h].amount \in Int
      BY <1>2, <1>5
    <3>2. IsFiniteSet(O) /\ h \notin O
      BY <1>5
    <3>3. ASSUME exp[h].cash
          PROVE  Total(O \cup {h}, exp) = Total(O, exp) + exp[h].amount
      BY ONLY <3>1, <3>2, <3>3, TotalAdd
    <3>4. ASSUME ~exp[h].cash PROVE Total(O \cup {h}, exp) = Total(O, exp)
      BY ONLY <3>2, <3>4, TotalSkip
    <3> QED BY <3>3, <3>4
  <2>3. Total(Own, exp)' + Total(System, exp)' = Total(Own, exp) + Total(System, exp)
    <3>1. a \in Int
      BY <1>2
    <3>2. /\ Total(Own, exp)' = Total(O, exp) /\ Total(System, exp) = Total(L, exp)
          /\ Total(System, exp)' = Total(L \cup {h}, exp')
          /\ Total(Own, exp) = Total(O \cup {h}, exp)
      BY <1>6, <1>7, <2>1
    <3> HIDE DEF a, O, L
    <3> QED BY <1>7, <1>8, <2>2, <3>1, <3>2
  <2> QED BY <1>2, <2>3 DEF Abstract!Take, Own, System
<1> QED BY <1>9, <1>10

\* Steps the abstract ledger does not see.
LEMMA Unseen ==
    ASSUME UNCHANGED <<live, exp, rec>>
    PROVE  UNCHANGED Abstract!vars
<1>1. Own' = Own /\ System' = System
  BY DEF Own, System
<1>2. Total(Own, exp)' = Total(Own, exp) /\ Total(System, exp)' = Total(System, exp)
  BY <1>1
<1> QED BY <1>2 DEF Abstract!vars, Own, System

LEMMA LedgerInit == ASSUME Init PROVE Abstract!Init
<1>1. IsFiniteSet(Own) /\ \A i \in Own : exp[i].amount \in Int
  <2>1. IsFiniteSet(live) /\ \A i \in live : exp[i].amount \in Int
    BY FiniteLedger, ReconciliationAssumption DEF Init, Row, Amounts
  <2> QED BY <2>1, FS_Subset DEF Own
<1>2. System = {}
  BY ReconciliationAssumption DEF Init, System
<1>3. Total(System, exp) = 0
  <2>1. {i \in System : exp[i].cash} = {}
    BY <1>2
  <2> QED BY <2>1, FS_EmptySet, TotalSums, SumStep
<1>4. Total(Own, exp) \in Int
  BY <1>1, TotalInt
<1>5. \A i \in ExpenseIds : rec[i] = NoRec
  BY DEF Init
<1> QED BY <1>3, <1>4, <1>5 DEF Abstract!Init, Abstract!Blank, NoRec, Own, System

\* Every statement that shows in the ledger is a step of the abstract one.
LEMMA LedgerStep ==
    ASSUME IInv, IInv', IsFiniteSet(live), IsFiniteSet(live'), [Next]_vars
    PROVE  [Abstract!Next]_(Abstract!vars)
<1>1. CASE UNCHANGED <<live, exp, rec>>
  BY <1>1, Unseen
<1>2. ASSUME NEW p \in Procs, ApplyCommit(p) PROVE Abstract!Next
  <2>1. PICK i, d, k : loc[p].new = i /\ loc[p].delta = d /\ loc[p].key = k
    OBVIOUS
  <2>2. i \in ExpenseIds /\ d \in Amounts /\ k \in Keys \cup {NoKey}
        /\ Abstract!Adjust(i, d, k)
    BY <1>2, <2>1, AdjustStep
  <2> QED BY <2>2 DEF Abstract!Next
<1>3. ASSUME NEW p \in Procs, RevertCommit(p) PROVE Abstract!Next
  BY <1>3, UndoStep DEF Abstract!Next
<1>4. ASSUME NEW p \in Procs, AddExpense(p) \/ Write(p) PROVE Abstract!Next
  BY <1>4, WritesSpend DEF Abstract!Next
<1>5. ASSUME NEW i \in ExpenseIds, BackfillRecord(i) PROVE Abstract!Next
  BY <1>5, AdoptStep
<1>6. ASSUME NEW i \in ExpenseIds, BackfillReversal(i)
      PROVE  Abstract!Next \/ UNCHANGED Abstract!vars
  <2>1. UNCHANGED <<live, exp>>
    BY <1>6 DEF BackfillReversal
  <2>2. CASE rec' = rec
    BY <2>1, <2>2, Unseen
  <2>3. CASE \E a \in ExpenseIds : Abstract!AdoptUndo(a)
    BY <2>3 DEF Abstract!Next
  <2> QED BY <1>6, <2>1, <2>2, <2>3, AdoptUndoStep
<1>7. ASSUME BackfillLock PROVE Abstract!Next
  BY <1>7, TakeStep DEF Abstract!Next
<1>8. ASSUME NEW p \in Procs, Begin(p) \/ Proceed(p)
      PROVE  Abstract!Next \/ UNCHANGED <<live, exp, rec>>
  BY <1>2, <1>3, <1>4, <1>8
  DEF Begin, Proceed, Apply, Revert, ApplyBegin, RevertBegin, EditCheck, RemoveCheck,
      ApplyRead, ApplyNoop, ApplyDuplicate, ApplyOverflow, ApplyInsert, ApplyRecord,
      ApplyCollision, RevertRead, RevertRefused, RevertUpdate, db
<1>9. ASSUME Boot
      PROVE  Abstract!Next \/ UNCHANGED Abstract!vars \/ UNCHANGED <<live, exp, rec>>
  BY <1>5, <1>6, <1>7, <1>9
  DEF Boot, BootStart, Scan, ScanFails, Backfill, BackfillKnown, BackfillRefused, BootDone, db
<1>10. Crash \/ Tick => UNCHANGED <<live, exp, rec>>
  BY DEF Crash, Tick, db
<1>11. UNCHANGED vars => UNCHANGED <<live, exp, rec>>
  BY DEF vars, db
<1> QED BY <1>1, <1>8, <1>9, <1>10, <1>11 DEF Next

\* Whatever requests, the migration and crashes interleave, an adjustment or a
\* revert changes the balance in the step that enters it in the history and by the
\* amount that stands there, and the expense endpoints never touch that part of
\* the balance (ApplyReconciliation, RevertReconciliation, the migration).
THEOREM LedgerImplements == Spec => MovesTogether
<1>1. Init => IsFiniteSet(live)
  BY FiniteLedger DEF Init
<1>2. IInv /\ IsFiniteSet(live) /\ [Next]_vars => IsFiniteSet(live)'
  BY FiniteStep
<1>3. Init => Abstract!Init
  BY LedgerInit
<1>4. IInv /\ IInv' /\ IsFiniteSet(live) /\ IsFiniteSet(live)' /\ [Next]_vars
      => [Abstract!Next]_(Abstract!vars)
  BY LedgerStep
<1> QED BY <1>1, <1>2, <1>3, <1>4, Invariance, PTL DEF Spec, MovesTogether, Abstract!Spec
=============================================================================
