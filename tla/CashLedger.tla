------------------------------ MODULE CashLedger ------------------------------
(***************************************************************************)
(* What reconciling promises, whatever requests and restarts interleave:   *)
(* the history screen and the balance move together.  The balance has two  *)
(* parts, the user's own movements and those of the system.  Applying and  *)
(* undoing an adjustment change the system's part, in the step that enters *)
(* them in the history, and by the amount that stands there.  The user     *)
(* changes his own part only.  Reconciliation implements it.               *)
(***************************************************************************)
EXTENDS Integers

CONSTANTS Ids, Amounts, Keys, NoKey

VARIABLES
    entry,   \* the history: amount, key and status of each adjustment
    own,     \* sum of the movements the user may edit
    system   \* sum of the movements that are locked

vars == <<entry, own, system>>

Blank == [delta |-> 0, key |-> NoKey, status |-> "none"]

Init ==
    /\ entry = [i \in Ids |-> Blank]
    /\ own \in Int
    /\ system = 0

Unused(k) == k = NoKey \/ \A i \in Ids : entry[i].status # "none" => entry[i].key # k

\* A new entry, under a key that adjusts for the first time.
Enter(i, d, k) ==
    /\ entry[i] = Blank
    /\ entry' = [entry EXCEPT ![i] = [delta |-> d, key |-> k, status |-> "applied"]]
    /\ Unused(k)

Mark(i) ==
    /\ entry[i].status # "none"
    /\ entry' = [entry EXCEPT ![i].status = "reverted"]

Adjust(i, d, k) == Enter(i, d, k) /\ system' = system + d /\ UNCHANGED own

\* Two reverts of one adjustment may both go through (UndoneOnce).
Undo(i) == Mark(i) /\ system' = system - entry[i].delta /\ UNCHANGED own

\* The user adds, edits or deletes.
Spend == own' \in Int /\ UNCHANGED <<entry, system>>

\* The migration makes entries of what is in the ledger already, and a movement
\* of the user one of the system.
Adopt(i, d, k) == Enter(i, d, k) /\ UNCHANGED <<own, system>>

AdoptUndo(i) == Mark(i) /\ UNCHANGED <<own, system>>

Take == own' + system' = own + system /\ UNCHANGED entry

Next == \/ Spend \/ Take
        \/ \E i \in Ids : Undo(i) \/ AdoptUndo(i)
        \/ \E i \in Ids : \E d \in Amounts, k \in Keys \cup {NoKey} :
              Adjust(i, d, k) \/ Adopt(i, d, k)

Spec == Init /\ [][Next]_vars
=============================================================================
