---------------------------- MODULE MCKapsoWebhook ----------------------------
(***************************************************************************)
(* Instances of KapsoWebhook for TLC.                                      *)
(***************************************************************************)
EXTENDS KapsoWebhook, TLC

CONSTANTS old, new1, new2, t1, t2, command, receipt, editAmount, editName, delete, cancel

Says(k, f) == [kind |-> k, target |-> old, ids |-> Expenses, field |-> f]

\* Texts, a command whose short id fits every expense, a picture, and the buttons
\* under an expense that the phone made before.
MCContent ==
    [m \in Messages |-> CASE m \in {t1, t2} -> Says("text", "amount")
                         [] m = command -> Says("command", "name")
                         [] m = receipt -> Says("media", "amount")
                         [] m = editAmount -> Says("edit", "amount")
                         [] m = editName -> Says("edit", "name")
                         [] m = delete -> Says("delete", "amount")
                         [] m = cancel -> Says("cancel", "amount")]

Symmetry == Permutations(Procs) \cup Permutations({t1, t2} \cap Messages)
              \cup Permutations({new1, new2})
=============================================================================
