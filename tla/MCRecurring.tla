----------------------------- MODULE MCRecurring -----------------------------
(***************************************************************************)
(* Instances of Recurring for TLC.                                         *)
(***************************************************************************)
EXTENDS Recurring, TLC

\* Three months on the 15th, and two days from the 14th of February 2024.
MCPlans == {[start |-> 14, interval |-> "monthly", occ |-> 3],
            [start |-> 44, interval |-> "daily", occ |-> 2]}

Symmetry == Permutations(Procs)
=============================================================================
