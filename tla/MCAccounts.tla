------------------------------ MODULE MCAccounts ------------------------------
(***************************************************************************)
(* Instances of Accounts for TLC: two default categories, and lists sent   *)
(* that share a name with them, or none; a start renames c to a.           *)
(***************************************************************************)
EXTENDS Accounts, TLC

CONSTANTS a, b, c

MCDefaults == <<a, b>>
MCLists == {<<c>>}
MCRenames == {<<a, c>>, <<c, b>>}
MCEnglish == [n \in {a} |-> c]
MCRefs == Tokens \cup Subjects

Symmetry == Permutations(Procs) \cup Permutations(Tokens)
=============================================================================
