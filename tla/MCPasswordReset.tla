--------------------------- MODULE MCPasswordReset ---------------------------
(***************************************************************************)
(* Instances of PasswordReset for TLC.                                     *)
(***************************************************************************)
EXTENDS PasswordReset, TLC

Symmetry == Permutations(Procs) \cup Permutations(Codes)
=============================================================================
