-------------------------- MODULE MCIdempotencyGuard --------------------------
(***************************************************************************)
(* Instances of IdempotencyGuard for TLC.                                  *)
(***************************************************************************)
EXTENDS IdempotencyGuard, TLC

\* Requests, and keys, differ only in name.
Symmetry == Permutations(Reqs) \cup Permutations(Keys)
=============================================================================
