---------------------------- MODULE MCWalletIngest ----------------------------
(***************************************************************************)
(* Instances of WalletIngest for TLC.                                      *)
(***************************************************************************)
EXTENDS WalletIngest, TLC

CONSTANTS coffee, nameless

Coffee == [purchase |-> coffee, paid |-> NoTime, full |-> TRUE, named |-> TRUE]

\* An amount without a merchant is sufficient with a card and a time.
Nameless == [purchase |-> nameless, paid |-> 1, full |-> TRUE, named |-> TRUE]

\* A purchase without its time and with one, from a Shortcut whose merchant is
\* only symbols, and one that may lack what a draft needs.
MCPayloads == {Coffee, [Coffee EXCEPT !.paid = 2], [Coffee EXCEPT !.named = FALSE],
               Nameless, [Nameless EXCEPT !.full = FALSE]}

Symmetry == Permutations(Procs) \cup Permutations(Events)
=============================================================================
