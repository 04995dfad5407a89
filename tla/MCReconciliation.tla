--------------------------- MODULE MCReconciliation ---------------------------
(***************************************************************************)
(* Instances of Reconciliation for TLC.                                    *)
(***************************************************************************)
EXTENDS Reconciliation, TLC

CONSTANTS e1, e2, e3, e4, e5, k1

PlainRow(a) == [amount |-> a, date |-> 0, cash |-> TRUE, kind |-> "plain",
                locked |-> FALSE, tag |-> None, key |-> NoKey, form |-> "good"]

LegacyAdjustment == [PlainRow(1) EXCEPT !.kind = "adjustment"]

\* A movement the user enters ahead of its date, and files, names and tags like an
\* adjustment.
MCUserRows == {[LegacyAdjustment EXCEPT !.date = 1, !.key = k1]}
NoUserRows == {}

\* A ledger of an older version: an adjustment and the reversal whose tags refer
\* to it.  Others have a purchase besides, tags that do not fit, or a row without
\* an owner.
Migratable == e1 :> LegacyAdjustment
              @@ e2 :> [PlainRow(-1) EXCEPT !.kind = "reversal", !.tag = e1]
MCLedgers == {Migratable,
              Migratable @@ e3 :> PlainRow(-1),
              [Migratable EXCEPT ![e1].form = "unfit"],
              [Migratable EXCEPT ![e2].form = "unread"]}
NoLedger == {<<>>}

MCTargets == {2}
=============================================================================
