-------------------------------- MODULE Inbox --------------------------------
(***************************************************************************)
(* What the webhook promises of a message, however often it is delivered   *)
(* and wherever statements fail or the server restarts: it is taken in     *)
(* once, becomes an expense while it has no result, and gets one result,   *)
(* which stands, and is true unless the server was told of a failure when  *)
(* the expense was stored.  A message that was let loose, since taking it  *)
(* in failed, may become an expense at any time, and more than once.       *)
(* KapsoWebhook implements it.                                             *)
(***************************************************************************)
CONSTANTS Messages, Expenses, None

VARIABLES
    status,  \* what is on record of each message
    source,  \* the message each expense was made of
    loose,   \* messages worked on without a record
    unseen   \* messages with an expense that was reported as a failure

vars == <<status, source, loose, unseen>>

Results == {"handled", "confirmed", "needs_review"}

Init ==
    /\ status = [m \in Messages |-> "none"]
    /\ source = [e \in Expenses |-> None]
    /\ loose = {} /\ unseen = {}

Booked(m) == \E e \in Expenses : source[e] = m

Take(m) ==
    /\ status[m] = "none"
    /\ Booked(m) => m \in loose
    /\ status' = [status EXCEPT ![m] = "received"]
    /\ UNCHANGED <<source, loose, unseen>>

LetLoose(m) ==
    /\ loose' = loose \cup {m}
    /\ UNCHANGED <<status, source, unseen>>

Book(m, e) ==
    /\ source[e] = None
    /\ m \in loose \/ (status[m] = "received" /\ ~Booked(m))
    /\ source' = [source EXCEPT ![e] = m]
    /\ unseen' \in {unseen, unseen \cup {m}}
    /\ UNCHANGED <<status, loose>>

Settle(m, r) ==
    /\ status[m] = "received"
    /\ r = "confirmed" => Booked(m)
    /\ r = "needs_review" => ~Booked(m) \/ m \in loose \cup unseen
    /\ status' = [status EXCEPT ![m] = r]
    /\ UNCHANGED <<source, loose, unseen>>

Next == \/ \E m \in Messages : Take(m) \/ LetLoose(m)
        \/ \E m \in Messages, e \in Expenses : Book(m, e)
        \/ \E m \in Messages, r \in Results : Settle(m, r)

Spec == Init /\ [][Next]_vars
=============================================================================
