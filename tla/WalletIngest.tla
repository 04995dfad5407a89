----------------------------- MODULE WalletIngest -----------------------------
(***************************************************************************)
(* AppleWalletIngest of internal/api/apple_wallet.go: purchases that an    *)
(* iOS Shortcut delivers, for one user.  A delivery stores an event, looks *)
(* for an earlier event of the same purchase, and makes a draft expense    *)
(* when it finds none.  Each statement is a transaction of its own; any of *)
(* them may fail (the answer is 500 and what was stored stays), and the    *)
(* server may die between two.  Shortcuts send a payload again.            *)
(*                                                                         *)
(* An event is created_at the time its INSERT starts and is seen when the  *)
(* INSERT commits, so events can appear out of the order of their times.   *)
(* No two start at the same microsecond: times are the numbers 1, 2, ...   *)
(*                                                                         *)
(* Left out: tokens and plans (they refuse a request before anything is    *)
(* stored), parsing, the confidence label, and AppleWalletDebug, whose     *)
(* events have neither amount nor time and match nothing.                  *)
(***************************************************************************)
EXTENDS Integers, FiniteSets

CONSTANTS
    Events,      \* uuids of events, and of the draft of each; bounds a run
    Procs,       \* requests the server works on at a time
    Purchases,   \* values of amount and normalized merchant
    NoTime,      \* the payload has no paidAt
    None,        \* no event
    Payloads,    \* what Shortcuts send
    Window,      \* the 10 minutes of the search, in ticks
    MaxTime,     \* bound: ticks in a run
    MaxCrashes   \* bound: restarts in a run

\* full: sufficient to make a draft; named: the name is not empty once cleaned.
Payload == [purchase : Purchases, paid : Nat \cup {NoTime},
            full : BOOLEAN, named : BOOLEAN]

ASSUME IngestAssumption ==
    /\ Payloads \subseteq Payload
    /\ NoTime \notin Nat
    /\ None \notin Events
    /\ Window \in Nat /\ MaxTime \in Nat /\ MaxCrashes \in Nat

Statuses == {"received", "needs_review", "duplicate",
             "draft_transaction_created", "rejected"}

VARIABLES
    now,      \* the clock
    stored,   \* ids of the committed rows of wallet_ingest_events
    event,    \* contents and created_at of each event, by id
    drafts,   \* draft expenses in the ledger, by the event they come from
    stamp,    \* the last created_at given
    pc,       \* where each request is
    loc,      \* what it works on and the duplicate it found
    raced,    \* history: <<d, e>> when e searched before d's INSERT committed
    failed,   \* history: events that a failure or a crash left unfinished
    removed,  \* history: drafts the user deleted
    crashes   \* restarts so far

rows == <<stored, event, drafts>>
hist == <<raced, failed, removed>>
vars == <<now, rows, stamp, pc, loc, hist, crashes>>

Event == [purchase : Purchases \cup {None}, paid : Nat \cup {NoTime},
          named : BOOLEAN, status : Statuses, created : Nat,
          dup : Events \cup {None}]
NoEvent == [purchase |-> None, paid |-> NoTime, named |-> FALSE,
            status |-> "received", created |-> 0, dup |-> None]

PCs == {"idle", "insert", "find", "duplicate", "draft", "mark"}
Loc == [event : Events \cup {None}, dup : Events \cup {None}]
NoLoc == [event |-> None, dup |-> None]

Init ==
    /\ now = 0
    /\ stored = {}
    /\ event = [e \in Events |-> NoEvent]
    /\ drafts = {} /\ stamp = 0
    /\ pc = [p \in Procs |-> "idle"]
    /\ loc = [p \in Procs |-> NoLoc]
    /\ raced = {} /\ failed = {} /\ removed = {} /\ crashes = 0

----------------------------------------------------------------------------
Goto(p, l) == pc' = [pc EXCEPT ![p] = l]
Answer(p) == Goto(p, "idle") /\ loc' = [loc EXCEPT ![p] = NoLoc]

\* Two deliveries of one purchase, as far as the search can tell.
Same(d, e) == /\ event[d].purchase = event[e].purchase
              /\ event[d].paid # NoTime
              /\ event[d].paid \in event[e].paid - Window .. event[e].paid + Window

\* Faulty variant: events that are still being worked on are not looked at.
MatchesFinished(e) == {d \in stored : /\ Same(d, e)
                                      /\ event[d].status \notin {"rejected", "received"}}
                        \cup {e}

\* FindPotentialDuplicateWalletIngestEvent, before ORDER BY.
Matches(e) == {d \in stored : Same(d, e) /\ event[d].status # "rejected"}

Eldest(ds) == {d \in ds : \A c \in ds : event[d].created <= event[c].created}

----------------------------------------------------------------------------
\* The INSERT of a new event starts.  A sufficient payload without a time is
\* taken to be of now.
Receive(p) ==
    /\ pc[p] = "idle"
    /\ \E q \in Payloads, e \in Events :
         /\ event[e] = NoEvent
         /\ event' = [event EXCEPT ![e] =
              [purchase |-> q.purchase,
               paid |-> IF q.full /\ q.paid = NoTime THEN now ELSE q.paid,
               named |-> q.named,
               status |-> IF q.full THEN "received" ELSE "needs_review",
               created |-> stamp + 1, dup |-> None]]
         /\ loc' = [loc EXCEPT ![p].event = e]
    /\ stamp' = stamp + 1
    /\ Goto(p, "insert")
    /\ UNCHANGED <<now, stored, drafts, hist, crashes>>

\* The event is there; one that needs review is answered 202.
Insert(p) ==
    /\ pc[p] = "insert"
    /\ stored' = stored \cup {loc[p].event}
    /\ IF event[loc[p].event].status = "needs_review"
       THEN Answer(p)
       ELSE Goto(p, "find") /\ UNCHANGED loc
    /\ UNCHANGED <<now, event, drafts, stamp, hist, crashes>>

\* A statement fails: 500, and the event stays as it is.
Fail(p) ==
    /\ pc[p] # "idle"
    /\ failed' = failed \cup {loc[p].event}
    /\ Answer(p)
    /\ UNCHANGED <<now, rows, stamp, raced, removed, crashes>>

FindDuplicate(p) ==
    /\ pc[p] = "find"
    /\ \E d \in Eldest(Matches(loc[p].event)) :
         IF d = loc[p].event
         THEN Goto(p, "draft") /\ UNCHANGED loc
         ELSE Goto(p, "duplicate") /\ loc' = [loc EXCEPT ![p].dup = d]
    /\ raced' = raced \cup
         {<<loc[q].event, loc[p].event>> : q \in {r \in Procs : pc[r] = "insert"}}
    /\ UNCHANGED <<now, rows, stamp, failed, removed, crashes>>

\* "duplicate_ignored": no expense is made.
MarkDuplicate(p) ==
    /\ pc[p] = "duplicate"
    /\ event' = [event EXCEPT ![loc[p].event] =
                   [@ EXCEPT !.status = "duplicate", !.dup = loc[p].dup]]
    /\ Answer(p)
    /\ UNCHANGED <<now, stored, drafts, stamp, hist, crashes>>

\* Faulty variant: the expense is not there and the request goes on.
DraftIgnored(p) ==
    /\ pc[p] = "draft"
    /\ event[loc[p].event].named
    /\ Goto(p, "mark")
    /\ UNCHANGED <<now, rows, stamp, loc, hist, crashes>>

\* AddExpense.
Draft(p) ==
    /\ pc[p] = "draft"
    /\ event[loc[p].event].named
    /\ drafts' = drafts \cup {loc[p].event}
    /\ Goto(p, "mark")
    /\ UNCHANGED <<now, stored, event, stamp, loc, hist, crashes>>

\* The expense does not validate: 400.
Reject(p) ==
    /\ pc[p] = "draft"
    /\ ~event[loc[p].event].named
    /\ event' = [event EXCEPT ![loc[p].event].status = "rejected"]
    /\ Answer(p)
    /\ UNCHANGED <<now, stored, drafts, stamp, hist, crashes>>

\* Faulty variant: the label of the answer is stored as the status.
MarkDraftLabelled(p) ==
    /\ pc[p] = "mark"
    /\ event' = [event EXCEPT ![loc[p].event].status = "transaction_created"]
    /\ Answer(p)
    /\ UNCHANGED <<now, stored, drafts, stamp, hist, crashes>>

MarkDraft(p) ==
    /\ pc[p] = "mark"
    /\ event' = [event EXCEPT ![loc[p].event].status = "draft_transaction_created"]
    /\ Answer(p)
    /\ UNCHANGED <<now, stored, drafts, stamp, hist, crashes>>

----------------------------------------------------------------------------
\* The user deletes a draft in the ledger; its event stays.
RemoveDraft(e) ==
    /\ e \in drafts
    /\ drafts' = drafts \ {e}
    /\ removed' = removed \cup {e}
    /\ UNCHANGED <<now, stored, event, stamp, pc, loc, raced, failed, crashes>>

Tick ==
    /\ now < MaxTime
    /\ now' = now + 1
    /\ UNCHANGED <<rows, stamp, pc, loc, hist, crashes>>

Crash ==
    /\ crashes < MaxCrashes
    /\ crashes' = crashes + 1
    /\ failed' = failed \cup {loc[p].event : p \in {q \in Procs : pc[q] # "idle"}}
    /\ pc' = [p \in Procs |-> "idle"]
    /\ loc' = [p \in Procs |-> NoLoc]
    /\ UNCHANGED <<now, rows, stamp, raced, removed>>

Ingest(p) == \/ Receive(p) \/ Insert(p) \/ Fail(p) \/ FindDuplicate(p)
             \/ MarkDuplicate(p) \/ Draft(p) \/ Reject(p) \/ MarkDraft(p)

Next == \/ Tick \/ Crash \/ \E e \in Events : RemoveDraft(e)
        \/ \E p \in Procs : Ingest(p)

Spec == Init /\ [][Next]_vars

----------------------------------------------------------------------------
TypeOK ==
    /\ now \in Nat
    /\ stored \subseteq Events
    /\ event \in [Events -> Event]
    /\ drafts \subseteq Events
    /\ stamp \in Nat
    /\ pc \in [Procs -> PCs]
    /\ loc \in [Procs -> Loc]
    /\ raced \subseteq Events \X Events
    /\ failed \subseteq Events
    /\ removed \subseteq Events
    /\ crashes \in Nat

Drafted(e) == e \in drafts \cup removed

\* A purchase that is delivered again becomes one expense: two deliveries both
\* make one only if the younger searched while the INSERT of the elder was still
\* running.
OneDraft ==
    \A d, e \in Events :
        Drafted(d) /\ Drafted(e) /\ event[d].created < event[e].created /\ Same(d, e)
            => <<d, e>> \in raced

InProgress(e) == \E p \in Procs : pc[p] # "idle" /\ loc[p].event = e

\* No purchase is dropped because its deliveries take each other for the
\* original: one that was answered "duplicate" has an elder that made an
\* expense, waits for review, is being worked on, was refused, or was left
\* unfinished by a failure.
DuplicatesHaveOriginal ==
    \A e \in stored : event[e].status = "duplicate" =>
        \E d \in stored :
            /\ event[d].purchase = event[e].purchase
            /\ event[d].created < event[e].created
            /\ \/ event[d].status \in {"needs_review", "rejected"}
               \/ event[d].status = "draft_transaction_created" /\ Drafted(d)
               \/ event[d].status = "received" /\ (InProgress(d) \/ d \in failed)
=============================================================================
