----------------------------- MODULE KapsoWebhook -----------------------------
(***************************************************************************)
(* The WhatsApp dialogue of internal/api/whatsapp_kapso_webhook.go, for    *)
(* one linked phone.  Kapso delivers a message, is answered 200, and a     *)
(* goroutine works on it: it registers the message in a table with a       *)
(* unique index, acts on it, and stores what came of it.  Kapso may        *)
(* deliver a message again, and any statement may fail, which the          *)
(* goroutine tells nobody but the log and the chat.                        *)
(*                                                                         *)
(* A button of the chat says which expense the next text edits; that       *)
(* action waits in a map of the process.  A text that finds no action is a *)
(* command that edits the expense it names, or becomes an expense, as a    *)
(* receipt does.                                                           *)
(*                                                                         *)
(* Left out: signatures; messages that change nothing (menus, lists, the   *)
(* question before a deletion); link codes (BotLink); the OCR and the      *)
(* parser, whose failure is one of the outcomes of a text; the messages of *)
(* one delivery are separate deliveries, in any order.                     *)
(***************************************************************************)
EXTENDS Integers

CONSTANTS
    Messages,       \* messages the user sends, by key
    Expenses,       \* uuids of expenses; their number bounds a run
    Procs,          \* goroutines the server runs at a time
    Initial,        \* expenses whose buttons are in the chat from the start
    Content,        \* what each message says
    None,           \* no message or expense
    KeyTTL,         \* kapsoWebhookProcessedKeyTTL, in ticks
    SessionTTL,     \* whatsAppSessionTTL, in ticks
    MaxTime,        \* bound: ticks in a run
    MaxDeliveries,  \* bound: deliveries in a run
    MaxFaults       \* bound: restarts, failures and messages turned away in a run

Fields == {"amount", "name"}

\* A text is an amount or a name as the action wants, media come without a text;
\* target is the expense of a button, ids those whose id a command may mean:
\* it gives a whole id, or the beginning of one.
Contents == [kind : {"text", "command", "media", "edit", "delete", "cancel"},
             target : Initial, ids : SUBSET Expenses, field : Fields]

ASSUME WebhookAssumption ==
    /\ Initial \subseteq Expenses
    /\ Content \in [Messages -> Contents]
    /\ None \notin Messages \cup Expenses
    /\ KeyTTL \in Nat /\ SessionTTL \in Nat
    /\ MaxTime \in Nat /\ MaxDeliveries \in Nat /\ MaxFaults \in Nat

Absent == -1
Done == {"handled", "confirmed", "needs_review"}

VARIABLES
    now,           \* the clock
    seen,          \* kapsoWebhookProcessedKeys: when a key was delivered
    pending,       \* whatsAppPendingActions: the action of the phone
    event,         \* status of the row of wallet_ingest_events, by message
    live,          \* ids of the rows of table expenses
    exp,           \* their contents: the text each field comes from
    pc,            \* where each goroutine is
    loc,           \* its message, the time it read, the action and row it read
    origin,        \* history: the text each expense was made from
    latest,        \* history: the last text stored in each field
    crossed,       \* history: expenses read by an edit while another wrote
    served,        \* history: <<b, t>> when text t was, as told, stored for button b
    contended,     \* history: buttons whose action two texts had at a time
    acked,         \* history: messages accepted with 200
    failed,        \* history: messages a failure or a crash cut short
    denied,        \* history: messages turned away, the plan having lapsed
    unregistered,  \* history: messages worked on without a row
    unseen,        \* history: messages with an expense the server knows nothing of
    deliveries,    \* deliveries so far
    faults         \* restarts, failures and messages turned away so far

chat == <<event, live, exp>>
accounts == <<acked, failed, denied, unregistered, unseen>>
hist == <<origin, latest, crossed, served, contended, accounts>>
bounds == <<deliveries, faults>>
vars == <<now, seen, pending, chat, pc, loc, hist, bounds>>

Row == [Fields -> Messages \cup {None}]
NoRow == [f \in Fields |-> None]

\* by is the button's message, kept for the properties; a command has none.
Action == [by : Messages, target : Initial, field : Fields, until : Nat]
Command == [by : {None}, target : Expenses, field : Fields, until : Nat]
NoAction == [by |-> None]

PCs == {"idle", "begin", "register", "lookup", "act", "read", "update", "clear",
        "save", "complete"}
Loc == [msg : Messages \cup {None}, now : Nat, registered : BOOLEAN,
        action : Action \cup Command \cup {NoAction}, row : Row, result : Done]
NoLoc == [msg |-> None, now |-> 0, registered |-> FALSE, action |-> NoAction,
          row |-> NoRow, result |-> "handled"]

Init ==
    /\ now = 0
    /\ seen = [m \in Messages |-> Absent]
    /\ pending = NoAction
    /\ event = [m \in Messages |-> "none"]
    /\ live = Initial
    /\ exp = [e \in Expenses |-> NoRow]
    /\ pc = [p \in Procs |-> "idle"]
    /\ loc = [p \in Procs |-> NoLoc]
    /\ origin = [e \in Expenses |-> None]
    /\ latest = exp
    /\ crossed = {} /\ served = {} /\ contended = {}
    /\ acked = {} /\ failed = {} /\ denied = {} /\ unregistered = {} /\ unseen = {}
    /\ deliveries = 0 /\ faults = 0

----------------------------------------------------------------------------
Goto(p, l) == pc' = [pc EXCEPT ![p] = l]
End(p) == Goto(p, "idle") /\ loc' = [loc EXCEPT ![p] = NoLoc]
Say(p) == Content[loc[p].msg]

Finish(p, result) ==
    /\ Goto(p, "complete")
    /\ loc' = [loc EXCEPT ![p].result = result]

Fault == faults < MaxFaults /\ faults' = faults + 1

\* A statement fails, which cuts the message short.
Failing(p) == Fault /\ failed' = failed \cup {loc[p].msg}

\* cleanupWhatsAppPendingActionsLocked.
Waiting(t) == IF pending # NoAction /\ t > pending.until THEN NoAction ELSE pending

PurgedKeys == [m \in Messages |->
    IF seen[m] # Absent /\ now - seen[m] > KeyTTL THEN Absent ELSE seen[m]]

----------------------------------------------------------------------------
(* Delivery *)

\* kapsoWebhookAlreadyProcessed: a key that was seen is answered 200 and no more.
Repeat(m) ==
    /\ deliveries < MaxDeliveries
    /\ PurgedKeys[m] # Absent
    /\ seen' = PurgedKeys
    /\ deliveries' = deliveries + 1
    /\ UNCHANGED <<now, pending, chat, pc, loc, hist, faults>>

\* HandleKapsoWhatsAppWebhook; without the header nothing is looked up.
Accept(p, m) ==
    /\ deliveries < MaxDeliveries
    /\ pc[p] = "idle"
    /\ \/ PurgedKeys[m] = Absent /\ seen' = [PurgedKeys EXCEPT ![m] = now]
       \/ UNCHANGED seen
    /\ Goto(p, "begin")
    /\ loc' = [loc EXCEPT ![p].msg = m]
    /\ acked' = acked \cup {m}
    /\ deliveries' = deliveries + 1
    /\ UNCHANGED <<now, pending, chat, origin, latest, crossed, served, contended,
                   failed, denied, unregistered, unseen, faults>>

\* The clock is read, then the link and the plan of the account.
BeginWork(p) ==
    /\ pc[p] = "begin"
    /\ Goto(p, "register")
    /\ loc' = [loc EXCEPT ![p].now = now]
    /\ UNCHANGED <<now, seen, pending, chat, hist, bounds>>

\* The link or the plan cannot be read.
GiveUp(p) ==
    /\ pc[p] = "begin"
    /\ Failing(p) /\ End(p)
    /\ UNCHANGED <<now, seen, pending, chat, origin, latest, crossed, served,
                   contended, acked, denied, unregistered, unseen, deliveries>>

\* The phone is not linked any more, or the plan of its account has lapsed: the
\* chat is told so, and nothing is stored.
TurnAway(p) ==
    /\ pc[p] = "begin"
    /\ Fault
    /\ denied' = denied \cup {loc[p].msg}
    /\ End(p)
    /\ UNCHANGED <<now, seen, pending, chat, origin, latest, crossed, served,
                   contended, acked, failed, unregistered, unseen, deliveries>>

----------------------------------------------------------------------------
(* registerWhatsAppInboundEvent *)

\* Faulty variant: the violation of the index is taken for any other error.
RegisterTwice(p) ==
    /\ pc[p] = "register"
    /\ event' = [event EXCEPT ![loc[p].msg] = "received"]
    /\ Goto(p, "act")
    /\ loc' = [loc EXCEPT ![p].registered = TRUE]
    /\ UNCHANGED <<now, seen, pending, live, exp, hist, bounds>>

Register(p) ==
    /\ pc[p] = "register"
    /\ event[loc[p].msg] = "none"
    /\ event' = [event EXCEPT ![loc[p].msg] = "received"]
    /\ Goto(p, "act")
    /\ loc' = [loc EXCEPT ![p].registered = TRUE]
    /\ UNCHANGED <<now, seen, pending, live, exp, hist, bounds>>

\* The unique index refuses: somebody works on the message, or has.
RegisterDuplicate(p) ==
    /\ pc[p] = "register"
    /\ event[loc[p].msg] # "none"
    /\ End(p)
    /\ UNCHANGED <<now, seen, pending, chat, hist, bounds>>

\* The INSERT ends in another error; the row may be there all the same.
RegisterFail(p) ==
    /\ pc[p] = "register"
    /\ \/ UNCHANGED event
       \/ /\ event[loc[p].msg] = "none"
          /\ event' = [event EXCEPT ![loc[p].msg] = "received"]
    /\ Failing(p) /\ Goto(p, "lookup")
    /\ UNCHANGED <<now, seen, pending, live, exp, loc, origin, latest, crossed,
                   served, contended, acked, denied, unregistered, unseen, deliveries>>

LookupFound(p) ==
    /\ pc[p] = "lookup"
    /\ event[loc[p].msg] # "none"
    /\ End(p)
    /\ UNCHANGED <<now, seen, pending, chat, hist, bounds>>

\* There is no row, or it cannot be read: the message is worked on without one.
LookupFail(p) ==
    /\ pc[p] = "lookup"
    /\ IF event[loc[p].msg] = "none" THEN UNCHANGED faults ELSE Fault
    /\ unregistered' = unregistered \cup {loc[p].msg}
    /\ Goto(p, "act")
    /\ UNCHANGED <<now, seen, pending, chat, loc, origin, latest, crossed, served,
                   contended, acked, failed, denied, unseen, deliveries>>

----------------------------------------------------------------------------
(* handleWhatsAppInteractiveAction *)

\* A press replaces whatever waits.
PressEdit(p) ==
    /\ pc[p] = "act"
    /\ Say(p).kind = "edit"
    /\ pending' = [by |-> loc[p].msg, target |-> Say(p).target,
                   field |-> Say(p).field, until |-> loc[p].now + SessionTTL]
    /\ Finish(p, "handled")
    /\ UNCHANGED <<now, seen, chat, hist, bounds>>

\* RemoveExpense of a row that may be gone, or fail: handled in any case.
PressDelete(p) ==
    /\ pc[p] = "act"
    /\ Say(p).kind = "delete"
    /\ live' \in {live, live \ {Say(p).target}}
    /\ Finish(p, "handled")
    /\ UNCHANGED <<now, seen, pending, event, exp, hist, bounds>>

\* By the button; the word does the same to an action that waits.
Cancel(p) ==
    /\ pc[p] = "act"
    /\ Say(p).kind = "cancel"
    /\ pending' = NoAction
    /\ Finish(p, "handled")
    /\ UNCHANGED <<now, seen, chat, hist, bounds>>

----------------------------------------------------------------------------
(* handleWhatsAppPendingActionText *)

\* A text finds the action that waits, a command too.
TakeAction(p) ==
    /\ pc[p] = "act"
    /\ Say(p).kind \in {"text", "command"}
    /\ Waiting(loc[p].now) # NoAction
    /\ contended' = contended \cup
         {b \in {pending.by} : \E q \in Procs \ {p} :
            pc[q] \in {"read", "update", "clear"} /\ loc[q].action.by = b}
    /\ Goto(p, "read")
    /\ loc' = [loc EXCEPT ![p].action = pending]
    /\ UNCHANGED <<now, seen, pending, chat, origin, latest, crossed, served, accounts,
                   bounds>>

(* handleWhatsAppConversationalText *)

\* resolveWhatsAppExpenseID: one live expense goes by what the command says.
TakeCommand(p) ==
    /\ pc[p] = "act"
    /\ Say(p).kind = "command"
    /\ Waiting(loc[p].now) = NoAction /\ pending' = NoAction
    /\ \E e \in Expenses :
         /\ live \cap Say(p).ids = {e}
         /\ loc' = [loc EXCEPT ![p].action =
              [by |-> None, target |-> e, field |-> Say(p).field, until |-> 0]]
    /\ Goto(p, "read")
    /\ UNCHANGED <<now, seen, chat, hist, bounds>>

\* None or several do, or the list cannot be read.
RefuseCommand(p) ==
    /\ pc[p] = "act"
    /\ Say(p).kind = "command"
    /\ Waiting(loc[p].now) = NoAction /\ pending' = NoAction
    /\ Finish(p, "handled")
    /\ UNCHANGED <<now, seen, chat, hist, bounds>>

(* updateWhatsAppExpenseAmount, updateWhatsAppExpenseName *)

\* GetExpense.
ReadRow(p) ==
    /\ pc[p] = "read"
    /\ loc[p].action.target \in live
    /\ Goto(p, "update")
    /\ loc' = [loc EXCEPT ![p].row = exp[loc[p].action.target]]
    /\ UNCHANGED <<now, seen, pending, chat, hist, bounds>>

\* The row is gone, the text is no amount, or a statement fails: an action
\* keeps waiting.
RefuseEdit(p) ==
    /\ pc[p] \in {"read", "update"}
    /\ Finish(p, "handled")
    /\ UNCHANGED <<now, seen, pending, chat, hist, bounds>>

\* Faulty variant: the fields of the new row that were not edited are empty.
OverwriteBlank(p) ==
    LET a == loc[p].action
    IN  /\ exp' = [exp EXCEPT ![a.target] = [NoRow EXCEPT ![a.field] = loc[p].msg]]
        /\ latest' = [latest EXCEPT ![a.target][a.field] = loc[p].msg]
        /\ crossed' = crossed \cup
             {e \in {a.target} : \E q \in Procs \ {p} :
                pc[q] = "update" /\ loc[q].action.target = e}

\* UpdateExpense writes every column, the edited one and those read before.
Overwrite(p) ==
    LET a == loc[p].action
    IN  /\ exp' = [exp EXCEPT ![a.target] =
                     [loc[p].row EXCEPT ![a.field] = loc[p].msg]]
        /\ latest' = [latest EXCEPT ![a.target][a.field] = loc[p].msg]
        /\ crossed' = crossed \cup
             {e \in {a.target} : \E q \in Procs \ {p} :
                pc[q] = "update" /\ loc[q].action.target = e}

\* The UPDATE is committed; if it reports an error all the same, the action
\* keeps waiting.
UpdateRow(p) ==
    /\ pc[p] = "update"
    /\ loc[p].action.target \in live
    /\ Overwrite(p)
    /\ \/ /\ served' = served \cup ({loc[p].action.by} \ {None}) \X {loc[p].msg}
          /\ Goto(p, "clear")
          /\ UNCHANGED <<loc, faults>>
       \/ Fault /\ Finish(p, "handled") /\ UNCHANGED served
    /\ UNCHANGED <<now, seen, pending, event, live, origin, contended, accounts,
                   deliveries>>

\* Faulty variant: the action keeps waiting after the edit.
ClearActionKept(p) ==
    /\ pc[p] = "clear"
    /\ Finish(p, "handled")
    /\ UNCHANGED <<now, seen, pending, chat, hist, bounds>>

\* Once the chat is told, whatever waits is cleared, also a later press; a
\* command leaves it alone.
ClearAction(p) ==
    /\ pc[p] = "clear"
    /\ pending' = IF loc[p].action \in Command THEN pending ELSE NoAction
    /\ Finish(p, "handled")
    /\ UNCHANGED <<now, seen, chat, hist, bounds>>

----------------------------------------------------------------------------
(* createExpenseFromWhatsAppText, completeWhatsAppInboundEvent *)

\* A text finds no action, or there is no text for it; an expired one is swept.
NoActionTaken(p) ==
    /\ pc[p] = "act"
    /\ \/ Say(p).kind = "text" /\ Waiting(loc[p].now) = NoAction
       \/ Say(p).kind = "media"
    /\ pending' = Waiting(loc[p].now)
    /\ Goto(p, "save")
    /\ UNCHANGED <<now, seen, chat, loc, hist, bounds>>

Fresh(e) == e \notin Initial /\ origin[e] = None

\* The INSERT is committed; it may report an error all the same.
Save(p) ==
    /\ pc[p] = "save"
    /\ \E e \in Expenses :
         /\ Fresh(e)
         /\ live' = live \cup {e}
         /\ exp' = [exp EXCEPT ![e] = [f \in Fields |-> loc[p].msg]]
         /\ latest' = [latest EXCEPT ![e] = [f \in Fields |-> loc[p].msg]]
         /\ origin' = [origin EXCEPT ![e] = loc[p].msg]
    /\ \/ Finish(p, "confirmed") /\ UNCHANGED <<unseen, faults>>
       \/ Fault /\ Finish(p, "needs_review") /\ unseen' = unseen \cup {loc[p].msg}
    /\ UNCHANGED <<now, seen, pending, event, crossed, served, contended, acked,
                   failed, denied, unregistered, deliveries>>

\* Faulty variant: the result is taken before the outcome is known.
SaveFailConfirmed(p) ==
    /\ pc[p] = "save"
    /\ Finish(p, "confirmed")
    /\ UNCHANGED <<now, seen, pending, chat, hist, bounds>>

\* The text is not understood, or the INSERT fails and leaves no row.
SaveFail(p) ==
    /\ pc[p] = "save"
    /\ Finish(p, "needs_review")
    /\ UNCHANGED <<now, seen, pending, chat, hist, bounds>>

\* Faulty variant: what the message was is stored for what came of it.
CompleteKind(p) ==
    /\ pc[p] = "complete"
    /\ event' = IF loc[p].registered
                THEN [event EXCEPT ![loc[p].msg] = Say(p).kind]
                ELSE event
    /\ End(p)
    /\ UNCHANGED <<now, seen, pending, live, exp, hist, bounds>>

Complete(p) ==
    /\ pc[p] = "complete"
    /\ event' = IF loc[p].registered
                THEN [event EXCEPT ![loc[p].msg] = loc[p].result]
                ELSE event
    /\ End(p)
    /\ UNCHANGED <<now, seen, pending, live, exp, hist, bounds>>

\* The UPDATE ends in an error, which is logged; it may be committed all the same.
CompleteFail(p) ==
    /\ pc[p] = "complete"
    /\ \/ UNCHANGED event
       \/ loc[p].registered /\ event' = [event EXCEPT ![loc[p].msg] = loc[p].result]
    /\ Failing(p) /\ End(p)
    /\ UNCHANGED <<now, seen, pending, live, exp, origin, latest, crossed, served,
                   contended, acked, denied, unregistered, unseen, deliveries>>

----------------------------------------------------------------------------
Tick ==
    /\ now < MaxTime
    /\ now' = now + 1
    /\ UNCHANGED <<seen, pending, chat, pc, loc, hist, bounds>>

\* Both maps and the goroutines are lost.
Crash ==
    /\ Fault
    /\ failed' = failed \cup {loc[p].msg : p \in {q \in Procs : pc[q] # "idle"}}
    /\ seen' = [m \in Messages |-> Absent]
    /\ pending' = NoAction
    /\ pc' = [p \in Procs |-> "idle"]
    /\ loc' = [p \in Procs |-> NoLoc]
    /\ UNCHANGED <<now, chat, origin, latest, crossed, served, contended, acked,
                   denied, unregistered, unseen, deliveries>>

Admit(p) == \/ BeginWork(p) \/ GiveUp(p) \/ TurnAway(p) \/ Register(p)
            \/ RegisterDuplicate(p) \/ RegisterFail(p) \/ LookupFound(p) \/ LookupFail(p)
Press(p) == PressEdit(p) \/ PressDelete(p) \/ Cancel(p)
Edit(p) == \/ TakeAction(p) \/ TakeCommand(p) \/ RefuseCommand(p) \/ ReadRow(p)
           \/ RefuseEdit(p) \/ UpdateRow(p) \/ ClearAction(p)
Book(p) == \/ NoActionTaken(p) \/ Save(p) \/ SaveFail(p)
           \/ Complete(p) \/ CompleteFail(p)

Step(p) == \/ \E m \in Messages : Accept(p, m)
           \/ Admit(p) \/ Press(p) \/ Edit(p) \/ Book(p)

Next == \/ Tick \/ Crash \/ \E m \in Messages : Repeat(m)
        \/ \E p \in Procs : Step(p)

Spec == Init /\ [][Next]_vars

----------------------------------------------------------------------------
TypeOK ==
    /\ now \in Nat
    /\ seen \in [Messages -> Nat \cup {Absent}]
    /\ pending \in Action \cup {NoAction}
    /\ event \in [Messages -> Done \cup {"none", "received"}]
    /\ live \subseteq Expenses
    /\ exp \in [Expenses -> Row]
    /\ pc \in [Procs -> PCs]
    /\ loc \in [Procs -> Loc]
    /\ origin \in [Expenses -> Messages \cup {None}]
    /\ latest \in [Expenses -> Row]
    /\ crossed \subseteq Expenses
    /\ served \subseteq Messages \X Messages
    /\ contended \subseteq Messages
    /\ acked \subseteq Messages
    /\ failed \subseteq Messages
    /\ denied \subseteq Messages
    /\ unregistered \subseteq Messages
    /\ unseen \subseteq Messages
    /\ deliveries \in Nat /\ faults \in Nat

\* However often a message is delivered, and whenever the server restarts, it
\* becomes one expense, unless it once was worked on without a row.
BookedOnce ==
    \A d, e \in Expenses :
        origin[d] = origin[e] /\ origin[d] # None => d = e \/ origin[d] \in unregistered

InProgress(m) == \E p \in Procs : pc[p] # "idle" /\ loc[p].msg = m
Booked(m) == \E e \in Expenses : origin[e] = m

\* A message that was accepted and that nobody works on has its result stored,
\* or a failure cut it short, or it was turned away and has no row; "confirmed"
\* is said of messages with an expense and "needs_review" of those without,
\* unless the INSERT of the expense reported an error and had been committed.
EventsAccount ==
    /\ \A m \in acked : \/ InProgress(m) \/ event[m] \in Done \/ m \in failed
                        \/ m \in denied /\ event[m] = "none"
    /\ \A m \in Messages :
         /\ event[m] = "confirmed" => Booked(m)
         /\ event[m] = "needs_review" /\ Booked(m) => m \in unregistered \cup unseen

\* One press of a button lets one text edit: the chat was told of two only if one
\* took the action before the other had cleared it, or the press was worked on
\* twice.
ServedOnce ==
    \A s, t \in served :
        s[1] = t[1] => s = t \/ s[1] \in contended \cup unregistered

\* The table of events, its index and the goroutines do what an inbox does that
\* takes each message in once: a message becomes an expense once and before its
\* result is stored, unless it is worked on without a row, and results are final
\* and say what the server could know.
Abstract == INSTANCE Inbox WITH
    status <- event, source <- origin, loose <- unregistered, unseen <- unseen

TakenInOnce == Abstract!Spec

\* What is stored stays until it is edited again: an edit of
\* one field undoes another's only if it read the row before that one wrote.
EditsKept == \A e \in live \ crossed : exp[e] = latest[e]
=============================================================================
