-------------------------- MODULE KapsoWebhookProofs --------------------------
(***************************************************************************)
(* Theorems about KapsoWebhook, for any number of goroutines, messages and *)
(* expenses and any lifetime of keys and actions.                          *)
(***************************************************************************)
EXTENDS KapsoWebhook, TLAPS

Admitting == {"begin", "register", "lookup"}
Editing == {"read", "update", "clear"}

\* A goroutine that registered its message owns the row; one that works
\* without a row has said so.
Work ==
    \A p \in Procs :
        /\ pc[p] = "idle" => loc[p] = NoLoc
        /\ pc[p] # "idle" => loc[p].msg \in Messages
        /\ pc[p] \in Editing => loc[p].action \in Action \cup Command
        /\ pc[p] = "lookup" => loc[p].msg \in failed
        /\ pc[p] \in Admitting => ~loc[p].registered
        /\ loc[p].registered => event[loc[p].msg] = "received"
        /\ pc[p] \notin Admitting \cup {"idle"} =>
             loc[p].registered \/ loc[p].msg \in unregistered

Owners ==
    \A p, q \in Procs :
        p # q /\ loc[p].registered /\ loc[q].registered => loc[p].msg # loc[q].msg

\* What a goroutine will say of its message is so.
Results ==
    \A p \in Procs :
        /\ loc[p].registered /\ pc[p] # "complete" /\ Booked(loc[p].msg) =>
             loc[p].msg \in unregistered
        /\ pc[p] = "complete" =>
             /\ loc[p].result = "confirmed" => Booked(loc[p].msg)
             /\ loc[p].result = "needs_review" /\ Booked(loc[p].msg) =>
                  loc[p].msg \in unregistered \cup unseen

\* A row that waits for its result has an owner, or had.
Rows ==
    /\ \A m \in Messages :
         /\ event[m] = "received" =>
              m \in failed \/ \E p \in Procs : loc[p].registered /\ loc[p].msg = m
         /\ event[m] = "none" /\ Booked(m) => m \in unregistered
    /\ unregistered \subseteq failed

Holds(p, b) == pc[p] \in Editing /\ loc[p].action.by = b

\* A button was worked on: its action waits, is in a goroutine, or was used.
Pressed(b) == \/ pending # NoAction /\ pending.by = b
              \/ \E p \in Procs : Holds(p, b)
              \/ \E t \in Messages : <<b, t>> \in served

PressedOnce ==
    \A b \in Messages : Pressed(b) =>
        \/ b \in unregistered
        \/ /\ event[b] # "none"
           /\ \A p \in Procs : pc[p] = "act" /\ loc[p].registered => loc[p].msg # b

Excused == contended \cup unregistered

\* Who holds an action that was used is the one that used it, and clears it.
Uses ==
    \A b \in Messages \ Excused :
        /\ \A p, q \in Procs : Holds(p, b) /\ Holds(q, b) => p = q
        /\ \A t \in Messages : <<b, t>> \in served =>
             /\ \A p \in Procs : Holds(p, b) => pc[p] = "clear"
             /\ pending # NoAction /\ pending.by = b =>
                  \E p \in Procs : Holds(p, b)

\* What an edit read is what the row holds, unless another wrote since.
Copies ==
    \A p \in Procs : pc[p] = "update" /\ loc[p].action.target \in live \ crossed =>
        loc[p].row = exp[loc[p].action.target]

\* No id is live, or taken by an edit, before an expense is made with it.
Known ==
    /\ \A e \in live : ~Fresh(e)
    /\ \A p \in Procs : pc[p] \in Editing => ~Fresh(loc[p].action.target)

IInv == /\ TypeOK /\ Work /\ Owners /\ Results /\ Rows /\ PressedOnce /\ Uses /\ Copies
        /\ Known
        /\ BookedOnce /\ EventsAccount /\ ServedOnce /\ EditsKept

----------------------------------------------------------------------------
LEMMA Blank == NoRow \in Row /\ NoLoc \in Loc /\ NoLoc.registered = FALSE
  BY DEF NoRow, Row, NoLoc, Loc, Done

\* No message was delivered.
LEMMA InvInit == ASSUME Init PROVE IInv
<1> USE WebhookAssumption DEF Init
<1>1. TypeOK
  BY Blank DEF TypeOK, PCs, Absent
<1>2. Work /\ Owners /\ Results /\ Rows
  BY Blank DEF Work, Owners, Results, Rows, Admitting, Editing, Booked
<1>3. PressedOnce /\ Uses /\ Copies /\ Known
  BY DEF PressedOnce, Pressed, Uses, Copies, Known, Fresh, Holds, Editing
<1>4. BookedOnce /\ EventsAccount /\ ServedOnce /\ EditsKept
  BY DEF BookedOnce, EventsAccount, ServedOnce, EditsKept, Done
<1> QED BY <1>1, <1>2, <1>3, <1>4 DEF IInv

\* A field of a goroutine's memory takes a value of its kind.
LEMMA Remembers ==
    ASSUME NEW l \in Loc
    PROVE  /\ \A m \in Messages : [l EXCEPT !.msg = m] \in Loc
           /\ \A t \in Nat : [l EXCEPT !.now = t] \in Loc
           /\ [l EXCEPT !.registered = TRUE] \in Loc
           /\ \A a \in Action \cup Command \cup {NoAction} : [l EXCEPT !.action = a] \in Loc
           /\ \A r \in Row : [l EXCEPT !.row = r] \in Loc
           /\ \A r \in Done : [l EXCEPT !.result = r] \in Loc
<1>1. \A m \in Messages : [l EXCEPT !.msg = m] \in Loc
  BY DEF Loc
<1>2. \A t \in Nat : [l EXCEPT !.now = t] \in Loc
  BY DEF Loc
<1>3. [l EXCEPT !.registered = TRUE] \in Loc
  BY DEF Loc
<1>4. \A a \in Action \cup Command \cup {NoAction} : [l EXCEPT !.action = a] \in Loc
  BY DEF Loc
<1>5. \A r \in Row : [l EXCEPT !.row = r] \in Loc
  BY DEF Loc
<1>6. \A r \in Done : [l EXCEPT !.result = r] \in Loc
  BY DEF Loc
<1> QED BY <1>1, <1>2, <1>3, <1>4, <1>5, <1>6

\* A goroutine moves nothing of another, and its own place and memory are
\* those of a goroutine.
LEMMA Frame ==
    ASSUME IInv, NEW p \in Procs, Step(p)
    PROVE  /\ pc' \in [Procs -> PCs] /\ loc' \in [Procs -> Loc]
           /\ \A q \in Procs \ {p} : pc'[q] = pc[q] /\ loc'[q] = loc[q]
           /\ now' = now
<1> USE DEF IInv, TypeOK, PCs
<1> DEFINE Framed == /\ pc' \in [Procs -> PCs] /\ loc' \in [Procs -> Loc]
                     /\ \A q \in Procs \ {p} : pc'[q] = pc[q] /\ loc'[q] = loc[q]
<1>0. ASSUME NEW l \in Loc, NEW s \in PCs, Goto(p, s), loc' = [loc EXCEPT ![p] = l]
      PROVE  Framed
  BY <1>0 DEF Goto
<1>9. ASSUME NEW r \in Done, Finish(p, r) PROVE Framed
  <2>1. loc' = [loc EXCEPT ![p] = [loc[p] EXCEPT !.result = r]] /\ Goto(p, "complete")
    BY <1>9 DEF Finish
  <2> QED BY <1>0, <2>1, Remembers
<1>1. CASE \E m \in Messages : Accept(p, m)
  <2>1. PICK m \in Messages : Accept(p, m)
    BY <1>1
  <2>2. loc' = [loc EXCEPT ![p] = [loc[p] EXCEPT !.msg = m]] /\ Goto(p, "begin")
        /\ now' = now
    BY <2>1 DEF Accept
  <2>3. [loc[p] EXCEPT !.msg = m] \in Loc
    BY Remembers
  <2> QED BY <1>0, <2>2, <2>3
<1>2. CASE Admit(p)
  <2>1. CASE BeginWork(p)
    <3>1. loc' = [loc EXCEPT ![p] = [loc[p] EXCEPT !.now = now]] /\ Goto(p, "register")
          /\ now' = now
      BY <2>1 DEF BeginWork
    <3>2. [loc[p] EXCEPT !.now = now] \in Loc
      BY Remembers
    <3> QED BY <1>0, <3>1, <3>2
  <2>4. CASE Register(p)
    <3>1. loc' = [loc EXCEPT ![p] = [loc[p] EXCEPT !.registered = TRUE]] /\ Goto(p, "act")
          /\ now' = now
      BY <2>4 DEF Register
    <3>2. [loc[p] EXCEPT !.registered = TRUE] \in Loc
      BY Remembers
    <3> QED BY <1>0, <3>1, <3>2
  <2>2. CASE RegisterFail(p) \/ LookupFail(p)
    BY <2>2 DEF RegisterFail, LookupFail, Goto
  <2>3. CASE GiveUp(p) \/ TurnAway(p) \/ RegisterDuplicate(p) \/ LookupFound(p)
    BY <2>3, Blank DEF GiveUp, TurnAway, RegisterDuplicate, LookupFound, Goto, End
  <2> QED BY <1>2, <2>1, <2>2, <2>3, <2>4 DEF Admit
<1>3. CASE Press(p)
  <2>1. Finish(p, "handled") /\ now' = now
    BY <1>3 DEF Press, PressEdit, PressDelete, Cancel
  <2> QED BY <1>9, <2>1 DEF Done
<1>4. CASE TakeAction(p)
  <2>1. loc' = [loc EXCEPT ![p] = [loc[p] EXCEPT !.action = pending]] /\ Goto(p, "read")
        /\ now' = now
    BY <1>4 DEF TakeAction
  <2>2. [loc[p] EXCEPT !.action = pending] \in Loc
    BY Remembers
  <2> QED BY <1>0, <2>1, <2>2
<1>8. CASE TakeCommand(p)
  <2>1. PICK a \in Command : loc' = [loc EXCEPT ![p] = [loc[p] EXCEPT !.action = a]]
    <3>1. PICK e \in Expenses : loc' = [loc EXCEPT ![p].action =
             [by |-> None, target |-> e, field |-> Say(p).field, until |-> 0]]
      BY <1>8 DEF TakeCommand
    <3>2. Say(p).field \in Fields
      BY <1>8, WebhookAssumption DEF TakeCommand, Say, Work, Contents
    <3> QED BY <3>1, <3>2 DEF Command
  <2>2. Goto(p, "read") /\ now' = now
    BY <1>8 DEF TakeCommand
  <2>3. [loc[p] EXCEPT !.action = a] \in Loc
    BY Remembers
  <2> QED BY <1>0, <2>1, <2>2, <2>3
<1>5. CASE ReadRow(p)
  <2>1. exp[loc[p].action.target] \in Row
    <3>1. loc[p].action.target \in Expenses
      BY <1>5 DEF ReadRow
    <3> QED BY <3>1
  <2>2. loc' = [loc EXCEPT ![p] = [loc[p] EXCEPT !.row = exp[loc[p].action.target]]]
        /\ Goto(p, "update") /\ now' = now
    BY <1>5 DEF ReadRow
  <2>3. [loc[p] EXCEPT !.row = exp[loc[p].action.target]] \in Loc
    BY <2>1, Remembers
  <2> QED BY <1>0, <2>2, <2>3
<1>6. CASE RefuseCommand(p) \/ RefuseEdit(p) \/ UpdateRow(p) \/ ClearAction(p)
  <2>1. CASE UpdateRow(p)
    <3>1. now' = now /\ ((Goto(p, "clear") /\ loc' = loc) \/ Finish(p, "handled"))
      BY <2>1 DEF UpdateRow
    <3> QED BY <1>9, <3>1 DEF Goto, Done
  <2>2. CASE RefuseCommand(p) \/ RefuseEdit(p) \/ ClearAction(p)
    <3>1. now' = now /\ \E r \in Done : Finish(p, r)
      BY <2>2 DEF RefuseCommand, RefuseEdit, ClearAction, Done
    <3> QED BY <1>9, <3>1
  <2> QED BY <1>6, <2>1, <2>2
<1>7. CASE Book(p)
  <2>1. CASE NoActionTaken(p)
    BY <2>1 DEF NoActionTaken, Goto
  <2>2. CASE Save(p) \/ SaveFail(p)
    <3>1. now' = now /\ \E r \in Done : Finish(p, r)
      BY <2>2 DEF Save, SaveFail, Done
    <3> QED BY <1>9, <3>1
  <2>3. CASE Complete(p) \/ CompleteFail(p)
    <3>1. now' = now /\ End(p)
      BY <2>3 DEF Complete, CompleteFail
    <3> QED BY <3>1, Blank DEF Goto, End
  <2> QED BY <1>7, <2>1, <2>2, <2>3 DEF Book
<1> QED BY <1>1, <1>2, <1>3, <1>4, <1>5, <1>6, <1>7, <1>8 DEF Step, Edit

\* The three ways a step changes what its goroutine holds: it takes a message,
\* it is done with it, or it goes on.
Takes(p) == /\ pc[p] = "idle" /\ pc'[p] = "begin"
            /\ loc'[p].msg \in Messages /\ ~loc'[p].registered
Ends(p) == pc[p] # "idle" /\ pc'[p] = "idle" /\ loc'[p] = NoLoc
GoesOn(p) ==
    /\ pc[p] # "idle" /\ pc'[p] # "idle" /\ pc'[p] # "begin"
    /\ loc'[p].msg = loc[p].msg
    /\ loc'[p].registered <=> loc[p].registered \/ Register(p)
    /\ TakeAction(p) => loc'[p].action = pending
    /\ TakeCommand(p) => \E e \in live :
          loc'[p].action \in Command /\ loc'[p].action.target = e
    /\ ~TakeAction(p) /\ ~TakeCommand(p) => loc'[p].action = loc[p].action

LEMMA Memory ==
    ASSUME IInv, NEW p \in Procs, Step(p)
    PROVE  Takes(p) \/ Ends(p) \/ GoesOn(p)
<1> USE DEF IInv, TypeOK, Loc
<1>1. CASE \E m \in Messages : Accept(p, m)
  BY <1>1 DEF Accept, Goto, Takes, Work, NoLoc
<1>2. CASE GiveUp(p) \/ TurnAway(p) \/ RegisterDuplicate(p) \/ LookupFound(p) \/ Complete(p) \/ CompleteFail(p)
  BY <1>2 DEF GiveUp, TurnAway, RegisterDuplicate, LookupFound, Complete, CompleteFail, Goto, End,
              Ends
<1>3. CASE TakeAction(p)
  BY <1>3 DEF TakeAction, TakeCommand, Register, Goto, GoesOn
<1>7. CASE TakeCommand(p)
  <2>1. PICK e \in Expenses :
          /\ live \cap Say(p).ids = {e}
          /\ loc' = [loc EXCEPT ![p].action =
               [by |-> None, target |-> e, field |-> Say(p).field, until |-> 0]]
    BY <1>7 DEF TakeCommand
  <2>2. Say(p).field \in Fields
    BY <1>7, WebhookAssumption DEF TakeCommand, Say, Work, Contents
  <2>3. /\ loc'[p].action \in Command /\ loc'[p].action.target = e /\ e \in live
        /\ loc'[p].msg = loc[p].msg /\ loc'[p].registered = loc[p].registered
    BY <2>1, <2>2 DEF Command
  <2> QED BY <1>7, <2>3 DEF TakeAction, TakeCommand, Register, Goto, GoesOn
<1>4. CASE BeginWork(p) \/ Register(p) \/ RegisterFail(p) \/ LookupFail(p)
  BY <1>4 DEF BeginWork, Register, RegisterFail, LookupFail, TakeAction, TakeCommand,
              Goto, GoesOn
<1>5. CASE Press(p) \/ NoActionTaken(p) \/ Save(p) \/ SaveFail(p)
  BY <1>5 DEF Press, PressEdit, PressDelete, Cancel, NoActionTaken, Save, SaveFail,
              Register, TakeAction, TakeCommand, Waiting, Goto, Finish, GoesOn
<1>6. CASE RefuseCommand(p) \/ ReadRow(p) \/ RefuseEdit(p) \/ UpdateRow(p) \/ ClearAction(p)
  <2>1. pc'[p] # "read"
    BY <1>6 DEF RefuseCommand, ReadRow, RefuseEdit, UpdateRow, ClearAction, Goto, Finish
  <2>2. ~TakeAction(p) /\ ~TakeCommand(p)
    BY <2>1 DEF TakeAction, TakeCommand, Goto
  <2> QED BY <1>6, <2>2 DEF RefuseCommand, ReadRow, RefuseEdit, UpdateRow, ClearAction,
                            Register, Goto, Finish, GoesOn
<1> QED BY <1>1, <1>2, <1>3, <1>4, <1>5, <1>6, <1>7 DEF Step, Admit, Edit, Book

BookedNext(m) == \E e \in Expenses : origin'[e] = m

\* What a step does to the rows and to the history of messages: only its own
\* message's change, and an expense is made by Save.
LEMMA Effects ==
    ASSUME IInv, NEW p \in Procs, Step(p)
    PROVE  LET m == loc[p].msg
           IN  /\ \A n \in Messages : n # m => event'[n] = event[n]
               /\ m \in Messages =>
                    \/ event'[m] = event[m]
                    \/ /\ event[m] = "none" /\ event'[m] = "received"
                       /\ Register(p) \/ (RegisterFail(p) /\ m \in failed')
                    \/ /\ Complete(p) \/ CompleteFail(p)
                       /\ loc[p].registered /\ event'[m] = loc[p].result
               /\ \A n \in Messages : Booked(n) => BookedNext(n)
               /\ \A n \in Messages : BookedNext(n) => Booked(n) \/ (Save(p) /\ n = m)
               /\ failed \subseteq failed' /\ failed' \subseteq failed \cup {m}
               /\ unregistered' = unregistered \/
                    (LookupFail(p) /\ unregistered' = unregistered \cup {m})
               /\ unseen' = unseen \/ (Save(p) /\ unseen' = unseen \cup {m})
               /\ denied' = denied \/ (TurnAway(p) /\ denied' = denied \cup {m})
<1> USE DEF IInv, TypeOK, Booked, BookedNext
<1>1. CASE \E m \in Messages : Accept(p, m)
  BY <1>1 DEF Accept, chat
<1>2. CASE \/ BeginWork(p) \/ GiveUp(p) \/ TurnAway(p) \/ RegisterDuplicate(p)
           \/ LookupFound(p) \/ LookupFail(p)
  BY <1>2 DEF BeginWork, GiveUp, TurnAway, RegisterDuplicate, LookupFound, LookupFail, Failing,
              chat, hist, accounts
<1>3. CASE Register(p) \/ RegisterFail(p)
  BY <1>3 DEF Register, RegisterFail, Failing, hist, accounts
<1>4. CASE Press(p)
  BY <1>4 DEF Press, PressEdit, PressDelete, Cancel, chat, hist, accounts
<1>5. CASE Edit(p)
  BY <1>5 DEF Edit, TakeAction, TakeCommand, RefuseCommand, ReadRow, RefuseEdit, UpdateRow,
              ClearAction, chat, hist, accounts
<1>6. CASE NoActionTaken(p) \/ SaveFail(p) \/ Complete(p) \/ CompleteFail(p)
  BY <1>6 DEF NoActionTaken, SaveFail, Complete, CompleteFail, Failing, chat, hist, accounts
<1>7. CASE Save(p)
  <2>1. PICK e \in Expenses : /\ Fresh(e)
                              /\ origin' = [origin EXCEPT ![e] = loc[p].msg]
    BY <1>7 DEF Save
  <2>2. /\ event' = event /\ failed' = failed /\ unregistered' = unregistered
        /\ denied' = denied
        /\ unseen' = unseen \/ unseen' = unseen \cup {loc[p].msg}
    BY <1>7 DEF Save
  <2>3. origin[e] = None /\ None \notin Messages
    BY <2>1, WebhookAssumption DEF Fresh
  <2>4. \A d \in Expenses : origin'[d] = IF d = e THEN loc[p].msg ELSE origin[d]
    BY <2>1
  <2> QED BY <1>7, <2>2, <2>3, <2>4
<1> QED BY <1>1, <1>2, <1>3, <1>4, <1>5, <1>6, <1>7 DEF Step, Admit, Book

\* Where a goroutine that goes on comes from.
LEMMA Moves ==
    ASSUME IInv, NEW p \in Procs, Step(p), GoesOn(p)
    PROVE  /\ pc[p] # "complete"
           /\ pc'[p] \in Editing => \/ TakeAction(p) \/ TakeCommand(p)
                                    \/ pc[p] \in {"read", "update"}
           /\ pc'[p] = "update" => ReadRow(p)
           /\ pc'[p] = "lookup" => RegisterFail(p)
           /\ pc'[p] \in Admitting => pc[p] \in Admitting
           /\ pc'[p] = "act" => pc[p] \in Admitting
           /\ pc'[p] \notin Admitting /\ pc[p] \in Admitting => Register(p) \/ LookupFail(p)
<1> USE DEF IInv, TypeOK, GoesOn, Admitting, Editing
<1>1. CASE \E m \in Messages : Accept(p, m)
  BY <1>1 DEF Accept
<1>2. CASE Admit(p)
  BY <1>2 DEF Admit, BeginWork, GiveUp, TurnAway, Register, RegisterDuplicate, RegisterFail,
              LookupFound, LookupFail, Goto, End
<1>3. CASE Press(p)
  BY <1>3 DEF Press, PressEdit, PressDelete, Cancel, Goto, Finish
<1>4. CASE Edit(p)
  BY <1>4 DEF Edit, TakeAction, TakeCommand, RefuseCommand, ReadRow, RefuseEdit, UpdateRow,
              ClearAction, Goto, Finish
<1>5. CASE Book(p)
  BY <1>5 DEF Book, NoActionTaken, Save, SaveFail, Complete, CompleteFail, Goto, Finish, End
<1> QED BY <1>1, <1>2, <1>3, <1>4, <1>5 DEF Step

\* What a step does to the actions: a press makes one wait, a text takes it,
\* uses it once and clears it.
LEMMA Actions ==
    ASSUME IInv, NEW p \in Procs, Step(p)
    PROVE  /\ pending' # NoAction =>
                 \/ pending' = pending /\ (pc[p] = "clear" => loc[p].action.by = None)
                 \/ PressEdit(p) /\ pending'.by = loc[p].msg
           /\ \/ served' = served
              \/ /\ UpdateRow(p) /\ pc'[p] = "clear"
                 /\ served' = served \cup ({loc[p].action.by} \ {None}) \X {loc[p].msg}
           /\ contended \subseteq contended'
           /\ TakeAction(p) =>
                 /\ pending # NoAction
                 /\ \A q \in Procs \ {p} : Holds(q, pending.by) => pending.by \in contended'
<1>1. CASE \E m \in Messages : Accept(p, m)
  BY <1>1 DEF Accept, TakeAction
<1>2. CASE Admit(p)
  BY <1>2 DEF Admit, BeginWork, GiveUp, TurnAway, Register, RegisterDuplicate, RegisterFail,
              LookupFound, LookupFail, TakeAction, hist, accounts
<1>3. CASE Press(p)
  BY <1>3 DEF Press, PressEdit, PressDelete, Cancel, TakeAction, hist, accounts
<1>4. CASE TakeAction(p)
  BY <1>4 DEF TakeAction, Waiting, Holds, Editing
<1>5. CASE TakeCommand(p) \/ RefuseCommand(p) \/ ReadRow(p) \/ RefuseEdit(p) \/ UpdateRow(p)
        \/ ClearAction(p)
  <2>1. ~TakeAction(p)
    BY <1>5 DEF TakeCommand, RefuseCommand, ReadRow, RefuseEdit, UpdateRow, ClearAction,
                TakeAction
  <2>2. ASSUME UpdateRow(p)
        PROVE  /\ pending' = pending /\ contended' = contended /\ pc[p] = "update"
               /\ \/ served' = served
                  \/ /\ pc'[p] = "clear"
                     /\ served' = served \cup ({loc[p].action.by} \ {None}) \X {loc[p].msg}
    BY <2>2 DEF UpdateRow, Goto, IInv, TypeOK
  <2> QED BY <1>5, <2>1, <2>2 DEF TakeCommand, RefuseCommand, ReadRow, RefuseEdit,
                                  ClearAction, Command, hist, accounts
<1>6. CASE Book(p)
  BY <1>6 DEF Book, NoActionTaken, Waiting, Save, SaveFail, Complete, CompleteFail,
              TakeAction, hist, accounts
<1> QED BY <1>1, <1>2, <1>3, <1>4, <1>5, <1>6 DEF Step, Edit

\* Who holds an action after a step held it before or took it.
LEMMA Holding ==
    ASSUME IInv, NEW p \in Procs, Step(p), NEW q \in Procs, NEW b \in Messages
    PROVE  /\ q # p => (Holds(q, b)' <=> Holds(q, b))
           /\ Holds(p, b)' => \/ Holds(p, b) /\ pc[p] # "clear"
                              \/ TakeAction(p) /\ pending.by = b
<1>1. q # p => pc'[q] = pc[q] /\ loc'[q] = loc[q]
  BY Frame
<1>2. Holds(p, b)' => GoesOn(p)
  BY Memory DEF Holds, Editing, Takes, Ends
<1>3. Holds(p, b)' => \/ Holds(p, b) /\ pc[p] # "clear"
                      \/ TakeAction(p) /\ pending.by = b
  <2>1. TakeCommand(p) /\ GoesOn(p) => loc'[p].action.by # b
    BY WebhookAssumption DEF GoesOn, Command
  <2> QED BY <1>2, <2>1, Moves DEF Holds, Editing, GoesOn
<1> QED BY <1>1, <1>3 DEF Holds

----------------------------------------------------------------------------
LEMMA TypeStep == ASSUME IInv, NEW p \in Procs, Step(p) PROVE TypeOK'
<1> USE WebhookAssumption DEF IInv, TypeOK
<1>1. pc' \in [Procs -> PCs] /\ loc' \in [Procs -> Loc] /\ now' \in Nat
  BY Frame
<1>2. pc[p] # "idle" => loc[p].msg \in Messages
  BY DEF Work
<1>3. CASE \E m \in Messages : Accept(p, m)
  <2>1. PICK m \in Messages : Accept(p, m)
    BY <1>3
  <2>2. PurgedKeys \in [Messages -> Nat \cup {Absent}]
    BY DEF PurgedKeys
  <2> QED BY <1>1, <2>1, <2>2 DEF Accept, chat
<1>4. CASE Admit(p)
  <2>1. pc[p] # "idle"
    BY <1>4 DEF Admit, BeginWork, GiveUp, TurnAway, Register, RegisterDuplicate, RegisterFail,
                LookupFound, LookupFail
  <2>2. /\ UNCHANGED <<seen, pending, live, exp, origin, latest, crossed, served, contended,
                       acked, deliveries>>
        /\ \/ UNCHANGED event
           \/ event' = [event EXCEPT ![loc[p].msg] = "received"]
        /\ failed' = failed \/ failed' = failed \cup {loc[p].msg}
        /\ denied' = denied \/ denied' = denied \cup {loc[p].msg}
        /\ unregistered' = unregistered \/ unregistered' = unregistered \cup {loc[p].msg}
        /\ unseen' = unseen
        /\ faults' = faults \/ faults' = faults + 1
    BY <1>4 DEF Admit, BeginWork, GiveUp, TurnAway, Register, RegisterDuplicate, RegisterFail,
                LookupFound, LookupFail, Failing, Fault, chat, hist, accounts, bounds
  <2> QED BY <1>1, <1>2, <2>1, <2>2
<1>5. CASE Press(p)
  <2>1. pc[p] # "idle"
    BY <1>5 DEF Press, PressEdit, PressDelete, Cancel
  <2>2. pending' \in Action \cup {NoAction}
    <3>1. CASE PressEdit(p)
      <4>1. loc[p].now \in Nat /\ Say(p) \in Contents
        BY <1>2, <2>1 DEF Loc, Say
      <4>2. loc[p].now + SessionTTL \in Nat /\ Say(p).target \in Initial /\ Say(p).field \in Fields
        BY <4>1 DEF Contents
      <4>3. pending' = [by |-> loc[p].msg, target |-> Say(p).target,
                        field |-> Say(p).field, until |-> loc[p].now + SessionTTL]
        BY <3>1 DEF PressEdit
      <4> QED BY <1>2, <2>1, <4>2, <4>3 DEF Action
    <3> QED BY <1>5, <3>1 DEF Press, PressDelete, Cancel
  <2>3. /\ UNCHANGED <<seen, event, exp, hist, bounds>>
        /\ live' \subseteq live
    BY <1>5 DEF Press, PressEdit, PressDelete, Cancel, chat
  <2> QED BY <1>1, <2>2, <2>3 DEF hist, accounts, bounds
<1>6. CASE TakeAction(p)
  <2>1. pending \in Action
    BY <1>6, Actions
  <2>2. contended' \subseteq contended \cup {pending.by}
    BY <1>6 DEF TakeAction
  <2> QED BY <1>1, <1>6, <2>1, <2>2 DEF TakeAction, Action, chat, accounts, bounds
<1>7. CASE UpdateRow(p)
  <2> DEFINE a == loc[p].action
  <2>1. a \in Action \cup Command /\ loc[p].msg \in Messages /\ loc[p].row \in Row
    BY <1>7, <1>2 DEF UpdateRow, Overwrite, Work, Editing, Loc
  <2>2. a.target \in Expenses /\ a.by \in Messages \cup {None} /\ a.field \in Fields
    BY <2>1 DEF Action, Command
  <2>3. /\ [loc[p].row EXCEPT ![a.field] = loc[p].msg] \in Row
        /\ [latest[a.target] EXCEPT ![a.field] = loc[p].msg] \in Row
    BY <2>1, <2>2 DEF Row
  <2>4. exp' \in [Expenses -> Row] /\ latest' \in [Expenses -> Row]
    BY <1>7, <2>2, <2>3 DEF UpdateRow, Overwrite
  <2>5. /\ crossed' \subseteq crossed \cup {a.target}
        /\ \/ served' = served \cup ({a.by} \ {None}) \X {loc[p].msg}
           \/ served' = served
        /\ faults' \in {faults, faults + 1}
        /\ UNCHANGED <<seen, pending, event, live, origin, contended, acked, failed,
                       denied, unregistered, unseen, deliveries>>
    BY <1>7 DEF UpdateRow, Overwrite, Fault, accounts
  <2> QED BY <1>1, <2>1, <2>2, <2>4, <2>5
<1>8. CASE \/ TakeCommand(p) \/ RefuseCommand(p) \/ ReadRow(p) \/ RefuseEdit(p)
           \/ ClearAction(p) \/ NoActionTaken(p) \/ SaveFail(p)
  BY <1>1, <1>8 DEF TakeCommand, RefuseCommand, ReadRow, RefuseEdit, ClearAction, NoActionTaken, Waiting, SaveFail,
                    chat, hist, accounts, bounds
<1>9. CASE Save(p)
  <2>1. PICK e \in Expenses :
          /\ live' = live \cup {e}
          /\ exp' = [exp EXCEPT ![e] = [f \in Fields |-> loc[p].msg]]
          /\ latest' = [latest EXCEPT ![e] = [f \in Fields |-> loc[p].msg]]
          /\ origin' = [origin EXCEPT ![e] = loc[p].msg]
    BY <1>9 DEF Save
  <2>2. loc[p].msg \in Messages
    BY <1>9, <1>2 DEF Save
  <2>3. [f \in Fields |-> loc[p].msg] \in Row
    BY <2>2 DEF Row
  <2>4. exp' \in [Expenses -> Row] /\ latest' \in [Expenses -> Row]
    BY <2>1, <2>3
  <2>5. /\ UNCHANGED <<seen, pending, event, crossed, served, contended, acked, failed,
                       denied, unregistered, deliveries>>
        /\ unseen' = unseen \/ unseen' = unseen \cup {loc[p].msg}
        /\ faults' \in {faults, faults + 1}
    BY <1>9 DEF Save, Fault
  <2> QED BY <1>1, <2>1, <2>2, <2>4, <2>5
<1>10. CASE Complete(p) \/ CompleteFail(p)
  <2>1. loc[p].msg \in Messages /\ loc[p].result \in Done
    BY <1>10, <1>2 DEF Complete, CompleteFail, Loc
  <2>2. /\ UNCHANGED <<seen, pending, live, exp, origin, latest, crossed, served, contended,
                       acked, denied, unregistered, unseen, deliveries>>
        /\ event' = event \/ event' = [event EXCEPT ![loc[p].msg] = loc[p].result]
        /\ failed' = failed \/ failed' = failed \cup {loc[p].msg}
        /\ faults' = faults \/ faults' = faults + 1
    BY <1>10 DEF Complete, CompleteFail, Failing, Fault, chat, hist, accounts, bounds
  <2> QED BY <1>1, <2>1, <2>2
<1> QED BY <1>3, <1>4, <1>5, <1>6, <1>7, <1>8, <1>9, <1>10 DEF Step, Edit, Book

LEMMA WorkStep == ASSUME IInv, NEW p \in Procs, Step(p) PROVE Work'
<1> USE DEF IInv
<1> SUFFICES ASSUME NEW q \in Procs
             PROVE  /\ pc'[q] = "idle" => loc'[q] = NoLoc
                    /\ pc'[q] # "idle" => loc'[q].msg \in Messages
                    /\ pc'[q] \in Editing => loc'[q].action \in Action \cup Command
                    /\ pc'[q] = "lookup" => loc'[q].msg \in failed'
                    /\ pc'[q] \in Admitting => ~loc'[q].registered
                    /\ loc'[q].registered => event'[loc'[q].msg] = "received"
                    /\ pc'[q] \notin Admitting \cup {"idle"} =>
                         loc'[q].registered \/ loc'[q].msg \in unregistered'
  BY DEF Work
<1>1. failed \subseteq failed' /\ unregistered \subseteq unregistered'
  BY Effects
<1>2. loc[q].registered => pc[q] # "idle" /\ loc[q].msg \in Messages
  BY Blank DEF Work
<1>3. CASE q # p
  <2>1. pc'[q] = pc[q] /\ loc'[q] = loc[q]
    BY <1>3, Frame
  <2>2. loc[q].registered => event'[loc[q].msg] = "received"
    BY <1>2, <1>3, Effects DEF Work, Owners
  <2> QED BY <1>1, <2>1, <2>2 DEF Work
<1>4. CASE q = p /\ ~GoesOn(p)
  BY <1>4, Memory, Blank DEF Takes, Ends, Editing, Admitting
<1>5. CASE q = p /\ GoesOn(p)
  <2>1. loc'[p].msg = loc[p].msg /\ pc[p] # "idle" /\ pc'[p] # "idle" /\ loc[p].msg \in Messages
    BY <1>5 DEF GoesOn, Work
  <2>2. loc'[p].registered => event'[loc'[p].msg] = "received"
    <3>1. CASE Register(p)
      BY <2>1, <3>1 DEF Register, TypeOK
    <3>2. CASE ~Register(p)
      <4>1. loc'[p].registered =>
              loc[p].registered /\ ~Complete(p) /\ ~CompleteFail(p)
        BY <1>5, <3>2, Moves DEF GoesOn, Complete, CompleteFail
      <4> QED BY <2>1, <4>1, Effects DEF Work
    <3> QED BY <3>1, <3>2
  <2>3. pc'[p] \in Editing => loc'[p].action \in Action \cup Command
    BY <1>5, Moves, Actions DEF GoesOn, Editing, Work, TypeOK
  <2>4. pc'[p] = "lookup" => loc'[p].msg \in failed'
    BY <1>5, <2>1, Moves DEF RegisterFail, Failing
  <2>5. pc'[p] \in Admitting => ~loc'[p].registered
    BY <1>5, Moves, Frame DEF GoesOn, Work, Register, Goto, Admitting, TypeOK
  <2>6. pc'[p] \notin Admitting => loc'[p].registered \/ loc'[p].msg \in unregistered'
    BY <1>1, <1>5, <2>1, Moves DEF GoesOn, Work, LookupFail
  <2> QED BY <1>5, <2>1, <2>2, <2>3, <2>4, <2>5, <2>6
<1> QED BY <1>3, <1>4, <1>5

LEMMA OwnersStep == ASSUME IInv, NEW p \in Procs, Step(p) PROVE Owners'
<1> USE DEF IInv
<1>1. \A q \in Procs \ {p} : loc'[q] = loc[q]
  BY Frame
<1>2. loc'[p].registered =>
        loc'[p].msg = loc[p].msg /\ (loc[p].registered \/ Register(p))
  BY Memory, Blank DEF Takes, Ends, GoesOn
<1>3. Register(p) => \A q \in Procs : loc[q].registered => loc[q].msg # loc[p].msg
  BY DEF Register, Work
<1> QED BY <1>1, <1>2, <1>3 DEF Owners

\* What is known of the message of a goroutine at work: it holds the row, or a
\* delivery was worked on without one.
LEMMA Owned ==
    ASSUME IInv, NEW q \in Procs, pc[q] \in {"act", "save", "complete"}
    PROVE  /\ loc[q].msg \in Messages
           /\ \/ loc[q].registered /\ event[loc[q].msg] = "received"
              \/ loc[q].msg \in unregistered
<1> QED BY DEF IInv, Work, Admitting

LEMMA ResultsStep == ASSUME IInv, NEW p \in Procs, Step(p) PROVE Results'
<1> USE DEF IInv
<1> SUFFICES ASSUME NEW q \in Procs
             PROVE  LET n == loc'[q].msg
                    IN  /\ loc'[q].registered /\ pc'[q] # "complete" /\ BookedNext(n) =>
                             n \in unregistered'
                        /\ pc'[q] = "complete" =>
                             /\ loc'[q].result = "confirmed" => BookedNext(n)
                             /\ loc'[q].result = "needs_review" /\ BookedNext(n) =>
                                  n \in unregistered' \cup unseen'
  BY DEF Results, Booked, BookedNext
<1> DEFINE n == loc'[q].msg
<1>1. unregistered \subseteq unregistered' /\ unseen \subseteq unseen'
  BY Effects
<1>2. \A k \in Messages : /\ Booked(k) => BookedNext(k)
                          /\ BookedNext(k) => Booked(k) \/ (Save(p) /\ k = loc[p].msg)
  BY Effects
<1>3. CASE q # p
  <2>1. pc'[q] = pc[q] /\ loc'[q] = loc[q]
    BY <1>3, Frame
  <2>2. loc[q].registered => pc[q] # "idle"
    BY Blank DEF Work
  <2>3. Save(p) /\ loc[q].registered /\ loc[q].msg = loc[p].msg => loc[p].msg \in unregistered
    BY <1>3, Owned DEF Owners, Save
  <2>4. CASE pc[q] = "idle"
    BY <2>1, <2>2, <2>4
  <2>5. CASE pc[q] # "idle"
    <3>1. n \in Messages /\ n = loc[q].msg
      BY <2>1, <2>5 DEF Work
    <3>2. BookedNext(n) => Booked(n) \/ (Save(p) /\ n = loc[p].msg)
      BY <1>2, <3>1
    <3>3. Booked(n) => BookedNext(n)
      BY <1>2, <3>1
    <3>4. /\ loc[q].registered /\ pc[q] # "complete" /\ Booked(n) => n \in unregistered
          /\ pc[q] = "complete" =>
               /\ loc[q].result = "confirmed" => Booked(n)
               /\ loc[q].result = "needs_review" /\ Booked(n) => n \in unregistered \cup unseen
      BY <3>1 DEF Results
    <3>5. pc[q] = "complete" => loc[q].registered \/ n \in unregistered
      BY <3>1, Owned
    <3> QED BY <1>1, <2>1, <2>3, <3>1, <3>2, <3>3, <3>4, <3>5
  <2> QED BY <2>4, <2>5
<1>4. CASE q = p /\ ~GoesOn(p)
  BY <1>4, Memory, Blank DEF Takes, Ends
<1>5. CASE q = p /\ GoesOn(p)
  <2>1. n = loc[p].msg /\ n \in Messages /\ pc[p] # "complete"
    BY <1>5, Moves DEF GoesOn, Work
  <2>2. BookedNext(n) => Booked(n) \/ Save(p)
    BY <1>2, <2>1
  <2>3. loc[p].registered /\ Booked(n) => n \in unregistered
    BY <2>1 DEF Results
  <2>4. ASSUME loc'[p].registered, pc'[p] # "complete", BookedNext(n) PROVE n \in unregistered'
    <3>1. ~Save(p)
      BY <2>4 DEF Save, Finish, Goto, TypeOK
    <3>2. Register(p) => n \in unregistered
      BY <2>1, <2>2, <2>4, <3>1 DEF Register, Rows
    <3> QED BY <1>1, <1>5, <2>2, <2>3, <2>4, <3>1, <3>2 DEF GoesOn
  <2>5. ASSUME pc'[p] = "complete"
        PROVE  \/ loc'[p].result = "handled"
               \/ Save(p) /\ loc'[p].result = "confirmed"
               \/ Save(p) /\ loc[p].msg \in unseen'
               \/ SaveFail(p) /\ loc'[p].result = "needs_review"
    <3>1. CASE Admit(p) \/ \E m \in Messages : Accept(p, m)
      BY <2>5, <3>1 DEF Admit, BeginWork, GiveUp, TurnAway, Register, RegisterDuplicate, RegisterFail,
                  LookupFound, LookupFail, Accept, Goto, End, TypeOK
    <3>2. CASE Press(p) \/ RefuseCommand(p) \/ RefuseEdit(p) \/ ClearAction(p)
      BY <3>2 DEF Press, PressEdit, PressDelete, Cancel, RefuseCommand, RefuseEdit,
                  ClearAction, Finish, TypeOK, Loc
    <3>7. CASE UpdateRow(p)
      BY <2>5, <3>7 DEF UpdateRow, Goto, Finish, TypeOK, Loc
    <3>3. CASE TakeAction(p) \/ TakeCommand(p) \/ ReadRow(p) \/ NoActionTaken(p)
      BY <2>5, <3>3 DEF TakeAction, TakeCommand, ReadRow, NoActionTaken, Goto, TypeOK
    <3>4. CASE Save(p)
      <4>1. Finish(p, "confirmed") \/ loc[p].msg \in unseen'
        BY <3>4 DEF Save
      <4> QED BY <3>4, <4>1 DEF Finish, TypeOK, Loc
    <3>6. CASE SaveFail(p)
      BY <3>6 DEF SaveFail, Finish, TypeOK, Loc
    <3>5. CASE Complete(p) \/ CompleteFail(p)
      BY <2>1, <3>5 DEF Complete, CompleteFail
    <3> QED BY <3>1, <3>2, <3>3, <3>4, <3>5, <3>6, <3>7 DEF Step, Edit, Book
  <2>6. Save(p) => BookedNext(n)
    BY <2>1 DEF Save, BookedNext, TypeOK
  <2>7. SaveFail(p) /\ BookedNext(n) => n \in unregistered
    <3>1. SaveFail(p) => ~Save(p)
      <4> SUFFICES ASSUME SaveFail(p), Save(p) PROVE FALSE
        OBVIOUS
      <4>1. PICK e \in Expenses : Fresh(e) /\ origin' = [origin EXCEPT ![e] = loc[p].msg]
        BY DEF Save
      <4>2. origin' = origin /\ loc[p].msg # None
        BY Owned, WebhookAssumption DEF SaveFail, hist
      <4> QED BY <4>1, <4>2, WebhookAssumption DEF Fresh, TypeOK
    <3> QED BY <2>1, <2>2, <2>3, <3>1, Owned DEF SaveFail
  <2>8. pc'[p] = "complete" =>
          /\ loc'[p].result = "confirmed" => BookedNext(n)
          /\ loc'[p].result = "needs_review" /\ BookedNext(n) =>
               n \in unregistered' \cup unseen'
    <3> HIDE DEF n
    <3> QED BY <1>1, <2>1, <2>5, <2>6, <2>7
  <2> QED BY <1>5, <2>4, <2>8
<1> QED BY <1>3, <1>4, <1>5

\* Which steps end the work on a message, and which accepts one.
LEMMA Enders ==
    ASSUME IInv, NEW p \in Procs, Step(p), Ends(p)
    PROVE  \/ GiveUp(p) \/ TurnAway(p) \/ CompleteFail(p) \/ RegisterDuplicate(p) \/ LookupFound(p)
           \/ Complete(p)
<1> USE DEF IInv, TypeOK, Ends, Goto
<1>1. ~(\E m \in Messages : Accept(p, m))
  BY DEF Accept
<1>2. ~BeginWork(p) /\ ~Register(p) /\ ~RegisterFail(p) /\ ~LookupFail(p)
  BY DEF BeginWork, Register, RegisterFail, LookupFail
<1>3. ~Press(p)
  BY DEF Press, PressEdit, PressDelete, Cancel, Finish
<1>4. ~Edit(p)
  BY DEF Edit, TakeAction, TakeCommand, RefuseCommand, ReadRow, RefuseEdit, UpdateRow,
         ClearAction, Finish
<1>5. ~NoActionTaken(p) /\ ~Save(p) /\ ~SaveFail(p)
  BY DEF NoActionTaken, Save, SaveFail, Finish
<1> QED BY <1>1, <1>2, <1>3, <1>4, <1>5 DEF Step, Admit, Book

LEMMA Acks ==
    ASSUME IInv, NEW p \in Procs, Step(p), NEW m \in acked', m \notin acked
    PROVE  Accept(p, m)
<1>1. ~Admit(p)
  BY DEF Admit, BeginWork, GiveUp, TurnAway, Register, RegisterDuplicate, RegisterFail, LookupFound,
         LookupFail, hist, accounts
<1>2. ~Press(p) /\ ~Edit(p)
  BY DEF Press, PressEdit, PressDelete, Cancel, Edit, TakeAction, TakeCommand,
         RefuseCommand, ReadRow, RefuseEdit, UpdateRow, ClearAction, hist, accounts
<1>3. ~Book(p)
  BY DEF Book, NoActionTaken, Save, SaveFail, Complete, CompleteFail, hist, accounts
<1> QED BY <1>1, <1>2, <1>3 DEF Step, Accept

LEMMA RowsStep == ASSUME IInv, NEW p \in Procs, Step(p) PROVE Rows'
<1> USE DEF IInv
<1>1. ASSUME NEW m \in Messages, event'[m] = "received"
      PROVE  m \in failed' \/ \E q \in Procs : loc'[q].registered /\ loc'[q].msg = m
  <2>1. failed \subseteq failed'
    BY Effects
  <2>2. CASE \E q \in Procs \ {p} : loc[q].registered /\ loc[q].msg = m
    BY <2>2, Frame
  <2>3. CASE m # loc[p].msg
    <3>1. event[m] = "received"
      BY <1>1, <2>3, Effects
    <3> QED BY <2>1, <2>2, <2>3, <3>1 DEF Rows
  <2>4. CASE m = loc[p].msg /\ loc[p].registered
    <3>1. pc[p] \notin Admitting \cup {"idle"}
      BY <2>4, Blank DEF Work
    <3>2. CASE GoesOn(p)
      BY <2>4, <3>2 DEF GoesOn
    <3>3. CASE Complete(p)
      BY <1>1, <2>4, <3>3 DEF Complete, TypeOK, Loc, Done
    <3>4. CASE CompleteFail(p)
      BY <2>4, <3>4 DEF CompleteFail, Failing
    <3>5. ~GoesOn(p) => Complete(p) \/ CompleteFail(p)
      BY <3>1, Memory, Enders DEF Takes, GiveUp, TurnAway, RegisterDuplicate, LookupFound, Admitting
    <3> QED BY <3>2, <3>3, <3>4, <3>5
  <2>5. CASE m = loc[p].msg /\ ~loc[p].registered
    <3>1. CASE Register(p)
      BY <2>5, <3>1, Memory DEF Register, Takes, Ends, GoesOn, Goto, TypeOK
    <3>2. ~Register(p) => event[m] = "received" \/ m \in failed'
      BY <1>1, <2>5, Effects
    <3> QED BY <2>1, <2>2, <2>5, <3>1, <3>2 DEF Rows
  <2> QED BY <2>3, <2>4, <2>5
<1>2. ASSUME NEW m \in Messages, event'[m] = "none", BookedNext(m)
      PROVE  m \in unregistered'
  <2>1. event[m] = "none"
    BY <1>2, Effects DEF Complete, TypeOK, Loc, Done
  <2>2. Booked(m) \/ (Save(p) /\ m = loc[p].msg)
    BY <1>2, Effects
  <2>3. unregistered \subseteq unregistered'
    BY Effects
  <2> QED BY <2>1, <2>2, <2>3, Owned DEF Rows, Save
<1>3. unregistered' \subseteq failed'
  BY Effects DEF Rows, LookupFail, Work
<1> QED BY <1>1, <1>2, <1>3 DEF Rows, Booked, BookedNext

LEMMA PressedStep == ASSUME IInv, NEW p \in Procs, Step(p) PROVE PressedOnce'
<1> USE DEF IInv
<1> DEFINE PressedNext(b) == \/ pending' # NoAction /\ pending'.by = b
                             \/ \E q \in Procs : Holds(q, b)'
                             \/ \E t \in Messages : <<b, t>> \in served'
<1> SUFFICES ASSUME NEW b \in Messages, PressedNext(b), b \notin unregistered'
             PROVE  /\ event'[b] # "none"
                    /\ \A q \in Procs : pc'[q] = "act" /\ loc'[q].registered =>
                                          loc'[q].msg # b
  BY DEF PressedOnce, Pressed
<1>1. b \notin unregistered
  BY Effects
<1>2. Pressed(b) \/ (PressEdit(p) /\ b = loc[p].msg)
  <2>1. CASE pending' # NoAction /\ pending'.by = b
    BY <2>1, Actions DEF Pressed
  <2>2. CASE \E q \in Procs : Holds(q, b)'
    BY <2>2, Holding, Actions DEF Pressed
  <2>3. CASE \E t \in Messages : <<b, t>> \in served'
    <3>1. UpdateRow(p) => Holds(p, loc[p].action.by)
      BY DEF UpdateRow, Overwrite, Holds, Editing
    <3> QED BY <2>3, <3>1, Actions DEF Pressed
  <2> QED BY <2>1, <2>2, <2>3
<1>3. CASE Pressed(b)
  <2>1. event[b] # "none" /\ \A q \in Procs : pc[q] = "act" /\ loc[q].registered => loc[q].msg # b
    BY <1>1, <1>3 DEF PressedOnce
  <2>2. event'[b] # "none"
    BY <2>1, Effects DEF Complete, TypeOK, Loc, Done
  <2>3. pc'[p] = "act" /\ loc'[p].registered => loc'[p].msg # b
    <3>1. SUFFICES ASSUME pc'[p] = "act", loc'[p].registered PROVE loc'[p].msg # b
      OBVIOUS
    <3>2. GoesOn(p) /\ pc[p] \in Admitting
      BY <3>1, Memory, Moves DEF Takes, Ends
    <3>3. Register(p)
      BY <3>1, <3>2 DEF GoesOn, Work
    <3> QED BY <2>1, <3>2, <3>3 DEF Register, GoesOn
  <2> QED BY <2>1, <2>2, <2>3, Frame
<1>4. CASE PressEdit(p) /\ b = loc[p].msg
  <2>1. event' = event /\ pc'[p] = "complete"
    BY <1>4 DEF PressEdit, Finish, Goto, TypeOK, chat
  <2>2. loc[p].registered /\ event[b] = "received"
    BY <1>1, <1>4, Owned DEF PressEdit
  <2>3. \A q \in Procs \ {p} : loc[q].registered => loc[q].msg # b
    BY <1>4, <2>2 DEF Owners
  <2> QED BY <2>1, <2>2, <2>3, Frame
<1> QED BY <1>2, <1>3, <1>4

LEMMA UsesStep == ASSUME IInv, NEW p \in Procs, Step(p) PROVE Uses'
<1> USE DEF IInv
<1> SUFFICES ASSUME NEW b \in Messages, b \notin Excused'
             PROVE  /\ \A q, r \in Procs : Holds(q, b)' /\ Holds(r, b)' => q = r
                    /\ \A t \in Messages : <<b, t>> \in served' =>
                         /\ \A q \in Procs : Holds(q, b)' => pc'[q] = "clear"
                         /\ pending' # NoAction /\ pending'.by = b =>
                              \E q \in Procs : Holds(q, b)'
  BY DEF Uses
<1>1. b \notin unregistered /\ b \notin contended
  BY Effects, Actions DEF Excused
<1>2. /\ \A q, r \in Procs : Holds(q, b) /\ Holds(r, b) => q = r
      /\ \A t \in Messages : <<b, t>> \in served =>
           /\ \A q \in Procs : Holds(q, b) => pc[q] = "clear"
           /\ pending # NoAction /\ pending.by = b => \E q \in Procs : Holds(q, b)
  BY <1>1 DEF Uses, Excused
<1>3. TakeAction(p) /\ pending.by = b => \A q \in Procs : ~Holds(q, b)
  <2>1. TakeAction(p) => ~Holds(p, b)
    BY DEF TakeAction, Holds, Editing
  <2> QED BY <2>1, Actions DEF Excused
<1>4. \A q \in Procs : Holds(q, b)' =>
        \/ Holds(q, b) /\ (q = p => pc[p] # "clear")
        \/ q = p /\ TakeAction(p) /\ pending.by = b
  BY Holding
<1>5. \A q, r \in Procs : Holds(q, b)' /\ Holds(r, b)' => q = r
  BY <1>2, <1>3, <1>4
<1>6. ASSUME NEW t \in Messages, <<b, t>> \in served
      PROVE  /\ \A q \in Procs : Holds(q, b)' => pc'[q] = "clear"
             /\ pending' # NoAction /\ pending'.by = b => \E q \in Procs : Holds(q, b)'
  <2>1. ~(PressEdit(p) /\ loc[p].msg = b)
    BY <1>1, <1>6, Owned DEF PressEdit, PressedOnce, Pressed
  <2>2. ~(TakeAction(p) /\ pending.by = b)
    BY <1>2, <1>3, <1>6, Actions
  <2>3. ASSUME NEW q \in Procs, Holds(q, b)' PROVE pc'[q] = "clear"
    BY <1>2, <1>4, <1>6, <2>2, <2>3, Frame
  <2>4. ASSUME pending' # NoAction, pending'.by = b PROVE \E q \in Procs : Holds(q, b)'
    <3>1. pending' = pending /\ (pc[p] = "clear" => ~Holds(p, b))
      BY <2>1, <2>4, Actions, WebhookAssumption DEF Holds
    <3>2. PICK q \in Procs : Holds(q, b)
      BY <1>2, <1>6, <2>4, <3>1
    <3>3. q # p
      BY <1>2, <1>6, <3>1, <3>2
    <3> QED BY <3>2, <3>3, Holding
  <2> QED BY <2>3, <2>4
<1>7. ASSUME UpdateRow(p), loc[p].action.by = b, pc'[p] = "clear"
      PROVE  \A q \in Procs : Holds(q, b)' <=> q = p /\ pc'[p] = "clear"
  <2>1. Holds(p, b) /\ pc[p] = "update" /\ pc'[p] = "clear" /\ loc' = loc
    BY <1>7 DEF UpdateRow, Holds, Editing, Goto, Finish, TypeOK
  <2> QED BY <1>2, <2>1, Holding DEF Holds, Editing
<1>8. ASSUME NEW t \in Messages, <<b, t>> \in served', <<b, t>> \notin served
      PROVE  UpdateRow(p) /\ loc[p].action.by = b /\ pc'[p] = "clear"
  BY <1>8, Actions
<1> QED BY <1>5, <1>6, <1>7, <1>8

LEMMA ServedStep == ASSUME IInv, NEW p \in Procs, Step(p) PROVE ServedOnce'
<1> USE DEF IInv
<1>1. Excused \subseteq Excused'
  BY Effects, Actions DEF Excused
<1>2. CASE served' = served
  BY <1>1, <1>2 DEF ServedOnce, Excused
<1>3. CASE /\ UpdateRow(p) /\ loc[p].action.by # None
           /\ served' = served \cup ({loc[p].action.by} \ {None}) \X {loc[p].msg}
  <2> DEFINE b == loc[p].action.by
  <2>1. Holds(p, b) /\ pc[p] = "update" /\ b \in Messages
    BY <1>3 DEF UpdateRow, Overwrite, Holds, Editing, Work, TypeOK, Loc, Action, Command
  <2>2. ASSUME NEW s \in served, s[1] = b PROVE b \in Excused
    <3>1. s = <<b, s[2]>> /\ s[2] \in Messages
      BY <2>2 DEF TypeOK
    <3> QED BY <2>1, <2>2, <3>1 DEF Uses
  <2>3. \A s \in served' : s \in served \/ s = <<b, loc[p].msg>>
    BY <1>3
  <2>4. \A s, t \in served : s[1] = t[1] => s = t \/ s[1] \in Excused
    BY DEF ServedOnce, Excused
  <2> QED BY <1>1, <2>2, <2>3, <2>4 DEF ServedOnce, Excused
<1> QED BY <1>2, <1>3, Actions

\* What a step does to the expenses and to what the chat was told of them.
LEMMA Writes ==
    ASSUME IInv, NEW p \in Procs, Step(p)
    PROVE  \/ live' \subseteq live /\ UNCHANGED <<exp, latest, crossed>>
           \/ UpdateRow(p)
           \/ Save(p)
<1>1. CASE \E m \in Messages : Accept(p, m)
  BY <1>1 DEF Accept, chat
<1>2. CASE Admit(p)
  BY <1>2 DEF Admit, BeginWork, GiveUp, TurnAway, Register, RegisterDuplicate, RegisterFail,
              LookupFound, LookupFail, chat, hist, accounts
<1>3. CASE Press(p)
  BY <1>3 DEF Press, PressEdit, PressDelete, Cancel, chat, hist, accounts
<1>4. CASE Edit(p)
  BY <1>4 DEF Edit, TakeAction, TakeCommand, RefuseCommand, ReadRow, RefuseEdit, ClearAction,
              chat, hist, accounts
<1>5. CASE Book(p)
  BY <1>5 DEF Book, NoActionTaken, SaveFail, Complete, CompleteFail, chat, hist, accounts
<1> QED BY <1>1, <1>2, <1>3, <1>4, <1>5 DEF Step

\* The row that an edit writes, and the one that a new expense is.
LEMMA Updated ==
    ASSUME IInv, NEW p \in Procs, UpdateRow(p)
    PROVE  LET a == loc[p].action
           IN  /\ a.target \in live /\ live' = live
               /\ \A e \in Expenses : e # a.target => exp'[e] = exp[e] /\ latest'[e] = latest[e]
               /\ exp'[a.target] = [loc[p].row EXCEPT ![a.field] = loc[p].msg]
               /\ latest'[a.target] = [latest[a.target] EXCEPT ![a.field] = loc[p].msg]
               /\ crossed \subseteq crossed'
               /\ \A q \in Procs \ {p} : pc[q] = "update" /\ loc[q].action.target = a.target =>
                                           a.target \in crossed'
<1> DEFINE a == loc[p].action
<1>1. /\ exp' = [exp EXCEPT ![a.target] = [loc[p].row EXCEPT ![a.field] = loc[p].msg]]
      /\ latest' = [latest EXCEPT ![a.target][a.field] = loc[p].msg]
      /\ a.target \in live /\ live' = live
  BY DEF UpdateRow, Overwrite
<1>2. /\ crossed \subseteq crossed'
      /\ \A q \in Procs \ {p} : pc[q] = "update" /\ loc[q].action.target = a.target =>
                                  a.target \in crossed'
  BY DEF UpdateRow, Overwrite
<1>3. a.target \in Expenses
  BY <1>1 DEF IInv, TypeOK
<1> HIDE DEF a
<1>4. \A e \in Expenses : e # a.target => exp'[e] = exp[e] /\ latest'[e] = latest[e]
  BY <1>1 DEF IInv, TypeOK
<1>5. exp'[a.target] = [loc[p].row EXCEPT ![a.field] = loc[p].msg]
  BY <1>1, <1>3 DEF IInv, TypeOK
<1>6. latest'[a.target] = [latest[a.target] EXCEPT ![a.field] = loc[p].msg]
  BY <1>1, <1>3 DEF IInv, TypeOK
<1> QED BY <1>1, <1>2, <1>4, <1>5, <1>6 DEF a

LEMMA Made ==
    ASSUME IInv, NEW p \in Procs, Save(p)
    PROVE  \E e \in Expenses :
             /\ Fresh(e) /\ origin[e] = None /\ origin' = [origin EXCEPT ![e] = loc[p].msg]
             /\ live' = live \cup {e} /\ crossed' = crossed
             /\ exp'[e] = latest'[e]
             /\ \A d \in Expenses \ {e} : exp'[d] = exp[d] /\ latest'[d] = latest[d]
<1>1. PICK e \in Expenses :
        /\ Fresh(e)
        /\ live' = live \cup {e}
        /\ exp' = [exp EXCEPT ![e] = [f \in Fields |-> loc[p].msg]]
        /\ latest' = [latest EXCEPT ![e] = [f \in Fields |-> loc[p].msg]]
        /\ origin' = [origin EXCEPT ![e] = loc[p].msg]
  BY DEF Save
<1>2. crossed' = crossed
  BY DEF Save
<1> QED BY <1>1, <1>2 DEF Fresh, IInv, TypeOK

\* An expense gets its origin when it is made.
LEMMA Origins == ASSUME IInv, NEW p \in Procs, Step(p) PROVE origin' = origin \/ Save(p)
<1>1. CASE \E m \in Messages : Accept(p, m)
  BY <1>1 DEF Accept
<1>2. CASE Admit(p)
  BY <1>2 DEF Admit, BeginWork, GiveUp, TurnAway, Register, RegisterDuplicate, RegisterFail,
              LookupFound, LookupFail, hist, accounts
<1>3. CASE Press(p) \/ Edit(p)
  BY <1>3 DEF Press, PressEdit, PressDelete, Cancel, Edit, TakeAction, TakeCommand,
              RefuseCommand, ReadRow, RefuseEdit, UpdateRow, ClearAction, hist, accounts
<1>4. CASE Book(p)
  BY <1>4 DEF Book, NoActionTaken, SaveFail, Complete, CompleteFail, hist, accounts
<1> QED BY <1>1, <1>2, <1>3, <1>4 DEF Step

LEMMA KnownStep == ASSUME IInv, NEW p \in Procs, Step(p) PROVE Known'
<1> USE DEF IInv
<1>1. \A e \in Expenses : ~Fresh(e) => ~Fresh(e)'
  <2>1. CASE origin' = origin
    BY <2>1 DEF Fresh
  <2>2. CASE Save(p)
    <3>1. loc[p].msg # None
      BY <2>2, Owned, WebhookAssumption DEF Save
    <3> QED BY <2>2, <3>1, Made DEF Fresh, TypeOK
  <2> QED BY <2>1, <2>2, Origins
<1>2. \A e \in live' : e \in Expenses /\ ~Fresh(e)'
  <2>1. CASE live' \subseteq live
    BY <1>1, <2>1 DEF Known, TypeOK
  <2>2. CASE Save(p)
    <3>1. PICK e \in Expenses : /\ origin' = [origin EXCEPT ![e] = loc[p].msg]
                               /\ live' = live \cup {e}
      BY <2>2, Made
    <3>2. loc[p].msg # None
      BY <2>2, Owned, WebhookAssumption DEF Save
    <3> QED BY <1>1, <3>1, <3>2 DEF Known, Fresh, TypeOK
  <2> QED BY <2>1, <2>2, Writes, Updated
<1>3. ASSUME NEW q \in Procs, pc'[q] \in Editing PROVE ~Fresh(loc[q].action.target)'
  <2>1. pc[q] \in Editing => loc[q].action.target \in Expenses /\ ~Fresh(loc[q].action.target)
    BY WebhookAssumption DEF Work, Known, TypeOK, Action, Command
  <2>2. CASE q # p
    BY <1>1, <1>3, <2>1, <2>2, Frame
  <2>3. CASE q = p
    <3>1. GoesOn(p)
      BY <1>3, <2>3, Memory DEF Takes, Ends, Editing
    <3>2. CASE TakeAction(p)
      <4>1. loc'[p].action \in Action
        BY <3>1, <3>2, Actions DEF GoesOn, TypeOK
      <4> QED BY <1>1, <2>3, <4>1, WebhookAssumption DEF Action, Fresh
    <3>3. CASE TakeCommand(p)
      <4>1. loc'[p].action.target \in live
        BY <3>1, <3>3 DEF GoesOn
      <4> QED BY <1>1, <2>3, <4>1 DEF Known, TypeOK
    <3>4. CASE ~TakeAction(p) /\ ~TakeCommand(p)
      BY <1>1, <1>3, <2>1, <2>3, <3>1, <3>4, Moves DEF GoesOn, Editing
    <3> QED BY <3>2, <3>3, <3>4
  <2> QED BY <2>2, <2>3
<1> QED BY <1>2, <1>3 DEF Known

LEMMA CopiesStep == ASSUME IInv, NEW p \in Procs, Step(p) PROVE Copies'
<1> USE DEF IInv
<1> SUFFICES ASSUME NEW q \in Procs, pc'[q] = "update",
                    loc'[q].action.target \in live' \ crossed'
             PROVE  loc'[q].row = exp'[loc'[q].action.target]
  BY DEF Copies
<1>1. CASE q # p
  <2> DEFINE e == loc[q].action.target
  <2>1. pc[q] = "update" /\ loc'[q] = loc[q] /\ e \in live' \ crossed'
    BY <1>1, Frame
  <2>2. e \in Expenses /\ ~Fresh(e)
    BY <2>1, WebhookAssumption DEF Work, Known, Editing, TypeOK, Loc, Action, Command
  <2>3. e \in live \ crossed /\ exp'[e] = exp[e]
    <3>1. CASE UpdateRow(p)
      BY <1>1, <2>1, <2>2, <3>1, Updated
    <3>2. CASE Save(p)
      BY <2>1, <2>2, <3>2, Made
    <3> QED BY <2>1, <3>1, <3>2, Writes
  <2> QED BY <2>1, <2>3 DEF Copies
<1>2. CASE q = p
  <2>1. ReadRow(p)
    BY <1>2, Memory, Moves DEF Takes, Ends
  <2>2. loc' = [loc EXCEPT ![p].row = exp[loc[p].action.target]] /\ exp' = exp
    BY <2>1 DEF ReadRow, chat
  <2> QED BY <1>2, <2>2 DEF TypeOK, Loc
<1> QED BY <1>1, <1>2

LEMMA EditsStep == ASSUME IInv, NEW p \in Procs, Step(p) PROVE EditsKept'
<1> USE DEF IInv
<1>1. CASE live' \subseteq live /\ UNCHANGED <<exp, latest, crossed>>
  BY <1>1 DEF EditsKept
<1>2. CASE UpdateRow(p)
  <2> DEFINE e == loc[p].action.target
  <2>1. e \in live /\ (e \notin crossed => loc[p].row = exp[e] /\ exp[e] = latest[e])
    BY <1>2, Updated DEF UpdateRow, Overwrite, Copies, EditsKept
  <2>2. /\ live' = live /\ crossed \subseteq crossed'
        /\ \A d \in Expenses : d # e => exp'[d] = exp[d] /\ latest'[d] = latest[d]
        /\ exp'[e] = [loc[p].row EXCEPT ![loc[p].action.field] = loc[p].msg]
        /\ latest'[e] = [latest[e] EXCEPT ![loc[p].action.field] = loc[p].msg]
    BY <1>2, Updated
  <2> HIDE DEF e
  <2>3. e \notin crossed' => exp'[e] = latest'[e]
    <3>1. e \notin crossed' => loc[p].row = latest[e]
      BY <2>1, <2>2
    <3> QED BY <2>2, <3>1
  <2>4. \A d \in live' \ crossed' : d # e => exp'[d] = latest'[d]
    <3>1. live \subseteq Expenses
      BY DEF TypeOK
    <3> QED BY <2>2, <3>1 DEF EditsKept
  <2> QED BY <2>3, <2>4 DEF EditsKept
<1>3. CASE Save(p)
  BY <1>3, Made DEF EditsKept, TypeOK
<1> QED BY <1>1, <1>2, <1>3, Writes

LEMMA BookedStep == ASSUME IInv, NEW p \in Procs, Step(p) PROVE BookedOnce'
<1> USE DEF IInv
<1>1. unregistered \subseteq unregistered'
  BY Effects
<1>2. CASE origin' = origin
  BY <1>1, <1>2 DEF BookedOnce
<1>3. CASE Save(p)
  <2> DEFINE m == loc[p].msg
  <2>1. PICK e \in Expenses : origin[e] = None /\ origin' = [origin EXCEPT ![e] = m]
    BY <1>3, Made
  <2>2. Booked(m) => m \in unregistered
    BY <1>3, Owned DEF Save, Results
  <2>3. m \in Messages /\ m # None
    BY <1>3, Owned, WebhookAssumption DEF Save
  <2>4. \A d \in Expenses : origin'[d] = IF d = e THEN m ELSE origin[d]
    BY <2>1 DEF TypeOK
  <2> HIDE DEF m
  <2>5. \A d \in Expenses : origin[d] = m => m \in unregistered
    BY <2>2 DEF Booked
  <2>6. unregistered' = unregistered
    BY <1>3 DEF Save
  <2> QED BY <2>4, <2>5, <2>6 DEF BookedOnce
<1> QED BY <1>2, <1>3, Origins

LEMMA AccountStep == ASSUME IInv, NEW p \in Procs, Step(p) PROVE EventsAccount'
<1> USE DEF IInv
<1> DEFINE Busy(m) == \E q \in Procs : pc'[q] # "idle" /\ loc'[q].msg = m
<1>1. /\ failed \subseteq failed' /\ unregistered \subseteq unregistered'
      /\ unseen \subseteq unseen' /\ denied \subseteq denied'
  BY Effects
<1> DEFINE Told(m) == \/ Busy(m) \/ event'[m] \in Done \/ m \in failed'
                      \/ m \in denied' /\ event'[m] = "none"
<1>2. ASSUME NEW m \in Messages,
             \/ InProgress(m) \/ event[m] \in Done \/ m \in failed
             \/ m \in denied /\ event[m] = "none"
      PROVE  Told(m)
  <2>1. CASE event[m] \in Done
    BY <2>1, Effects DEF Complete, TypeOK, Loc, Done
  <2>2. CASE \E q \in Procs \ {p} : pc[q] # "idle" /\ loc[q].msg = m
    BY <2>2, Frame
  <2>3. CASE pc[p] # "idle" /\ loc[p].msg = m
    <3>1. CASE GoesOn(p)
      BY <2>3, <3>1 DEF GoesOn
    <3>2. CASE GiveUp(p) \/ CompleteFail(p)
      BY <2>3, <3>2 DEF GiveUp, CompleteFail, Failing
    <3>6. CASE TurnAway(p)
      <4>1. /\ event' = event /\ m \in denied' /\ event[m] \in Done \cup {"none", "received"}
            /\ ~loc[p].registered
        BY <2>3, <3>6 DEF TurnAway, chat, TypeOK, Work, Admitting
      <4>2. \A q \in Procs : loc[q].registered => pc[q] # "idle"
        BY Blank DEF Work
      <4> QED BY <1>1, <2>1, <2>2, <4>1, <4>2 DEF Rows
    <3>3. CASE RegisterDuplicate(p) \/ LookupFound(p)
      <4>1. event[m] \in Done \/ event[m] = "received"
        BY <2>3, <3>3 DEF RegisterDuplicate, LookupFound, TypeOK
      <4>2. ~loc[p].registered
        BY <3>3 DEF RegisterDuplicate, LookupFound, Work, Admitting
      <4>3. \A q \in Procs : loc[q].registered => pc[q] # "idle"
        BY Blank DEF Work
      <4> QED BY <1>1, <2>1, <2>2, <4>1, <4>2, <4>3 DEF Rows
    <3>4. CASE Complete(p)
      <4>1. CASE loc[p].registered
        BY <2>3, <3>4, <4>1 DEF Complete, TypeOK, Loc
      <4>2. CASE ~loc[p].registered
        BY <1>1, <2>3, <3>4, <4>2, Owned DEF Complete, Rows
      <4> QED BY <4>1, <4>2
    <3>5. Ends(p) => \/ GiveUp(p) \/ TurnAway(p) \/ CompleteFail(p) \/ RegisterDuplicate(p)
                     \/ LookupFound(p) \/ Complete(p)
      BY Enders
    <3> QED BY <2>3, <3>1, <3>2, <3>3, <3>4, <3>5, <3>6, Memory DEF Takes
  <2>4. CASE m \in denied /\ event[m] = "none"
    <3>1. CASE event'[m] = "none"
      BY <1>1, <2>4, <3>1
    <3>2. CASE event'[m] # "none"
      <4>1. m = loc[p].msg /\ (Register(p) \/ m \in failed')
        BY <2>4, <3>2, Effects DEF Work
      <4>2. Register(p) => pc[p] # "idle"
        BY DEF Register
      <4> QED BY <2>3, <4>1, <4>2
    <3> QED BY <3>1, <3>2
  <2> QED BY <1>1, <1>2, <2>1, <2>2, <2>3, <2>4 DEF InProgress
<1>3. ASSUME NEW m \in acked' PROVE Told(m)
  <2>1. CASE m \in acked
    BY <1>2, <2>1 DEF EventsAccount, TypeOK
  <2>2. CASE m \notin acked
    <3>1. Accept(p, m)
      BY <1>3, <2>2, Acks
    <3> QED BY <3>1 DEF Accept, Goto, TypeOK, Loc
  <2> QED BY <2>1, <2>2
<1>4. ASSUME NEW m \in Messages
      PROVE  /\ event'[m] = "confirmed" => BookedNext(m)
             /\ event'[m] = "needs_review" /\ BookedNext(m) =>
                  m \in unregistered' \cup unseen'
  <2>1. /\ Booked(m) => BookedNext(m)
        /\ BookedNext(m) => Booked(m) \/ (Save(p) /\ m = loc[p].msg)
    BY Effects
  <2>2. CASE event'[m] = event[m]
    <3>1. event[m] = "needs_review" /\ Save(p) /\ m = loc[p].msg => m \in unregistered
      BY Owned DEF Save
    <3> QED BY <1>1, <2>1, <2>2, <3>1 DEF EventsAccount
  <2>3. CASE (Complete(p) \/ CompleteFail(p)) /\ m = loc[p].msg /\ event'[m] = loc[p].result
    <3>1. ~Save(p) /\ pc[p] = "complete"
      BY <2>3 DEF Complete, CompleteFail, Save
    <3> QED BY <1>1, <2>1, <2>3, <3>1 DEF Results
  <2> QED BY <2>2, <2>3, Effects
<1> QED BY <1>3, <1>4 DEF EventsAccount, InProgress, Booked, BookedNext

\* A restart ends the work on every message, which it counts as failed.
LEMMA CrashStep == ASSUME IInv, Crash PROVE IInv'
<1> USE WebhookAssumption DEF IInv
<1>1. /\ pc' = [q \in Procs |-> "idle"] /\ loc' = [q \in Procs |-> NoLoc]
      /\ pending' = NoAction /\ seen' = [m \in Messages |-> Absent] /\ faults' = faults + 1
      /\ failed' = failed \cup {loc[q].msg : q \in {r \in Procs : pc[r] # "idle"}}
      /\ UNCHANGED <<now, event, live, exp, origin, latest, crossed, served, contended,
                     acked, denied, unregistered, unseen, deliveries>>
  BY DEF Crash, Fault, chat
<1>2. /\ \A q \in Procs : pc'[q] = "idle" /\ loc'[q] = NoLoc /\ ~loc'[q].registered
      /\ \A q \in Procs : pc[q] # "idle" => loc[q].msg \in failed'
      /\ failed \subseteq failed'
  BY <1>1, Blank
<1>3. TypeOK'
  <2>1. \A q \in Procs : pc[q] # "idle" => loc[q].msg \in Messages
    BY DEF Work
  <2>2. failed' \subseteq Messages
    BY <1>1, <2>1 DEF TypeOK
  <2> QED BY <1>1, <2>2, Blank DEF TypeOK, PCs
<1>4. Work' /\ Owners'
  BY <1>2 DEF Work, Owners, Editing, Admitting
<1>5. Results'
  BY <1>2 DEF Results
<1>6. Rows'
  <2>1. \A q \in Procs : loc[q].registered => pc[q] # "idle"
    BY Blank DEF Work
  <2>2. ASSUME NEW m \in Messages, event'[m] = "received" PROVE m \in failed'
    BY <1>1, <1>2, <2>1, <2>2 DEF Rows
  <2> QED BY <1>1, <1>2, <2>2 DEF Rows, Booked
<1>7. PressedOnce'
  <2>1. ASSUME NEW b \in Messages, \E t \in Messages : <<b, t>> \in served
        PROVE  b \in unregistered \/ event[b] # "none"
    BY <2>1 DEF PressedOnce, Pressed
  <2> QED BY <1>1, <1>2, <2>1 DEF PressedOnce, Pressed, Holds, Editing
<1>8. Uses' /\ Copies' /\ Known'
  BY <1>1, <1>2 DEF Uses, Copies, Known, Fresh, Holds, Editing
<1>9. BookedOnce' /\ ServedOnce' /\ EditsKept'
  BY <1>1 DEF BookedOnce, ServedOnce, EditsKept
<1>10. EventsAccount'
  <2>1. \A m \in Messages : InProgress(m) => m \in failed'
    BY <1>2 DEF InProgress
  <2>2. acked \subseteq Messages
    BY DEF TypeOK
  <2> QED BY <1>1, <1>2, <2>1, <2>2 DEF EventsAccount, Booked
<1> QED BY <1>3, <1>4, <1>5, <1>6, <1>7, <1>8, <1>9, <1>10

\* Time, and deliveries that are answered and no more, touch none of it.
LEMMA OutsideStep ==
    ASSUME IInv, Tick \/ (\E m \in Messages : Repeat(m)) \/ UNCHANGED vars PROVE IInv'
<1>1. UNCHANGED <<pending, event, live, exp, pc, loc, origin, latest, crossed, served,
                  contended, acked, failed, denied, unregistered, unseen>>
  BY DEF Tick, Repeat, vars, chat, hist, accounts
<1>2. TypeOK'
  <2>1. now' \in Nat /\ seen' \in [Messages -> Nat \cup {Absent}] /\ deliveries' \in Nat
          /\ faults' \in Nat
    BY DEF IInv, TypeOK, Tick, Repeat, PurgedKeys, vars, bounds
  <2> QED BY <1>1, <2>1 DEF IInv, TypeOK
<1>3. Work' /\ Owners' /\ Results' /\ Rows' /\ Copies' /\ Known'
  BY <1>1 DEF IInv, Work, Owners, Results, Rows, Copies, Known, Fresh, Booked
<1>4. PressedOnce' /\ Uses'
  BY <1>1 DEF IInv, PressedOnce, Pressed, Uses, Holds, Excused
<1>5. BookedOnce' /\ EventsAccount' /\ ServedOnce' /\ EditsKept'
  BY <1>1 DEF IInv, BookedOnce, EventsAccount, InProgress, Booked, ServedOnce, EditsKept
<1> QED BY <1>2, <1>3, <1>4, <1>5 DEF IInv

----------------------------------------------------------------------------
\* The inductive invariant: what goroutines own, what the rows of messages and
\* the waiting action tell of the past, and the properties that follow.
THEOREM Invariance == Spec => []IInv
<1>1. Init => IInv
  BY InvInit
<1>2. IInv /\ [Next]_vars => IInv'
  <2> SUFFICES ASSUME IInv, [Next]_vars PROVE IInv'
    OBVIOUS
  <2>1. CASE Crash
    BY <2>1, CrashStep
  <2>2. CASE Tick \/ (\E m \in Messages : Repeat(m)) \/ UNCHANGED vars
    BY <2>2, OutsideStep
  <2>3. ASSUME NEW p \in Procs, Step(p) PROVE IInv'
    <3>1. TypeOK' /\ Work' /\ Owners' /\ Results' /\ Rows'
      BY <2>3, TypeStep, WorkStep, OwnersStep, ResultsStep, RowsStep
    <3>2. PressedOnce' /\ Uses' /\ Copies' /\ Known'
      BY <2>3, PressedStep, UsesStep, CopiesStep, KnownStep
    <3>3. BookedOnce' /\ EventsAccount' /\ ServedOnce' /\ EditsKept'
      BY <2>3, BookedStep, AccountStep, ServedStep, EditsStep
    <3> QED BY <3>1, <3>2, <3>3 DEF IInv
  <2> QED BY <2>1, <2>2, <2>3 DEF Next
<1> QED BY <1>1, <1>2, PTL DEF Spec

\* The variables of the webhook keep their types.
THEOREM TypeCorrect == Spec => []TypeOK
<1>1. IInv => TypeOK
  BY DEF IInv
<1> QED BY <1>1, Invariance, PTL

\* A message becomes one expense, however often it is delivered, unless it once
\* was worked on without its row.
THEOREM MessageBookedOnce == Spec => []BookedOnce
<1>1. IInv => BookedOnce
  BY DEF IInv
<1> QED BY <1>1, Invariance, PTL

\* Accepted messages are accounted for, and the stored result is what came of
\* the message.
THEOREM EventsTruthful == Spec => []EventsAccount
<1>1. IInv => EventsAccount
  BY DEF IInv
<1> QED BY <1>1, Invariance, PTL

\* A press lets one text edit, but for texts that took its action together.
THEOREM ButtonsServeOnce == Spec => []ServedOnce
<1>1. IInv => ServedOnce
  BY DEF IInv
<1> QED BY <1>1, Invariance, PTL

\* Edits stay until the next, but for those that read the row together.
THEOREM EditsStay == Spec => []EditsKept
<1>1. IInv => EditsKept
  BY DEF IInv
<1> QED BY <1>1, Invariance, PTL

\* Inserting the row of a message is one step of the inbox.
LEMMA TakeStep ==
    ASSUME IInv, NEW m \in Messages, event[m] = "none",
           event' = [event EXCEPT ![m] = "received"], UNCHANGED <<origin, unregistered, unseen>>
    PROVE  Abstract!Next
<1>1. Booked(m) => m \in unregistered
  BY DEF IInv, Rows
<1>2. Abstract!Take(m)
  BY <1>1 DEF Abstract!Take, Abstract!Booked, Booked
<1> QED BY <1>2 DEF Abstract!Next

\* So is working on a message without its row.
LEMMA LooseStep ==
    ASSUME IInv, NEW p \in Procs, LookupFail(p)
    PROVE  Abstract!Next
<1>1. loc[p].msg \in Messages
  BY DEF IInv, Work, LookupFail
<1>2. UNCHANGED <<event, origin, unseen>> /\ unregistered' = unregistered \cup {loc[p].msg}
  BY DEF LookupFail, chat
<1> QED BY <1>1, <1>2 DEF Abstract!Next, Abstract!LetLoose

\* So is storing an expense: its message has none, or is loose.
LEMMA BookStep ==
    ASSUME IInv, NEW p \in Procs, Save(p)
    PROVE  Abstract!Next
<1> DEFINE m == loc[p].msg
<1>1. PICK e \in Expenses : Fresh(e) /\ origin' = [origin EXCEPT ![e] = m]
  BY DEF Save
<1>2. /\ m \in Messages
      /\ m \in unregistered \/ (event[m] = "received" /\ ~Booked(m))
  <2>1. /\ m \in Messages
        /\ (loc[p].registered /\ event[m] = "received") \/ m \in unregistered
    BY Owned DEF Save
  <2>2. pc[p] # "complete"
    BY DEF Save
  <2> QED BY <2>1, <2>2 DEF IInv, Results
<1>3. /\ UNCHANGED <<event, unregistered>> /\ origin[e] = None
      /\ unseen' \in {unseen, unseen \cup {m}}
  BY <1>1 DEF Save, Fresh
<1> HIDE DEF m
<1>4. Abstract!Book(m, e)
  BY <1>1, <1>2, <1>3 DEF Abstract!Book, Abstract!Booked, Booked
<1> QED BY <1>2, <1>4 DEF Abstract!Next

\* So is storing a result, which the owner of the row does once.
LEMMA SettleStep ==
    ASSUME IInv, NEW p \in Procs, Complete(p) \/ CompleteFail(p), loc[p].registered,
           event' # event
    PROVE  Abstract!Next
<1> DEFINE m == loc[p].msg
           r == loc[p].result
<1>1. /\ m \in Messages /\ event[m] = "received" /\ r \in Abstract!Results
      /\ r = "confirmed" => Booked(m)
      /\ r = "needs_review" => ~Booked(m) \/ m \in unregistered \cup unseen
  BY DEF IInv, Work, Results, Complete, CompleteFail, TypeOK, Loc, Done, Abstract!Results
<1>2. event' = [event EXCEPT ![m] = r] /\ UNCHANGED <<origin, unregistered, unseen>>
  BY DEF Complete, CompleteFail, hist, accounts
<1> HIDE DEF m, r
<1>3. Abstract!Settle(m, r)
  BY <1>1, <1>2 DEF Abstract!Settle, Abstract!Booked, Booked
<1> QED BY <1>1, <1>3 DEF Abstract!Next

\* Everything else leaves the record alone.
LEMMA RecordStays ==
    ASSUME IInv, NEW p \in Procs, Step(p), ~Register(p), ~RegisterFail(p), ~LookupFail(p),
           ~Save(p), Complete(p) \/ CompleteFail(p) => ~loc[p].registered \/ event' = event
    PROVE  UNCHANGED <<event, origin, unregistered, unseen>>
<1>1. CASE Admit(p) \/ \E m \in Messages : Accept(p, m)
  BY <1>1 DEF Admit, Accept, BeginWork, GiveUp, TurnAway, RegisterDuplicate, LookupFound, Failing,
              chat, hist, accounts
<1>2. CASE Press(p) \/ Edit(p)
  BY <1>2 DEF Press, PressEdit, PressDelete, Cancel, Edit, TakeAction, TakeCommand,
              RefuseCommand, ReadRow, RefuseEdit, UpdateRow, ClearAction, chat, hist, accounts
<1>3. CASE Book(p)
  BY <1>3 DEF Book, NoActionTaken, SaveFail, Complete, CompleteFail, Failing, chat, hist, accounts
<1> QED BY <1>1, <1>2, <1>3 DEF Step

\* The webhook implements the inbox, through redeliveries, failing statements
\* and restarts: a message is booked before its result is stored and once, and
\* its result is final, unless it was worked on without a row.
THEOREM InboxImplements == Spec => TakenInOnce
<1>1. ASSUME Init PROVE Abstract!Init
  BY <1>1 DEF Init, Abstract!Init
<1>2. ASSUME IInv, [Next]_vars PROVE [Abstract!Next]_(Abstract!vars)
  <2> USE <1>2
  <2>1. CASE UNCHANGED <<event, origin, unregistered, unseen>>
    BY <2>1 DEF Abstract!vars
  <2>2. ASSUME NEW p \in Procs, Step(p) PROVE [Abstract!Next]_(Abstract!vars)
    <3>1. CASE Register(p) \/ RegisterFail(p)
      <4>1. UNCHANGED <<origin, unregistered, unseen>>
        BY <3>1 DEF Register, RegisterFail, hist, accounts
      <4>2. loc[p].msg \in Messages
        BY <3>1 DEF IInv, Work, Register, RegisterFail
      <4>3. event' = event \/ ( /\ event[loc[p].msg] = "none"
                                /\ event' = [event EXCEPT ![loc[p].msg] = "received"] )
        BY <3>1 DEF Register, RegisterFail
      <4> QED BY <2>1, <4>1, <4>2, <4>3, TakeStep
    <3> QED BY <2>1, <2>2, <3>1, LooseStep, BookStep, SettleStep, RecordStays
  <2>3. CASE Tick \/ Crash \/ (\E m \in Messages : Repeat(m)) \/ UNCHANGED vars
    BY <2>1, <2>3 DEF Tick, Crash, Repeat, vars, chat, hist, accounts
  <2> QED BY <2>2, <2>3 DEF Next
<1> QED BY <1>1, <1>2, Invariance, PTL DEF Spec, TakenInOnce, Abstract!Spec
=============================================================================
