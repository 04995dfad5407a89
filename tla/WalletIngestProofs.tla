-------------------------- MODULE WalletIngestProofs --------------------------
(***************************************************************************)
(* Theorems about WalletIngest, for any number of requests, events and     *)
(* purchases and any window.                                               *)
(***************************************************************************)
EXTENDS WalletIngest, TLAPS

\* Times are given out once, and a stored event has one.
Times ==
    /\ \A e \in Events : event[e].created <= stamp
    /\ \A d, e \in Events : event[d].created = event[e].created /\ event[d].created > 0
                              => d = e
    /\ \A e \in stored : event[e].created > 0

\* A request works on an event of its own, as far as its place tells.
Requests ==
    \A p \in Procs : pc[p] # "idle" =>
        LET e == loc[p].event
        IN  /\ e \in Events
            /\ event[e].created > 0
            /\ event[e].status = "received" => event[e].paid \in Nat
            /\ IF pc[p] = "insert"
               THEN e \notin stored /\ event[e].status \in {"received", "needs_review"}
               ELSE e \in stored /\ event[e].status = "received"
            /\ Drafted(e) <=> pc[p] = "mark"
            /\ pc[p] = "duplicate" =>
                 /\ loc[p].dup \in stored
                 /\ event[loc[p].dup].purchase = event[e].purchase
                 /\ event[loc[p].dup].created < event[e].created
Alone ==
    \A p, q \in Procs : p # q /\ pc[p] # "idle" /\ pc[q] # "idle"
                            => loc[p].event # loc[q].event

\* A draft and the status of its event agree, and an event is received only for
\* as long as it must be.
Ledger ==
    /\ \A e \in Events : Drafted(e) =>
         e \in stored /\ event[e].status \in {"received", "draft_transaction_created"}
    /\ \A e \in stored :
         /\ event[e].status = "draft_transaction_created" => Drafted(e)
         /\ event[e].status = "received" => InProgress(e) \/ e \in failed

\* Events that may make a draft.
Live(d) == \/ d \in stored /\ event[d].status # "rejected"
           \/ \E p \in Procs : pc[p] = "insert" /\ loc[p].event = d

\* No elder of e escaped its search but those whose INSERT was running.
Cleared(e) ==
    \A d \in Events :
        Live(d) /\ event[d].created < event[e].created /\ Same(d, e) => <<d, e>> \in raced

Searched(e) ==
    Drafted(e) \/ \E p \in Procs : pc[p] \in {"draft", "mark"} /\ loc[p].event = e

Searches == \A e \in Events : Searched(e) => Cleared(e)

\* Every duplicate has an elder that is not one.
Rooted(e) == \E d \in stored : /\ event[d].purchase = event[e].purchase
                               /\ event[d].created < event[e].created
                               /\ event[d].status # "duplicate"
Roots == \A e \in stored : event[e].status = "duplicate" => Rooted(e)

IInv == /\ TypeOK /\ Times /\ Requests /\ Alone
        /\ Ledger /\ Searches /\ Roots

----------------------------------------------------------------------------
\* Nothing was delivered and nobody works.
LEMMA InvInit == ASSUME Init PROVE IInv
<1> USE IngestAssumption DEF Init
<1>1. TypeOK
  BY DEF TypeOK, Event, NoEvent, Statuses, PCs, Loc, NoLoc
<1>2. Times
  BY DEF Times, NoEvent
<1>3. Requests /\ Alone /\ Ledger /\ Searches /\ Roots
  BY DEF Requests, Alone, Ledger, Searches, Searched, Roots, Drafted
<1> QED BY <1>1, <1>2, <1>3 DEF IInv

\* A new event has the latest time, belongs to nobody and is not stored.
LEMMA Received ==
    ASSUME IInv, NEW p \in Procs, Receive(p)
    PROVE  \E e \in Events, q \in Payloads :
             /\ event[e].created = 0 /\ e \notin stored /\ ~Drafted(e)
             /\ \A r \in Procs : pc[r] # "idle" => loc[r].event # e
             /\ event'[e] \in Event
             /\ event'[e].created = stamp + 1
             /\ event'[e].status \in {"received", "needs_review"}
             /\ event'[e].status = "received" => event'[e].paid \in Nat
             /\ \A d \in Events \ {e} : event'[d] = event[d]
             /\ pc[p] = "idle" /\ pc'[p] = "insert" /\ loc'[p].event = e
             /\ loc'[p] \in Loc
  <1>1. PICK q \in Payloads, e \in Events :
          /\ event[e] = NoEvent
          /\ event' = [event EXCEPT ![e] =
                [purchase |-> q.purchase,
                 paid |-> IF q.full /\ q.paid = NoTime THEN now ELSE q.paid,
                 named |-> q.named,
                 status |-> IF q.full THEN "received" ELSE "needs_review",
                 created |-> stamp + 1, dup |-> None]]
          /\ loc' = [loc EXCEPT ![p].event = e]
    BY DEF Receive
  <1>2. event[e].created = 0
    BY <1>1 DEF NoEvent
  <1>3. e \notin stored /\ ~Drafted(e)
        /\ \A r \in Procs : pc[r] # "idle" => loc[r].event # e
    BY <1>2 DEF IInv, Times, Requests, Ledger
  <1>4. q \in Payload
    BY IngestAssumption
  <1>5. /\ event'[e] \in Event /\ event'[e].created = stamp + 1
        /\ event'[e].status \in {"received", "needs_review"}
        /\ event'[e].status = "received" => event'[e].paid \in Nat
        /\ \A d \in Events \ {e} : event'[d] = event[d]
    BY <1>1, <1>4 DEF IInv, TypeOK, Event, Payload, Statuses
  <1>6. pc[p] = "idle" /\ pc'[p] = "insert" /\ loc'[p].event = e /\ loc'[p] \in Loc
    BY <1>1 DEF Receive, Goto, IInv, TypeOK, Loc
  <1> QED BY <1>2, <1>3, <1>5, <1>6

\* What a request does to the event it works on: nothing but to its status.
LEMMA Worked ==
    ASSUME IInv, NEW p \in Procs, Ingest(p), ~Receive(p)
    PROVE  LET e == loc[p].event
           IN  /\ pc[p] # "idle" /\ e \in Events /\ e \in DOMAIN event
               /\ event'[e] \in Event
               /\ event'[e].created = event[e].created
               /\ event'[e].purchase = event[e].purchase
               /\ event'[e].paid = event[e].paid
               /\ \A d \in Events \ {e} : event'[d] = event[d]
               /\ \/ event'[e].status = event[e].status
                  \/ MarkDuplicate(p) /\ event'[e].status = "duplicate"
                  \/ Reject(p) /\ event'[e].status = "rejected"
                  \/ MarkDraft(p) /\ event'[e].status = "draft_transaction_created"
  <1> DEFINE e == loc[p].event
  <1>1. pc[p] # "idle" /\ e \in Events /\ e \in DOMAIN event
    BY DEF IInv, TypeOK, Requests, Ingest, Insert, Fail, FindDuplicate, MarkDuplicate,
           Draft, Reject, MarkDraft
  <1>2. CASE event' = event
    BY <1>1, <1>2 DEF IInv, TypeOK
  <1>3. CASE MarkDuplicate(p)
    <2>1. loc[p].dup \in Events \cup {None}
      BY DEF IInv, TypeOK, Loc
    <2> DEFINE D(r, d) == [r EXCEPT !.status = "duplicate", !.dup = d]
    <2>2. ASSUME NEW r \in Event, NEW d \in Events \cup {None}
          PROVE  /\ D(r, d) \in Event /\ D(r, d).status = "duplicate"
                 /\ D(r, d).created = r.created
                 /\ D(r, d).purchase = r.purchase /\ D(r, d).paid = r.paid
      BY DEF Event, Statuses
    <2>3. event' = [event EXCEPT ![e] =
                      [event[e] EXCEPT !.status = "duplicate", !.dup = loc[p].dup]]
      BY <1>3 DEF MarkDuplicate
    <2>4. event[e] \in Event
      BY <1>1 DEF IInv, TypeOK
    <2>5. event'[e] = D(event[e], loc[p].dup)
          /\ \A d \in Events \ {e} : event'[d] = event[d]
      BY <1>1, <2>3 DEF IInv, TypeOK
    <2> HIDE DEF D
    <2> QED BY <1>1, <1>3, <2>1, <2>2, <2>4, <2>5
  <1>4. CASE Reject(p)
    BY <1>1, <1>4 DEF IInv, TypeOK, Reject, Event, Statuses
  <1>5. CASE MarkDraft(p)
    BY <1>1, <1>5 DEF IInv, TypeOK, MarkDraft, Event, Statuses
  <1> QED BY <1>2, <1>3, <1>4, <1>5
          DEF Ingest, Insert, Fail, FindDuplicate, Draft, rows

\* A request moves nothing of another request.
LEMMA Frame ==
    ASSUME IInv, NEW p \in Procs, Ingest(p)
    PROVE  /\ pc' \in [Procs -> PCs] /\ loc' \in [Procs -> Loc]
           /\ \A q \in Procs \ {p} : pc'[q] = pc[q] /\ loc'[q] = loc[q]
           /\ removed' = removed /\ drafts \subseteq drafts'
           /\ stored \subseteq stored' /\ failed \subseteq failed'
           /\ raced \subseteq raced' /\ crashes' = crashes /\ now' = now
  <1> USE DEF IInv, TypeOK
  <1>1. CASE Receive(p)
    <2>1. PICK e \in Events : loc' = [loc EXCEPT ![p].event = e]
      BY <1>1 DEF Receive
    <2> QED BY <1>1, <2>1 DEF Receive, Goto, PCs, Loc, hist, rows
  <1>2. CASE FindDuplicate(p)
    <2>1. PICK d \in Events :
            IF d = loc[p].event
            THEN Goto(p, "draft") /\ UNCHANGED loc
            ELSE Goto(p, "duplicate") /\ loc' = [loc EXCEPT ![p].dup = d]
      BY <1>2 DEF FindDuplicate, Eldest, Matches
    <2> QED BY <1>2, <2>1 DEF FindDuplicate, Goto, PCs, Loc, rows
  <1>3. CASE Insert(p) \/ Fail(p) \/ MarkDuplicate(p) \/ Draft(p) \/ Reject(p) \/ MarkDraft(p)
    BY <1>3 DEF Insert, Fail, MarkDuplicate, Draft, Reject, MarkDraft, Goto, Answer,
                PCs, Loc, NoLoc, hist, rows
  <1> QED BY <1>1, <1>2, <1>3 DEF Ingest

LEMMA TypeStep ==
    ASSUME IInv, NEW p \in Procs, Ingest(p)
    PROVE  TypeOK'
  <1>1. event' \in [Events -> Event]
    <2>1. event' = [e \in Events |-> event'[e]]
      BY DEF IInv, TypeOK, Ingest, Receive, Insert, Fail, FindDuplicate, MarkDuplicate,
             Draft, Reject, MarkDraft, rows
    <2>2. \A e \in Events : event'[e] \in Event
      <3>1. \A e \in Events : event[e] \in Event
        BY DEF IInv, TypeOK
      <3>2. CASE Receive(p)
        BY <3>1, <3>2, Received
      <3>3. CASE ~Receive(p)
        BY <3>1, <3>3, Worked
      <3> QED BY <3>2, <3>3
    <2> QED BY <2>1, <2>2
  <1>2. /\ stored' \subseteq Events /\ drafts' \subseteq Events
        /\ failed' \subseteq Events /\ removed' \subseteq Events
        /\ stamp' \in Nat
    <2>1. pc[p] # "idle" => loc[p].event \in Events
      BY DEF IInv, Requests
    <2> QED BY <2>1
            DEF IInv, TypeOK, Ingest, Receive, Insert, Fail, FindDuplicate,
                MarkDuplicate, Draft, Reject, MarkDraft, rows, hist
  <1>3. raced' \subseteq Events \X Events
    <2>1. CASE FindDuplicate(p)
      <3>1. \A r \in Procs : pc[r] # "idle" => loc[r].event \in Events
        BY DEF IInv, Requests
      <3> QED BY <2>1, <3>1 DEF FindDuplicate, IInv, TypeOK
    <2> QED BY <2>1
            DEF IInv, TypeOK, Ingest, Receive, Insert, Fail, MarkDuplicate, Draft,
                Reject, MarkDraft, rows, hist
  <1> QED BY <1>1, <1>2, <1>3, Frame DEF IInv, TypeOK

LEMMA TimesStep ==
    ASSUME IInv, NEW p \in Procs, Ingest(p)
    PROVE  Times'
  <1>1. CASE Receive(p)
    <2>1. stamp' = stamp + 1 /\ stored' = stored
      BY <1>1 DEF Receive
    <2>2. stamp \in Nat /\ \A e \in Events : event[e].created \in Nat
      BY DEF IInv, TypeOK, Event
    <2> QED BY <1>1, <2>1, <2>2, Received DEF IInv, TypeOK, Times
  <1>2. CASE ~Receive(p)
    <2>1. stamp' = stamp /\ stored' \subseteq stored \cup {loc[p].event}
      BY <1>2 DEF Ingest, Insert, Fail, FindDuplicate, MarkDuplicate, Draft, Reject,
                  MarkDraft, rows
    <2>2. event[loc[p].event].created > 0
      BY <1>2, Worked DEF IInv, Requests
    <2> QED BY <1>2, <2>1, <2>2, Worked DEF IInv, TypeOK, Times
  <1> QED BY <1>1, <1>2

LEMMA AloneStep ==
    ASSUME IInv, NEW p \in Procs, Ingest(p)
    PROVE  Alone'
  <1>1. CASE Receive(p)
    BY <1>1, Frame, Received DEF IInv, Alone
  <1>2. CASE ~Receive(p)
    <2>1. pc[p] # "idle" /\ (pc'[p] # "idle" => loc'[p].event = loc[p].event)
      BY <1>2 DEF IInv, TypeOK, Loc, Ingest, Insert, Fail, FindDuplicate, MarkDuplicate,
                  Draft, Reject, MarkDraft, Goto, Answer
    <2> QED BY <2>1, Frame DEF IInv, Alone
  <1> QED BY <1>1, <1>2

\* An event keeps what was delivered, and only the request that works on it
\* changes its status, stores it or makes its draft.
LEMMA Steady ==
    ASSUME IInv, NEW p \in Procs, Ingest(p)
    PROVE  /\ \A d \in Events : event[d].created > 0 =>
                /\ event'[d].created = event[d].created
                /\ event'[d].purchase = event[d].purchase
                /\ event'[d].paid = event[d].paid
                /\ pc[p] = "idle" \/ d # loc[p].event => event'[d] = event[d]
           /\ \A d \in Events :
                pc[p] = "idle" \/ d # loc[p].event =>
                    (d \in stored' <=> d \in stored) /\ (Drafted(d)' <=> Drafted(d))
  <1>1. CASE Receive(p)
    <2>1. PICK e \in Events : /\ event[e].created = 0
                              /\ \A d \in Events \ {e} : event'[d] = event[d]
      BY <1>1, Received
    <2> QED BY <1>1, <2>1 DEF Receive, Drafted, hist
  <1>2. CASE ~Receive(p)
    <2>1. \A d \in Events : d # loc[p].event =>
             (d \in stored' <=> d \in stored) /\ (Drafted(d)' <=> Drafted(d))
      BY <1>2 DEF Drafted, Ingest, Insert, Fail, FindDuplicate, MarkDuplicate, Draft,
                  Reject, MarkDraft, hist, rows
    <2> QED BY <1>2, <2>1, Worked
  <1> QED BY <1>1, <1>2

LEMMA RequestsStep ==
    ASSUME IInv, NEW p \in Procs, Ingest(p)
    PROVE  Requests'
  <1> DEFINE Ok(q) == pc[q] # "idle" =>
        LET e == loc[q].event
        IN  /\ e \in Events
            /\ event[e].created > 0
            /\ event[e].status = "received" => event[e].paid \in Nat
            /\ IF pc[q] = "insert"
               THEN e \notin stored /\ event[e].status \in {"received", "needs_review"}
               ELSE e \in stored /\ event[e].status = "received"
            /\ Drafted(e) <=> pc[q] = "mark"
            /\ pc[q] = "duplicate" =>
                 /\ loc[q].dup \in stored
                 /\ event[loc[q].dup].purchase = event[e].purchase
                 /\ event[loc[q].dup].created < event[e].created
  <1>1. ASSUME NEW q \in Procs \ {p}
        PROVE  Ok(q)'
    <2>1. Ok(q)
      BY DEF IInv, Requests
    <2>2. pc'[q] = pc[q] /\ loc'[q] = loc[q]
      BY Frame
    <2>3. SUFFICES ASSUME pc[q] # "idle"
                   PROVE  Ok(q)'
      BY <2>2
    <2>4. pc[p] = "idle" \/ loc[q].event # loc[p].event
      BY <2>3 DEF IInv, Alone
    <2>5. /\ event'[loc[q].event] = event[loc[q].event]
          /\ loc[q].event \in stored' <=> loc[q].event \in stored
          /\ Drafted(loc[q].event)' <=> Drafted(loc[q].event)
      BY <2>1, <2>2, <2>3, <2>4, Steady DEF Drafted
    <2>6. pc[q] = "duplicate" =>
            LET d == loc[q].dup
            IN  /\ d \in stored'
                /\ event'[d].purchase = event[d].purchase
                /\ event'[d].created = event[d].created
      BY <2>1, Steady, Frame DEF IInv, TypeOK, Times
    <2> QED BY <2>1, <2>2, <2>5, <2>6 DEF Drafted
  <1>2. Ok(p)'
    <2>1. Ok(p)
      BY DEF IInv, Requests
    <2>2. CASE Receive(p)
      <3>1. PICK e \in Events :
              /\ e \notin stored /\ ~Drafted(e)
              /\ event'[e].created = stamp + 1
              /\ event'[e].status \in {"received", "needs_review"}
              /\ event'[e].status = "received" => event'[e].paid \in Nat
              /\ pc'[p] = "insert" /\ loc'[p].event = e
        BY <2>2, Received
      <3> QED BY <2>2, <3>1 DEF Receive, Drafted, IInv, TypeOK, hist
    <2>3. CASE Insert(p)
      BY <2>1, <2>3 DEF Insert, Goto, Answer, Drafted, IInv, TypeOK, hist
    <2>4. CASE FindDuplicate(p)
      <3> DEFINE e == loc[p].event
      <3>1. PICK d \in Eldest(Matches(e)) :
              IF d = e
              THEN Goto(p, "draft") /\ UNCHANGED loc
              ELSE Goto(p, "duplicate") /\ loc' = [loc EXCEPT ![p].dup = d]
        BY <2>4 DEF FindDuplicate
      <3>2. UNCHANGED <<rows, removed>> /\ pc[p] = "find"
        BY <2>4 DEF FindDuplicate
      <3>3. d \in stored /\ event[d].purchase = event[e].purchase
            /\ event[d].created <= event[e].created
        <4>1. d \in stored /\ Same(d, e) /\ \A c \in Matches(e) : event[d].created <= event[c].created
          BY <3>1 DEF Eldest, Matches
        <4>2. e \in Matches(e)
          BY <2>1, <3>2, IngestAssumption DEF Matches, Same
        <4> QED BY <4>1, <4>2 DEF Same
      <3>4. d # e => event[d].created < event[e].created
        <4>1. d # e => event[d].created # event[e].created
          BY <2>1, <3>2, <3>3 DEF IInv, TypeOK, Times
        <4>2. event[d].created \in Nat /\ event[e].created \in Nat
          BY <2>1, <3>2, <3>3 DEF IInv, TypeOK, Event
        <4> QED BY <3>3, <4>1, <4>2
      <3>5. loc[p] \in Loc
        BY DEF IInv, TypeOK
      <3>6. CASE d = e
        BY <2>1, <3>1, <3>2, <3>6 DEF Goto, Drafted, IInv, TypeOK, rows
      <3>7. CASE d # e
        <4>1. pc'[p] = "duplicate" /\ loc'[p].event = e /\ loc'[p].dup = d
          BY <3>1, <3>5, <3>7 DEF Goto, IInv, TypeOK, Loc
        <4> QED BY <2>1, <3>2, <3>3, <3>4, <3>7, <4>1 DEF Drafted, rows
      <3> QED BY <3>6, <3>7
    <2>5. CASE Draft(p)
      BY <2>1, <2>5 DEF Draft, Goto, Drafted, IInv, TypeOK, hist
    <2>6. CASE Fail(p) \/ MarkDuplicate(p) \/ Reject(p) \/ MarkDraft(p)
      BY <2>6 DEF Fail, MarkDuplicate, Reject, MarkDraft, Goto, Answer, IInv, TypeOK
    <2> QED BY <2>2, <2>3, <2>4, <2>5, <2>6 DEF Ingest
  <1> QED BY <1>1, <1>2 DEF Requests

LEMMA LedgerStep ==
    ASSUME IInv, NEW p \in Procs, Ingest(p)
    PROVE  Ledger'
  <1> DEFINE Ok(e) ==
        /\ Drafted(e) =>
             e \in stored /\ event[e].status \in {"received", "draft_transaction_created"}
        /\ e \in stored =>
             /\ event[e].status = "draft_transaction_created" => Drafted(e)
             /\ event[e].status = "received" => InProgress(e) \/ e \in failed
  <1>1. ASSUME NEW e \in Events, pc[p] = "idle" \/ e # loc[p].event
        PROVE  Ok(e)'
    <2>1. Ok(e)
      BY DEF IInv, Ledger
    <2>2. (e \in stored' <=> e \in stored) /\ (Drafted(e)' <=> Drafted(e))
      BY <1>1, Steady DEF Drafted
    <2>3. e \in stored => event'[e] = event[e]
      BY <1>1, Steady DEF IInv, Times
    <2>4. InProgress(e) => InProgress(e)'
      BY <1>1, Frame DEF InProgress
    <2>5. e \in failed => e \in failed'
      BY Frame
    <2> QED BY <2>1, <2>2, <2>3, <2>4, <2>5
  <1>2. ASSUME NEW e \in Events, pc[p] # "idle", e = loc[p].event
        PROVE  Ok(e)'
    <2>1. /\ Ok(e)
          /\ IF pc[p] = "insert"
             THEN e \notin stored /\ event[e].status \in {"received", "needs_review"}
             ELSE e \in stored /\ event[e].status = "received"
          /\ Drafted(e) <=> pc[p] = "mark"
      BY <1>2 DEF IInv, Requests, Ledger
    <2>2. CASE Insert(p)
      BY <1>2, <2>1, <2>2
      DEF Insert, Goto, Answer, Drafted, InProgress, IInv, TypeOK, hist
    <2>3. CASE Fail(p)
      BY <1>2, <2>1, <2>3 DEF Fail, Drafted, rows
    <2>4. CASE FindDuplicate(p)
      <3>1. loc'[p].event = e /\ pc'[p] # "idle" /\ UNCHANGED <<rows, removed>>
        <4>1. PICK d \in Events :
                IF d = e
                THEN Goto(p, "draft") /\ UNCHANGED loc
                ELSE Goto(p, "duplicate") /\ loc' = [loc EXCEPT ![p].dup = d]
          BY <1>2, <2>4 DEF FindDuplicate, Eldest, Matches, IInv, TypeOK
        <4>2. loc[p] \in Loc
          BY DEF IInv, TypeOK
        <4> QED BY <1>2, <2>4, <4>1, <4>2 DEF FindDuplicate, Goto, IInv, TypeOK, Loc
      <3> QED BY <1>2, <2>1, <3>1 DEF Drafted, InProgress, rows
    <2>5. CASE MarkDuplicate(p)
      <3>1. event'[e].status = "duplicate" /\ UNCHANGED <<stored, drafts, removed>>
        <4>1. ~Receive(p) /\ ~Reject(p) /\ ~MarkDraft(p)
          BY <2>5 DEF MarkDuplicate, Receive, Reject, MarkDraft
        <4>2. event[e] \in Event
          BY <1>2, <2>1 DEF IInv, TypeOK
        <4>3. event' = [event EXCEPT ![e] =
                    [event[e] EXCEPT !.status = "duplicate", !.dup = loc[p].dup]]
          BY <1>2, <2>5 DEF MarkDuplicate
        <4>4. event'[e].status = "duplicate"
          BY <1>2, <2>1, <4>2, <4>3 DEF IInv, TypeOK, Event
        <4> QED BY <2>5, <4>4 DEF MarkDuplicate, hist
      <3>2. pc[p] = "duplicate"
        BY <2>5 DEF MarkDuplicate
      <3> QED BY <2>1, <3>1, <3>2 DEF Drafted
    <2>6. CASE Draft(p)
      BY <1>2, <2>1, <2>6 DEF Draft, Goto, Drafted, InProgress, IInv, TypeOK, hist
    <2>7. CASE Reject(p)
      <3>1. event'[e].status = "rejected"
        BY <1>2, <2>1, <2>7 DEF Reject, IInv, TypeOK, Event
      <3> QED BY <1>2, <2>1, <2>7, <3>1 DEF Reject, Drafted, hist
    <2>8. CASE MarkDraft(p)
      <3>1. event'[e].status = "draft_transaction_created"
        BY <1>2, <2>1, <2>8 DEF MarkDraft, IInv, TypeOK, Event
      <3> QED BY <1>2, <2>1, <2>8, <3>1 DEF MarkDraft, Drafted, hist
    <2> QED BY <1>2, <2>2, <2>3, <2>4, <2>5, <2>6, <2>7, <2>8 DEF Ingest, Receive
  <1>3. \A e \in Events : Ok(e)'
    BY <1>1, <1>2
  <1>4. stored' \subseteq Events
    BY TypeStep DEF TypeOK
  <1> QED BY <1>3, <1>4 DEF Ledger

\* An event that may make a draft could do so before, or is the latest.
LEMMA LiveBefore ==
    ASSUME IInv, NEW p \in Procs, Ingest(p), NEW d \in Events, Live(d)'
    PROVE  \/ Live(d) /\ event[d].created > 0
           \/ event'[d].created = stamp + 1
  <1>1. TypeOK' /\ Times' /\ Requests'
    BY TypeStep, TimesStep, RequestsStep
  <1>2. event'[d].created > 0
    BY <1>1 DEF Live, Times, Requests
  <1>3. CASE Receive(p)
    <2>1. PICK e \in Events :
            /\ event'[e].created = stamp + 1
            /\ \A c \in Events \ {e} : event'[c] = event[c]
            /\ pc'[p] = "insert" /\ loc'[p].event = e
      BY <1>3, Received
    <2>2. CASE d = e
      BY <2>1, <2>2
    <2>3. CASE d # e
      <3>1. event'[d] = event[d] /\ stored' = stored
        BY <1>3, <2>1, <2>3 DEF Receive
      <3>2. \A q \in Procs : pc'[q] = "insert" /\ loc'[q].event = d =>
              pc[q] = "insert" /\ loc[q].event = d
        BY <2>1, <2>3, Frame
      <3> QED BY <1>2, <3>1, <3>2 DEF Live
    <2> QED BY <2>2, <2>3
  <1>4. CASE ~Receive(p)
    <2>1. event'[d].created = event[d].created
      BY <1>4, Worked
    <2>2. ASSUME d \in stored', event'[d].status # "rejected"
          PROVE  Live(d)
      <3>1. CASE d # loc[p].event
        BY <2>2, <3>1, Steady, <2>1, <1>2 DEF Live
      <3>2. CASE d = loc[p].event
        BY <1>4, <3>2, Worked DEF Live, IInv, Requests
      <3> QED BY <3>1, <3>2
    <2>3. ASSUME NEW q \in Procs, pc'[q] = "insert", loc'[q].event = d
          PROVE  Live(d)
      <3>1. pc'[p] # "insert"
        <4>1. pc'[p] # "insert" \/ FindDuplicate(p)
          BY <1>4 DEF Ingest, Insert, Fail, MarkDuplicate, Draft, Reject, MarkDraft,
                      Goto, Answer, IInv, TypeOK
        <4>2. CASE FindDuplicate(p)
          <5>1. Goto(p, "draft") \/ Goto(p, "duplicate")
            BY <4>2 DEF FindDuplicate
          <5> QED BY <5>1 DEF Goto, IInv, TypeOK
        <4> QED BY <4>1, <4>2
      <3> QED BY <2>3, <3>1, Frame DEF Live
    <2> QED BY <1>2, <2>1, <2>2, <2>3 DEF Live
  <1> QED BY <1>3, <1>4

LEMMA SearchesStep ==
    ASSUME IInv, NEW p \in Procs, Ingest(p)
    PROVE  Searches'
  <1> SUFFICES ASSUME NEW e \in Events, Searched(e)',
                      NEW d \in Events, Live(d)',
                      event'[d].created < event'[e].created, Same(d, e)'
               PROVE  <<d, e>> \in raced'
    BY DEF Searches, Cleared
  <1>1. event[e].created > 0
    <2>1. CASE Receive(p)
      <3>1. Searched(e)
        <4>1. pc'[p] = "insert"
          BY <2>1, Received
        <4>2. Drafted(e)' => Drafted(e)
          BY <2>1, Frame DEF Drafted, Receive
        <4>3. \A q \in Procs : pc'[q] \in {"draft", "mark"} => pc'[q] = pc[q] /\ loc'[q] = loc[q]
          BY <4>1, Frame
        <4> QED BY <4>2, <4>3 DEF Searched
      <3> QED BY <3>1 DEF Searched, IInv, Ledger, Times, Requests
    <2>2. CASE ~Receive(p)
      <3>1. TypeOK' /\ Ledger' /\ Times' /\ Requests'
        BY TypeStep, LedgerStep, TimesStep, RequestsStep
      <3>2. event'[e].created > 0
        BY <3>1 DEF Searched, Ledger, Times, Requests
      <3> QED BY <2>2, <3>2, Worked
    <2> QED BY <2>1, <2>2
  <1>2. /\ event'[e].created = event[e].created
        /\ event'[e].purchase = event[e].purchase /\ event'[e].paid = event[e].paid
    BY <1>1, Steady
  <1>3. event[e].created <= stamp /\ event[e].created \in Nat /\ stamp \in Nat
    BY DEF IInv, TypeOK, Event, Times
  <1>4. Live(d) /\ event[d].created > 0
    BY <1>2, <1>3, LiveBefore
  <1>5. event[d].created < event[e].created /\ Same(d, e)
    BY <1>2, <1>4, Steady DEF Same
  <1>6. CASE Searched(e)
    BY <1>4, <1>5, <1>6, Frame DEF IInv, Searches, Cleared
  <1>7. CASE ~Searched(e)
    <2>1. FindDuplicate(p) /\ loc[p].event = e /\ pc'[p] = "draft"
      <3>1. removed' = removed /\ ~Receive(p)
        BY <1>7, Received, Frame DEF Searched, Drafted, Receive
      <3>2. \/ Drafted(e)'
            \/ \E q \in Procs : pc'[q] \in {"draft", "mark"} /\ loc'[q].event = e
        BY DEF Searched
      <3>3. ~Draft(p) \/ e # loc[p].event
        BY <1>7 DEF Searched, Draft
      <3>4. ~Drafted(e)'
        <4>1. ~Drafted(e)
          BY <1>7 DEF Searched
        <4>2. e \notin drafts'
          BY <3>1, <3>3, <4>1 DEF Drafted, Ingest, Insert, Fail, FindDuplicate,
                MarkDuplicate, Draft, Reject, MarkDraft, rows
        <4> QED BY <3>1, <4>1, <4>2 DEF Drafted
      <3>5. PICK q \in Procs : pc'[q] \in {"draft", "mark"} /\ loc'[q].event = e
        BY <3>2, <3>4
      <3>6. pc'[p] \in {"draft", "mark"} /\ loc'[p].event = e
        <4>1. q = p
          BY <1>7, <3>5, Frame DEF Searched
        <4> QED BY <3>5, <4>1
      <3>7. FindDuplicate(p)
        BY <1>7, <3>1, <3>3, <3>6
        DEF Searched, Ingest, Insert, Fail, MarkDuplicate, Draft, Reject, MarkDraft,
            Goto, Answer, IInv, TypeOK
      <3>8. PICK c \in Events :
              IF c = loc[p].event
              THEN Goto(p, "draft") /\ UNCHANGED loc
              ELSE Goto(p, "duplicate") /\ loc' = [loc EXCEPT ![p].dup = c]
        BY <3>7 DEF FindDuplicate, Eldest, Matches, IInv, TypeOK
      <3> QED BY <3>6, <3>7, <3>8 DEF Goto, IInv, TypeOK
    <2>2. e \in Eldest(Matches(e))
      <3>1. PICK c \in Eldest(Matches(e)) :
              IF c = e
              THEN Goto(p, "draft") /\ UNCHANGED loc
              ELSE Goto(p, "duplicate") /\ loc' = [loc EXCEPT ![p].dup = c]
        BY <2>1 DEF FindDuplicate
      <3> QED BY <2>1, <3>1 DEF Goto, IInv, TypeOK
    <2>3. d \notin Matches(e)
      BY <1>3, <1>5, <2>2 DEF Eldest, IInv, TypeOK, Event
    <2>4. PICK q \in Procs : pc[q] = "insert" /\ loc[q].event = d
      BY <1>4, <1>5, <2>3 DEF Live, Matches
    <2> QED BY <2>1, <2>4 DEF FindDuplicate
  <1> QED BY <1>6, <1>7

LEMMA RootsStep ==
    ASSUME IInv, NEW p \in Procs, Ingest(p)
    PROVE  Roots'
  <1> SUFFICES ASSUME NEW e \in stored', event'[e].status = "duplicate"
               PROVE  Rooted(e)'
    BY DEF Roots
  <1>1. TypeOK' /\ Requests' /\ Times' /\ stored \subseteq Events /\ stored' \subseteq Events
    BY TypeStep, RequestsStep, TimesStep DEF IInv, TypeOK
  <1>2. \A d \in Events : event[d].created \in Nat
    BY DEF IInv, TypeOK, Event
  <1>3. \A d \in stored : /\ event[d].created > 0
                          /\ d \in stored'
                          /\ event'[d].created = event[d].created
                          /\ event'[d].purchase = event[d].purchase
    BY <1>1, Steady, Frame DEF IInv, Times
  <1>4. CASE MarkDuplicate(p)
    <2> DEFINE f == loc[p].event
               t == loc[p].dup
    <2>1. /\ f \in stored /\ t \in stored /\ event[f].status = "received"
          /\ event[t].purchase = event[f].purchase /\ event[t].created < event[f].created
      BY <1>4 DEF MarkDuplicate, IInv, Requests
    <2>2. PICK r \in stored : /\ event[r].purchase = event[f].purchase
                              /\ event[r].created < event[f].created
                              /\ event[r].status # "duplicate"
      BY <1>1, <1>2, <2>1 DEF IInv, Roots, Rooted
    <2>3. /\ stored' = stored
          /\ \A d \in Events \ {f} : event'[d] = event[d]
      BY <1>4, Worked DEF MarkDuplicate, Receive
    <2>4. r # f /\ event'[r] = event[r]
      BY <1>1, <1>2, <2>1, <2>2, <2>3
    <2>5. CASE e = f
      BY <1>3, <2>1, <2>2, <2>4, <2>5 DEF Rooted
    <2>6. CASE e # f
      <3>1. e \in stored /\ event[e].status = "duplicate"
        BY <1>1, <2>3, <2>6
      <3>2. PICK d \in stored : /\ event[d].purchase = event[e].purchase
                                /\ event[d].created < event[e].created
                                /\ event[d].status # "duplicate"
        BY <3>1 DEF IInv, Roots, Rooted
      <3>3. CASE d # f
        BY <1>1, <1>3, <2>3, <3>1, <3>2, <3>3 DEF Rooted
      <3>4. CASE d = f
        <4>1. event[r].created < event[e].created
          BY <1>1, <1>2, <2>2, <3>1, <3>2, <3>4
        <4> QED BY <1>3, <2>2, <2>4, <3>1, <3>2, <3>4, <4>1 DEF Rooted
      <3> QED BY <3>3, <3>4
    <2> QED BY <2>5, <2>6
  <1>5. CASE ~MarkDuplicate(p)
    <2>1. \A d \in Events : event'[d].status = "duplicate" => event[d].status = "duplicate"
      <3>1. CASE Receive(p)
        BY <3>1, Received
      <3>2. CASE ~Receive(p)
        BY <1>5, <3>2, Worked
      <3> QED BY <3>1, <3>2
    <2>2. e \in stored
      <3>1. CASE Insert(p)
        BY <1>1, <2>1, <3>1 DEF Insert, IInv, Requests
      <3> QED BY <3>1 DEF Ingest, Receive, Fail, FindDuplicate, MarkDuplicate, Draft,
                          Reject, MarkDraft, rows
    <2>3. PICK d \in stored : /\ event[d].purchase = event[e].purchase
                              /\ event[d].created < event[e].created
                              /\ event[d].status # "duplicate"
      BY <1>1, <2>1, <2>2 DEF IInv, Roots, Rooted
    <2> QED BY <1>1, <1>3, <2>1, <2>2, <2>3 DEF Rooted
  <1> QED BY <1>4, <1>5

----------------------------------------------------------------------------
\* A restart ends every request and leaves its event to the failed ones.
LEMMA CrashStep == ASSUME IInv, Crash PROVE IInv'
<1> USE DEF Crash, IInv
<1>1. UNCHANGED <<now, stored, event, drafts, stamp, raced, removed>>
      /\ crashes' \in Nat /\ failed \subseteq failed'
  BY DEF rows, TypeOK
<1>2. \A p \in Procs : pc'[p] = "idle"
  OBVIOUS
<1>3. TypeOK'
  <2>1. failed' \subseteq Events
    BY DEF TypeOK, Requests
  <2> QED BY <1>1, <2>1 DEF TypeOK, PCs, Loc, NoLoc
<1>4. Times' /\ Requests' /\ Alone' /\ Roots'
  BY <1>1, <1>2 DEF Times, Requests, Alone, Roots, Rooted
<1>5. Ledger'
  <2>1. \A e \in Events : InProgress(e) => e \in failed'
    BY DEF InProgress
  <2>2. \A e \in Events : Drafted(e)' <=> Drafted(e)
    BY <1>1 DEF Drafted
  <2> QED BY <1>1, <2>1, <2>2 DEF Ledger, TypeOK
<1>6. Searches'
  <2>1. \A e \in Events : Searched(e)' => Searched(e)
    BY <1>1, <1>2 DEF Searched, Drafted
  <2>2. \A d \in Events : Live(d)' => Live(d)
    BY <1>1, <1>2 DEF Live
  <2> QED BY <1>1, <2>1, <2>2 DEF Searches, Cleared, Same
<1> QED BY <1>3, <1>4, <1>5, <1>6

\* The user and the clock take nothing back.
LEMMA QuietStep ==
    ASSUME IInv, Tick \/ (\E e \in Events : RemoveDraft(e)) \/ UNCHANGED vars
    PROVE  IInv'
<1>1. /\ UNCHANGED <<stored, event, stamp, pc, loc, raced, failed, crashes>>
      /\ now' \in Nat /\ drafts' \subseteq Events /\ removed' \subseteq Events
      /\ drafts' \cup removed' = drafts \cup removed
  BY DEF IInv, TypeOK, Tick, RemoveDraft, vars, rows, hist
<1>2. \A e : Drafted(e)' <=> Drafted(e)
  BY <1>1 DEF Drafted
<1>3. TypeOK' /\ Times' /\ Alone' /\ Roots'
  BY <1>1 DEF IInv, TypeOK, Times, Alone, Roots, Rooted
<1>4. Requests' /\ Ledger'
  BY <1>1 DEF IInv, Requests, Ledger, Drafted, InProgress
<1>5. Searches'
  BY <1>1 DEF IInv, Searches, Searched, Cleared, Drafted, Live, Same
<1> QED BY <1>3, <1>4, <1>5 DEF IInv

\* IInv holds in every reachable state.
THEOREM Invariance == Spec => []IInv
<1>1. Init => IInv
  BY InvInit
<1>2. IInv /\ [Next]_vars => IInv'
  <2> SUFFICES ASSUME IInv, [Next]_vars PROVE IInv'
    OBVIOUS
  <2>1. ASSUME NEW p \in Procs, Ingest(p) PROVE IInv'
    BY <2>1, TypeStep, TimesStep, RequestsStep, AloneStep, LedgerStep, SearchesStep,
       RootsStep DEF IInv
  <2> QED BY <2>1, CrashStep, QuietStep DEF Next
<1> QED BY <1>1, <1>2, PTL DEF Spec

\* Every variable keeps to its type: no handler stores an unknown status or a
\* reference to an event that does not exist.
THEOREM TypeCorrect == Spec => []TypeOK
<1>1. IInv => TypeOK
  BY DEF IInv
<1> QED BY <1>1, Invariance, PTL

\* Two deliveries of one purchase both make an expense only when the younger
\* searched while the INSERT of the elder was running.
THEOREM PurchaseDraftedOnce == Spec => []OneDraft
<1>1. IInv => OneDraft
  <2> SUFFICES ASSUME IInv, NEW d \in Events, NEW e \in Events, Drafted(d), Drafted(e),
                      event[d].created < event[e].created, Same(d, e)
               PROVE  <<d, e>> \in raced
    BY DEF OneDraft
  <2>1. Live(d)
    BY DEF Live, IInv, Ledger
  <2> QED BY <2>1 DEF IInv, Searches, Searched, Cleared
<1> QED BY <1>1, Invariance, PTL

\* What was answered "duplicate" has an elder that was not: deliveries never
\* take each other for the original.
THEOREM PurchaseKept == Spec => []DuplicatesHaveOriginal
<1>1. IInv => DuplicatesHaveOriginal
  <2> SUFFICES ASSUME IInv, NEW e \in stored, event[e].status = "duplicate"
               PROVE  \E d \in stored :
                        /\ event[d].purchase = event[e].purchase
                        /\ event[d].created < event[e].created
                        /\ \/ event[d].status \in {"needs_review", "rejected"}
                           \/ event[d].status = "draft_transaction_created" /\ Drafted(d)
                           \/ event[d].status = "received"
                              /\ (InProgress(d) \/ d \in failed)
    BY DEF DuplicatesHaveOriginal
  <2>1. PICK d \in stored : /\ event[d].purchase = event[e].purchase
                            /\ event[d].created < event[e].created
                            /\ event[d].status # "duplicate"
    BY DEF IInv, Roots, Rooted
  <2>2. event[d].status \in Statuses
    BY DEF IInv, TypeOK, Event
  <2> QED BY <2>1, <2>2 DEF Statuses, IInv, Ledger
<1> QED BY <1>1, Invariance, PTL
=============================================================================
