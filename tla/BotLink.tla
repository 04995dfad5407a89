-------------------------------- MODULE BotLink --------------------------------
(***************************************************************************)
(* Linking a chat to an account by a code: the endpoints that create and   *)
(* consume Telegram link codes and, statement for statement the same, the  *)
(* WhatsApp ones (one instance of this module per channel), over           *)
(* PostgreSQL at READ COMMITTED.                                           *)
(*                                                                         *)
(* A consumption is one transaction with row locks (SELECT ... FOR UPDATE  *)
(* on the code, then on the link of the chat, then on the link of the      *)
(* account); creating a code is separate statements without one.           *)
(*                                                                         *)
(* Left out: how codes are drawn and hashed (a code that was never made is *)
(* refused and changes nothing), user names, and the second look at        *)
(* used_at when the code is marked, which the lock on the code decides.    *)
(***************************************************************************)
EXTENDS Integers, FiniteSets

CONSTANTS
    Users,    \* accounts
    Exts,     \* Telegram user ids, or WhatsApp numbers
    Codes,    \* link codes; their number bounds a run
    Procs,    \* requests the server works on at a time
    None,     \* no account, chat or code
    TTL,      \* telegramLinkCodeTTL, in ticks
    MaxTime,  \* bound: ticks in a run
    Changing  \* bound: accounts whose plan changes in a run

ASSUME LinkAssumption ==
    /\ TTL \in Nat \ {0}
    /\ MaxTime \in Nat
    /\ Changing \subseteq Users
    /\ None \notin Users /\ None \notin Exts /\ None \notin Codes

VARIABLES
    now,      \* the clock
    premium,  \* accounts on the premium plan
    code,     \* the committed rows of the codes table
    link,     \* the committed rows of the links table, by account
    pc,       \* where each request is
    loc,      \* its arguments, the time it read, the link rows it has locked
    bound,    \* history: <<code, account, chat>> of each binding committed
    rivals    \* history: accounts with two codes that could link together

hist == <<bound, rivals>>
vars == <<now, premium, code, link, pc, loc, hist>>

Code == [user : Users \cup {None}, expires : Nat, used : BOOLEAN]
NoCode == [user |-> None, expires |-> 0, used |-> FALSE]

PCs == {"idle", "invalidate", "insert", "lock", "chat", "account", "upsert", "commit"}

Loc == [user : Users \cup {None}, code : Codes \cup {None},
        ext : Exts \cup {None}, now : Nat, rows : SUBSET Users]
NoLoc == [user |-> None, code |-> None, ext |-> None, now |-> 0, rows |-> {}]

Init ==
    /\ now = 0
    /\ premium = Users
    /\ code = [c \in Codes |-> NoCode]
    /\ link = [u \in Users |-> None]
    /\ pc = [p \in Procs |-> "idle"]
    /\ loc = [p \in Procs |-> NoLoc]
    /\ bound = {} /\ rivals = {}

----------------------------------------------------------------------------
Goto(p, l) == pc' = [pc EXCEPT ![p] = l]
Answer(p) == Goto(p, "idle") /\ loc' = [loc EXCEPT ![p] = NoLoc]

Made == {c \in Codes : code[c].user # None}

\* Who holds the row lock of code c: a consumption that is past its SELECT.
CodeLocked(c) ==
    \E q \in Procs : pc[q] \in {"chat", "account", "upsert", "commit"} /\ loc[q].code = c

\* Another transaction holds the row of account u in the links table.
RowLocked(p, u) == \E q \in Procs \ {p} : u \in loc[q].rows

\* Faulty variant: waits for every request that is about to insert.
EntryWanted(p) ==
    \E q \in Procs \ {p} :
        /\ pc[q] \in {"upsert", "commit"}
        /\ loc[q].user = loc[p].user \/ loc[q].ext = loc[p].ext

\* Another transaction has inserted, and not committed, a row that has this
\* account or this chat.
EntryPending(p) ==
    \E q \in Procs \ {p} :
        /\ pc[q] = "commit"
        /\ loc[q].user = loc[p].user \/ loc[q].ext = loc[p].ext

----------------------------------------------------------------------------
(* CreateTelegramLinkCode: needs the premium plan *)

CreateBegin(p) ==
    /\ pc[p] = "idle"
    /\ \E u \in premium :
         loc' = [loc EXCEPT ![p].user = u, ![p].now = now]
    /\ Goto(p, "invalidate")
    /\ UNCHANGED <<now, premium, code, link, hist>>

\* Faulty variant: the codes that have expired.
ActiveExpired(u, t) == {c \in Made : code[c].user = u /\ ~code[c].used /\ code[c].expires <= t}

\* Active codes of the account.
Active(u, t) == {c \in Made : code[c].user = u /\ ~code[c].used /\ code[c].expires > t}

\* Two codes of u could link together once request p has stored one: another
\* request has withdrawn what it found and is about to store its own, or a
\* consumption is under way that outlasts its code, which p found expired.
Rivalled(p, u) ==
    \E q \in Procs \ {p} :
        /\ loc[q].user = u
        /\ \/ pc[q] = "insert"
           \/ /\ pc[q] \in {"lock", "chat", "account", "upsert", "commit"}
              /\ LET c == code[loc[q].code]
                 IN  ~c.used /\ loc[q].now < c.expires /\ c.expires <= loc[p].now

\* InvalidateActiveTelegramLinkCodes: waits for consumptions of those codes.
CreateInvalidate(p) ==
    /\ pc[p] = "invalidate"
    /\ LET cs == Active(loc[p].user, loc[p].now)
       IN  /\ \A c \in cs : ~CodeLocked(c)
           /\ code' = [c \in Codes |-> IF c \in cs THEN [code[c] EXCEPT !.used = TRUE]
                                                   ELSE code[c]]
    /\ Goto(p, "insert")
    /\ UNCHANGED <<now, premium, link, loc, hist>>

\* Faulty variant: the lifetime is subtracted.
CreateBackdated(p) ==
    /\ pc[p] = "insert"
    /\ \E c \in Codes \ Made :
         code' = [code EXCEPT ![c] = [user |-> loc[p].user,
                                      expires |-> loc[p].now - TTL, used |-> FALSE]]
    /\ Answer(p)
    /\ UNCHANGED <<now, premium, link, hist>>

\* An insert that fails is answered 500; the old codes stay withdrawn.
CreateInsert(p) ==
    /\ pc[p] = "insert"
    /\ \/ /\ \E c \in Codes \ Made :
               code' = [code EXCEPT ![c] = [user |-> loc[p].user,
                                            expires |-> loc[p].now + TTL, used |-> FALSE]]
          /\ rivals' = rivals \cup {u \in {loc[p].user} : Rivalled(p, u)}
       \/ UNCHANGED <<code, rivals>>
    /\ Answer(p)
    /\ UNCHANGED <<now, premium, link, bound>>

----------------------------------------------------------------------------
(* ConsumeTelegramLinkCode *)

ConsumeBegin(p) ==
    /\ pc[p] = "idle"
    /\ \E c \in Made, e \in Exts :
         loc' = [loc EXCEPT ![p].code = c, ![p].ext = e, ![p].now = now,
                            ![p].user = code[c].user]
    /\ Goto(p, "lock")
    /\ UNCHANGED <<now, premium, code, link, hist>>

Usable(p) == /\ ~code[loc[p].code].used
             /\ code[loc[p].code].expires > loc[p].now
             /\ loc[p].user \in premium

\* Faulty variant: the code is read without FOR UPDATE, and not looked at again.
LockCodeUnlocked(p) ==
    /\ pc[p] = "lock"
    /\ Usable(p)
    /\ Goto(p, "chat")
    /\ UNCHANGED <<now, premium, code, link, loc, hist>>

\* SELECT ... FOR UPDATE of the code, and the plan of its account.
LockCode(p) ==
    /\ pc[p] = "lock"
    /\ ~CodeLocked(loc[p].code)
    /\ Usable(p)
    /\ Goto(p, "chat")
    /\ UNCHANGED <<now, premium, code, link, loc, hist>>

\* Used, expired, or the plan has lapsed.
RefuseCode(p) ==
    /\ pc[p] = "lock"
    /\ ~CodeLocked(loc[p].code)
    /\ ~Usable(p)
    /\ Answer(p)
    /\ UNCHANGED <<now, premium, code, link, hist>>

\* The rows of accounts that have this chat: at most one.
RowsOfChat(e) == {u \in Users : link[u] = e}

\* SELECT ... FOR UPDATE of the link the chat has.
CheckChat(p) ==
    /\ pc[p] = "chat"
    /\ \A u \in RowsOfChat(loc[p].ext) : ~RowLocked(p, u)
    /\ RowsOfChat(loc[p].ext) \subseteq {loc[p].user}
    /\ loc' = [loc EXCEPT ![p].rows = RowsOfChat(loc[p].ext)]
    /\ Goto(p, "account")
    /\ UNCHANGED <<now, premium, code, link, hist>>

\* ErrTelegramUserAlreadyLinked: the transaction is rolled back.
RefuseChat(p) ==
    /\ pc[p] = "chat"
    /\ \A u \in RowsOfChat(loc[p].ext) : ~RowLocked(p, u)
    /\ ~(RowsOfChat(loc[p].ext) \subseteq {loc[p].user})
    /\ Answer(p)
    /\ UNCHANGED <<now, premium, code, link, hist>>

\* SELECT ... FOR UPDATE of the link the account has.
CheckAccount(p) ==
    /\ pc[p] = "account"
    /\ ~RowLocked(p, loc[p].user)
    /\ link[loc[p].user] \in {None, loc[p].ext}
    /\ loc' = [loc EXCEPT ![p].rows =
                 {u \in {loc[p].user} : link[u] # None}]
    /\ Goto(p, "upsert")
    /\ UNCHANGED <<now, premium, code, link, hist>>

\* ErrTelegramAlreadyLinked.
RefuseAccount(p) ==
    /\ pc[p] = "account"
    /\ ~RowLocked(p, loc[p].user)
    /\ link[loc[p].user] \notin {None, loc[p].ext}
    /\ Answer(p)
    /\ UNCHANGED <<now, premium, code, link, hist>>

\* Another account has this chat (unique index on the chat).
ChatTaken(p) == ~(RowsOfChat(loc[p].ext) \subseteq {loc[p].user})

\* The upsert waits for uncommitted rows that have its account or its chat.
UpsertReady(p) == pc[p] = "upsert" /\ ~EntryPending(p) /\ ~RowLocked(p, loc[p].user)

\* Faulty variant: no unique index on the chat.
UpsertUnindexed(p) ==
    /\ UpsertReady(p)
    /\ loc' = [loc EXCEPT ![p].rows = {u \in {loc[p].user} : link[u] # None}]
    /\ Goto(p, "commit")
    /\ UNCHANGED <<now, premium, code, link, hist>>

\* INSERT ... ON CONFLICT (user_id) DO UPDATE: a row that another transaction
\* committed for the account since the check is overwritten.
Upsert(p) ==
    /\ UpsertReady(p)
    /\ ~ChatTaken(p)
    /\ loc' = [loc EXCEPT ![p].rows = {u \in {loc[p].user} : link[u] # None}]
    /\ Goto(p, "commit")
    /\ UNCHANGED <<now, premium, code, link, hist>>

\* 23505 on the chat: ErrTelegramUserAlreadyLinked.
RefuseUpsert(p) ==
    /\ UpsertReady(p)
    /\ ChatTaken(p)
    /\ Answer(p)
    /\ UNCHANGED <<now, premium, code, link, hist>>

\* Faulty variant: the code is not marked used.
CommitUnmarked(p) ==
    /\ pc[p] = "commit"
    /\ link' = [link EXCEPT ![loc[p].user] = loc[p].ext]
    /\ bound' = bound \cup {<<loc[p].code, loc[p].user, loc[p].ext>>}
    /\ Answer(p)
    /\ UNCHANGED <<now, premium, code, rivals>>

\* Marks the code used and commits.
ConsumeCommit(p) ==
    /\ pc[p] = "commit"
    /\ code' = [code EXCEPT ![loc[p].code].used = TRUE]
    /\ link' = [link EXCEPT ![loc[p].user] = loc[p].ext]
    /\ bound' = bound \cup {<<loc[p].code, loc[p].user, loc[p].ext>>}
    /\ Answer(p)
    /\ UNCHANGED <<now, premium, rivals>>

----------------------------------------------------------------------------
Tick ==
    /\ now < MaxTime
    /\ now' = now + 1
    /\ UNCHANGED <<premium, code, link, pc, loc, hist>>

\* An administrator changes the plan of an account, in SQL.
ChangePlan(u) ==
    /\ premium' = (premium \ {u}) \cup ({u} \ premium)
    /\ UNCHANGED <<now, code, link, pc, loc, hist>>

\* The server dies; PostgreSQL rolls back what was not committed.
Crash ==
    /\ \E p \in Procs : pc[p] # "idle"
    /\ pc' = [p \in Procs |-> "idle"]
    /\ loc' = [p \in Procs |-> NoLoc]
    /\ UNCHANGED <<now, premium, code, link, hist>>

Begin(p) == CreateBegin(p) \/ ConsumeBegin(p)

Proceed(p) ==
    \/ CreateInvalidate(p) \/ CreateInsert(p)
    \/ LockCode(p) \/ RefuseCode(p) \/ CheckChat(p) \/ RefuseChat(p)
    \/ CheckAccount(p) \/ RefuseAccount(p) \/ Upsert(p) \/ RefuseUpsert(p)
    \/ ConsumeCommit(p)

Next == \/ Tick \/ Crash \/ \E u \in Changing : ChangePlan(u)
        \/ \E p \in Procs : Begin(p) \/ Proceed(p)

Spec == Init /\ [][Next]_vars

\* PostgreSQL grants a contended row lock in the order of the waiters, so a
\* request that can go on again and again does (strong fairness).
FairSpec == Spec /\ \A p \in Procs : SF_vars(Proceed(p))

----------------------------------------------------------------------------
TypeOK ==
    /\ now \in Nat
    /\ premium \subseteq Users
    /\ code \in [Codes -> Code]
    /\ link \in [Users -> Exts \cup {None}]
    /\ pc \in [Procs -> PCs]
    /\ loc \in [Procs -> Loc]
    /\ bound \subseteq Codes \X Users \X Exts
    /\ rivals \subseteq Users

\* A chat speaks for one account: a message is never booked for two users.
OneAccountPerChat ==
    \A u, v \in Users : link[u] = link[v] /\ link[u] # None => u = v

\* However many requests present a code, one of them links with it.
CodeLinksOnce == \A s, t \in bound : s[1] = t[1] => s = t

\* A linked account keeps its chat, although creating a code and consuming one
\* are several statements, unless two of its codes could link together: a code
\* was stored while another request had withdrawn what it found and not stored
\* its own, or a consumption outlasted its code.
ReplacedOnlyByRivals ==
    [][\A u \in Users : link'[u] # link[u] => link[u] = None \/ u \in rivals]_vars

\* storage.go, ErrTelegramAlreadyLinked: an account linked to one chat is not
\* linked to another (there is no endpoint that unlinks).
LinkedOnce == \A s, t \in bound : s[2] = t[2] => s[3] = t[3]

\* No wait for a row is for ever.
AnswersArrive == \A p \in Procs : pc[p] # "idle" ~> pc[p] = "idle"

\* The tables and their locks do what a table that is changed in one piece does.
Abstract == INSTANCE AccountLink WITH
    chat <- link,
    owner <- [c \in Codes |-> code[c].user],
    open <- {c \in Made : ~code[c].used}

LinksAtomically == Abstract!Spec
=============================================================================
