----------------------------- MODULE BotLinkProofs -----------------------------
(***************************************************************************)
(* Theorems about BotLink, for any number of accounts, chats, codes and    *)
(* requests and any lifetime of a code.                                    *)
(***************************************************************************)
EXTENDS BotLink, TLAPS

InTx == {p \in Procs : pc[p] \in {"chat", "account", "upsert", "commit"}}

\* A consumption knows the code it presents and the account that made it.
CodeKnown ==
    \A p \in Procs : pc[p] = "lock" \/ p \in InTx =>
        /\ loc[p].code \in Codes /\ loc[p].ext \in Exts
        /\ loc[p].user \in Users
        /\ code[loc[p].code].user = loc[p].user

AccountKnown ==
    \A p \in Procs : pc[p] \in {"invalidate", "insert"} => loc[p].user \in Users

\* The lock on the code: one transaction has it, and the code stays unused.
CodeHeld ==
    \A p \in InTx :
        /\ ~code[loc[p].code].used
        /\ \A q \in InTx \ {p} : loc[q].code # loc[p].code

\* What the unique indexes hold back until the transaction ends.
EntryHeld ==
    \A p \in Procs : pc[p] = "commit" =>
        /\ \A u \in Users \ {loc[p].user} : link[u] # loc[p].ext
        /\ \A q \in Procs \ {p} : pc[q] = "commit" =>
              loc[q].user # loc[p].user /\ loc[q].ext # loc[p].ext

\* A code that has linked is used.
BoundUsed ==
    \A t \in bound : code[t[1]].used /\ code[t[1]].user # None

IInv == /\ TypeOK /\ CodeKnown /\ AccountKnown /\ CodeHeld /\ EntryHeld
        /\ OneAccountPerChat /\ CodeLinksOnce /\ BoundUsed

----------------------------------------------------------------------------
\* Nothing is linked and no request has begun.
LEMMA InvInit == ASSUME Init PROVE IInv
  BY LinkAssumption
  DEF Init, IInv, TypeOK, PCs, Code, NoCode, Loc, NoLoc, InTx, CodeKnown, AccountKnown,
      CodeHeld, EntryHeld, OneAccountPerChat, CodeLinksOnce, BoundUsed

\* A request that is answered without having written.
LEMMA AnswerStep ==
    ASSUME IInv, NEW p \in Procs, Answer(p), UNCHANGED <<now, premium, code, link, hist>>
    PROVE  IInv'
<1>1. TypeOK'
  BY DEF hist, IInv, TypeOK, Answer, Goto, PCs, Loc, NoLoc
<1> QED
  BY <1>1 DEF hist, IInv, TypeOK, Answer, Goto, NoLoc, InTx, CodeKnown, AccountKnown,
              CodeHeld, EntryHeld, OneAccountPerChat, CodeLinksOnce, BoundUsed

\* A step within a request: the tables stay as they are.
LEMMA LocalStep ==
    ASSUME IInv, NEW p \in Procs,
           \/ CreateBegin(p) \/ ConsumeBegin(p) \/ LockCode(p)
           \/ CheckChat(p) \/ CheckAccount(p) \/ Upsert(p)
    PROVE  IInv'
<1> USE DEF IInv, hist
<1>1. TypeOK'
  <2>1. CASE CreateBegin(p)
    <3>1. PICK u \in Users : loc' = [loc EXCEPT ![p].user = u, ![p].now = now]
      BY <2>1 DEF TypeOK, CreateBegin
    <3>2. loc[p] \in Loc /\ now \in Nat
      BY DEF TypeOK
    <3>3. [loc[p] EXCEPT !.user = u, !.now = now] \in Loc
      BY ONLY <3>2 DEF Loc
    <3>4. loc' = [loc EXCEPT ![p] = [loc[p] EXCEPT !.user = u, !.now = now]]
      BY <3>1
    <3> QED BY <2>1, <3>3, <3>4 DEF TypeOK, PCs, Goto, CreateBegin
  <2>2. CASE ConsumeBegin(p)
    <3>1. PICK c \in Made, e \in Exts :
            loc' = [loc EXCEPT ![p].code = c, ![p].ext = e, ![p].now = now,
                               ![p].user = code[c].user]
      BY <2>2 DEF ConsumeBegin
    <3>2. code[c].user \in Users /\ c \in Codes
      BY <3>1 DEF TypeOK, Code, Made
    <3> DEFINE l == [loc[p] EXCEPT !.code = c, !.ext = e, !.now = now,
                                   !.user = code[c].user]
    <3>3. loc[p] \in Loc /\ now \in Nat
      BY DEF TypeOK
    <3>4. l \in Loc
      BY ONLY <3>2, <3>3 DEF Loc
    <3>5. loc' = [loc EXCEPT ![p] = l]
      BY <3>1
    <3> HIDE DEF l
    <3> QED BY <2>2, <3>4, <3>5 DEF TypeOK, PCs, Goto, ConsumeBegin
  <2>3. CASE LockCode(p)
    BY <2>3 DEF TypeOK, PCs, Goto, LockCode
  <2>4. CASE CheckChat(p) \/ CheckAccount(p) \/ Upsert(p)
    <3>1. PICK rs \in SUBSET Users : loc' = [loc EXCEPT ![p].rows = rs]
      BY <2>4 DEF CheckChat, CheckAccount, Upsert, UpsertReady, RowsOfChat, CodeKnown,
                  InTx
    <3> QED BY <2>4, <3>1
            DEF TypeOK, Loc, PCs, Goto, CheckChat, CheckAccount, Upsert, UpsertReady
  <2> QED BY <2>1, <2>2, <2>3, <2>4
<1>2. /\ UNCHANGED <<code, link, bound>>
      /\ \A q \in Procs \ {p} : pc'[q] = pc[q] /\ loc'[q] = loc[q]
  BY DEF TypeOK, CreateBegin, ConsumeBegin, LockCode, CheckChat, CheckAccount, Upsert,
         UpsertReady, Goto
<1>3. \/ /\ pc'[p] = "invalidate" /\ loc'[p].user \in Users
      \/ /\ pc'[p] = "lock" /\ loc'[p].code \in Codes /\ loc'[p].ext \in Exts
         /\ loc'[p].user \in Users /\ code[loc'[p].code].user = loc'[p].user
      \/ /\ pc[p] = "lock" \/ p \in InTx
         /\ pc'[p] \in {"chat", "account", "upsert", "commit"}
         /\ loc'[p].code = loc[p].code /\ loc'[p].ext = loc[p].ext
         /\ loc'[p].user = loc[p].user
  <2>1. CASE CreateBegin(p)
    BY <2>1 DEF TypeOK, Loc, CreateBegin, Goto
  <2>2. CASE ConsumeBegin(p)
    <3>1. PICK c \in Made, e \in Exts :
            loc' = [loc EXCEPT ![p].code = c, ![p].ext = e, ![p].now = now,
                               ![p].user = code[c].user]
      BY <2>2 DEF ConsumeBegin
    <3>2. code[c].user \in Users /\ c \in Codes
      BY <3>1 DEF TypeOK, Code, Made
    <3>3. /\ loc'[p].code = c /\ loc'[p].ext = e /\ loc'[p].user = code[c].user
      BY <3>1 DEF TypeOK, Loc
    <3> QED BY <2>2, <3>2, <3>3 DEF TypeOK, ConsumeBegin, Goto
  <2>3. CASE LockCode(p)
    BY <2>3 DEF TypeOK, LockCode, Goto, InTx
  <2>4. CASE CheckChat(p) \/ CheckAccount(p) \/ Upsert(p)
    BY <2>4 DEF TypeOK, Loc, CheckChat, CheckAccount, Upsert, UpsertReady, Goto, InTx
  <2> QED BY <2>1, <2>2, <2>3, <2>4
<1>4. CodeKnown' /\ AccountKnown'
  BY <1>2, <1>3 DEF CodeKnown, AccountKnown, InTx
<1>5. CodeHeld'
  <2>1. CASE LockCode(p)
    BY <1>2, <2>1 DEF TypeOK, LockCode, CodeLocked, Usable, Goto, CodeHeld, InTx
  <2>2. CASE ~LockCode(p)
    <3>1. p \in InTx' => p \in InTx /\ loc'[p].code = loc[p].code
      BY <1>3, <2>2 DEF TypeOK, InTx, CreateBegin, ConsumeBegin, CheckChat, CheckAccount,
                        Upsert, UpsertReady, Goto
    <3>2. \A q \in Procs \ {p} : q \in InTx' <=> q \in InTx
      BY <1>2 DEF InTx
    <3> QED BY <1>2, <3>1, <3>2 DEF CodeHeld, InTx
  <2> QED BY <2>1, <2>2
<1>6. EntryHeld'
  <2>1. pc'[p] = "commit" => Upsert(p)
    BY DEF TypeOK, CreateBegin, ConsumeBegin, LockCode, CheckChat, CheckAccount, Goto
  <2>2. CASE Upsert(p)
    <3>1. /\ loc'[p].ext = loc[p].ext /\ loc'[p].user = loc[p].user
      BY <2>2 DEF TypeOK, Loc, Upsert
    <3> QED BY <1>2, <2>2, <3>1
            DEF EntryHeld, Upsert, UpsertReady, EntryPending, ChatTaken, RowsOfChat
  <2> QED BY <1>2, <2>1, <2>2 DEF EntryHeld
<1>7. OneAccountPerChat' /\ CodeLinksOnce' /\ BoundUsed'
  BY <1>2 DEF OneAccountPerChat, CodeLinksOnce, BoundUsed
<1> QED BY <1>1, <1>4, <1>5, <1>6, <1>7

\* Making a code withdraws codes that no transaction holds.
LEMMA CreateStep ==
    ASSUME IInv, NEW p \in Procs, CreateInvalidate(p) \/ CreateInsert(p)
    PROVE  IInv'
<1> USE DEF IInv, hist
<1>1. /\ UNCHANGED <<link, bound>>
      /\ \A q \in Procs \ {p} : pc'[q] = pc[q] /\ loc'[q] = loc[q]
      /\ pc'[p] \in {"insert", "idle"} /\ pc[p] \in {"invalidate", "insert"}
      /\ pc'[p] = "insert" => loc'[p] = loc[p]
  BY DEF TypeOK, CreateInvalidate, CreateInsert, Goto, Answer
<1>2. \A c \in Made : /\ code'[c].user = code[c].user
                      /\ code[c].used => code'[c].used
                      /\ CodeLocked(c) => code'[c].used = code[c].used
  <2>1. CASE CreateInvalidate(p)
    <3>1. \A c \in Codes : [code[c] EXCEPT !.used = TRUE].user = code[c].user
                           /\ [code[c] EXCEPT !.used = TRUE].used
      BY DEF TypeOK, Code
    <3> QED BY <2>1, <3>1 DEF CreateInvalidate, Active, Made
  <2>2. CASE CreateInsert(p)
    BY <2>2 DEF CreateInsert, Made, TypeOK
  <2> QED BY <2>1, <2>2
<1>3. TypeOK'
  <2>1. CASE CreateInvalidate(p)
    BY <2>1 DEF TypeOK, Code, CreateInvalidate, Goto, PCs
  <2>2. CASE CreateInsert(p)
    <3>1. loc[p].user \in Users /\ loc[p].now + TTL \in Nat
      BY <2>2, LinkAssumption DEF CreateInsert, AccountKnown, TypeOK, Loc
    <3>2. [user |-> loc[p].user, expires |-> loc[p].now + TTL, used |-> FALSE] \in Code
      BY <3>1 DEF Code
    <3>3. code' \in [Codes -> Code]
      BY <2>2, <3>2 DEF CreateInsert, TypeOK
    <3>4. rivals' \subseteq Users
      BY <2>2, <3>1 DEF CreateInsert, TypeOK
    <3> QED BY <2>2, <3>3, <3>4 DEF TypeOK, Loc, NoLoc, CreateInsert, Goto, Answer, PCs
  <2> QED BY <2>1, <2>2
<1>4. ASSUME NEW q \in Procs, pc[q] = "lock" \/ q \in InTx
      PROVE  loc[q].code \in Made
  BY <1>4, LinkAssumption DEF CodeKnown, Made
<1>5. CodeKnown' /\ AccountKnown'
  BY <1>1, <1>2, <1>4 DEF CodeKnown, AccountKnown, InTx
<1>6. CodeHeld'
  BY <1>1, <1>2, <1>4 DEF CodeHeld, CodeLocked, InTx
<1>7. EntryHeld' /\ OneAccountPerChat' /\ CodeLinksOnce'
  BY <1>1 DEF EntryHeld, OneAccountPerChat, CodeLinksOnce
<1>8. BoundUsed'
  BY <1>1, <1>2 DEF BoundUsed, TypeOK, Made
<1> QED BY <1>3, <1>5, <1>6, <1>7, <1>8

\* A commit spends a code that nothing else holds or has spent.
LEMMA CommitStep == ASSUME IInv, NEW p \in Procs, ConsumeCommit(p) PROVE IInv'
<1> USE DEF IInv, hist
<1>1. /\ p \in InTx /\ pc[p] = "commit"
      /\ loc[p].code \in Codes /\ loc[p].user \in Users /\ loc[p].ext \in Exts
      /\ code[loc[p].code].user = loc[p].user /\ ~code[loc[p].code].used
  BY DEF ConsumeCommit, InTx, CodeKnown, CodeHeld
<1>2. /\ code'[loc[p].code].used /\ code'[loc[p].code].user = loc[p].user
      /\ \A c \in Codes \ {loc[p].code} : code'[c] = code[c]
      /\ \A c \in Codes : code[c].used => code'[c].used
      /\ \A c \in Codes : code'[c].user = code[c].user
  BY <1>1 DEF TypeOK, Code, ConsumeCommit
<1>3. /\ link' = [link EXCEPT ![loc[p].user] = loc[p].ext]
      /\ bound' = bound \cup {<<loc[p].code, loc[p].user, loc[p].ext>>}
      /\ \A q \in Procs \ {p} : pc'[q] = pc[q] /\ loc'[q] = loc[q]
      /\ pc'[p] = "idle"
  BY DEF TypeOK, ConsumeCommit, Answer, Goto
<1>4. TypeOK'
  <2>1. code' \in [Codes -> Code] /\ link' \in [Users -> Exts \cup {None}]
    BY <1>1 DEF TypeOK, Code, ConsumeCommit
  <2>2. bound' \subseteq Codes \X Users \X Exts
    BY <1>1, <1>3 DEF TypeOK
  <2> QED BY <2>1, <2>2 DEF TypeOK, Loc, NoLoc, ConsumeCommit, Answer, Goto, PCs
<1>5. CodeKnown' /\ AccountKnown'
  BY <1>2, <1>3 DEF CodeKnown, AccountKnown, InTx
<1>6. CodeHeld'
  <2>1. ASSUME NEW q \in InTx' PROVE q \in InTx \ {p} /\ loc'[q] = loc[q]
    BY <1>3, <2>1 DEF InTx
  <2>2. ASSUME NEW q \in InTx \ {p} PROVE ~code'[loc[q].code].used
    <3>1. loc[q].code \in Codes \ {loc[p].code}
      BY <1>1, <2>2 DEF CodeHeld, CodeKnown, InTx
    <3> QED BY <1>2, <2>2, <3>1 DEF CodeHeld
  <2> QED BY <2>1, <2>2 DEF CodeHeld
<1>7. EntryHeld'
  BY <1>1, <1>3 DEF TypeOK, EntryHeld
<1>8. OneAccountPerChat'
  BY <1>1, <1>3 DEF TypeOK, EntryHeld, OneAccountPerChat
<1>9. CodeLinksOnce' /\ BoundUsed'
  <2>1. \A t \in bound : t[1] # loc[p].code
    BY <1>1 DEF BoundUsed
  <2>2. \A t \in bound : t[1] \in Codes
    BY DEF TypeOK
  <2>3. code'[loc[p].code].user # None
    BY <1>1, <1>2, LinkAssumption
  <2> QED BY <1>2, <1>3, <2>1, <2>2, <2>3 DEF CodeLinksOnce, BoundUsed
<1> QED BY <1>4, <1>5, <1>6, <1>7, <1>8, <1>9

\* Every step keeps the inductive invariant.
LEMMA InvStep == ASSUME IInv, [Next]_vars PROVE IInv'
<1>1. ASSUME NEW p \in Procs, Begin(p) \/ Proceed(p) PROVE IInv'
  <2>1. CASE RefuseCode(p) \/ RefuseChat(p) \/ RefuseAccount(p) \/ RefuseUpsert(p)
    BY <2>1, AnswerStep DEF RefuseCode, RefuseChat, RefuseAccount, RefuseUpsert
  <2> QED BY <1>1, <2>1, LocalStep, CreateStep, CommitStep DEF Begin, Proceed
<1>2. CASE Tick \/ \E u \in Changing : ChangePlan(u)
  <2>1. TypeOK'
    BY <1>2, LinkAssumption DEF hist, IInv, TypeOK, Tick, ChangePlan
  <2> QED BY <1>2, <2>1
          DEF hist, IInv, Tick, ChangePlan, InTx, CodeKnown, AccountKnown, CodeHeld,
              EntryHeld, OneAccountPerChat, CodeLinksOnce, BoundUsed
<1>3. CASE Crash
  <2>1. TypeOK'
    BY <1>3 DEF hist, IInv, TypeOK, Crash, PCs, Loc, NoLoc
  <2> QED BY <1>3, <2>1
          DEF hist, IInv, Crash, InTx, CodeKnown, AccountKnown, CodeHeld, EntryHeld,
              OneAccountPerChat, CodeLinksOnce, BoundUsed
<1>4. CASE UNCHANGED vars
  BY <1>4 DEF vars, hist, IInv, TypeOK, InTx, CodeKnown, AccountKnown, CodeHeld, EntryHeld,
              OneAccountPerChat, CodeLinksOnce, BoundUsed
<1> QED BY <1>1, <1>2, <1>3, <1>4 DEF Next

\* The inductive invariant holds in every state of every behaviour.
THEOREM Invariance == Spec => []IInv
  BY InvInit, InvStep, PTL DEF Spec

\* Every variable keeps its type.
THEOREM TypeCorrect == Spec => []TypeOK
<1>1. IInv => TypeOK
  BY DEF IInv
<1> QED BY <1>1, Invariance, PTL

\* Two accounts never share a chat, whatever consumptions overlap.
THEOREM ChatsDistinct == Spec => []OneAccountPerChat
<1>1. IInv => OneAccountPerChat
  BY DEF IInv
<1> QED BY <1>1, Invariance, PTL

\* A code makes one link at most, whoever presents it and how often.
THEOREM CodesSingleUse == Spec => []CodeLinksOnce
<1>1. IInv => CodeLinksOnce
  BY DEF IInv
<1> QED BY <1>1, Invariance, PTL

----------------------------------------------------------------------------
Consuming == {p \in Procs : pc[p] = "lock"} \cup InTx

\* A consumption of c is under way that began before c expired.
Outlasting(c) ==
    \E q \in Consuming : loc[q].code = c /\ loc[q].now < code[c].expires

\* Code c could still link.
Alive(c) ==
    /\ c \in Made /\ ~code[c].used
    /\ code[c].expires > now \/ Outlasting(c)

\* An account has one such code.
OneAlive ==
    \A c, d \in Codes : /\ Alive(c) /\ Alive(d)
                        /\ code[c].user = code[d].user /\ code[c].user \notin rivals
                        => c = d

\* Withdrawing the active codes left only codes that had expired.
Withdrawn ==
    \A p \in Procs, c \in Codes :
        /\ pc[p] = "insert" /\ loc[p].user \notin rivals
        /\ Alive(c) /\ code[c].user = loc[p].user
        => code[c].expires <= loc[p].now

\* A request never works with a time that has not come.
Clocks == \A p \in Procs : loc[p].now <= now

\* The code a transaction has locked had not expired when the request came.
InTime == \A p \in InTx : loc[p].now < code[loc[p].code].expires

\* No other consumption has linked the account since its link was looked up.
LinkFree ==
    \A p \in Procs : /\ pc[p] \in {"upsert", "commit"} /\ loc[p].user \notin rivals
                     => link[loc[p].user] \in {None, loc[p].ext}

Alone == Clocks /\ OneAlive /\ Withdrawn /\ InTime /\ LinkFree

\* Rows of codes are made once, withdrawn or used once, and never change otherwise.
LEMMA CodeKept ==
    ASSUME IInv, [Next]_vars
    PROVE  /\ \A c \in Made : /\ code'[c].user = code[c].user
                              /\ code'[c].expires = code[c].expires
                              /\ code[c].used => code'[c].used
           /\ \A c \in Codes \ Made :
                code'[c] # code[c] =>
                  \E p \in Procs :
                    /\ CreateInsert(p)
                    /\ code' = [code EXCEPT ![c] =
                         [user |-> loc[p].user, expires |-> loc[p].now + TTL, used |-> FALSE]]
<1>1. CASE code' = code
  BY <1>1
<1>2. ASSUME NEW p \in Procs, CreateInvalidate(p)
      PROVE  \A c \in Codes : \/ code'[c] = code[c]
                              \/ c \in Made /\ code'[c] = [code[c] EXCEPT !.used = TRUE]
  BY <1>2 DEF CreateInvalidate, Active
<1>3. ASSUME NEW p \in Procs, ConsumeCommit(p)
      PROVE  \A c \in Codes : \/ code'[c] = code[c]
                              \/ c \in Made /\ code'[c] = [code[c] EXCEPT !.used = TRUE]
  BY <1>3, LinkAssumption DEF ConsumeCommit, IInv, TypeOK, CodeKnown, InTx, Made
<1>4. ASSUME NEW p \in Procs, CreateInvalidate(p) \/ ConsumeCommit(p)
      PROVE  \A c \in Codes :
               \/ code'[c] = code[c]
               \/ /\ c \in Made /\ code'[c].user = code[c].user
                  /\ code'[c].expires = code[c].expires /\ code'[c].used
  <2>1. \A c \in Codes : /\ [code[c] EXCEPT !.used = TRUE].user = code[c].user
                         /\ [code[c] EXCEPT !.used = TRUE].expires = code[c].expires
                         /\ [code[c] EXCEPT !.used = TRUE].used
    BY DEF IInv, TypeOK, Code
  <2> QED BY <1>2, <1>3, <1>4, <2>1
<1>5. ASSUME NEW p \in Procs, CreateInsert(p), code' # code
      PROVE  \E c \in Codes \ Made :
               code' = [code EXCEPT ![c] =
                 [user |-> loc[p].user, expires |-> loc[p].now + TTL, used |-> FALSE]]
  BY <1>5 DEF CreateInsert
<1>6. ASSUME NEW p \in Procs, Begin(p) \/ Proceed(p), ~CreateInvalidate(p),
             ~CreateInsert(p), ~ConsumeCommit(p)
      PROVE  code' = code
  BY <1>6 DEF Begin, Proceed, CreateBegin, ConsumeBegin, LockCode, RefuseCode,
              CheckChat, RefuseChat, CheckAccount, RefuseAccount, Upsert, RefuseUpsert
<1>7. CASE Tick \/ Crash \/ (\E u \in Changing : ChangePlan(u)) \/ UNCHANGED vars
  BY <1>1, <1>7 DEF Tick, Crash, ChangePlan, vars, hist
<1>8. \A c \in Made : c \in Codes
  BY DEF Made
<1>9. ASSUME NEW p \in Procs, CreateInsert(p), code' # code
      PROVE  /\ \A c \in Made : code'[c] = code[c]
             /\ \A c \in Codes \ Made :
                  code'[c] # code[c] =>
                    code' = [code EXCEPT ![c] =
                      [user |-> loc[p].user, expires |-> loc[p].now + TTL, used |-> FALSE]]
  BY <1>5, <1>9 DEF IInv, TypeOK, Made
<1> QED BY <1>1, <1>4, <1>6, <1>7, <1>8, <1>9 DEF Next

\* A consumption keeps what it read until it is answered.
LEMMA ConsumingKept ==
    ASSUME IInv, [Next]_vars, NEW q \in Procs, q \in Consuming'
    PROVE  \/ ConsumeBegin(q)
           \/ /\ q \in Consuming /\ loc'[q].code = loc[q].code
              /\ loc'[q].now = loc[q].now /\ loc'[q].ext = loc[q].ext
              /\ loc'[q].user = loc[q].user
<1>1. ASSUME NEW p \in Procs, Begin(p) \/ Proceed(p), p # q
      PROVE  pc'[q] = pc[q] /\ loc'[q] = loc[q]
  BY <1>1 DEF IInv, TypeOK, Begin, Proceed, CreateBegin, CreateInvalidate, CreateInsert,
              ConsumeBegin, LockCode, RefuseCode, CheckChat, RefuseChat, CheckAccount,
              RefuseAccount, Upsert, RefuseUpsert, ConsumeCommit, Goto, Answer
<1>2. ASSUME Begin(q) \/ Proceed(q), ~ConsumeBegin(q)
      PROVE  LockCode(q) \/ CheckChat(q) \/ CheckAccount(q) \/ Upsert(q)
  BY <1>2 DEF IInv, TypeOK, Begin, Proceed, CreateBegin, CreateInvalidate, CreateInsert,
              RefuseCode, RefuseChat, RefuseAccount, RefuseUpsert, ConsumeCommit, Goto,
              Answer, Consuming, InTx
<1>3. ASSUME LockCode(q) \/ CheckChat(q) \/ CheckAccount(q) \/ Upsert(q)
      PROVE  /\ q \in Consuming /\ loc'[q].code = loc[q].code
             /\ loc'[q].now = loc[q].now /\ loc'[q].ext = loc[q].ext
             /\ loc'[q].user = loc[q].user
  BY <1>3 DEF IInv, TypeOK, Loc, LockCode, CheckChat, CheckAccount, Upsert, UpsertReady,
              Consuming, InTx
<1>4. CASE Tick \/ Crash \/ (\E u \in Changing : ChangePlan(u)) \/ UNCHANGED vars
  BY <1>4 DEF Tick, Crash, ChangePlan, vars, hist, Consuming, InTx
<1> QED BY <1>1, <1>2, <1>3, <1>4 DEF Next, Consuming, InTx

\* A consumption that begins takes the time and knows the code.
LEMMA BeginFacts ==
    ASSUME IInv, NEW q \in Procs, ConsumeBegin(q)
    PROVE  /\ loc'[q].code \in Made /\ loc'[q].now = now
           /\ code' = code /\ pc'[q] = "lock"
  BY DEF IInv, TypeOK, Loc, ConsumeBegin, Goto

\* Only an insert brings a code to life.
LEMMA StaysDead ==
    ASSUME IInv, [Next]_vars, NEW c \in Codes, Alive(c)', c \in Made
    PROVE  Alive(c) /\ code'[c].user = code[c].user /\ code'[c].expires = code[c].expires
<1>1. /\ code'[c].user = code[c].user /\ code'[c].expires = code[c].expires
      /\ ~code[c].used
  BY CodeKept DEF Alive
<1>2. now' >= now /\ now \in Nat /\ now' \in Nat /\ code[c].expires \in Nat
  <2>1. now' = now \/ now' = now + 1
    BY DEF Next, Tick, Crash, ChangePlan, vars, hist, Begin, Proceed, CreateBegin,
           CreateInvalidate, CreateInsert, ConsumeBegin, LockCode, RefuseCode, CheckChat,
           RefuseChat, CheckAccount, RefuseAccount, Upsert, RefuseUpsert, ConsumeCommit
  <2> QED BY <2>1 DEF IInv, TypeOK, Code, Made
<1>3. CASE code'[c].expires > now'
  BY <1>1, <1>2, <1>3 DEF Alive
<1>4. CASE Outlasting(c)'
  <2>1. PICK q \in Consuming' : loc'[q].code = c /\ loc'[q].now < code'[c].expires
    BY <1>4 DEF Outlasting
  <2>2. q \in Procs
    BY DEF Consuming, InTx
  <2>3. CASE ConsumeBegin(q)
    BY <1>1, <1>2, <2>1, <2>2, <2>3, BeginFacts DEF Alive
  <2>4. CASE ~ConsumeBegin(q)
    BY <1>1, <2>1, <2>2, <2>4, ConsumingKept DEF Alive, Outlasting
  <2> QED BY <2>3, <2>4
<1> QED BY <1>3, <1>4 DEF Alive

\* A code that an insert brings to life is the only one of its account, unless
\* the account becomes a rival.
LEMMA InsertAlone ==
    ASSUME IInv, Alone, [Next]_vars, NEW c \in Codes, NEW d \in Codes,
           Alive(c)', Alive(d)', code'[c].user = code'[d].user,
           code'[c].user \notin rivals', c \notin Made
    PROVE  c = d
<1>1. code'[c] # code[c]
  BY DEF Alive, Made
<1>2. PICK p \in Procs :
        /\ CreateInsert(p)
        /\ code' = [code EXCEPT ![c] =
             [user |-> loc[p].user, expires |-> loc[p].now + TTL, used |-> FALSE]]
  BY <1>1, CodeKept
<1> SUFFICES ASSUME c # d PROVE FALSE
  OBVIOUS
<1> DEFINE u == loc[p].user
<1>3. /\ code'[d] = code[d] /\ code'[c].user = u /\ pc[p] = "insert"
      /\ u \notin rivals' /\ u \notin rivals /\ d \in Made
      /\ ~Rivalled(p, u) /\ now' = now
  <2>1. code'[d] = code[d] /\ code'[c].user = u
    BY <1>2 DEF IInv, TypeOK
  <2>2. code' # code
    BY <1>1
  <2>3. rivals' = rivals \cup {v \in {u} : Rivalled(p, v)}
    BY <1>2, <2>2 DEF CreateInsert
  <2> QED BY <1>2, <2>1, <2>3 DEF CreateInsert, Alive, Made
<1>4. Alive(d)
  BY <1>3, StaysDead
<1>5. code[d].expires <= loc[p].now
  BY <1>3, <1>4 DEF Alone, Withdrawn
<1>6. loc[p].now <= now /\ code[d].expires \in Nat /\ now \in Nat
  BY DEF Alone, Clocks, IInv, TypeOK, Code, Loc
<1>7. PICK q \in Consuming : loc[q].code = d /\ loc[q].now < code[d].expires
  BY <1>4, <1>5, <1>6 DEF Alive, Outlasting, IInv, TypeOK, Loc
<1>8. q \in Procs \ {p} /\ loc[q].user = u
  BY <1>3, <1>7 DEF Consuming, InTx, IInv, CodeKnown
<1>9. ~code[d].used
  BY <1>4 DEF Alive
<1> QED BY <1>3, <1>5, <1>7, <1>8, <1>9 DEF Rivalled, Consuming, InTx

\* A link changes by the commit of a consumption only, and rivals stay rivals.
LEMMA LinkChange ==
    ASSUME IInv, [Next]_vars
    PROVE  /\ rivals \subseteq rivals'
           /\ link' = link \/ \E p \in Procs : ConsumeCommit(p)
<1>1. ASSUME NEW p \in Procs, Begin(p) \/ Proceed(p), ~ConsumeCommit(p)
      PROVE  rivals \subseteq rivals' /\ link' = link
  BY <1>1 DEF Begin, Proceed, hist, CreateBegin, CreateInvalidate, CreateInsert, ConsumeBegin,
              LockCode, RefuseCode, CheckChat, RefuseChat, CheckAccount, RefuseAccount,
              Upsert, RefuseUpsert
<1>2. ASSUME NEW p \in Procs, ConsumeCommit(p) PROVE rivals' = rivals
  BY <1>2 DEF ConsumeCommit
<1>3. CASE Tick \/ Crash \/ (\E u \in Changing : ChangePlan(u)) \/ UNCHANGED vars
  BY <1>3 DEF Tick, Crash, ChangePlan, vars, hist
<1> QED BY <1>1, <1>2, <1>3 DEF Next

\* Where a request came from that is about to store a code, or to write a link.
LEMMA RequestKept ==
    ASSUME IInv, [Next]_vars, NEW p \in Procs
    PROVE  /\ loc'[p].now = loc[p].now \/ loc'[p].now \in {0, now}
           /\ pc'[p] = "insert" =>
                CreateInvalidate(p) \/ (pc[p] = "insert" /\ loc'[p] = loc[p])
           /\ p \in InTx' => LockCode(p) \/ p \in InTx
           /\ pc'[p] \in {"upsert", "commit"} =>
                CheckAccount(p) \/ pc[p] \in {"upsert", "commit"}
<1>1. ASSUME NEW q \in Procs, Begin(q) \/ Proceed(q), q # p
      PROVE  pc'[p] = pc[p] /\ loc'[p] = loc[p]
  BY <1>1 DEF IInv, TypeOK, Begin, Proceed, CreateBegin, CreateInvalidate, CreateInsert,
              ConsumeBegin, LockCode, RefuseCode, CheckChat, RefuseChat, CheckAccount,
              RefuseAccount, Upsert, RefuseUpsert, ConsumeCommit, Goto, Answer
<1>2. CASE Begin(p) \/ Proceed(p)
  <2>1. /\ pc'[p] = "insert" => CreateInvalidate(p)
        /\ p \in InTx' => LockCode(p) \/ p \in InTx
        /\ pc'[p] \in {"upsert", "commit"} =>
             CheckAccount(p) \/ pc[p] \in {"upsert", "commit"}
    BY <1>2 DEF IInv, TypeOK, Begin, Proceed, CreateBegin, CreateInvalidate, CreateInsert,
                ConsumeBegin, LockCode, RefuseCode, CheckChat, RefuseChat, CheckAccount,
                RefuseAccount, Upsert, UpsertReady, RefuseUpsert, ConsumeCommit, Goto,
                Answer, InTx
  <2>2. ASSUME Begin(p) PROVE loc'[p].now = now
    <3>1. CASE CreateBegin(p)
      <4>1. PICK u \in premium : loc' = [loc EXCEPT ![p].user = u, ![p].now = now]
        BY <3>1 DEF CreateBegin
      <4>2. loc[p] \in Loc /\ loc \in [Procs -> Loc]
        BY DEF IInv, TypeOK
      <4> QED BY <4>1, <4>2 DEF Loc
    <3> QED BY <2>2, <3>1, BeginFacts DEF Begin
  <2>3. ASSUME Proceed(p) PROVE loc'[p].now = loc[p].now \/ loc'[p] = NoLoc
    BY <2>3 DEF IInv, TypeOK, Loc, Proceed, CreateInvalidate, CreateInsert, LockCode,
                RefuseCode, CheckChat, RefuseChat, CheckAccount, RefuseAccount, Upsert,
                RefuseUpsert, ConsumeCommit, Answer
  <2> QED BY <1>2, <2>1, <2>2, <2>3 DEF NoLoc
<1>3. CASE Crash
  BY <1>3 DEF Crash, NoLoc, InTx
<1>4. CASE Tick \/ (\E u \in Changing : ChangePlan(u)) \/ UNCHANGED vars
  BY <1>4 DEF Tick, ChangePlan, vars, InTx
<1> QED BY <1>1, <1>2, <1>3, <1>4 DEF Next, InTx

\* Codes of an account follow one another, as long as no two requests store
\* theirs side by side and no consumption outlasts its code.
LEMMA AloneStep == ASSUME IInv, Alone, [Next]_vars PROVE Alone'
<1>1. Clocks'
  <2>1. now' \in Nat /\ now' >= now /\ now \in Nat
    <3>1. now' = now \/ now' = now + 1
      BY DEF Next, Tick, Crash, ChangePlan, vars, Begin, Proceed, CreateBegin,
             CreateInvalidate, CreateInsert, ConsumeBegin, LockCode, RefuseCode,
             CheckChat, RefuseChat, CheckAccount, RefuseAccount, Upsert, RefuseUpsert,
             ConsumeCommit
    <3> QED BY <3>1 DEF IInv, TypeOK
  <2>2. \A p \in Procs : loc[p].now <= now /\ loc[p].now \in Nat
    BY DEF Alone, Clocks, IInv, TypeOK, Loc
  <2> QED BY <2>1, <2>2, RequestKept DEF Clocks
<1>2. OneAlive'
  <2> SUFFICES ASSUME NEW c \in Codes, NEW d \in Codes, Alive(c)', Alive(d)',
                      code'[c].user = code'[d].user, code'[c].user \notin rivals'
               PROVE  c = d
    BY DEF OneAlive
  <2>1. CASE c \in Made /\ d \in Made
    BY <2>1, StaysDead, LinkChange DEF Alone, OneAlive
  <2>2. CASE c \notin Made
    BY <2>2, InsertAlone
  <2>3. CASE d \notin Made
    BY <2>3, InsertAlone
  <2> QED BY <2>1, <2>2, <2>3
<1>3. Withdrawn'
  <2> SUFFICES ASSUME NEW p \in Procs, NEW c \in Codes, pc'[p] = "insert",
                      loc'[p].user \notin rivals', Alive(c)',
                      code'[c].user = loc'[p].user
               PROVE  code'[c].expires <= loc'[p].now
    BY DEF Withdrawn
  <2>1. CASE CreateInvalidate(p)
    <3>1. /\ loc' = loc
          /\ \A d \in Active(loc[p].user, loc[p].now) : code'[d].used
          /\ \A d \in Codes \ Made : code'[d] = code[d]
      <4>1. \A d \in Codes : [code[d] EXCEPT !.used = TRUE].used
        BY DEF IInv, TypeOK, Code
      <4> QED BY <2>1, <4>1 DEF CreateInvalidate, Active, Made
    <3>2. c \in Made
      BY <3>1 DEF Alive, Made
    <3>3. Alive(c) /\ code'[c].user = code[c].user /\ code'[c].expires = code[c].expires
      BY <3>2, StaysDead
    <3>4. c \notin Active(loc[p].user, loc[p].now)
      BY <3>1 DEF Alive
    <3>5. loc[p].now \in Nat /\ code[c].expires \in Nat
      BY DEF IInv, TypeOK, Loc, Code
    <3> QED BY <3>1, <3>2, <3>3, <3>4, <3>5 DEF Active, Alive
  <2>2. CASE pc[p] = "insert" /\ loc'[p] = loc[p]
    <3>1. CASE c \in Made
      BY <2>2, <3>1, StaysDead, LinkChange DEF Alone, Withdrawn
    <3>2. CASE c \notin Made
      <4>1. code'[c] # code[c]
        BY <3>2 DEF Alive, Made
      <4>2. PICK q \in Procs :
              /\ CreateInsert(q)
              /\ code' = [code EXCEPT ![c] =
                   [user |-> loc[q].user, expires |-> loc[q].now + TTL, used |-> FALSE]]
        BY <3>2, <4>1, CodeKept
      <4>3. q # p
        BY <4>2 DEF CreateInsert, Goto, Answer, IInv, TypeOK
      <4>4. loc[q].user = loc[p].user
        BY <2>2, <4>2 DEF IInv, TypeOK
      <4>5. Rivalled(q, loc[q].user)
        BY <2>2, <4>3, <4>4 DEF Rivalled
      <4>6. code' # code
        BY <4>1
      <4>7. loc[q].user \in rivals'
        BY <4>2, <4>5, <4>6 DEF CreateInsert
      <4> QED BY <2>2, <4>4, <4>7
    <3> QED BY <3>1, <3>2
  <2> QED BY <2>1, <2>2, RequestKept
<1>4. InTime'
  <2> SUFFICES ASSUME NEW p \in Procs, p \in InTx'
               PROVE  loc'[p].now < code'[loc'[p].code].expires
    BY DEF InTime, InTx
  <2>1. p \in Consuming' /\ ~ConsumeBegin(p)
    BY BeginFacts DEF Consuming, InTx
  <2>2. /\ p \in Consuming /\ loc'[p].code = loc[p].code /\ loc'[p].now = loc[p].now
    BY <2>1, ConsumingKept
  <2>3. loc[p].code \in Made
    BY <2>2, LinkAssumption DEF Consuming, InTx, IInv, CodeKnown, Made
  <2>4. loc[p].now < code[loc[p].code].expires
    <3>1. CASE LockCode(p)
      BY <2>3, <3>1 DEF LockCode, Usable, IInv, TypeOK, Code, Loc, Made
    <3>2. CASE p \in InTx
      BY <3>2 DEF Alone, InTime
    <3> QED BY <3>1, <3>2, RequestKept
  <2> QED BY <2>2, <2>3, <2>4, CodeKept
<1>5. LinkFree'
  <2> SUFFICES ASSUME NEW p \in Procs, pc'[p] \in {"upsert", "commit"},
                      loc'[p].user \notin rivals'
               PROVE  link'[loc'[p].user] \in {None, loc'[p].ext}
    BY DEF LinkFree
  <2>1. p \in Consuming' /\ ~ConsumeBegin(p)
    BY BeginFacts DEF Consuming, InTx
  <2>2. loc'[p].user = loc[p].user /\ loc'[p].ext = loc[p].ext
    BY <2>1, ConsumingKept
  <2>3. CASE CheckAccount(p)
    BY <2>2, <2>3 DEF CheckAccount
  <2>4. CASE pc[p] \in {"upsert", "commit"}
    <3>1. link[loc[p].user] \in {None, loc[p].ext}
      BY <2>2, <2>4, LinkChange DEF Alone, LinkFree
    <3>2. ASSUME NEW q \in Procs, ConsumeCommit(q) PROVE link'[loc[p].user] = link[loc[p].user]
      <4>1. q # p /\ q \in InTx /\ p \in InTx
        BY <2>4, <3>2 DEF ConsumeCommit, Answer, Goto, IInv, TypeOK, InTx
      <4>2. ASSUME NEW r \in InTx PROVE loc[r].code \in Codes /\ Alive(loc[r].code)
        BY LinkAssumption
        DEF Alone, InTime, Alive, Outlasting, Consuming, InTx, IInv, CodeKnown, CodeHeld, Made
      <4>3. loc[q].code # loc[p].code
        BY <4>1 DEF IInv, CodeHeld
      <4>4. /\ code[loc[p].code].user = loc[p].user /\ code[loc[q].code].user = loc[q].user
            /\ loc[p].user \notin rivals
        BY <2>2, <4>1, LinkChange DEF IInv, CodeKnown, InTx
      <4>5. loc[p].user # loc[q].user
        BY <4>1, <4>2, <4>3, <4>4 DEF Alone, OneAlive
      <4> QED BY <3>2, <4>5 DEF ConsumeCommit, IInv, TypeOK
    <3> QED BY <2>2, <3>1, <3>2, LinkChange
  <2> QED BY <2>3, <2>4, RequestKept
<1> QED BY <1>1, <1>2, <1>3, <1>4, <1>5 DEF Alone

\* A chat takes the place of another only for an account that had two codes to
\* link with: codes stored side by side, or a consumption that outlasted its own.
THEOREM LinksKept == Spec => ReplacedOnlyByRivals
<1>1. ASSUME Init PROVE Alone
  BY <1>1
  DEF Init, Alone, Clocks, OneAlive, Withdrawn, InTime, LinkFree, Alive, Made, NoCode, NoLoc,
      InTx
<1>2. ASSUME IInv, Alone, [Next]_vars
      PROVE  \A u \in Users : link'[u] # link[u] => link[u] = None \/ u \in rivals
  <2> SUFFICES ASSUME NEW u \in Users, link'[u] # link[u]
               PROVE  link[u] = None \/ u \in rivals
    OBVIOUS
  <2>1. PICK p \in Procs : ConsumeCommit(p)
    BY <1>2, LinkChange
  <2>2. u = loc[p].user /\ link'[u] = loc[p].ext
    BY <1>2, <2>1 DEF ConsumeCommit, IInv, TypeOK
  <2> QED BY <1>2, <2>1, <2>2 DEF Alone, LinkFree, ConsumeCommit
<1> QED BY <1>1, <1>2, AloneStep, Invariance, PTL DEF Spec, ReplacedOnlyByRivals

\* Withdrawing codes is one step of the abstract table.
LEMMA WithdrawStep ==
    ASSUME IInv, NEW p \in Procs, CreateInvalidate(p), NEW u \in Users, loc[p].user = u
    PROVE  Abstract!Withdraw(u)
<1> DEFINE cs == Active(u, loc[p].now)
<1>1. /\ link' = link
      /\ \A c \in cs : code'[c].used /\ code'[c].user = code[c].user
      /\ \A c \in Codes \ cs : code'[c] = code[c]
  <2>1. \A c \in Codes : [code[c] EXCEPT !.used = TRUE].user = code[c].user
                         /\ [code[c] EXCEPT !.used = TRUE].used
    BY DEF IInv, TypeOK, Code
  <2> QED BY <2>1 DEF CreateInvalidate, Active, Made
<1>2. cs \in SUBSET {c \in {d \in Made : ~code[d].used} : code[c].user = u}
  BY DEF Active
<1>3. Made' = Made /\ \A c \in Codes : code'[c].user = code[c].user
  BY <1>1 DEF Made
<1>4. {c \in Made : ~code[c].used}' = {c \in Made : ~code[c].used} \ cs
  BY <1>1, <1>3 DEF Made
<1>5. [c \in Codes |-> code[c].user]' = [c \in Codes |-> code[c].user]
  BY <1>3
<1>6. \A c \in Made : [d \in Codes |-> code[d].user][c] = code[c].user
  BY DEF Made
<1>7. cs \in SUBSET {c \in {d \in Made : ~code[d].used} : [d \in Codes |-> code[d].user][c] = u}
  BY <1>2, <1>6
<1> HIDE DEF cs
<1> QED BY <1>1, <1>4, <1>5, <1>7 DEF Abstract!Withdraw

\* So is the insert of a new code.
LEMMA IssueStep ==
    ASSUME IInv, NEW p \in Procs, CreateInsert(p), code' # code
    PROVE  \E c \in Codes : Abstract!Issue(loc[p].user, c)
<1> USE DEF IInv, hist
<1>1. PICK c \in Codes \ Made :
        code' = [code EXCEPT ![c] = [user |-> loc[p].user,
                                     expires |-> loc[p].now + TTL, used |-> FALSE]]
  BY DEF CreateInsert
<1>2. loc[p].user \in Users /\ loc[p].user # None /\ link' = link
  BY LinkAssumption DEF CreateInsert, AccountKnown
<1>3. /\ code[c].user = None /\ code'[c].user = loc[p].user /\ ~code'[c].used
      /\ \A d \in Codes \ {c} : code'[d] = code[d]
  BY <1>1 DEF TypeOK, Made
<1>4. Made' = Made \cup {c}
  BY <1>2, <1>3 DEF Made
<1>5. {d \in Made : ~code[d].used}' = {d \in Made : ~code[d].used} \cup {c}
  BY <1>3, <1>4 DEF Made
<1>6. [d \in Codes |-> code[d].user]' =
        [[d \in Codes |-> code[d].user] EXCEPT ![c] = loc[p].user]
  BY <1>3
<1> QED BY <1>2, <1>3, <1>5, <1>6 DEF Abstract!Issue

\* So is the commit of a consumption: its code is open and its chat is free.
LEMMA BindStep ==
    ASSUME IInv, NEW p \in Procs, ConsumeCommit(p),
           NEW b \in Codes, NEW e \in Exts, loc[p].code = b, loc[p].ext = e
    PROVE  Abstract!Bind(b, e)
<1> USE DEF IInv, hist
<1>1. /\ b \in Codes /\ loc[p].user \in Users /\ code[b].user = loc[p].user
      /\ ~code[b].used /\ loc[p].user # None
      /\ \A u \in Users \ {loc[p].user} : link[u] # loc[p].ext
  BY LinkAssumption DEF ConsumeCommit, InTx, CodeKnown, CodeHeld, EntryHeld
<1>2. /\ code'[b].used /\ code'[b].user = code[b].user
      /\ \A c \in Codes \ {b} : code'[c] = code[c]
      /\ link' = [link EXCEPT ![loc[p].user] = loc[p].ext]
  BY <1>1 DEF TypeOK, Code, ConsumeCommit
<1>3. b \in Made /\ Made' = Made
  BY <1>1, <1>2 DEF Made
<1>4. {c \in Made : ~code[c].used}' = {c \in Made : ~code[c].used} \ {b}
  BY <1>2, <1>3 DEF Made
<1>5. /\ [c \in Codes |-> code[c].user]' = [c \in Codes |-> code[c].user]
      /\ [c \in Codes |-> code[c].user][b] = loc[p].user
  BY <1>1, <1>2
<1> QED BY <1>1, <1>2, <1>3, <1>4, <1>5 DEF Abstract!Bind

\* The tables of codes and links, changed row by row under their locks,
\* implement a table that every binding changes in one piece.
THEOREM Refinement == Spec => LinksAtomically
<1>1. ASSUME Init PROVE Abstract!Init
  BY <1>1 DEF Init, Abstract!Init, NoCode, Made
<1>2. ASSUME IInv, [Next]_vars PROVE [Abstract!Next]_(Abstract!vars)
  <2> USE <1>2
  <2>1. CASE UNCHANGED <<code, link>>
    BY <2>1 DEF Abstract!vars, Made
  <2>2. ASSUME NEW p \in Procs, CreateInvalidate(p) PROVE Abstract!Next
    <3>1. loc[p].user \in Users
      BY <2>2 DEF IInv, CreateInvalidate, AccountKnown
    <3>2. PICK u \in Users : loc[p].user = u
      BY <3>1
    <3>3. Abstract!Withdraw(u)
      BY <2>2, <3>2, WithdrawStep
    <3> QED BY <3>3 DEF Abstract!Next
  <2>3. ASSUME NEW p \in Procs, CreateInsert(p), code' # code PROVE Abstract!Next
    BY <2>3, IssueStep DEF IInv, CreateInsert, AccountKnown, Abstract!Next
  <2>4. ASSUME NEW p \in Procs, ConsumeCommit(p) PROVE Abstract!Next
    <3>1. loc[p].code \in Codes /\ loc[p].ext \in Exts
      BY <2>4 DEF IInv, ConsumeCommit, InTx, CodeKnown
    <3>2. PICK c \in Codes, e \in Exts : loc[p].code = c /\ loc[p].ext = e
      BY <3>1
    <3>3. Abstract!Bind(c, e)
      BY <2>4, <3>2, BindStep
    <3> QED BY <3>3 DEF Abstract!Next
  <2>5. ASSUME NEW p \in Procs, CreateInsert(p), code' = code
        PROVE  UNCHANGED <<code, link>>
    BY <2>5 DEF CreateInsert
  <2>6. ASSUME NEW p \in Procs, Begin(p) \/ Proceed(p), ~CreateInvalidate(p),
               ~CreateInsert(p), ~ConsumeCommit(p)
        PROVE  UNCHANGED <<code, link>>
    BY <2>6 DEF Begin, Proceed, CreateBegin, ConsumeBegin, LockCode, RefuseCode,
                CheckChat, RefuseChat, CheckAccount, RefuseAccount, Upsert, RefuseUpsert
  <2>7. CASE Tick \/ Crash \/ (\E u \in Changing : ChangePlan(u)) \/ UNCHANGED vars
    BY <2>1, <2>7 DEF Tick, Crash, ChangePlan, vars, hist
  <2> QED BY <2>1, <2>2, <2>3, <2>4, <2>5, <2>6, <2>7 DEF Next
<1> QED BY <1>1, <1>2, Invariance, PTL DEF Spec, LinksAtomically, Abstract!Spec
----------------------------------------------------------------------------
\* A transaction has locked no row, or the row of its own account.
RowsOwn ==
    \A p \in Procs : loc[p].rows # {} =>
        pc[p] \in {"account", "upsert", "commit"} /\ loc[p].rows = {loc[p].user}

\* The row of an account is locked by one transaction.
RowsApart ==
    \A p, q \in Procs : p # q => loc[p].rows \cap loc[q].rows = {}

\* A request is at a statement that waits for another transaction.
Waits(p) ==
    \/ /\ pc[p] = "invalidate"
       /\ \E c \in Active(loc[p].user, loc[p].now) : CodeLocked(c)
    \/ pc[p] = "lock" /\ CodeLocked(loc[p].code)
    \/ pc[p] = "chat" /\ \E u \in RowsOfChat(loc[p].ext) : RowLocked(p, u)
    \/ pc[p] = "account" /\ RowLocked(p, loc[p].user)
    \/ pc[p] = "upsert" /\ (EntryPending(p) \/ RowLocked(p, loc[p].user))

\* While a request waits, one that is under way does not.
NoWaitCycle ==
    \A p \in Procs : Waits(p) => \E q \in Procs : pc[q] # "idle" /\ ~Waits(q)

\* A transaction takes the lock of a row when no other has it.
LEMMA RowsStep ==
    ASSUME IInv, RowsOwn, RowsApart, [Next]_vars
    PROVE  RowsOwn' /\ RowsApart'
<1>1. ASSUME NEW p \in Procs, Begin(p) \/ Proceed(p) PROVE RowsOwn' /\ RowsApart'
  <2>1. \A q \in Procs \ {p} : pc'[q] = pc[q] /\ loc'[q] = loc[q]
    BY <1>1 DEF IInv, TypeOK, Begin, Proceed, CreateBegin, CreateInvalidate, CreateInsert,
                ConsumeBegin, LockCode, RefuseCode, CheckChat, RefuseChat, CheckAccount,
                RefuseAccount, Upsert, RefuseUpsert, ConsumeCommit, Goto, Answer
  <2>2. CASE loc'[p].rows = {}
    BY <2>1, <2>2 DEF RowsOwn, RowsApart
  <2>3. CASE loc'[p].rows # {}
    <3>1. ~Begin(p) /\ ~CreateInvalidate(p) /\ ~LockCode(p)
      <4>1. loc[p] \in Loc /\ loc \in [Procs -> Loc]
        BY DEF IInv, TypeOK
      <4>2. loc'[p].rows = loc[p].rows => pc[p] \in {"account", "upsert", "commit"}
        BY <2>3 DEF RowsOwn
      <4>3. ~CreateInvalidate(p) /\ ~LockCode(p)
        BY <4>2 DEF CreateInvalidate, LockCode
      <4>4. ~CreateBegin(p)
        <5> SUFFICES ASSUME CreateBegin(p) PROVE FALSE
          OBVIOUS
        <5>1. PICK u \in premium : loc' = [loc EXCEPT ![p].user = u, ![p].now = now]
          BY DEF CreateBegin
        <5>2. loc'[p].rows = loc[p].rows
          BY <4>1, <5>1 DEF Loc
        <5> QED BY <4>2, <5>2 DEF CreateBegin
      <4>5. ~ConsumeBegin(p)
        <5> SUFFICES ASSUME ConsumeBegin(p) PROVE FALSE
          OBVIOUS
        <5>1. PICK c \in Made, e \in Exts :
                loc' = [loc EXCEPT ![p].code = c, ![p].ext = e, ![p].now = now,
                                   ![p].user = code[c].user]
          BY DEF ConsumeBegin
        <5>2. loc'[p].rows = loc[p].rows
          BY <4>1, <5>1 DEF Loc
        <5> QED BY <4>2, <5>2 DEF ConsumeBegin
      <4> QED BY <4>3, <4>4, <4>5 DEF Begin
    <3>2. loc'[p] # NoLoc
      BY <2>3 DEF NoLoc
    <3>3. CheckChat(p) \/ CheckAccount(p) \/ Upsert(p)
      BY <1>1, <3>1, <3>2
      DEF IInv, TypeOK, Proceed, CreateInsert, RefuseCode, RefuseChat, RefuseAccount,
          RefuseUpsert, ConsumeCommit, Answer
    <3>4. /\ loc'[p].rows = {loc[p].user} /\ loc'[p].user = loc[p].user
          /\ pc'[p] \in {"account", "upsert", "commit"}
          /\ ~RowLocked(p, loc[p].user)
      BY <2>3, <3>3 DEF IInv, TypeOK, Loc, CheckChat, CheckAccount, Upsert, UpsertReady, Goto
    <3> QED BY <2>1, <3>4 DEF RowsOwn, RowsApart, RowLocked
  <2> QED BY <2>2, <2>3
<1>2. CASE Crash
  BY <1>2 DEF Crash, NoLoc, RowsOwn, RowsApart
<1>3. CASE Tick \/ (\E u \in Changing : ChangePlan(u)) \/ UNCHANGED vars
  BY <1>3 DEF Tick, ChangePlan, vars, hist, RowsOwn, RowsApart
<1> QED BY <1>1, <1>2, <1>3 DEF Next

\* A transaction that has inserted, or holds a row and is not the one that
\* waits for an insert, goes on.
LEMMA HolderGoesOn ==
    ASSUME IInv, RowsOwn, RowsApart, NEW q \in Procs, loc[q].rows # {}, Waits(q)
    PROVE  \E r \in Procs : pc[r] = "commit"
<1>1. loc[q].rows = {loc[q].user} /\ pc[q] \in {"account", "upsert", "commit"}
  BY DEF RowsOwn
<1>2. ~RowLocked(q, loc[q].user)
  BY <1>1 DEF RowLocked, RowsApart
<1> QED BY <1>1, <1>2 DEF Waits, EntryPending

\* The rows and inserts a consumption waits for are of one that goes on.
LEMMA LinkWait ==
    ASSUME IInv, RowsOwn, RowsApart, NEW p \in InTx, Waits(p)
    PROVE  \E q \in Procs : pc[q] # "idle" /\ ~Waits(q)
<1>1. CASE \E r \in Procs : pc[r] = "commit"
  BY <1>1 DEF Waits
<1>2. CASE \A r \in Procs : pc[r] # "commit"
  <2>1. PICK q \in Procs : loc[q].rows # {}
    BY <1>2 DEF Waits, InTx, EntryPending, RowLocked
  <2>2. pc[q] # "idle"
    BY <2>1 DEF RowsOwn
  <2> QED BY <1>2, <2>1, <2>2, HolderGoesOn
<1> QED BY <1>1, <1>2

\* Requests never wait for one another in a circle: the order code, chat,
\* account in which every consumption takes its locks rules it out.
THEOREM NeverAllWaiting == Spec => []NoWaitCycle
<1>1. Init => RowsOwn /\ RowsApart
  BY DEF Init, NoLoc, RowsOwn, RowsApart
<1>2. ASSUME IInv, RowsOwn, RowsApart PROVE NoWaitCycle
  <2> USE <1>2
  <2> SUFFICES ASSUME NEW p \in Procs, Waits(p)
               PROVE  \E q \in Procs : pc[q] # "idle" /\ ~Waits(q)
    BY DEF NoWaitCycle
  <2>1. CASE p \in InTx
    BY <2>1, LinkWait
  <2>2. CASE p \notin InTx
    <3>1. \E q \in InTx : TRUE
      BY <2>2 DEF Waits, CodeLocked, InTx
    <3>2. PICK q \in InTx : TRUE
      BY <3>1
    <3>3. q \in Procs /\ pc[q] # "idle"
      BY DEF InTx
    <3> QED BY <3>3, LinkWait
  <2> QED BY <2>1, <2>2
<1> QED BY <1>1, <1>2, RowsStep, Invariance, PTL DEF Spec
=============================================================================
