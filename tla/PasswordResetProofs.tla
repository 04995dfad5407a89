------------------------- MODULE PasswordResetProofs -------------------------
(***************************************************************************)
(* Theorems about PasswordReset, for any number of requests and codes and  *)
(* any cooldown, lifetime and number of attempts.                          *)
(***************************************************************************)
EXTENDS PasswordReset, FiniteSetTheorems, TLAPS

\* Requests that hold the address, and those that have held it for less than
\* the cooldown.
Holding == {p \in Procs : pc[p] \in {"delete", "insert", "send"}}
Timely == {p \in Holding : now - loc[p].now < Cooldown}

PastClocks == \A p \in Procs : loc[p].now <= now

\* The guard's entry is that of the one timely holder.
Guard == \A p \in Timely : last = loc[p].now /\ \A q \in Timely : q = p

\* What a request that has deleted and not yet inserted will find.
Cleared ==
    \A p \in Procs : pc[p] = "insert" =>
        \A c \in Unused : /\ p \in Timely => code[c].created < loc[p].now
                          /\ c \notin late => loc[p].now < code[c].created

\* A code lets nobody in any more, or a failed mark left it usable.
Gone(c) == code[c].state \in {"used", "deleted"} \/ c \in unmarked

\* A confirm works on a code that has been made; one that was marked, or told
\* to be used up, is gone.
KnownCodes ==
    /\ \A p \in Procs :
         /\ pc[p] \in {"fail", "password", "mark", "sessions", "send"} =>
              loc[p].code \in Codes /\ code[loc[p].code].state # "none"
         /\ pc[p] = "sessions" => Gone(loc[p].code)
    /\ \A c \in spent : Gone(c)

\* Confirms that compared a wrong guess with the code and have not counted it.
Pending(c) == {p \in Procs : pc[p] = "fail" /\ loc[p].code = c}

\* While a code can be used its counter has every guess that was answered;
\* when it goes, only guesses already compared are still to be answered.
Counted ==
    \A c \in Codes :
        /\ code[c].state = "none" => told[c] = 0
        /\ c \in Unused => told[c] = code[c].attempts /\ told[c] < MaxAttempts
        /\ code[c].state \in {"used", "deleted"} =>
             told[c] + Cardinality(Pending(c)) <= MaxAttempts + Cardinality(Procs) - 1

IInv == /\ TypeOK /\ PastClocks /\ Guard /\ Cleared /\ TimelyCodeWins
        /\ KnownCodes /\ Counted /\ OldSessionsEnd

Step(p) == Request(p) \/ Confirm(p) \/ Login(p)

----------------------------------------------------------------------------
\* No code was made, nobody is logged in and no request has begun.
LEMMA InvInit == ASSUME Init PROVE IInv
<1> USE ResetAssumption DEF Init
<1>1. TypeOK
  BY DEF TypeOK, Row, Loc, NoLoc, PCs, Absent
<1>2. PastClocks /\ Guard /\ Cleared /\ TimelyCodeWins /\ KnownCodes /\ OldSessionsEnd
  BY DEF PastClocks, Guard, Cleared, TimelyCodeWins, KnownCodes, OldSessionsEnd,
         Holding, Timely, Unused, NoLoc
<1>3. Counted
  BY DEF Counted, Unused
<1> QED BY <1>1, <1>2, <1>3 DEF IInv

\* A request moves nothing of another request.
LEMMA Frame ==
    ASSUME TypeOK, NEW p \in Procs, Step(p)
    PROVE  /\ now' = now /\ crashes' = crashes
           /\ \A q \in Procs \ {p} : pc'[q] = pc[q] /\ loc'[q] = loc[q]
           /\ pc'[p] \in PCs
  BY DEF TypeOK, PCs, Step, Request, Confirm, Login, RequestBegin, RequestReserve,
         RequestSkip, RequestDelete, RequestInsert, RequestFail, RequestSend,
         ConfirmMatch, ConfirmMismatch, CountGuess, ConfirmFail, ConfirmLost, ConfirmPassword,
         ConfirmMark, ConfirmSessions, LoginRead, LoginSession, Goto, Answer, Told

\* What a request does to its own memory.
LEMMA Memory ==
    ASSUME TypeOK, NEW p \in Procs, Step(p)
    PROVE  /\ loc' \in [Procs -> Loc]
           /\ loc'[p].now \in {loc[p].now, now, 0}
  <1>1. CASE RequestBegin(p)
    BY <1>1 DEF TypeOK, Loc, RequestBegin
  <1>2. CASE LoginRead(p)
    BY <1>2 DEF TypeOK, Loc, LoginRead
  <1>3. CASE RequestInsert(p) \/ ConfirmMatch(p) \/ ConfirmMismatch(p)
    <2>1. PICK c \in Codes : loc' = [loc EXCEPT ![p].code = c]
      BY <1>3 DEF RequestInsert, ConfirmMatch, ConfirmMismatch, Current, Latest, Unused
    <2> QED BY <2>1 DEF TypeOK, Loc
  <1>4. CASE Answer(p)
    BY <1>4 DEF TypeOK, Loc, NoLoc, Answer
  <1>5. CASE loc' = loc
    BY <1>5 DEF TypeOK, Loc
  <1> QED
    BY <1>1, <1>2, <1>3, <1>4, <1>5
    DEF Step, Request, Confirm, Login, RequestReserve, RequestSkip, RequestDelete,
        RequestFail, RequestSend, CountGuess, ConfirmFail, ConfirmLost, ConfirmPassword,
        ConfirmMark, ConfirmSessions, LoginSession, Told

\* A request leaves every variable in its type.
LEMMA TypeStep ==
    ASSUME IInv, NEW p \in Procs, Step(p)
    PROVE  TypeOK'
<1> USE DEF IInv
<1>1. /\ pc' \in [Procs -> PCs] /\ loc' \in [Procs -> Loc]
      /\ now' \in Nat /\ crashes' \in Nat
  BY Frame, Memory
  DEF TypeOK, PCs, Step, Request, Confirm, Login, RequestBegin, RequestReserve,
      RequestSkip, RequestDelete, RequestInsert, RequestFail, RequestSend,
      ConfirmMatch, ConfirmMismatch, CountGuess, ConfirmFail, ConfirmLost, ConfirmPassword,
      ConfirmMark, ConfirmSessions, LoginRead, LoginSession, Goto, Answer, Told
<1>2. last' \in Nat \cup {Absent}
  BY DEF TypeOK, Loc, Released, Step, Request, Confirm, Login, RequestBegin,
      RequestReserve, RequestSkip, RequestDelete, RequestInsert, RequestFail,
      RequestSend, ConfirmMatch, ConfirmMismatch, CountGuess, ConfirmFail,
      ConfirmLost, ConfirmPassword, ConfirmMark, ConfirmSessions, LoginRead, LoginSession
<1>3. code' \in [Codes -> Row] /\ told' \in [Codes -> Nat] /\ late' \subseteq Codes
      /\ spent' \subseteq Codes /\ unmarked' \subseteq Codes
  <2>1. CASE RequestDelete(p)
    <3>1. \A c \in Codes : [code[c] EXCEPT !.state = "deleted"] \in Row
      BY DEF TypeOK, Row
    <3> QED BY <2>1, <3>1 DEF TypeOK, RequestDelete, hist
  <2>2. CASE RequestInsert(p)
    <3>1. PICK c \in Codes :
            /\ code' = [code EXCEPT ![c] =
                  [state |-> "unused", created |-> loc[p].now, attempts |-> 0]]
            /\ late' = late \cup {d \in {c} : now - loc[p].now >= Cooldown}
      BY <2>2 DEF RequestInsert
    <3>2. [state |-> "unused", created |-> loc[p].now, attempts |-> 0] \in Row
      BY ResetAssumption DEF TypeOK, Row, Loc
    <3> QED BY <2>2, <3>1, <3>2 DEF TypeOK, RequestInsert
  <2>3. CASE CountGuess(p)
    <3> DEFINE c == loc[p].code
               n == code[c].attempts + 1
    <3>1. c \in Codes /\ (c \in Unused => code[c].attempts < MaxAttempts)
      BY <2>3 DEF CountGuess, KnownCodes, Counted, Unused
    <3>2. c \in Unused => [code[c] EXCEPT !.attempts = n,
                    !.state = IF n >= MaxAttempts THEN "used" ELSE "unused"] \in Row
      <4>1. c \in Unused => n \in 0 .. MaxAttempts /\ code[c] \in Row
        BY <3>1, ResetAssumption DEF TypeOK, Row
      <4>2. ASSUME NEW r \in Row, NEW m \in 0 .. MaxAttempts,
                   NEW st \in {"used", "unused"}
            PROVE  [r EXCEPT !.attempts = m, !.state = st] \in Row
        BY DEF Row
      <4> HIDE DEF n
      <4> QED BY <4>1, <4>2
    <3>3. code' = [code EXCEPT ![c] =
              IF c \notin Unused THEN code[c]
              ELSE [code[c] EXCEPT !.attempts = n,
                      !.state = IF n >= MaxAttempts THEN "used" ELSE "unused"]]
          /\ told' = [told EXCEPT ![c] = @ + 1] /\ late' = late /\ unmarked' = unmarked
          /\ spent' = spent \cup {d \in {c} : c \in Unused /\ n >= MaxAttempts}
      BY <2>3 DEF CountGuess
    <3> HIDE DEF c, n
    <3> QED BY <3>1, <3>2, <3>3 DEF TypeOK
  <2>4. CASE ConfirmMark(p)
    <3>1. loc[p].code \in Codes
      BY <2>4 DEF ConfirmMark, KnownCodes
    <3>2. \A c \in Codes : [code[c] EXCEPT !.state = "used"] \in Row
      BY DEF TypeOK, Row
    <3> QED BY <2>4, <3>1, <3>2 DEF TypeOK, ConfirmMark, hist
  <2>5. CASE ConfirmSessions(p)
    BY <2>5 DEF TypeOK, ConfirmSessions, Told, KnownCodes
  <2>6. CASE UNCHANGED <<code, told, late, spent, unmarked>>
    BY <2>6 DEF TypeOK
  <2> QED
    BY <2>1, <2>2, <2>3, <2>4, <2>5, <2>6
    DEF Step, Request, Confirm, Login, RequestBegin, RequestReserve, RequestSkip,
        RequestFail, RequestSend, ConfirmMatch, ConfirmMismatch, ConfirmFail,
        ConfirmLost, ConfirmPassword, LoginRead, LoginSession, store, hist
<1>4. password' \in Nat /\ sessions' \subseteq Nat /\ kept' \subseteq Nat
  BY DEF TypeOK, Loc, Step, Request, Confirm, Login, RequestBegin, RequestReserve,
      RequestSkip, RequestDelete, RequestInsert, RequestFail, RequestSend,
      ConfirmMatch, ConfirmMismatch, CountGuess, ConfirmFail, ConfirmLost, ConfirmPassword,
      ConfirmMark, ConfirmSessions, LoginRead, LoginSession, store, hist
<1> QED BY <1>1, <1>2, <1>3, <1>4 DEF TypeOK

----------------------------------------------------------------------------
\* A step of a request that is not asking for a code: codes are only taken away.
LEMMA GuardElsewhere ==
    ASSUME IInv, NEW p \in Procs, TypeOK',
           pc[p] \notin {"delete", "insert", "send"},
           pc'[p] \notin {"delete", "insert", "send"},
           now' = now, last' = last, late' = late,
           \A q \in Procs \ {p} : pc'[q] = pc[q] /\ loc'[q] = loc[q],
           loc'[p].now <= now,
           Unused' \subseteq Unused,
           \A c \in Codes : code'[c].created = code[c].created
    PROVE  PastClocks' /\ Guard' /\ Cleared' /\ TimelyCodeWins'
<1> USE DEF IInv
<1>1. Holding' = Holding /\ Timely' = Timely /\ p \notin Holding
  BY DEF Holding, Timely
<1>2. \A c \in Unused' : c \in Unused /\ c \in Codes
  BY DEF Unused
<1> QED
  BY <1>1, <1>2 DEF PastClocks, Guard, Cleared, TimelyCodeWins, Holding, Timely

\* A request for a code: the guard lets one timely holder in.
LEMMA GuardRequest ==
    ASSUME IInv, NEW p \in Procs, Request(p), TypeOK'
    PROVE  PastClocks' /\ Guard' /\ Cleared' /\ TimelyCodeWins'
<1> USE DEF IInv
<1>f. /\ now' = now /\ now \in Nat /\ Cooldown \in Nat \ {0}
      /\ \A q \in Procs \ {p} : pc'[q] = pc[q] /\ loc'[q] = loc[q]
      /\ \A q \in Procs : loc[q].now \in Nat
      /\ loc'[p].now \in {loc[p].now, now, 0}
  BY Frame, Memory, ResetAssumption DEF Step, TypeOK, Loc
<1>t. PastClocks'
  BY <1>f DEF PastClocks
<1>1. CASE RequestBegin(p) \/ RequestSkip(p)
  <2>1. pc[p] \in {"idle", "reserve"} /\ pc'[p] \in {"idle", "reserve"}
        /\ UNCHANGED <<last, late, code>>
    BY <1>1 DEF RequestBegin, RequestSkip, Goto, Answer, TypeOK, store, hist
  <2> QED BY <1>f, <1>t, <2>1, GuardElsewhere DEF PastClocks, Unused
<1>2. CASE RequestReserve(p)
  <2>1. /\ pc[p] = "reserve" /\ pc'[p] = "delete" /\ loc' = loc /\ last' = loc[p].now
        /\ last = Absent \/ loc[p].now - last >= Cooldown
        /\ UNCHANGED <<code, late>>
    BY <1>2 DEF RequestReserve, Goto, TypeOK, store, hist
  <2>2. Timely = {}
    <3>1. ASSUME NEW q \in Timely PROVE FALSE
      <4>1. q \in Procs /\ last = loc[q].now /\ now - loc[q].now < Cooldown
        BY DEF Guard, Timely, Holding
      <4>2. loc[p].now - loc[q].now >= Cooldown
        BY <1>f, <2>1, <4>1 DEF Absent
      <4> QED BY <1>f, <4>1, <4>2 DEF PastClocks
    <3> QED BY <3>1
  <2>3. Timely' \subseteq {p}
    BY <1>f, <2>1, <2>2 DEF Timely, Holding
  <2>4. Guard'
    BY <2>1, <2>3 DEF Guard
  <2>5. \A q \in Procs : pc'[q] = "insert" => pc[q] = "insert" /\ q # p
    BY <1>f, <2>1
  <2>6. Cleared'
    BY <2>1, <2>3, <2>5 DEF Cleared, Unused
  <2> QED BY <1>t, <2>1, <2>4, <2>6 DEF TimelyCodeWins, Unused
<1>3. CASE RequestDelete(p)
  <2>1. /\ pc[p] = "delete" /\ pc'[p] = "insert" /\ loc' = loc
        /\ UNCHANGED <<last, late>>
    BY <1>3 DEF RequestDelete, Goto, TypeOK, hist
  <2>2. Unused' = {}
    BY <1>3 DEF RequestDelete, Unused, TypeOK, Row
  <2>3. Timely' = Timely
    BY <1>f, <2>1 DEF Timely, Holding
  <2> QED BY <1>t, <2>1, <2>2, <2>3 DEF Guard, Cleared, TimelyCodeWins
<1>4. CASE RequestInsert(p)
  <2>1. PICK c \in Codes :
          /\ code[c].state = "none"
          /\ code' = [code EXCEPT ![c] =
                [state |-> "unused", created |-> loc[p].now, attempts |-> 0]]
          /\ loc' = [loc EXCEPT ![p].code = c]
          /\ late' = late \cup {d \in {c} : now - loc[p].now >= Cooldown}
    BY <1>4 DEF RequestInsert
  <2>2. pc[p] = "insert" /\ pc'[p] = "send" /\ last' = last
    BY <1>4 DEF RequestInsert, Goto, TypeOK
  <2>3. \A q \in Procs : loc'[q].now = loc[q].now
    BY <2>1 DEF TypeOK, Loc
  <2>4. Timely' = Timely /\ (p \in Timely <=> now - loc[p].now < Cooldown)
    BY <1>f, <2>2, <2>3 DEF Timely, Holding
  <2>5. /\ code'[c].created = loc[p].now /\ c \notin Unused
        /\ \A d \in Codes \ {c} : code'[d] = code[d]
        /\ Unused' = Unused \cup {c}
        /\ \A d \in Unused : d # c /\ code'[d].created = code[d].created
    BY <2>1 DEF Unused, TypeOK
  <2>6. \A d \in Unused : code[d].created \in Nat
    BY DEF Unused, TypeOK, Row
  <2>7. /\ p \in Timely => c \notin late' \/ c \in late
        /\ p \notin Timely => c \in late'
        /\ \A d \in Codes \ {c} : d \in late' <=> d \in late
    BY <1>f, <2>1, <2>4 DEF TypeOK
  <2>8. ASSUME NEW q \in Procs, pc'[q] = "insert", NEW d \in Unused'
        PROVE  /\ q \in Timely' => code'[d].created < loc'[q].now
               /\ d \notin late' => loc'[q].now < code'[d].created
    <3>1. pc[q] = "insert" /\ q # p /\ loc'[q].now = loc[q].now
      BY <1>f, <2>2, <2>3, <2>8
    <3>2. q \in Holding /\ p \in Holding
      BY <2>2, <3>1 DEF Holding
    <3>3. CASE d \in Unused
      BY <2>4, <2>5, <2>7, <3>1, <3>3 DEF Cleared, Unused
    <3>4. CASE d = c
      <4>1. q \in Timely => p \notin Timely
        BY <3>1 DEF Guard
      <4>2. q \in Timely => now - loc[q].now < Cooldown
        BY DEF Timely
      <4>3. q \notin Timely => ~(now - loc[q].now < Cooldown)
        BY <3>2 DEF Timely
      <4>4. q \in Timely => loc[p].now < loc[q].now
        BY <1>f, <2>4, <4>1, <4>2
      <4>5. p \in Timely => loc[q].now < loc[p].now
        BY <1>f, <2>4, <4>1, <4>3
      <4> QED BY <2>4, <2>5, <2>7, <3>1, <3>4, <4>4, <4>5
    <3> QED BY <2>5, <3>3, <3>4
  <2>9. TimelyCodeWins'
    <3>1. ASSUME NEW a \in Unused' \ late', NEW b \in Unused' \ {a}
          PROVE  code'[b].created < code'[a].created
      <4>1. CASE a = c
        BY <2>2, <2>5, <2>7, <3>1, <4>1 DEF Cleared
      <4>2. CASE a # c /\ b = c
        BY <2>2, <2>5, <2>7, <3>1, <4>2 DEF Cleared, Unused
      <4>3. CASE a # c /\ b # c
        BY <2>5, <2>7, <3>1, <4>3 DEF TimelyCodeWins, Unused
      <4> QED BY <4>1, <4>2, <4>3
    <3> QED BY <3>1 DEF TimelyCodeWins
  <2>10. Guard'
    BY <2>2, <2>3, <2>4 DEF Guard, Timely, Holding
  <2>11. Cleared'
    BY <2>8 DEF Cleared
  <2> QED BY <1>t, <2>9, <2>10, <2>11
<1>5. CASE RequestFail(p) \/ RequestSend(p)
  <2>1. /\ pc[p] \in {"delete", "insert", "send"} /\ pc'[p] = "idle"
        /\ last' = Released(p) /\ UNCHANGED <<code, late>>
    BY <1>5 DEF RequestFail, RequestSend, Answer, Goto, TypeOK, store, hist
  <2>2. Timely' = Timely \ {p}
    BY <1>f, <2>1 DEF Timely, Holding
  <2>3. \A q \in Timely' : loc'[q].now = loc[q].now /\ last' = last
    <3>1. ASSUME NEW q \in Timely' PROVE loc'[q].now = loc[q].now /\ last' = last
      <4>1. q \in Timely /\ q # p /\ q \in Procs /\ p \in Holding
        BY <2>1, <2>2 DEF Timely, Holding
      <4>2. p \notin Timely
        BY <4>1 DEF Guard
      <4>3. loc[p].now # loc[q].now
        BY <4>1, <4>2 DEF Timely
      <4> QED BY <1>f, <2>1, <4>1, <4>3 DEF Guard, Released
    <3> QED BY <3>1
  <2>4. Guard'
    BY <2>2, <2>3 DEF Guard
  <2>5. Cleared'
    BY <1>f, <2>1, <2>2 DEF Cleared, Unused
  <2> QED BY <1>t, <2>1, <2>4, <2>5 DEF TimelyCodeWins, Unused
<1> QED BY <1>1, <1>2, <1>3, <1>4, <1>5 DEF Request

\* Confirms and logins leave the guard alone.
LEMMA GuardConfirm ==
    ASSUME IInv, NEW p \in Procs, Confirm(p) \/ Login(p), TypeOK'
    PROVE  PastClocks' /\ Guard' /\ Cleared' /\ TimelyCodeWins'
<1> USE DEF IInv
<1>1. loc'[p].now <= now
  <2>1. loc'[p].now \in {loc[p].now, now, 0}
    BY Memory DEF Step
  <2>2. now \in Nat /\ loc[p].now <= now
    BY DEF TypeOK, PastClocks
  <2> QED BY <2>1, <2>2
<1>2. /\ pc[p] \notin {"delete", "insert", "send"}
      /\ pc'[p] \notin {"delete", "insert", "send"}
      /\ last' = last /\ late' = late
  BY DEF TypeOK, Confirm, Login, ConfirmMatch, ConfirmMismatch, CountGuess, ConfirmFail,
         ConfirmLost, ConfirmPassword, ConfirmMark, ConfirmSessions, LoginRead, LoginSession, Goto,
         Answer, Told, hist
<1>3. Unused' \subseteq Unused /\ \A c \in Codes : code'[c].created = code[c].created
  <2>1. CASE CountGuess(p)
    <3> DEFINE c == loc[p].code
               n == code[c].attempts + 1
               s == IF n >= MaxAttempts THEN "used" ELSE "unused"
    <3>1. /\ c \in Codes
          /\ code' = [code EXCEPT ![c] =
                IF c \notin Unused THEN code[c]
                ELSE [code[c] EXCEPT !.attempts = n, !.state = s]]
      BY <2>1 DEF CountGuess, KnownCodes
    <3>2. [code[c] EXCEPT !.attempts = n, !.state = s].created = code[c].created
      BY <3>1 DEF TypeOK, Row
    <3> HIDE DEF c, n, s
    <3> QED BY <3>1, <3>2 DEF TypeOK, Unused
  <2>2. CASE ConfirmMark(p)
    <3>1. \A c \in Codes : /\ [code[c] EXCEPT !.state = "used"].created = code[c].created
                           /\ [code[c] EXCEPT !.state = "used"].state = "used"
      BY DEF TypeOK, Row
    <3>2. loc[p].code \in Codes
      BY <2>2 DEF ConfirmMark, KnownCodes
    <3>3. \/ code' = code
          \/ code' = [code EXCEPT ![loc[p].code] =
                        [code[loc[p].code] EXCEPT !.state = "used"]]
      BY <2>2 DEF ConfirmMark, TypeOK
    <3>4. CASE code' = code
      BY <3>4 DEF Unused
    <3>5. CASE code' = [code EXCEPT ![loc[p].code] =
                          [code[loc[p].code] EXCEPT !.state = "used"]]
      BY <3>1, <3>2, <3>5 DEF Unused, TypeOK
    <3> QED BY <3>3, <3>4, <3>5
  <2>3. CASE code' = code
    BY <2>3 DEF Unused
  <2> QED
    BY <2>1, <2>2, <2>3
    DEF Confirm, Login, ConfirmMatch, ConfirmMismatch, ConfirmFail, ConfirmLost, ConfirmPassword,
        ConfirmSessions, LoginRead, LoginSession, store
<1> QED BY <1>1, <1>2, <1>3, Frame, GuardElsewhere DEF Step

----------------------------------------------------------------------------
\* What becomes of a row of password_resets in a step of a request.
LEMMA RowMoves ==
    ASSUME IInv, NEW p \in Procs, Step(p), NEW c \in Codes
    PROVE  \/ code'[c] = code[c]
           \/ /\ pc[p] = "insert" /\ pc'[p] = "send" /\ loc'[p].code = c
              /\ code[c].state = "none" /\ code'[c].state = "unused"
              /\ code'[c].attempts = 0
           \/ /\ pc[p] = "delete" /\ code[c].state = "unused"
              /\ code'[c].state = "deleted"
           \/ /\ pc[p] = "fail" /\ loc[p].code = c /\ code[c].state = "unused"
              /\ code'[c].attempts = code[c].attempts + 1
              /\ code'[c].state =
                   IF code[c].attempts + 1 >= MaxAttempts THEN "used" ELSE "unused"
           \/ /\ pc[p] = "mark" /\ code[c].state = "unused" /\ code'[c].state = "used"
<1> USE DEF IInv
<1>1. CASE RequestDelete(p)
  <2>1. [code[c] EXCEPT !.state = "deleted"].state = "deleted"
    BY DEF TypeOK, Row
  <2> QED BY <1>1, <2>1 DEF RequestDelete, Unused
<1>2. CASE RequestInsert(p)
  <2>1. PICK d \in Codes :
          /\ code[d].state = "none"
          /\ code' = [code EXCEPT ![d] =
                [state |-> "unused", created |-> loc[p].now, attempts |-> 0]]
          /\ loc' = [loc EXCEPT ![p].code = d]
    BY <1>2 DEF RequestInsert
  <2>2. pc[p] = "insert" /\ pc'[p] = "send"
    BY <1>2 DEF RequestInsert, Goto, TypeOK
  <2> QED BY <2>1, <2>2 DEF TypeOK, Loc
<1>3. CASE CountGuess(p)
  <2> DEFINE d == loc[p].code
             n == code[d].attempts + 1
             s == IF n >= MaxAttempts THEN "used" ELSE "unused"
  <2>1. /\ d \in Codes /\ pc[p] = "fail"
        /\ code' = [code EXCEPT ![d] =
              IF d \notin Unused THEN code[d]
              ELSE [code[d] EXCEPT !.attempts = n, !.state = s]]
    BY <1>3 DEF CountGuess, KnownCodes
  <2>2. /\ [code[d] EXCEPT !.attempts = n, !.state = s].attempts = n
        /\ [code[d] EXCEPT !.attempts = n, !.state = s].state = s
    BY <2>1 DEF TypeOK, Row
  <2>3. c # d => code'[c] = code[c]
    BY <2>1 DEF TypeOK
  <2>4. code'[d] = IF d \notin Unused THEN code[d]
                   ELSE [code[d] EXCEPT !.attempts = n, !.state = s]
    BY <2>1 DEF TypeOK
  <2> HIDE DEF n, s
  <2>5. c = d => \/ code'[c] = code[c]
                 \/ code[c].state = "unused" /\ code'[c].attempts = n /\ code'[c].state = s
    BY <2>2, <2>4 DEF Unused
  <2> QED BY <2>1, <2>3, <2>5 DEF n, s
<1>4. CASE ConfirmMark(p)
  <2>1. [code[c] EXCEPT !.state = "used"].state = "used"
    BY DEF TypeOK, Row
  <2> QED BY <1>4, <2>1 DEF ConfirmMark, KnownCodes, TypeOK
<1>5. CASE code' = code
  BY <1>5
<1> QED
  BY <1>1, <1>2, <1>3, <1>4, <1>5
  DEF Step, Request, Confirm, Login, RequestBegin, RequestReserve, RequestSkip,
      RequestFail, RequestSend, ConfirmMatch, ConfirmMismatch, ConfirmFail,
      ConfirmLost, ConfirmPassword, ConfirmSessions, LoginRead, LoginSession, store

\* Where a request goes, and with which code.
LEMMA PcMoves ==
    ASSUME IInv, NEW p \in Procs, Step(p)
    PROVE  \/ pc'[p] \in {"idle", "reserve", "delete", "insert", "login"}
           \/ pc'[p] = "send" /\ RequestInsert(p)
           \/ /\ pc[p] = "idle" /\ pc'[p] \in {"fail", "password"}
              /\ loc'[p].code \in Unused /\ UNCHANGED <<code, told>>
              /\ pc'[p] = "password" => ConfirmMatch(p)
           \/ /\ pc[p] \in {"password", "mark"} /\ loc'[p].code = loc[p].code
              /\ pc'[p] \in {"mark", "sessions"}
              /\ pc'[p] = "sessions" =>
                   code'[loc[p].code].state # "unused" \/ loc[p].code \in unmarked'
<1> USE DEF IInv
<1>1. CASE RequestInsert(p)
  BY <1>1 DEF RequestInsert, Goto, TypeOK
<1>2. CASE ConfirmMatch(p) \/ ConfirmMismatch(p)
  <2>1. PICK c \in Unused : loc' = [loc EXCEPT ![p].code = c]
    BY <1>2 DEF ConfirmMatch, ConfirmMismatch, Current, Latest
  <2>2. pc[p] = "idle" /\ pc'[p] \in {"fail", "password"} /\ UNCHANGED <<code, told>>
        /\ (pc'[p] = "password" => ConfirmMatch(p))
    BY <1>2 DEF ConfirmMatch, ConfirmMismatch, Goto, TypeOK, store, hist
  <2> QED BY <2>1, <2>2 DEF TypeOK, Loc
<1>3. CASE ConfirmPassword(p)
  BY <1>3 DEF ConfirmPassword, Goto, TypeOK
<1>4. CASE ConfirmMark(p)
  <2>1. loc[p].code \in Codes /\ loc' = loc /\ pc[p] = "mark"
    BY <1>4 DEF ConfirmMark, KnownCodes
  <2>2. [code[loc[p].code] EXCEPT !.state = "used"].state = "used"
    BY <2>1 DEF TypeOK, Row
  <2>3. pc'[p] = "sessions"
    BY <1>4 DEF ConfirmMark, Goto, TypeOK
  <2>4. code'[loc[p].code].state # "unused" \/ loc[p].code \in unmarked'
    BY <1>4, <2>1, <2>2 DEF ConfirmMark, TypeOK, Unused
  <2> QED BY <2>1, <2>3, <2>4
<1>5. CASE \/ RequestBegin(p) \/ RequestReserve(p) \/ RequestSkip(p) \/ RequestDelete(p)
           \/ RequestFail(p) \/ RequestSend(p) \/ CountGuess(p) \/ ConfirmFail(p)
           \/ ConfirmLost(p) \/ ConfirmSessions(p) \/ LoginRead(p) \/ LoginSession(p)
  BY <1>5 DEF TypeOK, RequestBegin, RequestReserve, RequestSkip, RequestDelete,
              RequestFail, RequestSend, CountGuess, ConfirmFail, ConfirmLost, ConfirmSessions,
              LoginRead, LoginSession, Goto, Answer, Told
<1> QED BY <1>1, <1>2, <1>3, <1>4, <1>5 DEF Step, Request, Confirm, Login

\* A code that is no longer unused never is again, and the failures of marks are
\* remembered.
LEMMA GoneStays ==
    ASSUME IInv, NEW p \in Procs, Step(p), NEW c \in Codes
    PROVE  /\ code[c].state # "none" => code'[c].state # "none"
           /\ code[c].state \in {"used", "deleted"} =>
                code'[c].state \in {"used", "deleted"}
           /\ unmarked \subseteq unmarked'
           /\ Gone(c) => Gone(c)'
<1>1. unmarked \subseteq unmarked'
  BY DEF Step, Request, Confirm, Login, RequestBegin, RequestReserve, RequestSkip,
         RequestDelete, RequestInsert, RequestFail, RequestSend, ConfirmMatch,
         ConfirmMismatch, CountGuess, ConfirmFail, ConfirmLost, ConfirmPassword,
         ConfirmMark, ConfirmSessions, LoginRead, LoginSession, hist
<1> QED BY <1>1, RowMoves DEF Gone

\* Every confirm still knows its code, and what was told to be used up is gone.
LEMMA KnownStep ==
    ASSUME IInv, NEW p \in Procs, Step(p), TypeOK'
    PROVE  KnownCodes'
<1> USE DEF IInv
<1> DEFINE With == {"fail", "password", "mark", "sessions", "send"}
<1>f. \A q \in Procs \ {p} : pc'[q] = pc[q] /\ loc'[q] = loc[q]
  BY Frame
<1>1. ASSUME NEW q \in Procs, pc'[q] \in With
      PROVE  /\ loc'[q].code \in Codes /\ code'[loc'[q].code].state # "none"
             /\ pc'[q] = "sessions" =>
                  \/ code'[loc'[q].code].state \in {"used", "deleted"}
                  \/ loc'[q].code \in unmarked'
  <2>1. CASE q # p
    BY <1>f, <1>1, <2>1, GoneStays DEF KnownCodes, Gone
  <2>2. CASE q = p /\ RequestInsert(p)
    <3>1. PICK c \in Codes :
            /\ code' = [code EXCEPT ![c] =
                  [state |-> "unused", created |-> loc[p].now, attempts |-> 0]]
            /\ loc' = [loc EXCEPT ![p].code = c]
      BY <2>2 DEF RequestInsert
    <3>2. pc'[p] = "send"
      BY <2>2 DEF RequestInsert, Goto, TypeOK
    <3> QED BY <2>2, <3>1, <3>2 DEF TypeOK, Loc
  <2>3. CASE q = p /\ pc[p] = "idle" /\ loc'[p].code \in Unused /\ UNCHANGED code
             /\ pc'[p] \in {"fail", "password"}
    BY <2>3 DEF Unused
  <2>4. CASE q = p /\ pc[p] \in {"password", "mark"} /\ loc'[p].code = loc[p].code
             /\ (pc'[p] = "sessions" =>
                   code'[loc[p].code].state # "unused" \/ loc[p].code \in unmarked')
    <3>1. loc[p].code \in Codes /\ code[loc[p].code].state # "none"
      BY <2>4 DEF KnownCodes
    <3>2. code'[loc[p].code].state # "none"
      BY <3>1, GoneStays
    <3> QED BY <2>4, <3>1, <3>2 DEF TypeOK, Row
  <2> QED BY <1>1, <2>1, <2>2, <2>3, <2>4, PcMoves
<1>2. \A c \in spent' : Gone(c)'
  <2>1. CASE ConfirmSessions(p)
    <3>1. code' = code /\ unmarked' = unmarked
      BY <2>1 DEF ConfirmSessions
    <3>2. \A c \in spent' : c \in spent \/ (pc[p] = "sessions" /\ c = loc[p].code)
      BY <2>1 DEF ConfirmSessions, Told
    <3> QED BY <3>1, <3>2 DEF KnownCodes, Gone
  <2>2. CASE CountGuess(p)
    <3>1. ASSUME NEW c \in spent' \ spent PROVE code'[c].state \in {"used", "deleted"}
      <4>1. /\ c = loc[p].code /\ c \in Unused /\ pc[p] = "fail"
            /\ code[c].attempts + 1 >= MaxAttempts
        BY <2>2, <3>1 DEF CountGuess
      <4>2. code' = [code EXCEPT ![c] = [code[c] EXCEPT
                       !.attempts = code[c].attempts + 1, !.state = "used"]]
        BY <2>2, <4>1 DEF CountGuess
      <4> QED BY <4>1, <4>2 DEF TypeOK, Row, Unused
    <3> QED BY <3>1, GoneStays DEF KnownCodes, TypeOK, Gone
  <2>3. CASE spent' = spent
    BY <2>3, GoneStays DEF KnownCodes, TypeOK
  <2> QED
    BY <2>1, <2>2, <2>3
    DEF Step, Request, Confirm, Login, RequestBegin, RequestReserve, RequestSkip,
        RequestDelete, RequestInsert, RequestFail, RequestSend, ConfirmMatch,
        ConfirmMismatch, ConfirmFail, ConfirmLost, ConfirmPassword, ConfirmMark, LoginRead,
        LoginSession, hist
<1> QED BY <1>1, <1>2 DEF KnownCodes, Gone

----------------------------------------------------------------------------
\* Cardinality of a set of requests, of its subsets, and without one of them.
LEMMA Count ==
    ASSUME NEW S \in SUBSET Procs
    PROVE  /\ Cardinality(S) \in Nat /\ Cardinality(Procs) \in Nat
           /\ Cardinality(S) <= Cardinality(Procs)
           /\ \A p \in S : Cardinality(S \ {p}) = Cardinality(S) - 1
           /\ \A p \in Procs \ S : Cardinality(S) <= Cardinality(Procs) - 1
           /\ \A T \in SUBSET S : Cardinality(T) <= Cardinality(S)
<1>1. IsFiniteSet(Procs) /\ IsFiniteSet(S)
  BY ResetAssumption, FS_Subset
<1>2. Cardinality(S) \in Nat /\ Cardinality(Procs) \in Nat
  BY <1>1, FS_CardinalityType
<1>3. Cardinality(S) <= Cardinality(Procs)
  BY <1>1, FS_Subset
<1>4. \A p \in S : Cardinality(S \ {p}) = Cardinality(S) - 1
  BY <1>1, FS_RemoveElement
<1>5. ASSUME NEW p \in Procs \ S PROVE Cardinality(S) <= Cardinality(Procs) - 1
  <2>1. Cardinality(Procs \ {p}) = Cardinality(Procs) - 1
    BY <1>1, FS_RemoveElement
  <2>2. S \subseteq Procs \ {p} /\ IsFiniteSet(Procs \ {p})
    BY <1>1, FS_RemoveElement
  <2> QED BY <2>1, <2>2, FS_Subset
<1>6. ASSUME NEW T \in SUBSET S PROVE Cardinality(T) <= Cardinality(S)
  BY <1>1, FS_Subset
<1> QED BY <1>2, <1>3, <1>4, <1>5, <1>6

\* The part of Counted that is about the code c.
CountedAt(c) ==
    /\ code[c].state = "none" => told[c] = 0
    /\ c \in Unused => told[c] = code[c].attempts /\ told[c] < MaxAttempts
    /\ code[c].state \in {"used", "deleted"} =>
         told[c] + Cardinality(Pending(c)) <= MaxAttempts + Cardinality(Procs) - 1

\* A guess is counted, and told, for the code it was compared to.
LEMMA CountedGuess ==
    ASSUME IInv, NEW p \in Procs, CountGuess(p), TypeOK', NEW c \in Codes
    PROVE  CountedAt(c)'
<1> USE DEF IInv
<1>f. /\ \A q \in Procs \ {p} : pc'[q] = pc[q] /\ loc'[q] = loc[q]
      /\ pc[p] = "fail" /\ pc'[p] = "idle"
      /\ loc[p].code \in Codes /\ code[loc[p].code].state # "none"
      /\ told' = [told EXCEPT ![loc[p].code] = @ + 1]
  BY Frame DEF Step, Confirm, TypeOK, CountGuess, Answer, Goto, KnownCodes
<1>n. /\ MaxAttempts \in Nat \ {0} /\ told[c] \in Nat /\ Pending(c) \in SUBSET Procs
      /\ CountedAt(c)
  BY ResetAssumption DEF TypeOK, Pending, Counted, CountedAt
<1>p. Pending(c)' = Pending(c) \ {p}
  BY <1>f DEF Pending
<1>m. \/ code'[c] = code[c]
      \/ /\ loc[p].code = c /\ code[c].state = "unused"
         /\ code'[c].attempts = code[c].attempts + 1
         /\ code'[c].state = IF code[c].attempts + 1 >= MaxAttempts
                             THEN "used" ELSE "unused"
  BY <1>f, RowMoves DEF Step, Confirm
<1>1. CASE loc[p].code # c
  <2>1. Pending(c)' = Pending(c) /\ told'[c] = told[c] /\ code'[c] = code[c]
    BY <1>f, <1>p, <1>m, <1>1 DEF TypeOK, Pending
  <2> QED BY <1>n, <2>1 DEF CountedAt, Unused
<1>2. CASE loc[p].code = c /\ c \in Unused
  <2>1. p \in Pending(c) /\ told'[c] = told[c] + 1 /\ told[c] = code[c].attempts
        /\ told[c] < MaxAttempts
    BY <1>f, <1>n, <1>2 DEF Pending, TypeOK, CountedAt
  <2>2. Cardinality(Pending(c)') <= Cardinality(Procs) - 1
        /\ Cardinality(Pending(c)') \in Nat /\ Cardinality(Procs) \in Nat
    <3>1. Pending(c)' \in SUBSET Procs /\ p \in Procs \ Pending(c)'
      BY <1>p, <1>n
    <3> QED BY <3>1, Count
  <2>3. code'[c].attempts = code[c].attempts + 1
        /\ code'[c].state = IF told'[c] >= MaxAttempts THEN "used" ELSE "unused"
    <3>1. code' = [code EXCEPT ![c] = [code[c] EXCEPT !.attempts = code[c].attempts + 1,
             !.state = IF code[c].attempts + 1 >= MaxAttempts THEN "used" ELSE "unused"]]
      BY <1>2 DEF CountGuess
    <3> QED BY <2>1, <3>1 DEF TypeOK, Row
  <2>4. CASE told'[c] >= MaxAttempts
    BY <1>n, <2>1, <2>2, <2>3, <2>4 DEF CountedAt, Unused
  <2>5. CASE ~(told'[c] >= MaxAttempts)
    BY <1>n, <2>1, <2>2, <2>3, <2>5 DEF CountedAt, Unused
  <2> QED BY <2>4, <2>5
<1>3. CASE loc[p].code = c /\ c \notin Unused
  <2>1. /\ code'[c] = code[c] /\ told'[c] = told[c] + 1 /\ p \in Pending(c)
        /\ code[c].state \in {"used", "deleted"}
    BY <1>f, <1>m, <1>3 DEF TypeOK, Row, Pending, Unused
  <2>2. Cardinality(Pending(c)') = Cardinality(Pending(c)) - 1
        /\ Cardinality(Pending(c)) \in Nat /\ Cardinality(Procs) \in Nat
    BY <1>n, <1>p, <2>1, Count
  <2>3. told[c] + Cardinality(Pending(c)) <= MaxAttempts + Cardinality(Procs) - 1
    BY <1>n, <2>1 DEF CountedAt
  <2>4. told'[c] + Cardinality(Pending(c)') <= MaxAttempts + Cardinality(Procs) - 1
    BY <1>n, <2>1, <2>2, <2>3
  <2> QED BY <2>1, <2>4 DEF CountedAt, Unused
<1> QED BY <1>1, <1>2, <1>3

\* Any other step of a request tells nothing, and a code that goes leaves at
\* most the other requests with a guess to answer.
LEMMA CountedElse ==
    ASSUME IInv, NEW p \in Procs, Step(p), ~CountGuess(p), TypeOK', NEW c \in Codes
    PROVE  CountedAt(c)'
<1> USE DEF IInv
<1>f. /\ \A q \in Procs \ {p} : pc'[q] = pc[q] /\ loc'[q] = loc[q]
      /\ told' = told
  BY Frame
  DEF Step, Request, Confirm, Login, RequestBegin, RequestReserve, RequestSkip,
      RequestDelete, RequestInsert, RequestFail, RequestSend, ConfirmMatch,
      ConfirmMismatch, ConfirmFail, ConfirmLost, ConfirmPassword, ConfirmMark, ConfirmSessions,
      LoginRead, LoginSession, hist
<1>n. /\ MaxAttempts \in Nat \ {0} /\ told[c] \in Nat /\ Pending(c) \in SUBSET Procs
      /\ Pending(c)' \in SUBSET Procs /\ CountedAt(c)
  BY ResetAssumption DEF TypeOK, Pending, Counted, CountedAt
<1>p. \/ Pending(c)' \in SUBSET Pending(c)
      \/ c \in Unused /\ code' = code
  <2>1. CASE pc'[p] = "fail"
    <3>1. loc'[p].code \in Unused /\ code' = code
      BY <2>1, PcMoves DEF RequestInsert, Goto, TypeOK
    <3>2. loc'[p].code # c => Pending(c)' \in SUBSET Pending(c)
      BY <1>f DEF Pending
    <3> QED BY <3>1, <3>2
  <2>2. CASE pc'[p] # "fail"
    BY <1>f, <2>2 DEF Pending
  <2> QED BY <2>1, <2>2
<1>1. CASE code'[c] = code[c]
  <2>1. CASE c \in Unused
    BY <1>f, <1>n, <1>1, <2>1 DEF CountedAt, Unused
  <2>2. CASE c \notin Unused
    <3>1. Cardinality(Pending(c)') <= Cardinality(Pending(c))
          /\ Cardinality(Pending(c)') \in Nat /\ Cardinality(Pending(c)) \in Nat
          /\ Cardinality(Procs) \in Nat
      BY <1>n, <1>p, <2>2, Count
    <3>2. code[c].state \in {"used", "deleted"} =>
            told'[c] + Cardinality(Pending(c)') <= MaxAttempts + Cardinality(Procs) - 1
      BY <1>f, <1>n, <3>1 DEF CountedAt
    <3> QED BY <1>f, <1>n, <1>1, <2>2, <3>2 DEF CountedAt, Unused
  <2> QED BY <2>1, <2>2
<1>2. CASE /\ code[c].state = "none" /\ code'[c].state = "unused"
           /\ code'[c].attempts = 0
  BY <1>f, <1>n, <1>2 DEF CountedAt, Unused
<1>3. CASE /\ pc[p] \in {"delete", "mark"} /\ code[c].state = "unused"
           /\ code'[c].state \in {"used", "deleted"}
  <2>1. p \in Procs \ Pending(c) /\ code' # code
    BY <1>3 DEF Pending
  <2>2. Cardinality(Pending(c)') <= Cardinality(Pending(c))
        /\ Cardinality(Pending(c)) <= Cardinality(Procs) - 1
        /\ Cardinality(Pending(c)') \in Nat /\ Cardinality(Pending(c)) \in Nat
        /\ Cardinality(Procs) \in Nat
    BY <1>n, <1>p, <2>1, Count
  <2>3. told'[c] + Cardinality(Pending(c)') <= MaxAttempts + Cardinality(Procs) - 1
    BY <1>f, <1>n, <1>3, <2>2 DEF CountedAt, Unused
  <2> QED BY <1>3, <2>3 DEF CountedAt, Unused
<1>4. CASE pc[p] = "fail"
  <2>1. code' = code
    BY <1>4
    DEF Step, Request, Confirm, Login, RequestBegin, RequestReserve, RequestSkip,
        RequestDelete, RequestInsert, RequestFail, RequestSend, ConfirmMatch,
        ConfirmMismatch, ConfirmFail, ConfirmLost, ConfirmPassword, ConfirmMark, ConfirmSessions,
        LoginRead, LoginSession, store
  <2> QED BY <1>1, <2>1
<1> QED BY <1>1, <1>2, <1>3, <1>4, RowMoves

----------------------------------------------------------------------------
\* Old sessions are deleted, about to be, or accounted for.
LEMMA SessionsStep ==
    ASSUME IInv, NEW p \in Procs, Step(p), TypeOK'
    PROVE  OldSessionsEnd'
<1> USE DEF IInv
<1> DEFINE Ending == {"mark", "sessions"}
<1>f. \A q \in Procs \ {p} : pc'[q] = pc[q]
  BY Frame
<1>1. CASE ConfirmPassword(p)
  BY <1>1 DEF ConfirmPassword, Goto, TypeOK, OldSessionsEnd
<1>2. CASE ConfirmMark(p)
  <2>1. pc'[p] \in Ending /\ UNCHANGED <<sessions, kept, password>>
    BY <1>2 DEF ConfirmMark, Goto, TypeOK, hist
  <2> QED BY <2>1 DEF OldSessionsEnd
<1>3. CASE ConfirmSessions(p)
  BY <1>3 DEF ConfirmSessions, OldSessionsEnd
<1>4. CASE LoginSession(p)
  <2>1. pc[p] = "login" /\ password' = password
    BY <1>4 DEF LoginSession
  <2>2. sessions' \ kept' \subseteq (sessions \ kept) \cup {password}
    BY <1>4 DEF LoginSession
  <2> QED BY <1>f, <2>1, <2>2 DEF OldSessionsEnd
<1>5. CASE UNCHANGED <<sessions, kept, password>> /\ pc[p] \notin Ending
  BY <1>f, <1>5 DEF OldSessionsEnd
<1>6. CASE ConfirmLost(p)
  BY <1>6 DEF ConfirmLost, OldSessionsEnd
<1> QED
  BY <1>1, <1>2, <1>3, <1>4, <1>5, <1>6
  DEF Step, Request, Confirm, Login, RequestBegin, RequestReserve, RequestSkip,
      RequestDelete, RequestInsert, RequestFail, RequestSend, ConfirmMatch,
      ConfirmMismatch, CountGuess, ConfirmFail, LoginRead, store, hist

----------------------------------------------------------------------------
\* The clock moves on: no request gets more timely.
LEMMA TickStep == ASSUME IInv, Tick PROVE IInv'
<1> USE DEF IInv, Tick, store, hist
<1>1. TypeOK' /\ PastClocks'
  BY DEF TypeOK, PastClocks, Loc
<1>2. Timely' \subseteq Timely /\ Holding' = Holding
  BY ResetAssumption DEF Timely, Holding, TypeOK, Loc
<1>3. Guard' /\ Cleared' /\ TimelyCodeWins'
  BY <1>2 DEF Guard, Cleared, TimelyCodeWins, Unused
<1>4. KnownCodes' /\ Counted' /\ OldSessionsEnd'
  BY DEF KnownCodes, Counted, OldSessionsEnd, Unused, Pending, Gone
<1> QED BY <1>1, <1>3, <1>4

\* A session ends.
LEMMA EndStep == ASSUME IInv, NEW s \in sessions, SessionEnds(s) PROVE IInv'
<1> USE DEF IInv, SessionEnds, hist
<1>1. TypeOK' /\ PastClocks'
  BY DEF TypeOK, PastClocks
<1>2. Guard' /\ Cleared' /\ TimelyCodeWins' /\ KnownCodes' /\ Counted' /\ OldSessionsEnd'
  BY DEF Guard, Cleared, TimelyCodeWins, KnownCodes, Counted, OldSessionsEnd, Unused,
         Pending, Timely, Holding, Gone
<1> QED BY <1>1, <1>2

\* A restart: nobody holds the address, and no guess is waiting.
LEMMA CrashStep == ASSUME IInv, Crash PROVE IInv'
<1> USE DEF IInv, Crash, store
<1>1. TypeOK' /\ PastClocks'
  BY DEF TypeOK, PastClocks, PCs, Loc, NoLoc
<1>2. Holding' = {} /\ Timely' = {}
  BY DEF Holding, Timely
<1>3. Guard' /\ Cleared' /\ TimelyCodeWins' /\ KnownCodes' /\ OldSessionsEnd'
  BY <1>2 DEF Guard, Cleared, TimelyCodeWins, KnownCodes, OldSessionsEnd, Unused, Gone
<1>4. Counted'
  <2>1. ASSUME NEW c \in Codes PROVE CountedAt(c)'
    <3>1. /\ Pending(c) \in SUBSET Procs /\ Pending(c)' \in SUBSET Pending(c)
          /\ CountedAt(c) /\ told[c] \in Nat
      BY DEF Pending, Counted, CountedAt, TypeOK
    <3>2. Cardinality(Pending(c)') <= Cardinality(Pending(c))
          /\ Cardinality(Pending(c)') \in Nat /\ Cardinality(Pending(c)) \in Nat
          /\ Cardinality(Procs) \in Nat
      BY <3>1, Count
    <3> QED BY <3>1, <3>2, ResetAssumption DEF CountedAt, Unused
  <2> QED BY <2>1 DEF Counted, CountedAt
<1> QED BY <1>1, <1>3, <1>4

\* Every step keeps the invariant.
LEMMA InvStep == ASSUME IInv, [Next]_vars PROVE IInv'
<1>1. ASSUME NEW p \in Procs, Step(p) PROVE IInv'
  <2>1. TypeOK'
    BY <1>1, TypeStep
  <2>2. PastClocks' /\ Guard' /\ Cleared' /\ TimelyCodeWins'
    BY <1>1, <2>1, GuardRequest, GuardConfirm DEF Step
  <2>3. KnownCodes' /\ OldSessionsEnd'
    BY <1>1, <2>1, KnownStep, SessionsStep
  <2>4. \A c \in Codes : CountedAt(c)'
    BY <1>1, <2>1, CountedGuess, CountedElse
  <2>5. Counted'
    BY <2>4 DEF Counted, CountedAt
  <2> QED BY <2>1, <2>2, <2>3, <2>5 DEF IInv
<1>2. CASE UNCHANGED vars
  BY <1>2 DEF vars, store, hist, IInv, TypeOK, PastClocks, Guard, Cleared,
              TimelyCodeWins, KnownCodes, Counted, OldSessionsEnd, Unused, Pending,
              Timely, Holding, Gone
<1> QED BY <1>1, <1>2, TickStep, EndStep, CrashStep DEF Next, Step

\* The invariant holds in every run.
THEOREM Invariance == Spec => []IInv
<1> QED BY InvInit, InvStep, PTL DEF Spec

\* Every variable keeps its type; attempts never pass their limit.
THEOREM TypeCorrect == Spec => []TypeOK
<1>1. IInv => TypeOK
  BY DEF IInv
<1> QED BY <1>1, Invariance, PTL

\* The guard and the order DELETE, INSERT leave a code that was stored in time
\* the latest of the usable ones, however requests overlap.
THEOREM LatestMailWorks == Spec => []TimelyCodeWins
<1>1. IInv => TimelyCodeWins
  BY DEF IInv
<1> QED BY <1>1, Invariance, PTL

\* The atomic counter answers at most as many guesses as its limit and the
\* other requests in progress allow.
THEOREM GuessesLimited == Spec => []GuessesBounded
<1>1. ASSUME IInv PROVE GuessesBounded
  <2>1. ASSUME NEW c \in Codes PROVE told[c] <= MaxAttempts + Cardinality(Procs) - 1
    <3>1. /\ Pending(c) \in SUBSET Procs /\ told[c] \in Nat /\ MaxAttempts \in Nat \ {0}
          /\ CountedAt(c) /\ code[c] \in Row
      BY <1>1, ResetAssumption DEF IInv, TypeOK, Pending, Counted, CountedAt
    <3>2. Cardinality(Pending(c)) \in Nat /\ Cardinality(Procs) \in Nat
      BY <3>1, Count
    <3> QED BY <3>1, <3>2 DEF CountedAt, Unused, Row
  <2> QED BY <2>1 DEF GuessesBounded
<1> QED BY <1>1, Invariance, PTL

\* A code that a client was told is used up lets no later confirm in, unless a
\* failure of MarkPasswordResetUsed left it usable.
THEOREM SpentCodesStaySpent == Spec => SpentCodesRefused
<1>1. ASSUME IInv, [Next]_vars
      PROVE  [\A p \in Procs : ConfirmMatch(p) => loc'[p].code \notin spent \ unmarked]_vars
  <2>1. ASSUME NEW p \in Procs, ConfirmMatch(p)
        PROVE  loc'[p].code \notin spent \ unmarked
    <3>1. PICK c \in Unused : loc' = [loc EXCEPT ![p].code = c]
      BY <2>1 DEF ConfirmMatch, Current, Latest
    <3>2. c \notin spent \ unmarked
      BY <1>1, <3>1 DEF IInv, KnownCodes, Gone, Unused
    <3>3. loc'[p].code = c
      BY <1>1, <3>1 DEF IInv, TypeOK, Loc
    <3> QED BY <3>2, <3>3
  <2> QED BY <2>1
<1> QED BY <1>1, Invariance, PTL DEF Spec, SpentCodesRefused

\* A change of password leaves no session of an older one unaccounted for.
THEOREM SessionsEnded == Spec => []OldSessionsEnd
<1>1. IInv => OldSessionsEnd
  BY DEF IInv
<1> QED BY <1>1, Invariance, PTL
=============================================================================
