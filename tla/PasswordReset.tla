---------------------------- MODULE PasswordReset ----------------------------
(***************************************************************************)
(* The credentials of one account: AuthResetRequest, AuthResetConfirm and  *)
(* AuthLogin of internal/api/auth.go over their tables, and the guard that *)
(* spaces out e-mails (internal/api/email_dispatch_guard.go).  Every       *)
(* statement is a transaction of its own and may fail; the handlers ignore *)
(* some of those errors, and the server may die between any two.           *)
(*                                                                         *)
(* The request handler writes `defer releaseDispatch(sendSuccess)`, whose  *)
(* argument Go evaluates at once, to false: the guard holds an address     *)
(* only while a request for it is in progress.                             *)
(*                                                                         *)
(* Left out: the throttles (they only refuse requests), the purge of guard *)
(* entries of yesterday (they no longer skip anything), the second mail    *)
(* that confirms the change, and the hashing of codes and passwords.       *)
(***************************************************************************)
EXTENDS Integers, FiniteSets

CONSTANTS
    Procs,        \* requests the server works on at a time
    Codes,        \* reset codes; their number bounds a run
    NoCode,       \* no code
    Cooldown,     \* resetCodeEmailCooldown, in ticks
    TTL,          \* resetCodeTTL, in ticks
    MaxAttempts,  \* resetCodeMaxAttempts
    MaxTime,      \* bound: ticks in a run
    MaxChanges,   \* bound: password changes in a run
    MaxCrashes    \* bound: restarts in a run

ASSUME ResetAssumption ==
    /\ Cooldown \in Nat \ {0} /\ TTL \in Nat \ {0} /\ MaxAttempts \in Nat \ {0}
    /\ IsFiniteSet(Procs)
    /\ MaxTime \in Nat /\ MaxChanges \in Nat /\ MaxCrashes \in Nat
    /\ NoCode \notin Codes

Absent == -1

VARIABLES
    now,       \* the clock
    last,      \* emailDispatchGuardLastByKey: time of the last dispatch, or Absent
    code,      \* table password_resets
    password,  \* users.password_hash, as the number of changes made to it
    sessions,  \* table sessions: the passwords that opened the live ones
    pc,        \* where each request is
    loc,       \* the time it read, its code, the password it checked
    late,      \* history: codes stored a whole cooldown after the clock was read
    told,      \* history: wrong guesses answered, by the code they were compared to
    spent,     \* history: codes a client was told are used up
    unmarked,  \* history: codes that a failed mark left usable
    kept,      \* history: old passwords whose sessions a failure or a race left
    crashes    \* restarts so far

store == <<code, password, sessions>>
hist == <<late, told, spent, unmarked, kept>>
vars == <<now, last, store, pc, loc, hist, crashes>>

Row == [state : {"none", "unused", "used", "deleted"}, created : Nat,
        attempts : 0 .. MaxAttempts]
Loc == [now : Nat, code : Codes \cup {NoCode}, password : Nat]
NoLoc == [now |-> 0, code |-> NoCode, password |-> 0]

PCs == {"idle", "reserve", "delete", "insert", "send",
        "fail", "password", "mark", "sessions", "login"}

Init ==
    /\ now = 0 /\ last = Absent
    /\ code = [c \in Codes |-> [state |-> "none", created |-> 0, attempts |-> 0]]
    /\ password = 0 /\ sessions = {}
    /\ pc = [p \in Procs |-> "idle"]
    /\ loc = [p \in Procs |-> NoLoc]
    /\ late = {} /\ told = [c \in Codes |-> 0]
    /\ spent = {} /\ unmarked = {} /\ kept = {} /\ crashes = 0

----------------------------------------------------------------------------
Goto(p, l) == pc' = [pc EXCEPT ![p] = l]
Answer(p) == Goto(p, "idle") /\ loc' = [loc EXCEPT ![p] = NoLoc]

Unused == {c \in Codes : code[c].state = "unused"}

\* GetLatestPasswordReset: ties of created_at go either way.
Latest == {c \in Unused : \A d \in Unused : code[d].created <= code[c].created}

\* The release that the request handler defers deletes its own entry only.
Released(p) == IF last = loc[p].now THEN Absent ELSE last

----------------------------------------------------------------------------
(* AuthResetRequest *)

\* The clock is read before the mutex is asked for.
RequestBegin(p) ==
    /\ pc[p] = "idle"
    /\ loc' = [loc EXCEPT ![p].now = now]
    /\ Goto(p, "reserve")
    /\ UNCHANGED <<now, last, store, hist, crashes>>

\* Faulty variant: the guard is set and not looked at.
RequestReserveUnguarded(p) ==
    /\ pc[p] = "reserve"
    /\ last' = loc[p].now
    /\ Goto(p, "delete")
    /\ UNCHANGED <<now, store, loc, hist, crashes>>

RequestReserve(p) ==
    /\ pc[p] = "reserve"
    /\ last = Absent \/ loc[p].now - last >= Cooldown
    /\ last' = loc[p].now
    /\ Goto(p, "delete")
    /\ UNCHANGED <<now, store, loc, hist, crashes>>

\* Within the cooldown: answered ok, nothing sent.
RequestSkip(p) ==
    /\ pc[p] = "reserve"
    /\ last # Absent /\ loc[p].now - last < Cooldown
    /\ Answer(p)
    /\ UNCHANGED <<now, last, store, hist, crashes>>

\* CreatePasswordReset, first statement: unused codes are deleted.
RequestDelete(p) ==
    /\ pc[p] = "delete"
    /\ code' = [c \in Codes |-> IF c \in Unused
                                THEN [code[c] EXCEPT !.state = "deleted"] ELSE code[c]]
    /\ Goto(p, "insert")
    /\ UNCHANGED <<now, last, password, sessions, loc, hist, crashes>>

\* CreatePasswordReset, second statement.
RequestInsert(p) ==
    /\ pc[p] = "insert"
    /\ \E c \in Codes :
         /\ code[c].state = "none"
         /\ code' = [code EXCEPT ![c] =
              [state |-> "unused", created |-> loc[p].now, attempts |-> 0]]
         /\ loc' = [loc EXCEPT ![p].code = c]
         /\ late' = late \cup {d \in {c} : now - loc[p].now >= Cooldown}
    /\ Goto(p, "send")
    /\ UNCHANGED <<now, last, password, sessions, told, spent, unmarked, kept, crashes>>

\* A statement fails: 500, and the guard is released.
RequestFail(p) ==
    /\ pc[p] \in {"delete", "insert"}
    /\ last' = Released(p)
    /\ Answer(p)
    /\ UNCHANGED <<now, store, hist, crashes>>

\* The mail goes out or does not; the guard is released either way.
RequestSend(p) ==
    /\ pc[p] = "send"
    /\ last' = Released(p)
    /\ Answer(p)
    /\ UNCHANGED <<now, store, hist, crashes>>

----------------------------------------------------------------------------
(* AuthResetConfirm *)

\* Codes a confirm is compared to.
Current == {c \in Latest : now <= code[c].created + TTL}

\* Faulty variant: a code that was used up is found all the same.
ConfirmMatchUsed(p) ==
    /\ pc[p] = "idle"
    /\ \E c \in Codes :
         /\ code[c].state \in {"unused", "used"}
         /\ loc' = [loc EXCEPT ![p].code = c]
    /\ Goto(p, "password")
    /\ UNCHANGED <<now, last, store, hist, crashes>>

\* The user has been mailed the latest code, and enters it.
ConfirmMatch(p) ==
    /\ pc[p] = "idle"
    /\ \E c \in Current : loc' = [loc EXCEPT ![p].code = c]
    /\ Goto(p, "password")
    /\ UNCHANGED <<now, last, store, hist, crashes>>

\* Any other code.
ConfirmMismatch(p) ==
    /\ pc[p] = "idle"
    /\ \E c \in Current :
         loc' = [loc EXCEPT ![p].code = c]
    /\ Goto(p, "fail")
    /\ UNCHANGED <<now, last, store, hist, crashes>>

\* Faulty variant: wrong guesses are counted only in the answer.
CountGuessUncounted(p) ==
    /\ pc[p] = "fail"
    /\ told' = [told EXCEPT ![loc[p].code] = @ + 1]
    /\ Answer(p)
    /\ UNCHANGED <<now, last, store, late, spent, unmarked, kept, crashes>>

\* Faulty variant: the limit is not looked at.
CountGuessUncapped(p) ==
    /\ pc[p] = "fail"
    /\ LET c == loc[p].code
       IN  /\ code' = [code EXCEPT ![c].attempts = @ + 1]
           /\ told' = [told EXCEPT ![c] = @ + 1]
    /\ Answer(p)
    /\ UNCHANGED <<now, last, password, sessions, late, spent, unmarked, kept, crashes>>

\* RegisterPasswordResetFailure: one UPDATE ... WHERE used_at IS NULL.  A row
\* that is no longer there, or was used, is not counted (sql.ErrNoRows).
CountGuess(p) ==
    /\ pc[p] = "fail"
    /\ LET c == loc[p].code
           n == code[c].attempts + 1
       IN  /\ code' = [code EXCEPT ![c] =
                IF c \notin Unused THEN code[c]
                ELSE [code[c] EXCEPT !.attempts = n,
                        !.state = IF n >= MaxAttempts THEN "used" ELSE "unused"]]
           /\ told' = [told EXCEPT ![c] = @ + 1]
           /\ spent' = spent \cup {d \in {c} : c \in Unused /\ n >= MaxAttempts}
    /\ Answer(p)
    /\ UNCHANGED <<now, last, password, sessions, late, unmarked, kept, crashes>>

\* The statement fails before anything is done: 500.
ConfirmFail(p) ==
    /\ pc[p] \in {"fail", "password"}
    /\ Answer(p)
    /\ UNCHANGED <<now, last, store, hist, crashes>>

\* UpdateUserPassword is committed and returns an error all the same: 500, and
\* neither the code nor the sessions are touched.
ConfirmLost(p) ==
    /\ pc[p] = "password"
    /\ password < MaxChanges
    /\ password' = password + 1
    /\ kept' = kept \cup sessions
    /\ Answer(p)
    /\ UNCHANGED <<now, last, code, sessions, late, told, spent, unmarked, crashes>>

\* UpdateUserPassword.
ConfirmPassword(p) ==
    /\ pc[p] = "password"
    /\ password < MaxChanges
    /\ password' = password + 1
    /\ Goto(p, "mark")
    /\ UNCHANGED <<now, last, code, sessions, loc, hist, crashes>>

\* MarkPasswordResetUsed: WHERE id, so a deleted row stays away; an error is
\* ignored.
ConfirmMark(p) ==
    /\ pc[p] = "mark"
    /\ LET c == loc[p].code
       IN  \/ /\ code' = [code EXCEPT ![c] =
                   IF code[c].state = "unused" THEN [code[c] EXCEPT !.state = "used"]
                   ELSE code[c]]
              /\ UNCHANGED unmarked
           \/ /\ unmarked' = unmarked \cup ({c} \cap Unused)
              /\ UNCHANGED code
    /\ Goto(p, "sessions")
    /\ UNCHANGED <<now, last, password, sessions, loc, late, told, spent, kept, crashes>>

\* The client reads that the password is changed, and the code used.
Told(p) == spent' = spent \cup {loc[p].code} /\ Answer(p)

\* Faulty variant: the sessions of the account are left alone.
ConfirmSessionsKept(p) ==
    /\ pc[p] = "sessions"
    /\ Told(p)
    /\ UNCHANGED <<now, last, store, late, told, unmarked, kept, crashes>>

\* DeleteSessionsByUserID; an error is ignored and the answer is ok.
ConfirmSessions(p) ==
    /\ pc[p] = "sessions"
    /\ \/ sessions' = {} /\ UNCHANGED kept
       \/ kept' = kept \cup (sessions \ {password}) /\ UNCHANGED sessions
    /\ Told(p)
    /\ UNCHANGED <<now, last, code, password, late, told, unmarked, crashes>>

----------------------------------------------------------------------------
(* AuthLogin, and what ends a session *)

\* The password is compared with the hash that was read.
LoginRead(p) ==
    /\ pc[p] = "idle"
    /\ loc' = [loc EXCEPT ![p].password = password]
    /\ Goto(p, "login")
    /\ UNCHANGED <<now, last, store, hist, crashes>>

\* createSession, whatever has become of the password since.
LoginSession(p) ==
    /\ pc[p] = "login"
    /\ \/ /\ sessions' = sessions \cup {loc[p].password}
          /\ kept' = kept \cup ({loc[p].password} \ {password})
       \/ UNCHANGED <<sessions, kept>>
    /\ Answer(p)
    /\ UNCHANGED <<now, last, code, password, late, told, spent, unmarked, crashes>>

\* Logout, or expiry noticed by RequireAuth.
SessionEnds(s) ==
    /\ s \in sessions
    /\ sessions' = sessions \ {s}
    /\ UNCHANGED <<now, last, code, password, pc, loc, hist, crashes>>

----------------------------------------------------------------------------
Tick ==
    /\ now < MaxTime
    /\ now' = now + 1
    /\ UNCHANGED <<last, store, pc, loc, hist, crashes>>

\* The sessions a confirm had still to delete stay.
Crash ==
    /\ crashes < MaxCrashes
    /\ crashes' = crashes + 1
    /\ last' = Absent
    /\ kept' = IF \E p \in Procs : pc[p] \in {"mark", "sessions"}
               THEN kept \cup (sessions \ {password}) ELSE kept
    /\ pc' = [p \in Procs |-> "idle"]
    /\ loc' = [p \in Procs |-> NoLoc]
    /\ UNCHANGED <<now, store, late, told, spent, unmarked>>

Request(p) == \/ RequestBegin(p) \/ RequestReserve(p) \/ RequestSkip(p)
              \/ RequestDelete(p) \/ RequestInsert(p) \/ RequestFail(p) \/ RequestSend(p)

Confirm(p) == \/ ConfirmMatch(p) \/ ConfirmMismatch(p) \/ CountGuess(p) \/ ConfirmFail(p)
              \/ ConfirmLost(p) \/ ConfirmPassword(p) \/ ConfirmMark(p) \/ ConfirmSessions(p)

Login(p) == LoginRead(p) \/ LoginSession(p)

Next == \/ Tick \/ Crash \/ \E s \in sessions : SessionEnds(s)
        \/ \E p \in Procs : Request(p) \/ Confirm(p) \/ Login(p)

Spec == Init /\ [][Next]_vars

----------------------------------------------------------------------------
TypeOK ==
    /\ now \in Nat
    /\ last \in Nat \cup {Absent}
    /\ code \in [Codes -> Row]
    /\ password \in Nat
    /\ sessions \subseteq Nat
    /\ pc \in [Procs -> PCs]
    /\ loc \in [Procs -> Loc]
    /\ late \subseteq Codes /\ spent \subseteq Codes /\ unmarked \subseteq Codes
    /\ told \in [Codes -> Nat]
    /\ kept \subseteq Nat
    /\ crashes \in Nat

\* The guard makes up for the DELETE and the INSERT of a code being two
\* statements: of the codes that can still be used, one that was stored within
\* the cooldown is the latest, so the code in the user's last mail works.
TimelyCodeWins ==
    \A c \in Unused \ late : \A d \in Unused \ {c} : code[d].created < code[c].created

\* Wrong guesses that arrive together are all compared before any is counted,
\* but no code answers more of them than that lets in.
GuessesBounded ==
    \A c \in Codes : told[c] <= MaxAttempts + Cardinality(Procs) - 1

\* After a client was told that a code is used up, by success or by wrong
\* guesses, no confirm that begins is let in by it, unless the ignored error was
\* that of MarkPasswordResetUsed: such a code works until it expires or another
\* is asked for, although success was answered.
SpentCodesRefused ==
    [][\A p \in Procs : ConfirmMatch(p) => loc'[p].code \notin spent \ unmarked]_vars

\* A change of password ends the sessions that an older one opened, save those
\* that a failed or interrupted deletion, or a change answered as failed, left,
\* or a login it overtook opened.
OldSessionsEnd ==
    \A s \in sessions \ kept :
        s = password \/ \E p \in Procs : pc[p] \in {"mark", "sessions"}
=============================================================================
