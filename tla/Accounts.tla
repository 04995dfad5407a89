------------------------------- MODULE Accounts -------------------------------
(***************************************************************************)
(* How an account comes to be and who is let into it: sign-up with a       *)
(* password and a link by mail, Google, login, sessions (internal/api      *)
(* auth.go, auth_google.go, email_verification.go), and what the user then *)
(* sets (UserSettings).                                                    *)
(*                                                                         *)
(* An account is its address: addresses are unique, no account is deleted. *)
(* Sign-up is not a transaction: the row of users, the settings, the       *)
(* categories and the link are statements of their own, and any of them    *)
(* may be the last.  A status only goes from pending to active, so a       *)
(* lookup and the UPDATE that follows it are one step.                     *)
(*                                                                         *)
(* Left out: wrong passwords and throttles, which let nobody in; the reset *)
(* of a password, see PasswordReset; answers that change nothing.          *)
(***************************************************************************)
EXTENDS UserSettings

CONSTANTS
    Tokens,        \* links to verify an address
    Subjects,      \* accounts of Google
    Veterans,      \* users with an account and a session from before
    English,       \* Spanish names of categories, with the English they replace
    MaxRequests    \* bound: requests that are taken up

ASSUME AccountsAssumption ==
    /\ Refs = Tokens \cup Subjects /\ Tokens \cap Subjects = {}
    /\ Veterans \subseteq Users
    /\ DOMAIN English \subseteq Names
    /\ \A n \in DOMAIN English : English[n] \in Names \ DOMAIN English
    /\ MaxRequests \in Nat

VARIABLES
    status,    \* table users: the status, "none" for no row
    password,  \* users with a password
    identity,  \* table oauth_identities: the user of a subject
    sessions,  \* table sessions, with what the session came by
    token,     \* table email_verifications
    mailed,    \* links that went out
    proved,    \* history: users who showed that the address is theirs
    begun      \* requests taken up so far

acct == <<status, password, identity, sessions, token, mailed, proved>>
vars == <<set, pc, loc, acct, begun>>

NoToken == [state |-> "none", user |-> NoUser]
TokenRow == [state : {"none", "unused", "expired", "verified", "deleted"},
             user : Users \cup {NoUser}]
Session == [user : Users, via : Subjects \cup {NoRef}]

PCs == SettingPCs \cup {"create", "reserve", "token_delete", "token_insert", "mail",
                        "activate", "mark", "identity", "lookup", "link", "session"}

Default == [n \in Names |-> IF Has(Defaults, n) THEN Index(Defaults, n) ELSE 0]

\* A veteran's settings may be missing: sign-up can stop before them.
Init ==
    /\ config \in [Users -> {NoConfig, Base}]
    /\ table \in [Users -> {Nowhere, Default}]
    /\ \A u \in Users : config[u] = NoConfig => table[u] = Nowhere
    /\ \A u \in Users \ Veterans : config[u] = NoConfig
    /\ defaults = Defaults
    /\ pc = [p \in Procs |-> "idle"]
    /\ loc = [p \in Procs |-> NoLoc]
    /\ said = [u \in Users |-> Base]
    /\ written = table /\ mixed = {}
    /\ status = [u \in Users |-> IF u \in Veterans THEN "active" ELSE "none"]
    /\ password = Veterans /\ proved = Veterans
    /\ identity = [s \in Subjects |-> NoUser]
    /\ sessions = {[user |-> u, via |-> NoRef] : u \in Veterans}
    /\ token = [t \in Tokens |-> NoToken]
    /\ mailed = {}
    /\ begun = 0

Begin(p) == pc[p] = "idle" /\ begun < MaxRequests /\ begun' = begun + 1

Request(op, u, r) == [NoLoc EXCEPT !.op = op, !.user = u, !.ref = r]

----------------------------------------------------------------------------
(* AuthRegister *)

\* GetUserByEmail tells a new address from one that waits for its link.
Register(p, u) ==
    /\ Begin(p)
    /\ \/ /\ status[u] = "none"
          /\ loc' = [loc EXCEPT ![p] = Request("register", u, NoRef)]
          /\ Goto(p, "create")
       \/ /\ status[u] = "pending"
          /\ loc' = [loc EXCEPT ![p] = Request("pending", u, NoRef)]
          /\ Goto(p, "reserve")
    /\ UNCHANGED <<set, acct>>

\* Faulty variant: a sign-up makes an account that is active at once.
CreateUserActive(p) ==
    /\ pc[p] = "create"
    /\ LET u == User(p)
       IN  IF status[u] = "none"
           THEN /\ status' = [status EXCEPT ![u] = "active"]
                /\ password' = IF loc[p].op = "register" THEN password \cup {u} ELSE password
                /\ Goto(p, "config") /\ UNCHANGED loc
           ELSE Answer(p) /\ UNCHANGED <<status, password>>
    /\ UNCHANGED <<set, identity, sessions, token, mailed, proved, begun>>

\* CreateUserWithStatus: the INSERT, which the index on the address may refuse;
\* the settings and the categories follow in UserSettings.
CreateUser(p) ==
    /\ pc[p] = "create"
    /\ LET u == User(p)  signUp == loc[p].op = "register"
       IN  IF status[u] = "none"
           THEN /\ status' = [status EXCEPT ![u] = IF signUp THEN "pending" ELSE "active"]
                /\ password' = IF signUp THEN password \cup {u} ELSE password
                /\ Goto(p, "config") /\ UNCHANGED loc
           ELSE Answer(p) /\ UNCHANGED <<status, password>>
    /\ UNCHANGED <<set, identity, sessions, token, mailed, proved, begun>>

----------------------------------------------------------------------------
(* issueEmailVerification, AuthVerifyEmail *)

Issuing == {"token_delete", "token_insert", "mail"}

\* A mail of the same user under way makes this one unnecessary, for 45 seconds;
\* the reservation ends with its request.
Reserve(p) ==
    /\ pc[p] = "reserve"
    /\ \/ Goto(p, "token_delete") /\ UNCHANGED loc
       \/ (\E q \in Others(p) : pc[q] \in Issuing) /\ Answer(p)
    /\ UNCHANGED <<set, acct, begun>>

\* CreateEmailVerification: earlier links of the user go, in two statements.
TokenDelete(p) ==
    /\ pc[p] = "token_delete"
    /\ token' = [t \in Tokens |->
         IF token[t].user = User(p) /\ token[t].state \in {"unused", "expired"}
         THEN [token[t] EXCEPT !.state = "deleted"] ELSE token[t]]
    /\ Goto(p, "token_insert")
    /\ UNCHANGED <<set, loc, status, password, identity, sessions, mailed, proved, begun>>

TokenInsert(p, t) ==
    /\ pc[p] = "token_insert" /\ token[t] = NoToken
    /\ token' = [token EXCEPT ![t] = [state |-> "unused", user |-> User(p)]]
    /\ loc' = [loc EXCEPT ![p] = [@ EXCEPT !.ref = t]]
    /\ Goto(p, "mail")
    /\ UNCHANGED <<set, status, password, identity, sessions, mailed, proved, begun>>

Mail(p) ==
    /\ pc[p] = "mail"
    /\ mailed' = mailed \cup {loc[p].ref}
    /\ Answer(p)
    /\ UNCHANGED <<set, status, password, identity, sessions, token, proved, begun>>

Expire(t) ==
    /\ token[t].state = "unused"
    /\ token' = [token EXCEPT ![t] = [@ EXCEPT !.state = "expired"]]
    /\ UNCHANGED <<set, pc, loc, status, password, identity, sessions, mailed, proved, begun>>

\* A link is followed: only who reads the mail has it.
Follow(p, t) ==
    /\ Begin(p)
    /\ t \in mailed /\ token[t].state = "unused"
    /\ proved' = proved \cup {token[t].user}
    /\ loc' = [loc EXCEPT ![p] = Request("verify", token[t].user, t)]
    /\ Goto(p, "activate")
    /\ UNCHANGED <<set, status, password, identity, sessions, token, mailed>>

\* UpdateUserStatus, and then MarkEmailVerificationUsed on a row that may be
\* gone by now.
Activate(p) ==
    /\ pc[p] = "activate"
    /\ status' = [status EXCEPT ![User(p)] = "active"]
    /\ Goto(p, "mark")
    /\ UNCHANGED <<set, loc, password, identity, sessions, token, mailed, proved, begun>>

Mark(p) ==
    /\ pc[p] = "mark"
    /\ token' = [token EXCEPT ![loc[p].ref] =
         IF @.state = "deleted" THEN @ ELSE [@ EXCEPT !.state = "verified"]]
    /\ Answer(p)
    /\ UNCHANGED <<set, status, password, identity, sessions, mailed, proved, begun>>

----------------------------------------------------------------------------
(* AuthGoogleCallback, resolveGoogleUser *)

\* Google says that subject s has address u, now: it may have had another.
Callback(p, s, u) ==
    /\ Begin(p)
    /\ proved' = proved \cup {u}
    /\ loc' = [loc EXCEPT ![p] = Request("google", u, s)]
    /\ Goto(p, "identity")
    /\ UNCHANGED <<set, status, password, identity, sessions, token, mailed>>

\* GetOAuthIdentity: a subject seen before is its user, whatever its address.
GetIdentity(p) ==
    /\ pc[p] = "identity"
    /\ LET u == identity[loc[p].ref]
       IN  IF u = NoUser
           THEN Goto(p, "lookup") /\ UNCHANGED <<loc, status>>
           ELSE /\ loc' = [loc EXCEPT ![p] = [@ EXCEPT !.user = u]]
                /\ status' = [status EXCEPT ![u] = "active"]
                /\ Goto(p, "session")
    /\ UNCHANGED <<set, password, identity, sessions, token, mailed, proved, begun>>

\* GetUserByEmail.
Lookup(p) ==
    /\ pc[p] = "lookup"
    /\ IF status[User(p)] = "none"
       THEN Goto(p, "create") /\ UNCHANGED status
       ELSE status' = [status EXCEPT ![User(p)] = "active"] /\ Goto(p, "link")
    /\ UNCHANGED <<set, loc, password, identity, sessions, token, mailed, proved, begun>>

\* Faulty variant: a subject that somebody else bound meanwhile is let in.
LinkUnchecked(p) ==
    /\ pc[p] = "link"
    /\ identity' = [identity EXCEPT ![loc[p].ref] = IF @ = NoUser THEN User(p) ELSE @]
    /\ Goto(p, "session")
    /\ UNCHANGED <<set, loc, status, password, sessions, token, mailed, proved, begun>>

\* ensureGoogleIdentity: the index on the subject refuses a second row; the
\* first must be of the same user.
Link(p) ==
    /\ pc[p] = "link"
    /\ LET s == loc[p].ref
       IN  IF identity[s] \in {NoUser, User(p)}
           THEN /\ identity' = [identity EXCEPT ![s] = User(p)]
                /\ Goto(p, "session") /\ UNCHANGED loc
           ELSE Answer(p) /\ UNCHANGED identity
    /\ UNCHANGED <<set, status, password, sessions, token, mailed, proved, begun>>

----------------------------------------------------------------------------
(* AuthLogin, RequireAuth, AuthLogout *)

\* The password is right.
Login(p, u) ==
    /\ Begin(p)
    /\ u \in password /\ status[u] = "active"
    /\ loc' = [loc EXCEPT ![p] = Request("login", u, NoRef)]
    /\ Goto(p, "session")
    /\ UNCHANGED <<set, acct>>

CreateSession(p) ==
    /\ pc[p] = "session"
    /\ sessions' = sessions \cup {[user |-> User(p), via |-> loc[p].ref]}
    /\ Answer(p)
    /\ UNCHANGED <<set, status, password, identity, token, mailed, proved, begun>>

\* Logout, or a session that RequireAuth finds expired.
EndSession(s) ==
    /\ s \in sessions
    /\ sessions' = sessions \ {s}
    /\ UNCHANGED <<set, pc, loc, status, password, identity, token, mailed, proved, begun>>

\* RequireAuth lets a request on to the handlers of UserSettings.
AskSignedIn(p) ==
    /\ Begin(p)
    /\ \E s \in sessions : Ask(p, s.user)
    /\ UNCHANGED acct

----------------------------------------------------------------------------
\* updateDefaultCategoriesToSpanish: the row of an English name is renamed, in
\* its position, unless the user has the Spanish one.
Translated(t) ==
    [n \in Names |->
       IF n \in DOMAIN English /\ t[n] = 0 THEN t[English[n]]
       ELSE IF \E m \in DOMAIN English : English[m] = n /\ t[m] = 0 THEN 0
       ELSE t[n]]

\* The process starts again: requests are lost, the slice of defaults is new,
\* links that are spent or expired are cleaned up, and categories of every user
\* are translated before the server listens.
Restart ==
    /\ pc' = [p \in Procs |-> "idle"]
    /\ loc' = [p \in Procs |-> NoLoc]
    /\ defaults' = Defaults
    /\ token' = [t \in Tokens |-> IF token[t].state \in {"verified", "expired"}
                                  THEN [token[t] EXCEPT !.state = "deleted"] ELSE token[t]]
    /\ table' = [u \in Users |-> Translated(table[u])]
    /\ UNCHANGED <<config, said, written, mixed,
                   status, password, identity, sessions, mailed, proved, begun>>

Next ==
    \/ \E p \in Procs :
         \/ \E u \in Users : Register(p, u) \/ Login(p, u)
         \/ \E s \in Subjects, u \in Users : Callback(p, s, u)
         \/ \E t \in Tokens : Follow(p, t) \/ TokenInsert(p, t)
         \/ CreateUser(p) \/ Reserve(p) \/ TokenDelete(p) \/ Mail(p)
         \/ Activate(p) \/ Mark(p)
         \/ GetIdentity(p) \/ Lookup(p) \/ Link(p) \/ CreateSession(p)
         \/ AskSignedIn(p)
         \/ (Settings(p) \/ Fail(p)) /\ UNCHANGED <<acct, begun>>
    \/ \E t \in Tokens : Expire(t)
    \/ \E s \in sessions : EndSession(s)
    \/ Restart

Spec == Init /\ [][Next]_vars

----------------------------------------------------------------------------
\* What each table, each request and the history of this module may hold.
TypeOK ==
    /\ config \in [Users -> Config \cup {NoConfig}]
    /\ table \in [Users -> Positions]
    /\ defaults \in Seq(Names) /\ Len(defaults) = Len(Defaults)
    /\ pc \in [Procs -> PCs] /\ loc \in [Procs -> Loc]
    /\ said \in [Users -> Config] /\ written \in [Users -> Positions]
    /\ mixed \subseteq Users
    /\ status \in [Users -> {"none", "pending", "active"}]
    /\ password \subseteq Users /\ proved \subseteq Users
    /\ identity \in [Subjects -> Users \cup {NoUser}]
    /\ sessions \subseteq Session
    /\ token \in [Tokens -> TokenRow] /\ mailed \subseteq Tokens
    /\ begun \in 0 .. MaxRequests

\* Whoever is in by Google is in the account that Google account is bound to,
\* for ever: two callbacks of it, with different addresses, race to bind it in
\* ensureGoogleIdentity.
GoogleSticks ==
    \A s \in sessions : s.via \in Subjects => identity[s.via] = s.user

\* Whoever is in is in an active account whose address somebody showed to be
\* theirs, by a link or through Google, whichever of AuthRegister,
\* AuthVerifyEmail, AuthGoogleCallback and AuthLogin ran beside which.
SignedInProved ==
    \A s \in sessions : status[s.user] = "active" /\ s.user \in proved

\* The first requests of an account make its row of user_config, in
\* ensureUserConfig and getOrCreateUserConfig; none of them undoes what
\* UpdateCurrency or UpdateStartDate acknowledged meanwhile.
PreferencesKept ==
    \A u \in Users : config[u] = NoConfig \/ config[u] = said[u]

\* The list of categories is the one that was committed last, whole, but for the
\* English names that a start translated since; unless the two lists that met
\* had no name in common: it is the row of a common name that makes
\* updateCategoriesTable wait.
LastListWhole ==
    \A u \in Users \ mixed : table[u] \in {written[u], Translated(written[u])}
=============================================================================
