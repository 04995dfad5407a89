----------------------------- MODULE UserSettings -----------------------------
(***************************************************************************)
(* What a user sets for the account: the row of user_config with currency  *)
(* and start date, and the list of categories, over the statements of      *)
(* internal/storage/databaseStore.go.  Both are made at sign-up, or by the *)
(* first request that misses them.                                         *)
(*                                                                         *)
(* Every statement is a step.  A list is written in a transaction: row by  *)
(* row, each locked until the end, and a DELETE of the rest, which sees    *)
(* the rows that were there when it began and locks them one by one.       *)
(* Requests that wait for each other are told so by PostgreSQL (Fail).     *)
(*                                                                         *)
(* A user without categories is given the package's slice of defaults      *)
(* itself; a rename or removal in that request writes into it.             *)
(*                                                                         *)
(* Left out: the plan tier, and letter case (two names that differ in it   *)
(* are one to the handlers and two to the table).                          *)
(***************************************************************************)
EXTENDS Integers, Sequences, FiniteSets

CONSTANTS
    Procs,        \* requests the server works on at a time
    Users,        \* accounts, one for each address
    NoUser,       \* none of them
    Names,        \* names of categories
    NoName,       \* none of them
    Defaults,     \* defaultCategories, as the program starts
    Lists,        \* lists that PUT /categories/edit sends
    Renames,      \* pairs of names that a rename sends
    Currencies, Days, BaseCurrency, BaseDay,  \* SetBaseConfig
    NoConfig,     \* no row of user_config
    Refs,         \* links in mails and Google accounts, as a sign-in goes by one
    NoRef         \* none of them

ASSUME SettingsAssumption ==
    /\ NoUser \notin Users /\ NoName \notin Names /\ NoRef \notin Refs
    /\ Names # {} /\ IsFiniteSet(Names) /\ Defaults \in Seq(Names) /\ Defaults # <<>>
    /\ Lists \subseteq Seq(Names) \ {<<>>}
    /\ Renames \subseteq {q \in Names \X Names : q[1] # q[2]}
    /\ BaseCurrency \in Currencies /\ BaseDay \in Days
    /\ NoConfig \notin [currency : Currencies, day : Days]

Base == [currency |-> BaseCurrency, day |-> BaseDay]
Config == [currency : Currencies, day : Days]
Positions == [Names -> Nat]
Nowhere == [n \in Names |-> 0]

VARIABLES
    config,    \* table user_config
    table,     \* table categories: the position of each name, 0 for no row
    defaults,  \* the package's defaultCategories
    pc,        \* where each request is
    loc,       \* its arguments, what it read, its uncommitted rows
    said,      \* history: the settings last acknowledged
    written,   \* history: the rows of the transaction that committed last
    mixed      \* history: users with a list that may not be one list sent

set == <<config, table, defaults, said, written, mixed>>

Ops == {"none", "read", "all", "currency", "day", "get", "add", "rename", "remove",
        "put", "register", "pending", "verify", "login", "google"}

\* shared: the list is the first len of defaults, not a list of its own.
\* sweep: names that its DELETE has still to delete; gone: has deleted.
\* crossed: a transaction with no name in common committed under its DELETE, or
\* the slice it writes from was changed.
Loc == [op : Ops, user : Users \cup {NoUser}, ref : Refs \cup {NoRef}, config : Config,
        name : Names \cup {NoName}, to : Names \cup {NoName},
        list : Seq(Names), shared : BOOLEAN, len : Nat, next : Nat,
        wrote : Positions, sweep : SUBSET Names, gone : SUBSET Names,
        crossed : BOOLEAN]
NoLoc == [op |-> "none", user |-> NoUser, ref |-> NoRef, config |-> Base,
          name |-> NoName, to |-> NoName,
          list |-> <<>>, shared |-> FALSE, len |-> 0, next |-> 1,
          wrote |-> Nowhere, sweep |-> {}, gone |-> {}, crossed |-> FALSE]

SettingPCs == {"idle", "config", "config_insert", "upsert",
               "list", "seed", "edit", "write", "sweep"}

----------------------------------------------------------------------------
Goto(p, l) == pc' = [pc EXCEPT ![p] = l]
Answer(p) == Goto(p, "idle") /\ loc' = [loc EXCEPT ![p] = NoLoc]
Go(p, l) == IF l = "idle" THEN Answer(p) ELSE Goto(p, l) /\ UNCHANGED loc

User(p) == loc[p].user

\* CreateUserWithStatus and GetConfig go on with the categories.
AfterConfig(op) ==
    CASE op \in {"currency", "day"} -> "upsert"
      [] op \in {"all", "register", "google"} -> "list"
      [] OTHER -> "idle"

AfterList(op) ==
    CASE op \in {"add", "rename", "remove"} -> "edit"
      [] op = "register" -> "reserve"
      [] op = "google" -> "link"
      [] OTHER -> "idle"

\* What the handlers of handlers.go are asked for.
Asked(u) ==
    {[NoLoc EXCEPT !.op = op, !.user = u] : op \in {"read", "all", "get"}}
    \cup {[NoLoc EXCEPT !.op = "currency", !.user = u, !.config = [Base EXCEPT !.currency = c]] :
            c \in Currencies}
    \cup {[NoLoc EXCEPT !.op = "day", !.user = u, !.config = [Base EXCEPT !.day = d]] :
            d \in Days}
    \cup {[NoLoc EXCEPT !.op = q[1], !.user = u, !.name = q[2]] :
            q \in {"add", "remove"} \X Names}
    \cup {[NoLoc EXCEPT !.op = "rename", !.user = u, !.name = q[1], !.to = q[2]] :
            q \in Renames}
    \cup {[NoLoc EXCEPT !.op = "put", !.user = u, !.list = s, !.len = Len(s)] : s \in Lists}

Start(op) ==
    CASE op \in {"read", "all", "currency", "day"} -> "config"
      [] op = "put" -> "write"
      [] OTHER -> "list"

Ask(p, u) ==
    /\ pc[p] = "idle"
    /\ \E l \in Asked(u) : loc' = [loc EXCEPT ![p] = l] /\ Goto(p, Start(l.op))
    /\ UNCHANGED set

----------------------------------------------------------------------------
(* getOrCreateUserConfig, ensureUserConfig *)

ConfigSelect(p) ==
    /\ pc[p] = "config"
    /\ IF config[User(p)] = NoConfig
       THEN Goto(p, "config_insert") /\ UNCHANGED loc
       ELSE Go(p, AfterConfig(loc[p].op))
    /\ UNCHANGED set

\* Faulty variant: a row that is there by now is overwritten.
ConfigInsertAnyway(p) ==
    /\ pc[p] = "config_insert"
    /\ config' = [config EXCEPT ![User(p)] = Base]
    /\ Go(p, AfterConfig(loc[p].op))
    /\ UNCHANGED <<table, defaults, said, written, mixed>>

\* A plain INSERT: the primary key refuses a second row.
ConfigInsert(p) ==
    /\ pc[p] = "config_insert"
    /\ IF config[User(p)] = NoConfig
       THEN /\ config' = [config EXCEPT ![User(p)] = Base]
            /\ Go(p, AfterConfig(loc[p].op))
       ELSE Answer(p) /\ UNCHANGED config
    /\ UNCHANGED <<table, defaults, said, written, mixed>>

With(c, l) == IF l.op = "currency" THEN [c EXCEPT !.currency = l.config.currency]
                                   ELSE [c EXCEPT !.day = l.config.day]

\* UpdateCurrency, UpdateStartDate: the row is there by now, so that the upsert
\* sets the one column.
Upsert(p) ==
    /\ pc[p] = "upsert"
    /\ config' = [config EXCEPT ![User(p)] = With(@, loc[p])]
    /\ said' = [said EXCEPT ![User(p)] = With(@, loc[p])]
    /\ Answer(p)
    /\ UNCHANGED <<table, defaults, written, mixed>>

----------------------------------------------------------------------------
(* GetCategories, ensureUserCategories *)

Rows(t) == {n \in Names : t[n] > 0}

\* The names in the order of their positions, ties either way.
Listed(t) ==
    {s \in [1 .. Cardinality(Rows(t)) -> Rows(t)] :
        \A i, j \in DOMAIN s : i < j => s[i] # s[j] /\ t[s[i]] <= t[s[j]]}

ListRead(p) ==
    /\ pc[p] = "list"
    /\ IF Rows(table[User(p)]) = {}
       THEN /\ loc' = [loc EXCEPT ![p] =
                 [@ EXCEPT !.shared = TRUE, !.len = Len(defaults)]]
            /\ Goto(p, "seed")
       ELSE IF AfterList(loc[p].op) = "edit"
       THEN /\ \E s \in Listed(table[User(p)]) :
                 loc' = [loc EXCEPT ![p] =
                   [@ EXCEPT !.list = s, !.shared = FALSE, !.len = Len(s)]]
            /\ Goto(p, "edit")
       ELSE Go(p, AfterList(loc[p].op))
    /\ UNCHANGED set

\* The list as the request finds it now.
Current(p) == IF loc[p].shared THEN SubSeq(defaults, 1, loc[p].len) ELSE loc[p].list

----------------------------------------------------------------------------
(* AddCategory, RenameCategory, DeleteCategory *)

Has(s, n) == \E i \in DOMAIN s : s[i] = n
Index(s, n) == CHOOSE i \in DOMAIN s : s[i] = n /\ \A j \in 1 .. i - 1 : s[j] # n

\* append(s[:i], s[i+1:]...), and what it leaves in the array it shifts.
Without(s, i) == [j \in 1 .. Len(s) - 1 |-> IF j < i THEN s[j] ELSE s[j + 1]]
Shifted(s, i) == [j \in 1 .. Len(s) |-> IF j < i \/ j = Len(s) THEN s[j] ELSE s[j + 1]]

Allowed(p) ==
    LET l == loc[p]  s == Current(p)
    IN  CASE l.op = "add" -> ~Has(s, l.name)
          [] l.op = "rename" -> Has(s, l.name) /\ ~Has(s, l.to)
          [] OTHER -> Has(s, l.name) /\ l.len > 1

EditRefused(p) ==
    /\ pc[p] = "edit" /\ ~Allowed(p)
    /\ Answer(p)
    /\ UNCHANGED set

\* append copies, for the slice is full.
Edit(p) ==
    /\ pc[p] = "edit" /\ Allowed(p)
    /\ LET l == loc[p]  s == Current(p)
           i == Index(s, l.name)
           new == CASE l.op = "add" -> Append(s, l.name)
                    [] l.op = "rename" -> [s EXCEPT ![i] = l.to]
                    [] OTHER -> Without(s, i)
           inPlace == l.shared /\ l.op # "add"
       IN  /\ loc' = [loc EXCEPT ![p] = [@ EXCEPT !.list = IF inPlace THEN <<>> ELSE new,
                                           !.shared = inPlace, !.len = Len(new)]]
           /\ defaults' = IF ~inPlace THEN defaults
                          ELSE IF l.op = "rename" THEN [defaults EXCEPT ![i] = l.to]
                          ELSE Shifted(defaults, i)
    /\ Goto(p, "write")
    /\ UNCHANGED <<config, table, said, written, mixed>>

----------------------------------------------------------------------------
(* seedCategories, updateCategoriesTable *)

Locks(q) == Rows(loc[q].wrote) \cup loc[q].gone
Others(p) == {q \in Procs \ {p} : User(q) = User(p)}

\* Faulty variant: ON CONFLICT DO NOTHING, which locks no row that is there.
WriteRowUnlocked(p) ==
    /\ pc[p] \in {"seed", "write"}
    /\ loc[p].next <= loc[p].len
    /\ LET l == loc[p]
       IN  loc' = [loc EXCEPT ![p] = [l EXCEPT
             !.next = l.next + 1, !.wrote = [l.wrote EXCEPT ![Current(p)[l.next]] = l.next]]]
    /\ UNCHANGED <<set, pc>>

\* INSERT ... ON CONFLICT DO UPDATE: waits for a row that another holds.
WriteRow(p) ==
    /\ pc[p] \in {"seed", "write"}
    /\ loc[p].next <= loc[p].len
    /\ LET l == loc[p]  n == Current(p)[l.next]
       IN  /\ \A q \in Others(p) : n \notin Locks(q)
           /\ loc' = [loc EXCEPT ![p] = [l EXCEPT
                !.next = l.next + 1, !.wrote = [l.wrote EXCEPT ![n] = l.next]]]
    /\ UNCHANGED <<set, pc>>

\* The DELETE of all other names begins: it sees the rows of now.
Sweep(p) ==
    /\ pc[p] = "write"
    /\ loc[p].next > loc[p].len
    /\ LET rows == Rows(table[User(p)])  mine == Rows(loc[p].wrote)
       IN  loc' = [loc EXCEPT ![p] = [@ EXCEPT
             !.sweep = {n \in rows \cup mine : ~Has(Current(p), n)},
             !.crossed = \E n \in rows \ mine : Has(Current(p), n)]]
    /\ Goto(p, "sweep")
    /\ UNCHANGED set

SweepRow(p, n) ==
    /\ pc[p] = "sweep"
    /\ n \in loc[p].sweep
    /\ \A q \in Others(p) : n \notin Locks(q)
    /\ LET l == loc[p]
       IN  loc' = [loc EXCEPT ![p] = [l EXCEPT !.sweep = l.sweep \ {n}, !.gone = l.gone \cup {n}]]
    /\ UNCHANGED <<set, pc>>

\* The rows of p, were it the only writer.
Own(p) == [n \in Names |-> IF n \in loc[p].gone THEN 0 ELSE loc[p].wrote[n]]
Merged(p) == [n \in Names |->
    IF n \in Locks(p) THEN Own(p)[n] ELSE table[User(p)][n]]

\* What the commit of p is to a DELETE under way: deleted rows are gone for it
\* too.
Seen(p, q) ==
    IF q = p THEN NoLoc
    ELSE IF pc[q] # "sweep" \/ User(q) # User(p) THEN loc[q]
    ELSE [loc[q] EXCEPT !.sweep = loc[q].sweep \ loc[p].gone,
            !.crossed = loc[q].crossed \/ Rows(loc[q].wrote) \cap Rows(loc[p].wrote) = {}]

Commit(p) ==
    /\ pc[p] = "sweep" /\ loc[p].sweep = {}
    /\ table' = [table EXCEPT ![User(p)] = Merged(p)]
    /\ written' = [written EXCEPT ![User(p)] = Own(p)]
    /\ mixed' = IF loc[p].crossed THEN mixed \cup {User(p)} ELSE mixed \ {User(p)}
    /\ loc' = [q \in Procs |-> Seen(p, q)]
    /\ Goto(p, "idle")
    /\ UNCHANGED <<config, defaults, said>>

\* A seeding deletes nothing: on a list that was written meanwhile it adds.
SeedCommit(p) ==
    /\ pc[p] = "seed" /\ loc[p].next > loc[p].len
    /\ LET u == User(p)  then == AfterList(loc[p].op)
           clean == Rows(table[u]) \subseteq Locks(p)
       IN  /\ table' = [table EXCEPT ![u] = Merged(p)]
           /\ written' = [written EXCEPT ![u] = Own(p)]
           /\ mixed' = IF clean THEN mixed \ {u} ELSE mixed \cup {u}
           /\ loc' = [q \in Procs |->
                IF q = p /\ then # "idle"
                THEN [loc[p] EXCEPT !.wrote = Nowhere, !.next = 1]
                ELSE Seen(p, q)]
           /\ Goto(p, then)
    /\ UNCHANGED <<config, defaults, said>>

----------------------------------------------------------------------------
\* A statement fails, a deadlock is broken or the client goes away: what is
\* not committed is rolled back.
Fail(p) ==
    /\ pc[p] # "idle"
    /\ Answer(p)
    /\ UNCHANGED set

Settings(p) ==
    \/ ConfigSelect(p) \/ ConfigInsert(p) \/ Upsert(p)
    \/ ListRead(p) \/ EditRefused(p) \/ Edit(p)
    \/ WriteRow(p) \/ Sweep(p) \/ \E n \in Names : SweepRow(p, n)
    \/ Commit(p) \/ SeedCommit(p)
=============================================================================
