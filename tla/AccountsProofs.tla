---------------------------- MODULE AccountsProofs ----------------------------
(***************************************************************************)
(* Theorems about Accounts and UserSettings, for any number of users,      *)
(* requests, categories and Google accounts.                               *)
(***************************************************************************)
EXTENDS Accounts, FiniteSetTheorems, WellFoundedInduction, TLAPS

\* What a request knows at step c, with l.
Know(c, l) ==
    /\ c = "idle" => l = NoLoc
    /\ c # "idle" => l.user \in Users
    /\ IF l.shared THEN l.len <= Len(Defaults) ELSE l.len = Len(l.list)
    /\ l.next > 0
    /\ c = "edit" => l.op \in {"add", "rename", "remove"}
    /\ l.op \in {"add", "rename", "remove"} => l.name \in Names
    /\ l.op = "rename" => l.to \in Names
    /\ l.op = "google" /\ c # "mail" => l.ref \in Subjects
    /\ c = "create" => l.op \in {"register", "google"}
    /\ c \in {"identity", "lookup", "link"} => l.op = "google"
    /\ c \in {"mail", "activate", "mark"} => l.ref \in Tokens
    /\ c = "session" => l.ref \in Subjects \cup {NoRef}

Typed == /\ TypeOK
         /\ \A p \in Procs : Know(pc[p], loc[p])
         /\ \A t \in Tokens : token[t].state = "unused" => token[t].user \in Users

\* Until there is a row, nothing but the base was ever acknowledged; who is
\* about to write one column has seen the row.
Kept ==
    /\ \A u \in Users : IF config[u] = NoConfig THEN said[u] = Base
                                                ELSE said[u] = config[u]
    /\ \A p \in Procs : pc[p] = "upsert" => config[User(p)] # NoConfig

Writing == {"seed", "write", "sweep"}
Lock(l) == Rows(l.wrote) \cup l.gone

\* A DELETE that was not crossed has seen all the rows that it does not keep.
Steady(c, l, t) ==
    /\ c \notin Writing => Rows(l.wrote) = {}
    /\ c # "sweep" => l.gone = {}
    /\ c = "sweep" /\ ~l.crossed => Rows(t[l.user]) \subseteq Lock(l) \cup l.sweep

\* Transactions of one user hold different rows.
Apart == \A p, q \in Procs :
            p # q /\ loc[p].user = loc[q].user => Lock(loc[p]) \cap Lock(loc[q]) = {}

Whole == /\ LastListWhole /\ Apart
         /\ \A p \in Procs : Steady(pc[p], loc[p], table)

\* u may be let in, with st and pr for status and proved.
Fit(u, st, pr) == u \in Users /\ st[u] = "active" /\ u \in pr

\* Who is about to get a session is in a fit account, and a Google account is
\* bound to one.
Enter(c, l, st, pr, id) ==
    /\ l.op \in {"google", "verify"} => l.user \in pr
    /\ c \in {"link", "session"} => Fit(l.user, st, pr)
    /\ l.op = "google" /\ c \in {"config", "config_insert", "list", "seed"} =>
         Fit(l.user, st, pr)
    /\ c = "session" /\ l.ref \in Subjects => id[l.ref] = l.user
    /\ c = "activate" => l.op = "verify"

Entry ==
    /\ GoogleSticks /\ SignedInProved
    /\ \A p \in Procs : Enter(pc[p], loc[p], status, proved, identity)
    /\ \A u \in Users : status[u] = "active" => u \in proved
    /\ \A s \in Subjects : identity[s] # NoUser => Fit(identity[s], status, proved)

IInv == Typed /\ Kept /\ Whole /\ Entry

----------------------------------------------------------------------------
LEMMA Constants ==
    /\ NoUser \notin Users /\ NoName \notin Names /\ NoRef \notin Refs
    /\ IsFiniteSet(Names) /\ Defaults \in Seq(Names) /\ Defaults # <<>>
    /\ Base \in Config /\ NoConfig \notin Config
    /\ Refs = Tokens \cup Subjects /\ Tokens \cap Subjects = {} /\ NoRef \notin Subjects
    /\ Veterans \subseteq Users /\ MaxRequests \in Nat
    /\ Lists \subseteq Seq(Names)
BY SettingsAssumption, AccountsAssumption DEF Base, Config

LEMMA NoLocFacts ==
    /\ NoLoc \in Loc /\ NoLoc.op = "none" /\ NoLoc.user = NoUser /\ NoLoc.ref = NoRef
    /\ NoLoc.config = Base /\ NoLoc.name = NoName /\ NoLoc.to = NoName
    /\ NoLoc.list = <<>> /\ Len(NoLoc.list) = 0 /\ NoLoc.shared = FALSE
    /\ NoLoc.len = 0 /\ NoLoc.next = 1 /\ NoLoc.wrote = Nowhere /\ Rows(NoLoc.wrote) = {}
    /\ NoLoc.sweep = {} /\ NoLoc.gone = {} /\ NoLoc.crossed = FALSE
<1>1. Nowhere \in Positions /\ Rows(Nowhere) = {}
  BY DEF Nowhere, Positions, Rows
<1> QED BY <1>1, Constants DEF NoLoc, Loc, Ops

\* A request begins with nothing read and nothing written.
Fresh(l) ==
    /\ l \in Loc /\ l.shared = FALSE /\ l.len = Len(l.list) /\ l.next = 1
    /\ Rows(l.wrote) = {} /\ l.gone = {}

LEMMA RequestFacts ==
    ASSUME NEW op \in Ops, NEW u \in Users, NEW r \in Refs \cup {NoRef}
    PROVE  /\ Fresh(Request(op, u, r))
           /\ Request(op, u, r).op = op /\ Request(op, u, r).user = u
           /\ Request(op, u, r).ref = r
BY NoLocFacts DEF Request, Fresh, Loc

LEMMA AskedFacts ==
    ASSUME NEW u \in Users, NEW l \in Asked(u)
    PROVE  /\ Fresh(l) /\ l.user = u /\ l.ref = NoRef
           /\ l.op \in {"read", "all", "get", "currency", "day", "add", "remove", "rename", "put"}
           /\ l.op \in {"add", "rename", "remove"} => l.name \in Names
           /\ l.op = "rename" => l.to \in Names
<1>0. /\ \A c \in Currencies : [Base EXCEPT !.currency = c] \in Config
      /\ \A d \in Days : [Base EXCEPT !.day = d] \in Config
      /\ \A q \in Renames : q[1] \in Names /\ q[2] \in Names
      /\ \A s \in Lists : s \in Seq(Names) /\ Len(s) \in Nat
  BY SettingsAssumption DEF Base, Config
<1>1. ASSUME NEW op \in {"read", "all", "get"}, l = [NoLoc EXCEPT !.op = op, !.user = u]
      PROVE  Fresh(l) /\ l.user = u /\ l.ref = NoRef /\ l.op = op
  <2>1. op \in Ops
    BY DEF Ops
  <2> QED BY <1>1, <2>1, NoLocFacts DEF Fresh, Loc
<1>2. ASSUME NEW op \in Ops, NEW c \in Config,
             l = [NoLoc EXCEPT !.op = op, !.user = u, !.config = c]
      PROVE  Fresh(l) /\ l.user = u /\ l.ref = NoRef /\ l.op = op
  BY <1>2, NoLocFacts DEF Fresh, Loc
<1>3. ASSUME NEW op \in Ops, NEW n \in Names,
             l = [NoLoc EXCEPT !.op = op, !.user = u, !.name = n]
      PROVE  Fresh(l) /\ l.user = u /\ l.ref = NoRef /\ l.op = op /\ l.name = n
  BY <1>3, NoLocFacts DEF Fresh, Loc
<1>4. ASSUME NEW op \in Ops, NEW n \in Names, NEW m \in Names,
             l = [NoLoc EXCEPT !.op = op, !.user = u, !.name = n, !.to = m]
      PROVE  Fresh(l) /\ l.user = u /\ l.ref = NoRef /\ l.op = op /\ l.name = n /\ l.to = m
  BY <1>4, NoLocFacts DEF Fresh, Loc
<1>5. ASSUME NEW op \in Ops, NEW s \in Seq(Names), NEW k \in Nat, k = Len(s),
             l = [NoLoc EXCEPT !.op = op, !.user = u, !.list = s, !.len = k]
      PROVE  Fresh(l) /\ l.user = u /\ l.ref = NoRef /\ l.op = op
  BY <1>5, NoLocFacts DEF Fresh, Loc
<1>6. {"read", "all", "get", "currency", "day", "add", "remove", "rename", "put"} \subseteq Ops
  BY DEF Ops
<1>7. CASE \E op \in {"read", "all", "get"} : l = [NoLoc EXCEPT !.op = op, !.user = u]
  <2>1. PICK op \in {"read", "all", "get"} : l = [NoLoc EXCEPT !.op = op, !.user = u]
    BY <1>7
  <2> QED BY <1>1, <2>1
<1>8. CASE \E c \in Currencies :
             l = [NoLoc EXCEPT !.op = "currency", !.user = u, !.config = [Base EXCEPT !.currency = c]]
  <2>1. PICK c \in Currencies :
             l = [NoLoc EXCEPT !.op = "currency", !.user = u, !.config = [Base EXCEPT !.currency = c]]
    BY <1>8
  <2>2. Fresh(l) /\ l.user = u /\ l.ref = NoRef /\ l.op = "currency"
    BY <1>0, <1>2, <1>6, <2>1
  <2> QED BY <2>2
<1>9. CASE \E d \in Days :
             l = [NoLoc EXCEPT !.op = "day", !.user = u, !.config = [Base EXCEPT !.day = d]]
  <2>1. PICK d \in Days :
             l = [NoLoc EXCEPT !.op = "day", !.user = u, !.config = [Base EXCEPT !.day = d]]
    BY <1>9
  <2>2. Fresh(l) /\ l.user = u /\ l.ref = NoRef /\ l.op = "day"
    BY <1>0, <1>2, <1>6, <2>1
  <2> QED BY <2>2
<1>10. CASE \E q \in {"add", "remove"} \X Names :
              l = [NoLoc EXCEPT !.op = q[1], !.user = u, !.name = q[2]]
  <2>1. PICK q \in {"add", "remove"} \X Names :
              l = [NoLoc EXCEPT !.op = q[1], !.user = u, !.name = q[2]]
    BY <1>10
  <2>2. q[1] \in {"add", "remove"} /\ q[2] \in Names
    OBVIOUS
  <2>3. Fresh(l) /\ l.user = u /\ l.ref = NoRef /\ l.op = q[1] /\ l.name = q[2]
    BY <1>3, <1>6, <2>1, <2>2
  <2> QED BY <2>2, <2>3
<1>11. CASE \E q \in Renames :
              l = [NoLoc EXCEPT !.op = "rename", !.user = u, !.name = q[1], !.to = q[2]]
  <2>1. PICK q \in Renames :
              l = [NoLoc EXCEPT !.op = "rename", !.user = u, !.name = q[1], !.to = q[2]]
    BY <1>11
  <2>2. /\ Fresh(l) /\ l.user = u /\ l.ref = NoRef
        /\ l.op = "rename" /\ l.name = q[1] /\ l.to = q[2]
    <3>1. q[1] \in Names /\ q[2] \in Names /\ "rename" \in Ops
      BY <1>0, <1>6
    <3> QED BY <1>4, <2>1, <3>1
  <2> QED BY <1>0, <2>2
<1>12. CASE \E s \in Lists :
              l = [NoLoc EXCEPT !.op = "put", !.user = u, !.list = s, !.len = Len(s)]
  <2>1. PICK s \in Lists :
              l = [NoLoc EXCEPT !.op = "put", !.user = u, !.list = s, !.len = Len(s)]
    BY <1>12
  <2>2. Fresh(l) /\ l.user = u /\ l.ref = NoRef /\ l.op = "put"
    BY <1>0, <1>5, <1>6, <2>1
  <2> QED BY <2>2
<1> QED
  <2>1. \/ l \in {[NoLoc EXCEPT !.op = op, !.user = u] : op \in {"read", "all", "get"}}
        \/ l \in {[NoLoc EXCEPT !.op = "currency", !.user = u, !.config = [Base EXCEPT !.currency = c]] :
                    c \in Currencies}
        \/ l \in {[NoLoc EXCEPT !.op = "day", !.user = u, !.config = [Base EXCEPT !.day = d]] :
                    d \in Days}
        \/ l \in {[NoLoc EXCEPT !.op = q[1], !.user = u, !.name = q[2]] :
                    q \in {"add", "remove"} \X Names}
        \/ l \in {[NoLoc EXCEPT !.op = "rename", !.user = u, !.name = q[1], !.to = q[2]] :
                    q \in Renames}
        \/ l \in {[NoLoc EXCEPT !.op = "put", !.user = u, !.list = s, !.len = Len(s)] : s \in Lists}
    BY Zenon DEF Asked
  <2>2. CASE l \in {[NoLoc EXCEPT !.op = op, !.user = u] : op \in {"read", "all", "get"}}
    BY <1>7, <2>2, Zenon
  <2>3. CASE l \in {[NoLoc EXCEPT !.op = "currency", !.user = u, !.config = [Base EXCEPT !.currency = c]] :
                      c \in Currencies}
    BY <1>8, <2>3, Zenon
  <2>4. CASE l \in {[NoLoc EXCEPT !.op = "day", !.user = u, !.config = [Base EXCEPT !.day = d]] :
                      d \in Days}
    BY <1>9, <2>4, Zenon
  <2>5. CASE l \in {[NoLoc EXCEPT !.op = q[1], !.user = u, !.name = q[2]] :
                      q \in {"add", "remove"} \X Names}
    BY <1>10, <2>5, Zenon
  <2>6. CASE l \in {[NoLoc EXCEPT !.op = "rename", !.user = u, !.name = q[1], !.to = q[2]] :
                      q \in Renames}
    BY <1>11, <2>6, Zenon
  <2>7. CASE l \in {[NoLoc EXCEPT !.op = "put", !.user = u, !.list = s, !.len = Len(s)] : s \in Lists}
    BY <1>12, <2>7, Zenon
  <2> QED BY <2>1, <2>2, <2>3, <2>4, <2>5, <2>6, <2>7

LEMMA AfterFacts ==
    ASSUME NEW op \in Ops
    PROVE  /\ AfterConfig(op) \in {"upsert", "list", "idle"}
           /\ AfterList(op) \in {"edit", "reserve", "link", "idle"}
           /\ AfterList(op) = "edit" => op \in {"add", "rename", "remove"}
           /\ AfterList(op) = "link" => op = "google"
           /\ Start(op) \in {"config", "write", "list"}
BY DEF AfterConfig, AfterList, Start, Ops

----------------------------------------------------------------------------
(* Sequences of names *)

LEMMA Least ==
    ASSUME NEW T, T \subseteq Nat, T # {}
    PROVE  \E x \in T : \A y \in T : x <= y
<1>1. IsWellFoundedOn(OpToRel(<, Nat), Nat)
  BY NatLessThanWellFounded
<1>2. PICK x \in T : \A y \in T : ~(<<y, x>> \in OpToRel(<, Nat))
  BY <1>1, WFMin
<1>3. \A y \in T : ~(y < x)
  BY <1>2 DEF OpToRel
<1> QED BY <1>3

LEMMA IndexFacts ==
    ASSUME NEW s \in Seq(Names), NEW n, Has(s, n)
    PROVE  Index(s, n) \in 1 .. Len(s) /\ s[Index(s, n)] = n
<1> DEFINE T == {i \in 1 .. Len(s) : s[i] = n}
<1>1. T # {} /\ T \subseteq Nat
  BY DEF Has
<1>2. PICK i \in T : \A j \in T : i <= j
  <2> HIDE DEF T
  <2> QED BY <1>1, Least
<1>3. i \in DOMAIN s /\ s[i] = n /\ \A j \in 1 .. i - 1 : s[j] # n
  <2>1. \A j \in 1 .. i - 1 : j \in 1 .. Len(s) /\ ~(i <= j)
    BY <1>2
  <2> QED BY <1>2, <2>1
<1> QED BY <1>3 DEF Index

LEMMA DefaultType == Default \in Positions
<1>1. ASSUME NEW n \in Names PROVE (IF Has(Defaults, n) THEN Index(Defaults, n) ELSE 0) \in Nat
  BY Constants, IndexFacts
<1> QED BY <1>1 DEF Default, Positions

LEMMA RowsFacts ==
    ASSUME NEW t \in Positions
    PROVE  /\ Rows(t) \subseteq Names /\ Cardinality(Rows(t)) \in Nat
           /\ \A n \in Names \ Rows(t) : t[n] = 0
<1>1. Rows(t) \subseteq Names
  BY DEF Rows
<1>2. Cardinality(Rows(t)) \in Nat
  BY <1>1, Constants, FS_Subset, FS_CardinalityType
<1> QED BY <1>1, <1>2 DEF Rows, Positions

LEMMA ListedFacts ==
    ASSUME NEW t \in Positions, NEW s \in Listed(t)
    PROVE  s \in Seq(Names) /\ Len(s) \in Nat
BY RowsFacts DEF Listed

LEMMA ShiftFacts ==
    ASSUME NEW s \in Seq(Names), NEW i \in 1 .. Len(s)
    PROVE  /\ Shifted(s, i) \in Seq(Names) /\ Len(Shifted(s, i)) = Len(s)
           /\ Without(s, i) \in Seq(Names) /\ Len(Without(s, i)) = Len(s) - 1
<1>1. \A j \in 1 .. Len(s) : s[j] \in Names
  OBVIOUS
<1>2. /\ Shifted(s, i) \in [1 .. Len(s) -> Names]
      /\ Without(s, i) \in [1 .. Len(s) - 1 -> Names]
  BY <1>1 DEF Shifted, Without
<1>3. Len(s) \in Nat /\ Len(s) - 1 \in Nat
  OBVIOUS
<1> QED BY <1>2, <1>3

LEMMA CurrentFacts ==
    ASSUME Typed, NEW p \in Procs
    PROVE  /\ Current(p) \in Seq(Names) /\ Len(Current(p)) = loc[p].len
           /\ loc[p].len \in Nat
<1>1. /\ loc[p] \in Loc /\ defaults \in Seq(Names) /\ Len(defaults) = Len(Defaults)
      /\ Know(pc[p], loc[p])
  BY DEF Typed, TypeOK
<1>2. /\ loc[p].list \in Seq(Names) /\ loc[p].len \in Nat
      /\ loc[p].shared => loc[p].len <= Len(defaults)
      /\ ~loc[p].shared => loc[p].len = Len(loc[p].list)
  BY <1>1 DEF Loc, Know
<1>3. ASSUME NEW k \in Nat, k <= Len(defaults)
      PROVE  SubSeq(defaults, 1, k) \in Seq(Names) /\ Len(SubSeq(defaults, 1, k)) = k
  BY <1>1, <1>3
<1> QED BY <1>2, <1>3 DEF Current

----------------------------------------------------------------------------
LEMMA InvInit == ASSUME Init PROVE IInv
<1> USE Constants DEF Init
<1>1. TypeOK
  <2>1. Nowhere \in Positions /\ NoToken \in TokenRow
    BY DEF Nowhere, Positions, NoToken, TokenRow
  <2>2. table \in [Users -> Positions]
    BY <2>1, DefaultType
  <2>3. sessions \subseteq Session
    BY DEF Session
  <2> QED BY <2>1, <2>2, <2>3, NoLocFacts DEF TypeOK, PCs, SettingPCs
<1>2. Typed
  <2>1. \A p \in Procs : Know(pc[p], loc[p])
    BY NoLocFacts DEF Know
  <2> QED BY <1>1, <2>1 DEF Typed, NoToken
<1>3. Kept
  BY DEF Kept
<1>4. Whole
  BY NoLocFacts DEF Whole, LastListWhole, Apart, Lock, Steady, Writing
<1>5. Entry
  BY NoLocFacts DEF Entry, GoogleSticks, SignedInProved, Enter
<1> QED BY <1>2, <1>3, <1>4, <1>5 DEF IInv

----------------------------------------------------------------------------
(* What a step changes in the memory of a request *)

\* Nothing that says who asks for what, nor a row.
Alike(m, l) ==
    /\ m \in Loc
    /\ m.op = l.op /\ m.user = l.user /\ m.ref = l.ref /\ m.config = l.config
    /\ m.name = l.name /\ m.to = l.to /\ m.list = l.list /\ m.shared = l.shared
    /\ m.len = l.len /\ m.next = l.next /\ m.wrote = l.wrote /\ m.gone = l.gone

\* Nothing that says who asks for what.
Asks(m, l) ==
    /\ m \in Loc
    /\ m.op = l.op /\ m.user = l.user /\ m.ref = l.ref
    /\ m.name = l.name /\ m.to = l.to

\* A request that is answered, one that goes on.
LEMMA AnswerFacts ==
    ASSUME Typed, NEW p \in Procs, Answer(p)
    PROVE  /\ pc' \in [Procs -> PCs] /\ pc'[p] = "idle" /\ loc'[p] = NoLoc
           /\ loc' \in [Procs -> Loc] /\ Know(pc'[p], loc'[p])
           /\ \A q \in Procs \ {p} : pc'[q] = pc[q] /\ loc'[q] = loc[q]
BY NoLocFacts DEF Typed, TypeOK, Answer, Goto, Know, PCs, SettingPCs

LEMMA GotoFacts ==
    ASSUME Typed, NEW p \in Procs, NEW c \in PCs, Goto(p, c)
    PROVE  /\ pc' \in [Procs -> PCs] /\ pc'[p] = c
           /\ \A q \in Procs \ {p} : pc'[q] = pc[q]
BY DEF Typed, TypeOK, Goto

----------------------------------------------------------------------------
(* The steps of UserSettings *)

\* p moves, and to other requests no more happens than that a DELETE loses rows.
Moved(p) ==
    /\ pc' \in [Procs -> PCs] /\ loc' \in [Procs -> Loc]
    /\ Know(pc'[p], loc'[p])
    /\ \A q \in Procs \ {p} :
         /\ pc'[q] = pc[q]
         /\ loc'[q] = loc[q] \/ (pc[q] = "sweep" /\ Alike(loc'[q], loc[q]))

Google == {"config", "config_insert", "list", "seed"}

\* p is answered, or goes on as who it is.
Carried(p) ==
    \/ pc'[p] = "idle" /\ loc'[p] = NoLoc
    \/ /\ pc[p] \in SettingPCs \ {"idle"}
       /\ pc'[p] \in (SettingPCs \cup {"reserve", "link"}) \ {"idle"}
       /\ Asks(loc'[p], loc[p])
       /\ pc'[p] \in Google \cup {"link"} => pc[p] \in Google
       /\ pc'[p] = "upsert" => pc[p] \in {"config", "config_insert"}

\* It goes on with what it has.
LEMMA Onward ==
    ASSUME Typed, NEW p \in Procs, pc[p] \in SettingPCs \ {"idle"}, NEW c \in PCs,
           c \in SettingPCs \cup {"reserve", "link"}, c # "idle",
           c = "edit" => loc[p].op \in {"add", "rename", "remove"},
           c = "link" => loc[p].op = "google",
           c \in Google \cup {"link"} => pc[p] \in Google,
           c = "upsert" => pc[p] \in {"config", "config_insert"},
           Goto(p, c), UNCHANGED loc
    PROVE  Moved(p) /\ Carried(p)
<1>1. /\ pc' \in [Procs -> PCs] /\ pc'[p] = c
      /\ \A q \in Procs \ {p} : pc'[q] = pc[q]
  BY GotoFacts
<1>2. loc \in [Procs -> Loc] /\ Know(pc[p], loc[p])
  BY DEF Typed, TypeOK
<1>3. Know(c, loc[p])
  BY <1>2 DEF Know, SettingPCs
<1> QED BY <1>1, <1>2, <1>3 DEF Moved, Carried, Asks

\* It goes on with m.
LEMMA OnwardWith ==
    ASSUME Typed, NEW p \in Procs, pc[p] \in SettingPCs \ {"idle"}, NEW c \in PCs,
           c \in SettingPCs \cup {"reserve", "link"}, c # "idle",
           c = "edit" => loc[p].op \in {"add", "rename", "remove"},
           c = "link" => loc[p].op = "google",
           c \in Google \cup {"link"} => pc[p] \in Google,
           c = "upsert" => pc[p] \in {"config", "config_insert"},
           pc' \in [Procs -> PCs], pc'[p] = c,
           \A q \in Procs \ {p} : pc'[q] = pc[q],
           NEW m, Asks(m, loc[p]), m.next > 0,
           IF m.shared THEN m.len <= Len(Defaults) ELSE m.len = Len(m.list),
           loc' = [loc EXCEPT ![p] = m]
    PROVE  Moved(p) /\ Carried(p)
<1>1. loc \in [Procs -> Loc] /\ Know(pc[p], loc[p]) /\ m \in Loc
  BY DEF Typed, TypeOK, Asks
<1>2. Know(c, m)
  BY <1>1 DEF Know, SettingPCs, Asks
<1> QED BY <1>1, <1>2 DEF Moved, Carried

LEMMA Answered ==
    ASSUME Typed, NEW p \in Procs, Answer(p)
    PROVE  Moved(p) /\ Carried(p)
BY AnswerFacts DEF Moved, Carried

LEMMA GoneOn ==
    ASSUME Typed, NEW p \in Procs, pc[p] \in SettingPCs \ {"idle"}, NEW c \in PCs,
           c \in SettingPCs \cup {"reserve", "link"},
           c = "edit" => loc[p].op \in {"add", "rename", "remove"},
           c = "link" => loc[p].op = "google",
           c \in Google \cup {"link"} => pc[p] \in Google,
           c = "upsert" => pc[p] \in {"config", "config_insert"},
           Go(p, c)
    PROVE  Moved(p) /\ Carried(p)
<1>1. CASE c = "idle"
  BY <1>1, Answered DEF Go
<1>2. CASE c # "idle"
  BY <1>2, Onward DEF Go
<1> QED BY <1>1, <1>2

LEMMA SeenFacts ==
    ASSUME Typed, NEW p \in Procs, NEW q \in Procs, q # p
    PROVE  \/ Seen(p, q) = loc[q] /\ ~(pc[q] = "sweep" /\ User(q) = User(p))
           \/ /\ pc[q] = "sweep" /\ User(q) = User(p) /\ Alike(Seen(p, q), loc[q])
              /\ Seen(p, q).crossed =
                   (loc[q].crossed \/ Rows(loc[q].wrote) \cap Rows(loc[p].wrote) = {})
<1>1. CASE pc[q] = "sweep" /\ User(q) = User(p)
  <2> DEFINE w == loc[q].sweep \ loc[p].gone
             b == loc[q].crossed \/ Rows(loc[q].wrote) \cap Rows(loc[p].wrote) = {}
  <2>1. loc[q] \in Loc /\ w \in SUBSET Names /\ b \in BOOLEAN
    BY DEF Typed, TypeOK, Loc
  <2>2. PICK m : m = [loc[q] EXCEPT !.sweep = w, !.crossed = b]
    OBVIOUS
  <2>3. Seen(p, q) = m
    BY <1>1, <2>2 DEF Seen, Loc
  <2> HIDE DEF w, b
  <2>4. Alike(m, loc[q]) /\ m.crossed = b
    BY <2>1, <2>2 DEF Loc, Alike
  <2> QED BY <1>1, <2>3, <2>4 DEF b
<1>2. CASE ~(pc[q] = "sweep" /\ User(q) = User(p))
  BY <1>2 DEF Seen
<1> QED BY <1>1, <1>2

LEMMA ListReadMoves ==
    ASSUME Typed, NEW p \in Procs, ListRead(p)
    PROVE  /\ Moved(p) /\ Carried(p)
           /\ \/ Answer(p)
              \/ /\ pc'[p] # "sweep"
                 /\ loc'[p].wrote = loc[p].wrote /\ loc'[p].gone = loc[p].gone
                 /\ \A q \in Procs \ {p} : pc'[q] = pc[q] /\ loc'[q] = loc[q]
<1> DEFINE l == loc[p]  t == table[User(p)]  c == AfterList(l.op)
<1>1. /\ l \in Loc /\ Know(pc[p], l) /\ l.op \in Ops /\ pc[p] = "list"
      /\ loc \in [Procs -> Loc] /\ l.next > 0
  BY DEF Typed, TypeOK, Loc, Know, ListRead
<1>2. t \in Positions
  <2>1. User(p) \in Users
    BY <1>1 DEF Know, User
  <2> QED BY <2>1 DEF Typed, TypeOK
<1>3. /\ c \in {"edit", "reserve", "link", "idle"} /\ c \in PCs
      /\ c = "edit" => l.op \in {"add", "rename", "remove"}
      /\ c = "link" => l.op = "google"
  BY <1>1, AfterFacts DEF PCs, SettingPCs
<1>4. CASE Rows(t) = {}
  <2>0. PICK m : m = [l EXCEPT !.shared = TRUE, !.len = Len(defaults)]
    OBVIOUS
  <2>1. Len(defaults) \in Nat /\ Len(defaults) = Len(Defaults)
    BY DEF Typed, TypeOK
  <2>2. loc' = [loc EXCEPT ![p] = m] /\ Goto(p, "seed")
    BY <1>4, <2>0 DEF ListRead
  <2>3. Asks(m, l) /\ m.shared = TRUE /\ m.len = Len(defaults) /\ m.next = l.next
        /\ m.wrote = l.wrote /\ m.gone = l.gone
    BY <1>1, <2>0, <2>1 DEF Loc, Asks
  <2>4. "seed" \in PCs /\ "seed" \in Google /\ "list" \in Google
    BY DEF PCs, SettingPCs, Google
  <2>5. /\ pc' \in [Procs -> PCs] /\ pc'[p] = "seed"
        /\ \A q \in Procs \ {p} : pc'[q] = pc[q]
    BY <2>2, <2>4, GotoFacts
  <2>6. m.shared = TRUE /\ m.len <= Len(Defaults) /\ m.next > 0
    BY <1>1, <2>1, <2>3
  <2>7. IF m.shared THEN m.len <= Len(Defaults) ELSE m.len = Len(m.list)
    BY <2>6
  <2>8. "seed" \in SettingPCs /\ pc[p] \in SettingPCs \ {"idle"} /\ pc[p] \in Google
    BY <1>1, <2>4 DEF SettingPCs
  <2>9. Moved(p) /\ Carried(p)
    BY <1>1, <2>2, <2>3, <2>4, <2>5, <2>6, <2>7, <2>8, OnwardWith
  <2> QED BY <1>1, <2>2, <2>3, <2>5, <2>9
<1>5. CASE Rows(t) # {} /\ c = "edit"
  <2>1. PICK s \in Listed(t) :
          loc' = [loc EXCEPT ![p] = [l EXCEPT !.list = s, !.shared = FALSE, !.len = Len(s)]]
    BY <1>5, <1>1 DEF ListRead
  <2>2. PICK m : m = [l EXCEPT !.list = s, !.shared = FALSE, !.len = Len(s)]
    OBVIOUS
  <2>3. s \in Seq(Names) /\ Len(s) \in Nat
    BY <1>2, ListedFacts
  <2>4. /\ Asks(m, l) /\ m.list = s /\ m.shared = FALSE /\ m.len = Len(s)
        /\ m.next = l.next /\ m.wrote = l.wrote /\ m.gone = l.gone
    BY <1>1, <2>2, <2>3 DEF Loc, Asks
  <2>5. loc' = [loc EXCEPT ![p] = m] /\ Goto(p, "edit")
    BY <1>5, <2>1, <2>2 DEF ListRead
  <2>6. "edit" \in PCs /\ "edit" \notin Google
    BY DEF PCs, SettingPCs, Google
  <2>7. /\ pc' \in [Procs -> PCs] /\ pc'[p] = "edit"
        /\ \A q \in Procs \ {p} : pc'[q] = pc[q]
    BY <2>5, <2>6, GotoFacts
  <2>8. Moved(p) /\ Carried(p)
    BY <1>1, <1>3, <1>5, <2>4, <2>5, <2>6, <2>7, OnwardWith DEF SettingPCs
  <2> QED BY <1>1, <2>4, <2>5, <2>7, <2>8
<1>6. CASE Rows(t) # {} /\ c # "edit"
  <2>1. Go(p, c)
    BY <1>6 DEF ListRead
  <2> HIDE DEF c
  <2>2. Moved(p) /\ Carried(p)
    BY <1>1, <1>3, <2>1, GoneOn DEF SettingPCs, Google
  <2>3. CASE c # "idle"
    <3>1. Goto(p, c) /\ loc' = loc
      BY <2>1, <2>3 DEF Go
    <3> QED BY <1>3, <2>2, <2>3, <3>1, GotoFacts
  <2>4. CASE c = "idle"
    BY <2>1, <2>2, <2>4 DEF Go
  <2> QED BY <2>3, <2>4
<1> QED BY <1>4, <1>5, <1>6

\* What p is at, and who it is for.
LEMMA At ==
    ASSUME Typed, NEW p \in Procs
    PROVE  /\ loc \in [Procs -> Loc] /\ loc[p] \in Loc /\ Know(pc[p], loc[p])
           /\ loc[p].op \in Ops /\ loc[p].next \in Nat /\ loc[p].next > 0
           /\ IF loc[p].shared THEN loc[p].len <= Len(Defaults)
                               ELSE loc[p].len = Len(loc[p].list)
           /\ loc[p].wrote \in Positions /\ loc[p].gone \subseteq Names
           /\ loc[p].crossed \in BOOLEAN /\ loc[p].shared \in BOOLEAN
           /\ pc[p] # "idle" =>
                User(p) \in Users /\ table[User(p)] \in Positions
<1>1. loc \in [Procs -> Loc] /\ loc[p] \in Loc /\ Know(pc[p], loc[p])
  BY DEF Typed, TypeOK
<1>2. pc[p] # "idle" => User(p) \in Users
  BY <1>1 DEF Know, User
<1>3. table \in [Users -> Positions]
  BY DEF Typed, TypeOK
<1> QED BY <1>1, <1>2, <1>3 DEF Loc, Know

LEMMA ConfigMoves ==
    ASSUME Typed, NEW p \in Procs, ConfigSelect(p) \/ ConfigInsert(p) \/ Upsert(p)
    PROVE  Moved(p) /\ Carried(p)
<1> DEFINE c == AfterConfig(loc[p].op)
<1>1. /\ c \in {"upsert", "list", "idle"} /\ c \in PCs /\ c \in SettingPCs
      /\ {"config_insert", "config"} \subseteq Google \cap PCs \cap SettingPCs
  <2>1. c \in {"upsert", "list", "idle"}
    BY At, AfterFacts
  <2> QED BY <2>1 DEF PCs, SettingPCs, Google
<1>2. CASE Answer(p)
  BY <1>2, Answered
<1>3. CASE pc[p] \in {"config", "config_insert"} /\ Go(p, c)
  <2> HIDE DEF c
  <2> QED BY <1>1, <1>3, GoneOn DEF SettingPCs
<1>4. CASE ConfigSelect(p) /\ ~Go(p, c)
  <2>1. pc[p] = "config" /\ Goto(p, "config_insert") /\ UNCHANGED loc
    BY <1>4 DEF ConfigSelect
  <2> QED BY <1>1, <2>1, Onward DEF SettingPCs
<1> QED BY <1>2, <1>3, <1>4 DEF ConfigSelect, ConfigInsert, Upsert

LEMMA EditMoves ==
    ASSUME Typed, NEW p \in Procs, Edit(p)
    PROVE  /\ Moved(p) /\ Carried(p)
           /\ defaults' \in Seq(Names) /\ Len(defaults') = Len(Defaults)
           /\ loc'[p].wrote = loc[p].wrote /\ loc'[p].gone = loc[p].gone
           /\ pc'[p] = "write" /\ \A q \in Procs \ {p} : loc'[q] = loc[q]
<1> DEFINE l == loc[p]  s == Current(p)  i == Index(s, l.name)
           new == CASE l.op = "add" -> Append(s, l.name)
                    [] l.op = "rename" -> [s EXCEPT ![i] = l.to]
                    [] OTHER -> Without(s, i)
           inPlace == l.shared /\ l.op # "add"
<1>1. /\ pc[p] = "edit" /\ Allowed(p) /\ Goto(p, "write")
      /\ loc' = [loc EXCEPT ![p] = [l EXCEPT !.list = IF inPlace THEN <<>> ELSE new,
                                             !.shared = inPlace, !.len = Len(new)]]
      /\ defaults' = IF ~inPlace THEN defaults
                     ELSE IF l.op = "rename" THEN [defaults EXCEPT ![i] = l.to]
                     ELSE Shifted(defaults, i)
  BY At DEF Edit
<1>2. /\ l.op \in {"add", "rename", "remove"} /\ l.name \in Names
      /\ l.op = "rename" => l.to \in Names
  BY <1>1, At DEF Know
<1>3. s \in Seq(Names) /\ Len(s) = l.len /\ l.len \in Nat
  BY CurrentFacts
<1>4. l.op # "add" => Has(s, l.name) /\ i \in 1 .. Len(s)
  <2>1. l.op # "add" => Has(s, l.name)
    BY <1>1, <1>2 DEF Allowed
  <2> QED BY <1>3, <2>1, IndexFacts
<1>5. new \in Seq(Names) /\ Len(new) \in Nat /\ (l.op # "add" => Len(new) <= l.len)
  <2>1. CASE l.op = "add"
    <3>1. new = Append(s, l.name)
      BY <2>1
    <3> QED BY <1>2, <1>3, <2>1, <3>1
  <2>2. CASE l.op = "rename"
    <3>1. new = [s EXCEPT ![i] = l.to]
      BY <2>2
    <3> HIDE DEF s, i
    <3> QED BY <1>2, <1>3, <1>4, <2>2, <3>1
  <2>3. CASE l.op = "remove"
    <3>1. new = Without(s, i)
      BY <2>3
    <3>2. new \in Seq(Names) /\ Len(new) = Len(s) - 1
      BY <1>3, <1>4, <2>3, <3>1, ShiftFacts
    <3> HIDE DEF new
    <3> QED BY <1>3, <3>2
  <2> QED BY <1>2, <2>1, <2>2, <2>3
<1>6. defaults \in Seq(Names) /\ Len(defaults) = Len(Defaults)
  BY DEF Typed, TypeOK
<1>7. defaults' \in Seq(Names) /\ Len(defaults') = Len(Defaults)
  <2>1. CASE ~inPlace
    BY <1>1, <1>6, <2>1
  <2>2. CASE inPlace
    <3>1. l.len <= Len(Defaults)
      BY <2>2, At
    <3>2. i \in 1 .. Len(defaults)
      BY <1>3, <1>4, <1>6, <2>2, <3>1
    <3> HIDE DEF i
    <3>3. CASE l.op = "rename"
      <4>1. defaults' = [defaults EXCEPT ![i] = l.to]
        BY <1>1, <2>2, <3>3
      <4> QED BY <1>2, <1>6, <3>2, <3>3, <4>1
    <3>4. CASE l.op # "rename"
      BY <1>1, <1>6, <2>2, <3>2, <3>4, ShiftFacts
    <3> QED BY <3>3, <3>4
  <2> QED BY <2>1, <2>2
<1>8. PICK list, b, k : /\ list = (IF inPlace THEN <<>> ELSE new) /\ b = inPlace /\ k = Len(new)
  OBVIOUS
<1>9. list \in Seq(Names) /\ b \in BOOLEAN /\ k \in Nat
  <2>1. l.shared \in BOOLEAN
    BY At
  <2> HIDE DEF new
  <2> QED BY <1>5, <1>8, <2>1
<1>10. IF b THEN k <= Len(Defaults) ELSE k = Len(list)
  <2>1. l.shared => l.len <= Len(Defaults)
    BY At
  <2> HIDE DEF new
  <2>2. CASE b
    <3>1. l.shared /\ l.op # "add"
      BY <1>8, <2>2
    <3>2. k <= l.len /\ l.len <= Len(Defaults) /\ Len(Defaults) \in Nat
      BY <1>5, <1>6, <1>8, <2>1, <3>1
    <3> QED BY <1>3, <1>9, <2>2, <3>2
  <2>3. CASE ~b
    BY <1>8, <2>3
  <2> QED BY <2>2, <2>3
<1>11. PICK m : m = [l EXCEPT !.list = list, !.shared = b, !.len = k]
  OBVIOUS
<1>12. loc' = [loc EXCEPT ![p] = m]
  BY <1>1, <1>8, <1>11
<1>13. /\ Asks(m, l) /\ m.list = list /\ m.shared = b /\ m.len = k /\ m.next = l.next
       /\ m.wrote = l.wrote /\ m.gone = l.gone
  <2>1. l \in Loc
    BY At
  <2> HIDE DEF l
  <2> QED BY <1>9, <1>11, <2>1 DEF Loc, Asks
<1>14. /\ "write" \in PCs /\ "write" \in SettingPCs /\ "write" \notin Google \cup {"link"}
       /\ pc[p] \in SettingPCs \ {"idle"}
  BY <1>1 DEF PCs, SettingPCs, Google
<1>15. /\ pc' \in [Procs -> PCs] /\ pc'[p] = "write"
       /\ \A q \in Procs \ {p} : pc'[q] = pc[q]
  BY <1>1, <1>14, GotoFacts
<1>16. m.next > 0 /\ IF m.shared THEN m.len <= Len(Defaults) ELSE m.len = Len(m.list)
  BY <1>10, <1>13, At
<1>17. Moved(p) /\ Carried(p)
  BY <1>12, <1>13, <1>14, <1>15, <1>16, OnwardWith
<1> QED BY <1>7, <1>12, <1>13, <1>15, <1>17, At

LEMMA WriteMoves ==
    ASSUME Typed, NEW p \in Procs, WriteRow(p)
    PROVE  /\ Moved(p) /\ Carried(p)
           /\ pc' = pc /\ \A q \in Procs \ {p} : loc'[q] = loc[q]
           /\ pc[p] \in {"seed", "write"} /\ loc'[p].gone = loc[p].gone
           /\ \E n \in Names :
                /\ \A q \in Others(p) : n \notin Locks(q)
                /\ Rows(loc'[p].wrote) = Rows(loc[p].wrote) \cup {n}
<1> DEFINE l == loc[p]
<1>1. PICK n : /\ n = Current(p)[l.next] /\ \A q \in Others(p) : n \notin Locks(q)
               /\ loc' = [loc EXCEPT ![p] =
                    [l EXCEPT !.next = l.next + 1, !.wrote = [l.wrote EXCEPT ![n] = l.next]]]
  BY DEF WriteRow
<1>2. pc[p] \in {"seed", "write"} /\ l.next <= l.len /\ pc' = pc
  BY DEF WriteRow
<1>3. n \in Names
  <2>1. /\ Current(p) \in Seq(Names) /\ Len(Current(p)) = l.len /\ l.len \in Nat
        /\ l.next \in Nat /\ l.next > 0
    BY At, CurrentFacts
  <2> HIDE DEF l
  <2> QED BY <1>1, <1>2, <2>1
<1>4. PICK w, i : w = [l.wrote EXCEPT ![n] = l.next] /\ i = l.next + 1
  OBVIOUS
<1>5. PICK m : m = [l EXCEPT !.next = i, !.wrote = w]
  OBVIOUS
<1>6. loc' = [loc EXCEPT ![p] = m]
  BY <1>1, <1>4, <1>5
<1>7. w \in Positions /\ i \in Nat /\ i > 0 /\ Rows(w) = Rows(l.wrote) \cup {n}
  <2>1. l.next \in Nat /\ l.next > 0 /\ l.wrote \in Positions
    BY At
  <2> HIDE DEF l
  <2> QED BY <1>3, <1>4, <2>1 DEF Positions, Rows
<1>8. /\ Asks(m, l) /\ m.list = l.list /\ m.shared = l.shared /\ m.len = l.len
      /\ m.wrote = w /\ m.gone = l.gone /\ m.next = i
  <2>1. l \in Loc
    BY At
  <2> HIDE DEF l
  <2> QED BY <1>5, <1>7, <2>1 DEF Loc, Asks
<1>9. pc \in [Procs -> PCs] /\ pc[p] \in SettingPCs \ {"idle"}
  BY <1>2 DEF Typed, TypeOK, SettingPCs
<1>10. IF m.shared THEN m.len <= Len(Defaults) ELSE m.len = Len(m.list)
  BY <1>8, At
<1>11. Moved(p) /\ Carried(p)
  BY <1>2, <1>6, <1>7, <1>8, <1>9, <1>10, OnwardWith
<1>12. loc'[p] = m /\ \A q \in Procs \ {p} : loc'[q] = loc[q]
  BY <1>6, At
<1> QED BY <1>1, <1>2, <1>3, <1>7, <1>8, <1>11, <1>12

LEMMA SweepMoves ==
    ASSUME Typed, NEW p \in Procs, Sweep(p)
    PROVE  /\ Moved(p) /\ Carried(p)
           /\ pc[p] = "write" /\ pc'[p] = "sweep"
           /\ \A q \in Procs \ {p} : loc'[q] = loc[q]
           /\ loc'[p].wrote = loc[p].wrote /\ loc'[p].gone = loc[p].gone
           /\ ~loc'[p].crossed =>
                Rows(table[User(p)]) \subseteq Rows(loc[p].wrote) \cup loc'[p].sweep
<1> DEFINE l == loc[p]  rows == Rows(table[User(p)])  mine == Rows(l.wrote)
           w == {n \in rows \cup mine : ~Has(Current(p), n)}
           b == \E n \in rows \ mine : Has(Current(p), n)
<1>1. pc[p] = "write" /\ Goto(p, "sweep")
      /\ loc' = [loc EXCEPT ![p] = [l EXCEPT !.sweep = w, !.crossed = b]]
  BY At DEF Sweep
<1>2. w \in SUBSET Names /\ b \in BOOLEAN
  BY DEF Rows
<1>3. PICK m : m = [l EXCEPT !.sweep = w, !.crossed = b]
  OBVIOUS
<1>4. loc' = [loc EXCEPT ![p] = m]
  BY <1>1, <1>3
<1>5. Alike(m, l) /\ m.sweep = w /\ m.crossed = b
  <2>1. l \in Loc
    BY At
  <2> HIDE DEF l, w, b
  <2> QED BY <1>2, <1>3, <2>1 DEF Loc, Alike
<1>6. /\ "sweep" \in PCs /\ "sweep" \in SettingPCs /\ "sweep" \notin Google \cup {"link"}
      /\ pc[p] \in SettingPCs \ {"idle"}
  BY <1>1 DEF PCs, SettingPCs, Google
<1>7. /\ pc' \in [Procs -> PCs] /\ pc'[p] = "sweep"
      /\ \A q \in Procs \ {p} : pc'[q] = pc[q]
  BY <1>1, <1>6, GotoFacts
<1>8. /\ Asks(m, l) /\ m.next > 0
      /\ IF m.shared THEN m.len <= Len(Defaults) ELSE m.len = Len(m.list)
  BY <1>5, At DEF Alike, Asks
<1>9. Moved(p) /\ Carried(p)
  BY <1>4, <1>6, <1>7, <1>8, OnwardWith
<1>10. loc'[p] = m /\ \A q \in Procs \ {p} : loc'[q] = loc[q]
  BY <1>4, At
<1>11. ~b => rows \subseteq mine \cup w
  OBVIOUS
<1> QED BY <1>1, <1>5, <1>7, <1>9, <1>10, <1>11 DEF Alike

LEMMA SweepRowMoves ==
    ASSUME Typed, NEW p \in Procs, NEW n \in Names, SweepRow(p, n)
    PROVE  /\ Moved(p) /\ Carried(p)
           /\ pc[p] = "sweep" /\ pc' = pc /\ \A q \in Procs \ {p} : loc'[q] = loc[q]
           /\ \A q \in Others(p) : n \notin Locks(q)
           /\ loc'[p].wrote = loc[p].wrote /\ loc'[p].gone = loc[p].gone \cup {n}
           /\ loc'[p].sweep = loc[p].sweep \ {n} /\ loc'[p].crossed = loc[p].crossed
<1> DEFINE l == loc[p]
<1>1. /\ pc[p] = "sweep" /\ pc' = pc /\ \A q \in Others(p) : n \notin Locks(q)
      /\ loc' = [loc EXCEPT ![p] = [l EXCEPT !.sweep = l.sweep \ {n}, !.gone = l.gone \cup {n}]]
  BY DEF SweepRow
<1>2. PICK m : m = [l EXCEPT !.sweep = l.sweep \ {n}, !.gone = l.gone \cup {n}]
  OBVIOUS
<1>3. loc' = [loc EXCEPT ![p] = m]
  BY <1>1, <1>2
<1>4. /\ Asks(m, l) /\ m.list = l.list /\ m.shared = l.shared /\ m.len = l.len
      /\ m.wrote = l.wrote /\ m.gone = l.gone \cup {n} /\ m.next = l.next
      /\ m.sweep = l.sweep \ {n} /\ m.crossed = l.crossed
  <2>1. l \in Loc
    BY At
  <2> HIDE DEF l
  <2> QED BY <1>2, <2>1 DEF Loc, Asks
<1>5. pc \in [Procs -> PCs] /\ pc[p] \in SettingPCs \ {"idle"}
      /\ pc[p] \notin Google \cup {"link"}
  BY <1>1 DEF Typed, TypeOK, SettingPCs, Google
<1>6. m.next > 0 /\ IF m.shared THEN m.len <= Len(Defaults) ELSE m.len = Len(m.list)
  BY <1>4, At
<1>7. Moved(p) /\ Carried(p)
  BY <1>1, <1>3, <1>4, <1>5, <1>6, OnwardWith DEF SettingPCs
<1>8. loc'[p] = m /\ \A q \in Procs \ {p} : loc'[q] = loc[q]
  BY <1>3, At
<1> QED BY <1>1, <1>4, <1>7, <1>8

LEMMA CommitMoves ==
    ASSUME Typed, NEW p \in Procs, Commit(p) \/ SeedCommit(p)
    PROVE  /\ Moved(p) /\ Carried(p) /\ pc[p] \in {"seed", "sweep"}
           /\ \A q \in Procs \ {p} : loc'[q] = Seen(p, q)
           /\ pc'[p] \notin Writing /\ Rows(loc'[p].wrote) = {}
           /\ loc'[p].gone = {} \/ loc'[p].gone = loc[p].gone
<1> DEFINE c == AfterList(loc[p].op)
<1>1. \A q \in Procs \ {p} :
        Seen(p, q) \in Loc /\ (Seen(p, q) = loc[q] \/ (pc[q] = "sweep" /\ Alike(Seen(p, q), loc[q])))
  BY SeenFacts, At DEF Alike
<1>2. c \in {"edit", "reserve", "link", "idle"} /\ c \in PCs
  <2>1. c \in {"edit", "reserve", "link", "idle"}
    BY At, AfterFacts
  <2> QED BY <2>1 DEF PCs, SettingPCs
<1>3. CASE loc' = [q \in Procs |-> Seen(p, q)] /\ Goto(p, "idle") /\ pc[p] \in {"seed", "sweep"}
  <2>1. Seen(p, p) = NoLoc
    BY DEF Seen
  <2>2. loc'[p] = NoLoc /\ \A q \in Procs \ {p} : loc'[q] = Seen(p, q)
    BY <1>3, <2>1
  <2>3. "idle" \in PCs /\ "idle" \notin Writing
    BY DEF PCs, SettingPCs, Writing
  <2>4. /\ pc' \in [Procs -> PCs] /\ pc'[p] = "idle"
        /\ \A q \in Procs \ {p} : pc'[q] = pc[q]
    BY <1>3, <2>3, GotoFacts
  <2>5. Know("idle", NoLoc)
    BY NoLocFacts DEF Know
  <2>6. loc' \in [Procs -> Loc]
    BY <1>1, <1>3, <2>1, NoLocFacts
  <2>7. Moved(p)
    BY <1>1, <2>2, <2>4, <2>5, <2>6 DEF Moved
  <2>8. Carried(p)
    BY <2>2, <2>4 DEF Carried
  <2> QED BY <1>3, <2>2, <2>3, <2>4, <2>7, <2>8, NoLocFacts
<1>4. CASE SeedCommit(p) /\ c # "idle"
  <2>1. PICK m : m = [loc[p] EXCEPT !.wrote = Nowhere, !.next = 1]
    OBVIOUS
  <2>2. /\ loc' = [q \in Procs |-> IF q = p THEN m ELSE Seen(p, q)]
        /\ Goto(p, c) /\ pc[p] = "seed"
    BY <1>4, <2>1 DEF SeedCommit
  <2> HIDE DEF c
  <2>3. /\ Asks(m, loc[p]) /\ m.list = loc[p].list /\ m.shared = loc[p].shared
        /\ m.len = loc[p].len /\ m.wrote = Nowhere /\ m.gone = loc[p].gone /\ m.next = 1
    <3>1. Nowhere \in Positions /\ loc[p] \in Loc
      BY At DEF Nowhere, Positions
    <3> QED BY <2>1, <3>1 DEF Loc, Asks
  <2>4. /\ pc' \in [Procs -> PCs] /\ pc'[p] = c
        /\ \A q \in Procs \ {p} : pc'[q] = pc[q]
    BY <1>2, <2>2, GotoFacts
  <2>5. /\ c = "edit" => loc[p].op \in {"add", "rename", "remove"}
        /\ c = "link" => loc[p].op = "google"
    BY At, AfterFacts DEF c
  <2>6. Know(c, m)
    <3>1. Know(pc[p], loc[p])
      BY At
    <3> QED BY <1>2, <1>4, <2>2, <2>3, <2>5, <3>1 DEF Know, Asks
  <2>7. loc' \in [Procs -> Loc] /\ loc'[p] = m /\ \A q \in Procs \ {p} : loc'[q] = Seen(p, q)
    BY <1>1, <2>2, <2>3 DEF Asks
  <2>8. Moved(p)
    BY <1>1, <2>4, <2>6, <2>7 DEF Moved
  <2>9. Carried(p)
    BY <1>2, <1>4, <2>2, <2>3, <2>4, <2>7 DEF Carried, SettingPCs, Google
  <2>10. Rows(Nowhere) = {} /\ c \notin Writing
    BY <1>2 DEF Rows, Nowhere, Writing
  <2> QED BY <2>2, <2>3, <2>4, <2>7, <2>8, <2>9, <2>10
<1>5. SeedCommit(p) /\ c = "idle" =>
        loc' = [q \in Procs |-> Seen(p, q)] /\ Goto(p, "idle") /\ pc[p] = "seed"
  BY DEF SeedCommit
<1>6. Commit(p) => loc' = [q \in Procs |-> Seen(p, q)] /\ Goto(p, "idle") /\ pc[p] = "sweep"
  BY DEF Commit
<1> QED BY <1>3, <1>4, <1>5, <1>6

LEMMA SettingsMoves ==
    ASSUME Typed, NEW p \in Procs, Settings(p) \/ Fail(p)
    PROVE  Moved(p) /\ Carried(p)
<1>1. CASE EditRefused(p) \/ Fail(p)
  BY <1>1, Answered DEF EditRefused, Fail
<1>2. CASE \E n \in Names : SweepRow(p, n)
  BY <1>2, SweepRowMoves
<1> QED BY <1>1, <1>2, ConfigMoves, ListReadMoves, EditMoves, WriteMoves, SweepMoves,
           CommitMoves DEF Settings

LEMMA MergedType ==
    ASSUME Typed, NEW p \in Procs, pc[p] # "idle"
    PROVE  Own(p) \in Positions /\ Merged(p) \in Positions
<1>1. loc[p].wrote \in Positions /\ table[User(p)] \in Positions
  BY At
<1>2. Own(p) \in Positions
  BY <1>1 DEF Own, Positions
<1> QED BY <1>1, <1>2 DEF Merged, Positions

LEMMA WithType ==
    ASSUME NEW c \in Config, NEW l \in Loc
    PROVE  With(c, l) \in Config
BY DEF With, Config, Loc

LEMMA UpsertFacts ==
    ASSUME Typed, Kept, NEW p \in Procs, Upsert(p)
    PROVE  LET u == User(p)  c == With(config[u], loc[p])
           IN  /\ u \in Users /\ c \in Config /\ config[u] = said[u]
               /\ config' = [config EXCEPT ![u] = c] /\ said' = [said EXCEPT ![u] = c]
<1> DEFINE u == User(p)
<1>1. pc[p] = "upsert" /\ u \in Users /\ loc[p] \in Loc
  BY At DEF Upsert
<1>2. config[u] # NoConfig /\ config[u] = said[u] /\ config[u] \in Config
  BY <1>1 DEF Kept, Typed, TypeOK
<1>3. With(config[u], loc[p]) \in Config
  BY <1>1, <1>2, WithType
<1>4. /\ config' = [config EXCEPT ![u] = With(config[u], loc[p])]
      /\ said' = [said EXCEPT ![u] = With(said[u], loc[p])]
  BY DEF Upsert
<1> QED BY <1>1, <1>2, <1>3, <1>4

\* The tables stay tables.
LEMMA SettingsData ==
    ASSUME Typed, Kept, NEW p \in Procs, Settings(p) \/ Fail(p)
    PROVE  /\ config' \in [Users -> Config \cup {NoConfig}]
           /\ table' \in [Users -> Positions]
           /\ defaults' \in Seq(Names) /\ Len(defaults') = Len(Defaults)
           /\ said' \in [Users -> Config] /\ written' \in [Users -> Positions]
           /\ mixed' \subseteq Users
<1>1. /\ config \in [Users -> Config \cup {NoConfig}]
      /\ table \in [Users -> Positions]
      /\ defaults \in Seq(Names) /\ Len(defaults) = Len(Defaults)
      /\ said \in [Users -> Config] /\ written \in [Users -> Positions]
      /\ mixed \subseteq Users
  BY DEF Typed, TypeOK
<1>2. CASE UNCHANGED set
  BY <1>1, <1>2 DEF set
<1>3. CASE ConfigInsert(p)
  BY <1>1, <1>3, Constants DEF ConfigInsert
<1>4. CASE Upsert(p)
  <2>1. UNCHANGED <<table, defaults, written, mixed>>
    BY <1>4 DEF Upsert
  <2> QED BY <1>1, <1>4, <2>1, UpsertFacts
<1>5. CASE Edit(p)
  <2>1. UNCHANGED <<config, table, said, written, mixed>>
    BY <1>5 DEF Edit
  <2> QED BY <1>1, <1>5, <2>1, EditMoves
<1>6. CASE Commit(p) \/ SeedCommit(p)
  <2>1. pc[p] # "idle"
    BY <1>6, CommitMoves
  <2>2. User(p) \in Users /\ Own(p) \in Positions /\ Merged(p) \in Positions
    BY <2>1, At, MergedType
  <2>3. /\ table' = [table EXCEPT ![User(p)] = Merged(p)]
        /\ written' = [written EXCEPT ![User(p)] = Own(p)]
        /\ mixed' \subseteq mixed \cup {User(p)}
        /\ UNCHANGED <<config, defaults, said>>
    BY <1>6 DEF Commit, SeedCommit
  <2> QED BY <1>1, <2>2, <2>3
<1> QED BY <1>2, <1>3, <1>4, <1>5, <1>6
        DEF Settings, Fail, ConfigSelect, ListRead, EditRefused, WriteRow, Sweep, SweepRow

LEMMA SettingsTyped ==
    ASSUME Typed, Kept, NEW p \in Procs, Settings(p) \/ Fail(p), UNCHANGED <<acct, begun>>
    PROVE  Typed'
<1>1. Moved(p)
  BY SettingsMoves
<1>2. TypeOK'
  BY <1>1, SettingsData DEF Moved, Typed, TypeOK, acct
<1>3. ASSUME NEW q \in Procs PROVE Know(pc'[q], loc'[q])
  <2>1. CASE q = p
    BY <1>1, <2>1 DEF Moved
  <2>2. CASE q # p
    <3>1. Know(pc[q], loc[q])
      BY At
    <3>2. pc'[q] = pc[q]
      BY <1>1, <2>2 DEF Moved
    <3>3. CASE loc'[q] = loc[q]
      BY <3>1, <3>2, <3>3
    <3>4. CASE pc[q] = "sweep" /\ Alike(loc'[q], loc[q])
      BY <3>1, <3>2, <3>4 DEF Know, Alike
    <3> QED BY <1>1, <2>2, <3>3, <3>4 DEF Moved
  <2> QED BY <2>1, <2>2
<1>4. \A t \in Tokens : token'[t].state = "unused" => token'[t].user \in Users
  BY DEF Typed, acct
<1> QED BY <1>2, <1>3, <1>4 DEF Typed

\* A row, once made, stays; what is acknowledged is what it says.
LEMMA SettingsKept ==
    ASSUME Typed, Kept, NEW p \in Procs, Settings(p) \/ Fail(p)
    PROVE  Kept'
<1>1. Moved(p) /\ Carried(p)
  BY SettingsMoves
<1>2. /\ config \in [Users -> Config \cup {NoConfig}] /\ said \in [Users -> Config]
  BY DEF Typed, TypeOK
<1>3. ASSUME NEW q \in Procs, q # p, pc'[q] = "upsert"
      PROVE  pc[q] = "upsert" /\ loc'[q].user = User(q) /\ User(q) \in Users
  BY <1>1, <1>3, At DEF Moved, Alike, User
<1>4. CASE UNCHANGED <<config, said>> /\ pc'[p] # "upsert"
  <2>1. ASSUME NEW q \in Procs, pc'[q] = "upsert" PROVE config'[loc'[q].user] # NoConfig
    BY <1>3, <1>4, <2>1 DEF Kept, User
  <2> QED BY <1>4, <2>1 DEF Kept, User
<1>5. CASE ConfigSelect(p) /\ pc'[p] = "upsert"
  <2>1. /\ UNCHANGED <<config, said>> /\ config[User(p)] # NoConfig
    BY <1>1, <1>5 DEF ConfigSelect, set, Goto, Typed, TypeOK
  <2>2. loc'[p].user = User(p)
    BY <1>1, <1>5, NoLocFacts DEF Carried, Asks, User
  <2>3. ASSUME NEW q \in Procs, pc'[q] = "upsert" PROVE config'[loc'[q].user] # NoConfig
    BY <1>3, <2>1, <2>2, <2>3 DEF Kept, User
  <2> QED BY <2>1, <2>3 DEF Kept, User
<1>6. CASE ConfigInsert(p) /\ config[User(p)] = NoConfig
  <2>1. /\ config' = [config EXCEPT ![User(p)] = Base] /\ said' = said
        /\ pc[p] = "config_insert"
    BY <1>6 DEF ConfigInsert
  <2>2. User(p) \in Users /\ said[User(p)] = Base
    BY <1>6, <2>1, At DEF Kept
  <2>3. pc'[p] = "upsert" => loc'[p].user = User(p)
    BY <1>1 DEF Carried, Asks, User
  <2>4. ASSUME NEW q \in Procs, pc'[q] = "upsert" PROVE config'[loc'[q].user] # NoConfig
    BY <1>2, <1>3, <2>1, <2>2, <2>3, <2>4, Constants DEF Kept, User
  <2>5. \A u \in Users : IF config'[u] = NoConfig THEN said'[u] = Base ELSE said'[u] = config'[u]
    BY <1>2, <2>1, <2>2, Constants DEF Kept
  <2> QED BY <2>4, <2>5 DEF Kept, User
<1>7. CASE ConfigInsert(p) /\ config[User(p)] # NoConfig
  <2>1. UNCHANGED <<config, said>> /\ Answer(p)
    BY <1>7 DEF ConfigInsert
  <2>2. pc'[p] = "idle"
    BY <2>1, AnswerFacts
  <2> QED BY <1>4, <2>1, <2>2
<1>8. CASE Upsert(p)
  <2> DEFINE u == User(p)  c == With(config[u], loc[p])
  <2>1. /\ u \in Users /\ c \in Config
        /\ config' = [config EXCEPT ![u] = c] /\ said' = [said EXCEPT ![u] = c]
    BY <1>8, UpsertFacts
  <2>2. pc'[p] = "idle"
    BY <1>8, AnswerFacts DEF Upsert
  <2> HIDE DEF u, c
  <2>3. ASSUME NEW q \in Procs, pc'[q] = "upsert" PROVE config'[loc'[q].user] # NoConfig
    BY <1>2, <1>3, <2>1, <2>2, <2>3, Constants DEF Kept, User
  <2>4. \A v \in Users : IF config'[v] = NoConfig THEN said'[v] = Base ELSE said'[v] = config'[v]
    BY <1>2, <2>1, Constants DEF Kept
  <2> QED BY <2>3, <2>4 DEF Kept, User
<1>9. CASE ConfigSelect(p) /\ pc'[p] # "upsert"
  BY <1>4, <1>9 DEF ConfigSelect, set
<1>10. CASE UNCHANGED <<config, said>> /\ pc[p] \notin {"config", "config_insert"}
  <2>1. pc'[p] # "upsert"
    BY <1>1, <1>10 DEF Carried
  <2> QED BY <1>4, <1>10, <2>1
<1>11. CASE Fail(p)
  <2>1. UNCHANGED <<config, said>> /\ pc'[p] = "idle"
    BY <1>11, AnswerFacts DEF Fail, set
  <2> QED BY <1>4, <2>1
<1>12. CASE \/ ListRead(p) \/ EditRefused(p) \/ Edit(p)
            \/ WriteRow(p) \/ Sweep(p) \/ \E n \in Names : SweepRow(p, n)
            \/ Commit(p) \/ SeedCommit(p)
  BY <1>10, <1>12 DEF ListRead, EditRefused, Edit, WriteRow, Sweep, SweepRow, Commit,
                      SeedCommit, set
<1> QED BY <1>5, <1>6, <1>7, <1>8, <1>9, <1>11, <1>12 DEF Settings

----------------------------------------------------------------------------
(* The rows that transactions hold *)

\* One request moves; the rows it holds then are none, or free of the others'.
LEMMA ApartStep ==
    ASSUME Apart, NEW p \in Procs,
           \A q \in Procs \ {p} : loc'[q].user = loc[q].user /\ Lock(loc'[q]) = Lock(loc[q]),
           \/ Lock(loc'[p]) = {}
           \/ /\ loc'[p].user = loc[p].user
              /\ \A q \in Others(p) : Lock(loc'[p]) \cap Lock(loc[q]) = {}
    PROVE  Apart'
<1>1. SUFFICES ASSUME NEW q \in Procs, NEW r \in Procs, q # r, loc'[q].user = loc'[r].user
               PROVE  Lock(loc'[q]) \cap Lock(loc'[r]) = {}
  BY DEF Apart, Lock
<1>2. ASSUME NEW s \in Procs, s # p, loc'[p].user = loc'[s].user
      PROVE  Lock(loc'[p]) \cap Lock(loc'[s]) = {}
  BY <1>2 DEF Others, User
<1>3. CASE q = p \/ r = p
  BY <1>1, <1>2, <1>3
<1>4. CASE q # p /\ r # p
  BY <1>1, <1>4 DEF Apart
<1> QED BY <1>3, <1>4

LEMMA WholeStep ==
    ASSUME Typed, Whole, NEW p \in Procs,
           UNCHANGED <<table, written, mixed>>,
           \A q \in Procs \ {p} : pc'[q] = pc[q] /\ loc'[q] = loc[q],
           Steady(pc'[p], loc'[p], table),
           \/ Lock(loc'[p]) = {}
           \/ /\ loc'[p].user = loc[p].user
              /\ \A q \in Others(p) : Lock(loc'[p]) \cap Lock(loc[q]) = {}
    PROVE  Whole'
<1>1. Apart'
  BY ApartStep DEF Whole
<1>2. LastListWhole'
  BY DEF Whole, LastListWhole
<1>3. \A q \in Procs : Steady(pc'[q], loc'[q], table')
  BY DEF Whole
<1> QED BY <1>1, <1>2, <1>3 DEF Whole

\* A request that holds nothing afterwards.
LEMMA WholeQuiet ==
    ASSUME Typed, Whole, NEW p \in Procs,
           UNCHANGED <<table, written, mixed>>,
           \A q \in Procs \ {p} : pc'[q] = pc[q] /\ loc'[q] = loc[q],
           pc'[p] # "sweep", Rows(loc'[p].wrote) = {}, loc'[p].gone = {}
    PROVE  Whole'
<1>1. Steady(pc'[p], loc'[p], table) /\ Lock(loc'[p]) = {}
  BY DEF Steady, Lock
<1> QED BY <1>1, WholeStep

\* Before it writes, a request holds nothing.
LEMMA Quiet ==
    ASSUME Whole, NEW p \in Procs
    PROVE  /\ pc[p] \notin Writing => Rows(loc[p].wrote) = {} /\ loc[p].gone = {}
           /\ pc[p] # "sweep" => loc[p].gone = {}
BY DEF Whole, Steady, Writing

LEMMA WriteWhole ==
    ASSUME Typed, Whole, NEW p \in Procs,
           WriteRow(p) \/ Sweep(p) \/ \E n \in Names : SweepRow(p, n)
    PROVE  Whole'
<1>1. UNCHANGED <<table, written, mixed>>
  BY DEF WriteRow, Sweep, SweepRow, set
<1>2. pc[p] \in Writing /\ pc[p] \in SettingPCs \ {"idle"}
  BY DEF WriteRow, Sweep, SweepRow, Writing, SettingPCs
<1>3. \A q \in Others(p) : Lock(loc[p]) \cap Lock(loc[q]) = {}
  BY DEF Whole, Apart, Others, User
<1>4. CASE WriteRow(p)
  <2>1. PICK n \in Names :
          /\ \A q \in Others(p) : n \notin Locks(q)
          /\ Rows(loc'[p].wrote) = Rows(loc[p].wrote) \cup {n}
    BY <1>4, WriteMoves
  <2>2. /\ pc' = pc /\ \A q \in Procs \ {p} : loc'[q] = loc[q]
        /\ pc[p] \in {"seed", "write"} /\ loc'[p].gone = loc[p].gone
        /\ Carried(p)
    BY <1>4, WriteMoves
  <2>3. loc'[p].user = loc[p].user
    BY <2>2 DEF Carried, Asks
  <2>4. Lock(loc'[p]) = Lock(loc[p]) \cup {n} /\ \A q \in Others(p) : n \notin Lock(loc[q])
    BY <2>1, <2>2 DEF Lock, Locks
  <2>5. Steady(pc'[p], loc'[p], table)
    BY <2>2, Quiet DEF Steady, Writing
  <2> QED BY <1>1, <1>3, <2>2, <2>3, <2>4, <2>5, WholeStep
<1>5. CASE Sweep(p)
  <2>1. /\ Moved(p) /\ Carried(p) /\ pc[p] = "write" /\ pc'[p] = "sweep"
        /\ \A q \in Procs \ {p} : loc'[q] = loc[q]
        /\ loc'[p].wrote = loc[p].wrote /\ loc'[p].gone = loc[p].gone
        /\ ~loc'[p].crossed =>
             Rows(table[User(p)]) \subseteq Rows(loc[p].wrote) \cup loc'[p].sweep
    BY <1>5, SweepMoves
  <2>2. loc'[p].user = loc[p].user /\ \A q \in Procs \ {p} : pc'[q] = pc[q]
    BY <2>1 DEF Carried, Asks, Moved
  <2>3. Lock(loc'[p]) = Lock(loc[p])
    BY <2>1 DEF Lock
  <2>4. Steady(pc'[p], loc'[p], table)
    BY <2>1, <2>2 DEF Steady, Lock, Writing, User
  <2> QED BY <1>1, <1>3, <2>1, <2>2, <2>3, <2>4, WholeStep
<1>6. CASE \E n \in Names : SweepRow(p, n)
  <2>1. PICK n \in Names : SweepRow(p, n)
    BY <1>6
  <2>2. /\ Carried(p) /\ pc[p] = "sweep" /\ pc' = pc
        /\ \A q \in Procs \ {p} : loc'[q] = loc[q]
        /\ \A q \in Others(p) : n \notin Locks(q)
        /\ loc'[p].wrote = loc[p].wrote /\ loc'[p].gone = loc[p].gone \cup {n}
        /\ loc'[p].sweep = loc[p].sweep \ {n} /\ loc'[p].crossed = loc[p].crossed
    BY <2>1, SweepRowMoves
  <2>3. loc'[p].user = loc[p].user
    BY <2>2 DEF Carried, Asks
  <2>4. Lock(loc'[p]) = Lock(loc[p]) \cup {n} /\ \A q \in Others(p) : n \notin Lock(loc[q])
    BY <2>2 DEF Lock, Locks
  <2>5. Steady(pc[p], loc[p], table)
    BY DEF Whole
  <2>6. Steady(pc'[p], loc'[p], table)
    BY <2>2, <2>3, <2>4, <2>5 DEF Steady, Writing
  <2> QED BY <1>1, <1>3, <2>2, <2>3, <2>4, <2>6, WholeStep
<1> QED BY <1>4, <1>5, <1>6

\* Whoever has seen every row leaves the rows of its list alone.
LEMMA MergedOwn ==
    ASSUME Typed, NEW p \in Procs, pc[p] # "idle",
           Rows(table[User(p)]) \subseteq Lock(loc[p])
    PROVE  Merged(p) = Own(p)
<1>1. /\ loc[p].wrote \in Positions /\ table[User(p)] \in Positions
      /\ Merged(p) \in Positions /\ Own(p) \in Positions
  BY At, MergedType
<1>2. ASSUME NEW n \in Names PROVE Merged(p)[n] = Own(p)[n]
  <2>1. CASE n \in Locks(p)
    BY <2>1 DEF Merged
  <2>2. CASE n \notin Locks(p)
    <3>1. n \notin Rows(table[User(p)]) /\ n \notin Rows(loc[p].wrote) /\ n \notin loc[p].gone
      BY <2>2 DEF Locks, Lock
    <3>2. table[User(p)][n] = 0 /\ loc[p].wrote[n] = 0
      BY <1>1, <3>1, RowsFacts
    <3> QED BY <2>2, <3>1, <3>2 DEF Merged, Own
  <2> QED BY <2>1, <2>2
<1> QED BY <1>1, <1>2 DEF Positions

LEMMA CommitWhole ==
    ASSUME Typed, Whole, NEW p \in Procs, Commit(p) \/ SeedCommit(p)
    PROVE  Whole'
<1> DEFINE u == User(p)
<1>1. /\ Moved(p) /\ Carried(p) /\ pc[p] \in {"seed", "sweep"}
      /\ \A q \in Procs \ {p} : loc'[q] = Seen(p, q)
      /\ pc'[p] \notin Writing /\ Rows(loc'[p].wrote) = {}
      /\ loc'[p].gone = {} \/ loc'[p].gone = loc[p].gone
  BY CommitMoves
<1>2. /\ u \in Users /\ table \in [Users -> Positions] /\ written \in [Users -> Positions]
      /\ mixed \subseteq Users
  BY <1>1, At DEF Typed, TypeOK
<1>3. /\ table' = [table EXCEPT ![u] = Merged(p)] /\ written' = [written EXCEPT ![u] = Own(p)]
      /\ mixed \ {u} \subseteq mixed'
      /\ u \notin mixed' => Rows(table[u]) \subseteq Lock(loc[p])
  <2>1. CASE Commit(p)
    <3>1. /\ pc[p] = "sweep" /\ loc[p].sweep = {}
          /\ table' = [table EXCEPT ![u] = Merged(p)]
          /\ written' = [written EXCEPT ![u] = Own(p)]
          /\ mixed' = IF loc[p].crossed THEN mixed \cup {u} ELSE mixed \ {u}
      BY <2>1 DEF Commit
    <3>2. Steady(pc[p], loc[p], table)
      BY DEF Whole
    <3>3. ~loc[p].crossed => Rows(table[u]) \subseteq Lock(loc[p])
      BY <3>1, <3>2 DEF Steady, User
    <3> QED BY <3>1, <3>3
  <2>2. CASE SeedCommit(p)
    <3>1. /\ table' = [table EXCEPT ![u] = Merged(p)]
          /\ written' = [written EXCEPT ![u] = Own(p)]
          /\ mixed' = IF Rows(table[u]) \subseteq Locks(p) THEN mixed \ {u} ELSE mixed \cup {u}
      BY <2>2 DEF SeedCommit
    <3> QED BY <3>1 DEF Locks, Lock
  <2> QED BY <2>1, <2>2
<1>4. pc[p] # "idle"
  BY <1>1
<1>5. LastListWhole'
  <2>1. ASSUME NEW v \in Users \ mixed'
        PROVE  table'[v] \in {written'[v], Translated(written'[v])}
    <3>1. CASE v = u
      BY <1>2, <1>3, <1>4, <2>1, <3>1, MergedOwn
    <3>2. CASE v # u
      BY <1>2, <1>3, <2>1, <3>2 DEF Whole, LastListWhole
    <3> QED BY <3>1, <3>2
  <2> QED BY <2>1 DEF LastListWhole
<1>6. loc'[p].gone = {}
  <2>1. CASE Commit(p)
    <3>1. loc'[p] = NoLoc
      BY <2>1, <1>2, At DEF Commit, Seen
    <3> QED BY <3>1, NoLocFacts
  <2>2. CASE SeedCommit(p)
    <3>1. loc[p].gone = {}
      BY <2>2, Quiet DEF SeedCommit
    <3> QED BY <1>1, <3>1
  <2> QED BY <2>1, <2>2
<1>7. \A q \in Procs \ {p} : loc'[q].user = loc[q].user /\ Lock(loc'[q]) = Lock(loc[q])
  BY <1>1 DEF Moved, Alike, Lock
<1>8. Lock(loc'[p]) = {}
  BY <1>1, <1>6 DEF Lock
<1>9. Apart'
  BY <1>7, <1>8, ApartStep DEF Whole
<1>10. ASSUME NEW q \in Procs PROVE Steady(pc'[q], loc'[q], table')
  <2>1. CASE q = p
    BY <1>1, <1>6, <2>1 DEF Steady, Writing
  <2>2. CASE q # p
    <3>1. Steady(pc[q], loc[q], table) /\ pc'[q] = pc[q] /\ loc'[q] = Seen(p, q)
      BY <1>1, <2>2 DEF Whole, Moved
    <3>2. CASE Seen(p, q) = loc[q] /\ ~(pc[q] = "sweep" /\ User(q) = User(p))
      <4>1. loc[q].user # u => table'[loc[q].user] = table[loc[q].user]
        <5>1. pc[q] = "sweep" => loc[q].user \in Users
          BY At DEF User
        <5> QED BY <1>2, <1>3
      <4> QED BY <3>1, <3>2, <4>1 DEF Steady, User
    <3>3. CASE /\ pc[q] = "sweep" /\ User(q) = User(p) /\ Alike(Seen(p, q), loc[q])
               /\ Seen(p, q).crossed =
                    (loc[q].crossed \/ Rows(loc[q].wrote) \cap Rows(loc[p].wrote) = {})
      <4>1. Lock(loc[q]) \cap Lock(loc[p]) = {}
        BY <2>2, <3>3 DEF Whole, Apart, User
      <4>2. Rows(loc[q].wrote) \cap Rows(loc[p].wrote) = {}
        BY <4>1 DEF Lock
      <4>3. Seen(p, q).crossed
        BY <3>3, <4>2
      <4> QED BY <3>1, <3>3, <4>3 DEF Steady, Writing
    <3> QED BY <2>2, <3>2, <3>3, SeenFacts
  <2> QED BY <2>1, <2>2
<1> QED BY <1>5, <1>9, <1>10 DEF Whole

LEMMA SettingsWhole ==
    ASSUME Typed, Whole, NEW p \in Procs, Settings(p) \/ Fail(p)
    PROVE  Whole'
<1>1. Moved(p) /\ Carried(p)
  BY SettingsMoves
<1>2. CASE Answer(p) /\ UNCHANGED <<table, written, mixed>>
  BY <1>2, AnswerFacts, NoLocFacts, WholeQuiet
<1>3. CASE /\ pc[p] \notin Writing /\ pc'[p] # "sweep" /\ UNCHANGED <<table, written, mixed>>
           /\ loc'[p].wrote = loc[p].wrote /\ loc'[p].gone = loc[p].gone
           /\ \A q \in Procs \ {p} : pc'[q] = pc[q] /\ loc'[q] = loc[q]
  BY <1>3, Quiet, WholeQuiet
<1>4. CASE ConfigSelect(p) \/ ConfigInsert(p) \/ Upsert(p) \/ EditRefused(p) \/ Fail(p)
  <2>1. UNCHANGED <<table, written, mixed>>
    BY <1>4 DEF ConfigSelect, ConfigInsert, Upsert, EditRefused, Fail, set
  <2>2. \/ Answer(p)
        \/ loc' = loc /\ pc[p] \in {"config", "config_insert"} /\ Goto(p, "config_insert")
        \/ loc' = loc /\ pc[p] \in {"config", "config_insert"} /\ Goto(p, AfterConfig(loc[p].op))
    BY <1>4 DEF ConfigSelect, ConfigInsert, Upsert, EditRefused, Fail, Go
  <2>3. CASE loc' = loc /\ pc[p] \in {"config", "config_insert"}
               /\ \E c \in {"config_insert", "upsert", "list", "idle"} : Goto(p, c)
    <3>1. pc'[p] # "sweep" /\ \A q \in Procs \ {p} : pc'[q] = pc[q]
      BY <2>3 DEF Goto, Typed, TypeOK
    <3> QED BY <1>3, <2>1, <2>3, <3>1 DEF Writing
  <2>4. AfterConfig(loc[p].op) \in {"upsert", "list", "idle"}
    BY At, AfterFacts
  <2> QED BY <1>2, <2>1, <2>2, <2>3, <2>4
<1>5. CASE ListRead(p)
  <2>1. UNCHANGED <<table, written, mixed>> /\ pc[p] = "list"
    BY <1>5 DEF ListRead, set
  <2>2. CASE Answer(p)
    BY <1>2, <2>1, <2>2
  <2>3. CASE ~Answer(p)
    BY <1>3, <1>5, <2>1, <2>3, ListReadMoves DEF Writing
  <2> QED BY <2>2, <2>3
<1>6. CASE Edit(p)
  <2>1. UNCHANGED <<table, written, mixed>> /\ pc[p] = "edit"
    BY <1>6 DEF Edit
  <2> QED BY <1>1, <1>3, <1>6, <2>1, EditMoves DEF Moved, Writing
<1>7. CASE WriteRow(p) \/ Sweep(p) \/ \E n \in Names : SweepRow(p, n)
  BY <1>7, WriteWhole
<1>8. CASE Commit(p) \/ SeedCommit(p)
  BY <1>8, CommitWhole
<1> QED BY <1>4, <1>5, <1>6, <1>7, <1>8 DEF Settings

----------------------------------------------------------------------------
(* Who is let in *)

\* Nobody loses an account or a bond, and what is new is fit.
Grown ==
    /\ proved \subseteq proved'
    /\ \A u \in Users : status[u] = "active" => status'[u] = "active"
    /\ \A u \in Users : status'[u] = "active" => u \in proved'
    /\ \A s \in Subjects : identity[s] # NoUser => identity'[s] = identity[s]
    /\ \A s \in Subjects : identity'[s] # identity[s] => Fit(identity'[s], status', proved')
    /\ \A s \in sessions' \ sessions :
         Fit(s.user, status', proved') /\ (s.via \in Subjects => identity'[s.via] = s.user)

LEMMA GrownFit ==
    ASSUME Grown, NEW u, Fit(u, status, proved)
    PROVE  Fit(u, status', proved')
BY DEF Grown, Fit

LEMMA EnterGrown ==
    ASSUME Grown, NEW c, NEW l, Enter(c, l, status, proved, identity)
    PROVE  Enter(c, l, status', proved', identity')
<1>1. Fit(l.user, status, proved) => Fit(l.user, status', proved')
  BY GrownFit
<1>2. l.user \in proved => l.user \in proved'
  BY DEF Grown
<1>3. c = "session" /\ l.ref \in Subjects => identity'[l.ref] = l.user
  <2>1. SUFFICES ASSUME c = "session", l.ref \in Subjects PROVE identity'[l.ref] = l.user
    OBVIOUS
  <2>2. identity[l.ref] = l.user /\ l.user \in Users
    BY <2>1 DEF Enter, Fit
  <2>3. identity[l.ref] # NoUser
    BY <2>2, Constants
  <2> QED BY <2>1, <2>2, <2>3 DEF Grown
<1> QED BY <1>1, <1>2, <1>3 DEF Enter

LEMMA EntryStep ==
    ASSUME Entry, Typed, Grown,
           \A q \in Procs : Enter(pc'[q], loc'[q], status', proved', identity')
    PROVE  Entry'
<1>1. /\ sessions \subseteq Session /\ GoogleSticks /\ SignedInProved
      /\ \A s \in Subjects : identity[s] # NoUser => Fit(identity[s], status, proved)
  BY DEF Typed, TypeOK, Entry
<1>2. ASSUME NEW s \in sessions'
      PROVE  /\ s.via \in Subjects => identity'[s.via] = s.user
             /\ status'[s.user] = "active" /\ s.user \in proved'
  <2>1. CASE s \in sessions
    <3>1. s.user \in Users /\ s.user # NoUser /\ status[s.user] = "active" /\ s.user \in proved
      BY <1>1, <2>1, Constants DEF Session, SignedInProved
    <3>2. s.via \in Subjects => identity[s.via] = s.user
      BY <1>1, <2>1 DEF GoogleSticks
    <3> QED BY <3>1, <3>2 DEF Grown
  <2>2. CASE s \notin sessions
    BY <2>2 DEF Grown, Fit
  <2> QED BY <2>1, <2>2
<1>3. ASSUME NEW s \in Subjects, identity'[s] # NoUser
      PROVE  Fit(identity'[s], status', proved')
  <2>1. CASE identity'[s] = identity[s]
    BY <1>1, <1>3, <2>1, GrownFit
  <2>2. CASE identity'[s] # identity[s]
    BY <2>2 DEF Grown
  <2> QED BY <2>1, <2>2
<1>4. \A u \in Users : status'[u] = "active" => u \in proved'
  BY DEF Grown
<1> QED BY <1>2, <1>3, <1>4 DEF Entry, GoogleSticks, SignedInProved

LEMMA AcctGrown == ASSUME Entry, UNCHANGED acct PROVE Grown
BY DEF acct, Grown, Entry

LEMMA SettingsEntry ==
    ASSUME IInv, NEW p \in Procs, Settings(p) \/ Fail(p), UNCHANGED acct
    PROVE  Entry'
<1>1. Moved(p) /\ Carried(p) /\ Grown /\ Typed /\ Entry
  BY SettingsMoves, AcctGrown DEF IInv
<1>2. ASSUME NEW q \in Procs
      PROVE  Enter(pc'[q], loc'[q], status', proved', identity')
  <2>1. Enter(pc[q], loc[q], status', proved', identity')
    BY <1>1, EnterGrown DEF Entry
  <2>2. CASE q # p
    <3>1. pc'[q] = pc[q] /\ loc'[q].op = loc[q].op /\ loc'[q].user = loc[q].user
          /\ loc'[q].ref = loc[q].ref
      BY <1>1, <2>2 DEF Moved, Alike
    <3> QED BY <2>1, <3>1 DEF Enter
  <2>3. CASE q = p /\ pc'[p] = "idle" /\ loc'[p] = NoLoc
    BY <2>3, NoLocFacts DEF Enter
  <2>4. CASE q = p /\ Asks(loc'[p], loc[p]) /\ pc'[p] \in SettingPCs \cup {"reserve", "link"}
             /\ (pc'[p] \in Google \cup {"link"} => pc[p] \in Google)
    <3>1. /\ loc'[p].op = loc[p].op /\ loc'[p].user = loc[p].user /\ loc'[p].ref = loc[p].ref
          /\ pc'[p] \notin {"session", "activate"}
      BY <2>4 DEF Asks, SettingPCs
    <3>2. pc'[p] = "link" => loc'[p].op = "google"
      BY <1>1 DEF Moved, Know
    <3> QED BY <2>1, <2>4, <3>1, <3>2 DEF Enter, Google
  <2> QED BY <1>1, <2>2, <2>3, <2>4 DEF Carried
<1> QED BY <1>1, <1>2, EntryStep

LEMMA SettingsInv ==
    ASSUME IInv, NEW p \in Procs, Settings(p) \/ Fail(p), UNCHANGED <<acct, begun>>
    PROVE  IInv'
BY SettingsTyped, SettingsKept, SettingsWhole, SettingsEntry DEF IInv

----------------------------------------------------------------------------
(* The steps of Accounts *)

AcctType ==
    /\ status \in [Users -> {"none", "pending", "active"}]
    /\ password \subseteq Users /\ proved \subseteq Users
    /\ identity \in [Subjects -> Users \cup {NoUser}]
    /\ sessions \subseteq Session
    /\ token \in [Tokens -> TokenRow] /\ mailed \subseteq Tokens
    /\ begun \in 0 .. MaxRequests
    /\ \A t \in Tokens : token[t].state = "unused" => token[t].user \in Users

LEMMA SetType ==
    ASSUME Typed, UNCHANGED <<set>>, AcctType',
           pc' \in [Procs -> PCs], loc' \in [Procs -> Loc],
           \A q \in Procs : Know(pc'[q], loc'[q])
    PROVE  Typed'
BY DEF Typed, TypeOK, AcctType, set

\* p goes to c with m, and holds no rows.
LEMMA RequestStep ==
    ASSUME IInv, NEW p \in Procs, NEW c \in PCs, NEW m \in Loc,
           c \notin {"upsert", "sweep"}, Know(c, m), Rows(m.wrote) = {}, m.gone = {},
           pc' = [pc EXCEPT ![p] = c], loc' = [loc EXCEPT ![p] = m],
           UNCHANGED set, AcctType', Grown,
           Enter(c, m, status', proved', identity')
    PROVE  IInv'
<1>1. /\ Typed /\ Kept /\ Whole /\ Entry
      /\ pc \in [Procs -> PCs] /\ loc \in [Procs -> Loc]
  BY DEF IInv, Typed, TypeOK
<1>2. /\ pc' \in [Procs -> PCs] /\ loc' \in [Procs -> Loc]
      /\ pc'[p] = c /\ loc'[p] = m
      /\ \A q \in Procs \ {p} : pc'[q] = pc[q] /\ loc'[q] = loc[q]
  BY <1>1
<1>3. Typed'
  <2>1. \A q \in Procs : Know(pc'[q], loc'[q])
    BY <1>1, <1>2, At
  <2> QED BY <1>1, <1>2, <2>1, SetType
<1>4. Kept'
  <2>1. UNCHANGED <<config, said>>
    BY DEF set
  <2> QED BY <1>1, <1>2, <2>1 DEF Kept, User
<1>5. Whole'
  <2>1. UNCHANGED <<table, written, mixed>>
    BY DEF set
  <2> QED BY <1>1, <1>2, <2>1, WholeQuiet
<1>6. Entry'
  <2>1. \A q \in Procs : Enter(pc'[q], loc'[q], status', proved', identity')
    BY <1>1, <1>2, EnterGrown DEF Entry
  <2> QED BY <1>1, <2>1, EntryStep
<1> QED BY <1>3, <1>4, <1>5, <1>6 DEF IInv

\* No request moves.
LEMMA TableStep ==
    ASSUME IInv, UNCHANGED <<set, pc, loc>>, AcctType', Grown
    PROVE  IInv'
<1>1. Typed /\ Kept /\ Whole /\ Entry
  BY DEF IInv
<1>2. Typed'
  BY <1>1, SetType DEF Typed, TypeOK
<1>3. Kept' /\ Whole'
  BY <1>1 DEF set, Kept, Whole, LastListWhole, Apart, User
<1>4. Entry'
  <2>1. \A q \in Procs : Enter(pc'[q], loc'[q], status', proved', identity')
    BY <1>1, EnterGrown DEF Entry
  <2> QED BY <1>1, <2>1, EntryStep
<1> QED BY <1>2, <1>3, <1>4 DEF IInv

LEMMA AcctKept ==
    ASSUME IInv
    PROVE  AcctType /\ \A u \in Users : status[u] = "active" => u \in proved
BY DEF IInv, Typed, TypeOK, AcctType, Entry

\* A request of an account that holds no rows: what it knows, and that an
\* answer leaves nothing to know.
LEMMA Holder ==
    ASSUME IInv, NEW p \in Procs, pc[p] \notin Writing, pc[p] # "idle"
    PROVE  /\ loc[p] \in Loc /\ Know(pc[p], loc[p]) /\ loc[p].user \in Users
           /\ Rows(loc[p].wrote) = {} /\ loc[p].gone = {}
           /\ Enter(pc[p], loc[p], status, proved, identity)
           /\ loc = [loc EXCEPT ![p] = loc[p]]
BY At, Quiet DEF IInv, Entry, Know

LEMMA AnswerStep ==
    ASSUME IInv, NEW p \in Procs, Answer(p), UNCHANGED set, AcctType', Grown
    PROVE  IInv'
<1>1. /\ Know("idle", NoLoc) /\ "idle" \in PCs
      /\ Enter("idle", NoLoc, status', proved', identity')
  BY NoLocFacts DEF Know, PCs, SettingPCs, Enter
<1>2. pc' = [pc EXCEPT ![p] = "idle"] /\ loc' = [loc EXCEPT ![p] = NoLoc]
  BY DEF Answer, Goto
<1> QED BY <1>1, <1>2, NoLocFacts, RequestStep

LEMMA GotoStep ==
    ASSUME IInv, NEW p \in Procs, NEW c \in PCs, Goto(p, c), UNCHANGED <<set, loc>>,
           pc[p] \notin Writing, pc[p] # "idle", c \notin {"upsert", "sweep"},
           Know(c, loc[p]), AcctType', Grown,
           Enter(c, loc[p], status', proved', identity')
    PROVE  IInv'
<1>1. pc' = [pc EXCEPT ![p] = c] /\ loc' = [loc EXCEPT ![p] = loc[p]]
  BY Holder DEF Goto
<1> QED BY <1>1, Holder, RequestStep

LEMMA BeginStep ==
    ASSUME IInv, NEW p \in Procs, NEW c \in PCs \ {"idle"}, NEW m, Fresh(m),
           m.user \in Users, Know(c, m), c \notin {"upsert", "sweep"},
           Goto(p, c), loc' = [loc EXCEPT ![p] = m],
           UNCHANGED set, AcctType', Grown,
           Enter(c, m, status', proved', identity')
    PROVE  IInv'
BY RequestStep DEF Fresh, Goto

LEMMA BegunType == ASSUME IInv, NEW p \in Procs, Begin(p) PROVE begun' \in 0 .. MaxRequests
<1>1. begun \in 0 .. MaxRequests /\ MaxRequests \in Nat
  BY Constants DEF IInv, Typed, TypeOK
<1> QED BY <1>1 DEF Begin

LEMMA RegisterInv ==
    ASSUME IInv, NEW p \in Procs, NEW u \in Users, Register(p, u)
    PROVE  IInv'
<1>1. AcctType' /\ Grown
  <2>1. begun' \in 0 .. MaxRequests /\ UNCHANGED acct
    BY BegunType DEF Register
  <2> QED BY <2>1, AcctKept, AcctGrown DEF AcctType, acct, IInv
<1>2. ASSUME NEW op \in {"register", "pending"}, NEW c \in {"create", "reserve"},
             c = "create" => op = "register",
             loc' = [loc EXCEPT ![p] = Request(op, u, NoRef)], Goto(p, c)
      PROVE  IInv'
  <2> DEFINE m == Request(op, u, NoRef)
  <2>1. Fresh(m) /\ m.op = op /\ m.user = u /\ m.ref = NoRef
    BY RequestFacts DEF Ops
  <2> HIDE DEF m
  <2>2. Know(c, m) /\ Enter(c, m, status', proved', identity')
    BY <1>2, <2>1 DEF Know, Enter, Fresh
  <2>3. c \in PCs \ {"idle"} /\ c \notin {"upsert", "sweep"}
    BY DEF PCs
  <2>4. loc' = [loc EXCEPT ![p] = m]
    BY <1>2 DEF m
  <2> QED BY <1>1, <1>2, <2>1, <2>2, <2>3, <2>4, BeginStep DEF Register
<1> QED BY <1>2 DEF Register

LEMMA LoginInv ==
    ASSUME IInv, NEW p \in Procs, NEW u \in Users, Login(p, u)
    PROVE  IInv'
<1> DEFINE m == Request("login", u, NoRef)
<1>1. AcctType' /\ Grown
  <2>1. begun' \in 0 .. MaxRequests /\ UNCHANGED acct
    BY BegunType DEF Login
  <2> QED BY <2>1, AcctKept, AcctGrown DEF AcctType, acct, IInv
<1>2. Fresh(m) /\ m.op = "login" /\ m.user = u /\ m.ref = NoRef
  BY RequestFacts DEF Ops
<1>3. /\ Goto(p, "session") /\ loc' = [loc EXCEPT ![p] = m] /\ UNCHANGED set
      /\ UNCHANGED acct /\ status[u] = "active"
  BY DEF Login
<1> HIDE DEF m
<1>4. Fit(u, status', proved')
  BY <1>3, AcctKept DEF Fit, acct
<1>5. Know("session", m) /\ Enter("session", m, status', proved', identity')
  BY <1>2, <1>4, Constants DEF Know, Enter, Fresh
<1>6. "session" \in PCs \ {"idle"}
  BY DEF PCs
<1> QED BY <1>1, <1>2, <1>3, <1>5, <1>6, BeginStep

\* Somebody shows to be u.
LEMMA ProvedStep ==
    ASSUME IInv, NEW u \in Users, proved' = proved \cup {u}, begun' \in 0 .. MaxRequests,
           UNCHANGED <<status, password, identity, sessions, token, mailed>>
    PROVE  AcctType' /\ Grown
<1>1. AcctType'
  BY AcctKept DEF AcctType
<1>2. Grown
  BY AcctKept DEF Grown
<1> QED BY <1>1, <1>2

LEMMA CallbackInv ==
    ASSUME IInv, NEW p \in Procs, NEW s \in Subjects, NEW u \in Users, Callback(p, s, u)
    PROVE  IInv'
<1> DEFINE m == Request("google", u, s)
<1>1. AcctType' /\ Grown
  BY BegunType, ProvedStep DEF Callback
<1>2. Fresh(m) /\ m.op = "google" /\ m.user = u /\ m.ref = s
  BY Constants, RequestFacts DEF Ops
<1>3. /\ Goto(p, "identity") /\ loc' = [loc EXCEPT ![p] = m] /\ UNCHANGED set
      /\ u \in proved'
  BY DEF Callback
<1> HIDE DEF m
<1>4. Know("identity", m) /\ Enter("identity", m, status', proved', identity')
  BY <1>2, <1>3 DEF Know, Enter, Fresh
<1>5. "identity" \in PCs \ {"idle"}
  BY DEF PCs
<1> QED BY <1>1, <1>2, <1>3, <1>4, <1>5, BeginStep

LEMMA FollowInv ==
    ASSUME IInv, NEW p \in Procs, NEW t \in Tokens, Follow(p, t)
    PROVE  IInv'
<1> DEFINE u == token[t].user
           m == Request("verify", u, t)
<1>1. u \in Users
  BY AcctKept DEF AcctType, Follow
<1>2. /\ Goto(p, "activate") /\ loc' = [loc EXCEPT ![p] = m] /\ UNCHANGED set
      /\ proved' = proved \cup {u}
  BY DEF Follow
<1>3. Fresh(m) /\ m.op = "verify" /\ m.user = u /\ m.ref = t
  BY <1>1, Constants, RequestFacts DEF Ops
<1> HIDE DEF u, m
<1>4. AcctType' /\ Grown
  BY <1>1, <1>2, BegunType, ProvedStep DEF Follow
<1>5. Know("activate", m) /\ Enter("activate", m, status', proved', identity')
  BY <1>1, <1>2, <1>3, Constants DEF Know, Enter, Fresh
<1>6. "activate" \in PCs \ {"idle"}
  BY DEF PCs
<1> QED BY <1>1, <1>2, <1>3, <1>4, <1>5, <1>6, BeginStep

LEMMA AskInv ==
    ASSUME IInv, NEW p \in Procs, AskSignedIn(p)
    PROVE  IInv'
<1>1. AcctType' /\ Grown
  <2>1. begun' \in 0 .. MaxRequests /\ UNCHANGED acct
    BY BegunType DEF AskSignedIn
  <2> QED BY <2>1, AcctKept, AcctGrown DEF AcctType, acct, IInv
<1>2. PICK s \in sessions : Ask(p, s.user)
  BY DEF AskSignedIn
<1>3. s.user \in Users
  BY AcctKept DEF AcctType, Session
<1>4. PICK m \in Asked(s.user) :
        loc' = [loc EXCEPT ![p] = m] /\ Goto(p, Start(m.op)) /\ UNCHANGED set
  BY <1>2 DEF Ask
<1>5. /\ Fresh(m) /\ m.user = s.user /\ m.ref = NoRef
      /\ m.op \in {"read", "all", "get", "currency", "day", "add", "remove", "rename", "put"}
      /\ m.op \in {"add", "rename", "remove"} => m.name \in Names
      /\ m.op = "rename" => m.to \in Names
  BY <1>3, AskedFacts
<1>6. Start(m.op) \in {"config", "write", "list"}
  BY <1>5 DEF Start
<1>7. Know(Start(m.op), m) /\ Enter(Start(m.op), m, status', proved', identity')
  BY <1>3, <1>5, <1>6 DEF Know, Enter, Fresh
<1>8. Start(m.op) \in PCs \ {"idle"} /\ Start(m.op) \notin {"upsert", "sweep"}
  BY <1>6 DEF PCs, SettingPCs
<1> QED BY <1>1, <1>3, <1>4, <1>5, <1>7, <1>8, BeginStep

\* An account comes to be, or becomes active, when its address is proved.
LEMMA StatusStep ==
    ASSUME IInv, NEW u \in Users, NEW v \in {"pending", "active"},
           v = "active" => u \in proved, status[u] = "active" => v = "active",
           status' = [status EXCEPT ![u] = v], password' \subseteq Users,
           UNCHANGED <<identity, sessions, token, mailed, proved, begun>>
    PROVE  AcctType' /\ Grown
<1>1. AcctType'
  BY AcctKept DEF AcctType
<1>2. Grown
  BY AcctKept DEF Grown, AcctType
<1> QED BY <1>1, <1>2

LEMMA CreateUserInv ==
    ASSUME IInv, NEW p \in Procs, CreateUser(p)
    PROVE  IInv'
<1> DEFINE l == loc[p]  u == l.user  v == IF l.op = "register" THEN "pending" ELSE "active"
<1>1. pc[p] = "create"
  BY DEF CreateUser
<1>2. /\ l \in Loc /\ Know("create", l) /\ u \in Users
      /\ Enter("create", l, status, proved, identity)
  BY <1>1, Holder DEF Writing
<1>3. CASE status[u] = "none"
  <2>1. /\ status' = [status EXCEPT ![u] = v] /\ password' \subseteq Users
        /\ Goto(p, "config") /\ UNCHANGED <<set, loc>>
        /\ UNCHANGED <<identity, sessions, token, mailed, proved, begun>>
    BY <1>2, <1>3, AcctKept DEF CreateUser, User, AcctType
  <2>2. v \in {"pending", "active"} /\ (v = "active" => l.op = "google")
    BY <1>2 DEF Know
  <2>3. l.op = "google" => u \in proved
    BY <1>2 DEF Enter
  <2>4. AcctType' /\ Grown
    <3> HIDE DEF u, v
    <3> QED BY <1>2, <1>3, <2>1, <2>2, <2>3, StatusStep DEF u
  <2>5. l.op = "google" => Fit(u, status', proved')
    BY <1>2, <2>1, <2>3, AcctKept DEF Fit, AcctType
  <2>6. Know("config", l) /\ Enter("config", l, status', proved', identity')
    BY <1>2, <2>1, <2>5 DEF Know, Enter
  <2>7. "config" \in PCs
    BY DEF PCs, SettingPCs
  <2> QED BY <1>1, <2>1, <2>4, <2>6, <2>7, GotoStep DEF Writing
<1>4. CASE status[u] # "none"
  <2>1. Answer(p) /\ UNCHANGED set /\ UNCHANGED acct /\ begun' = begun
    BY <1>4 DEF CreateUser, User, acct
  <2>2. AcctType' /\ Grown
    BY <2>1, AcctKept, AcctGrown DEF AcctType, acct, IInv
  <2> QED BY <2>1, <2>2, AnswerStep
<1> QED BY <1>3, <1>4

LEMMA ReserveInv ==
    ASSUME IInv, NEW p \in Procs, Reserve(p)
    PROVE  IInv'
<1>1. AcctType' /\ Grown /\ UNCHANGED set /\ pc[p] = "reserve" /\ UNCHANGED acct
  BY AcctKept, AcctGrown DEF AcctType, acct, IInv, Reserve
<1>2. CASE Answer(p)
  BY <1>1, <1>2, AnswerStep
<1>3. CASE Goto(p, "token_delete") /\ UNCHANGED loc
  <2>1. Know("reserve", loc[p]) /\ Enter("reserve", loc[p], status, proved, identity)
    BY <1>1, Holder DEF Writing
  <2>2. Know("token_delete", loc[p]) /\ Enter("token_delete", loc[p], status', proved', identity')
    BY <1>1, <2>1 DEF Know, Enter, acct
  <2>3. "token_delete" \in PCs
    BY DEF PCs
  <2> QED BY <1>1, <1>3, <2>2, <2>3, GotoStep DEF Writing
<1> QED BY <1>2, <1>3 DEF Reserve

\* Only links change.
LEMMA TokenStep ==
    ASSUME IInv, token' \in [Tokens -> TokenRow], mailed' \subseteq Tokens,
           \A t \in Tokens : token'[t].state = "unused" => token'[t].user \in Users,
           UNCHANGED <<status, password, identity, sessions, proved, begun>>
    PROVE  AcctType' /\ Grown
BY AcctKept DEF AcctType, Grown

LEMMA TokenType ==
    ASSUME IInv, NEW t \in Tokens
    PROVE  /\ token[t] \in TokenRow /\ token \in [Tokens -> TokenRow]
           /\ token[t].state = "unused" => token[t].user \in Users
           /\ \A s \in {"none", "unused", "expired", "verified", "deleted"} :
                LET m == [token[t] EXCEPT !.state = s]
                IN  m \in TokenRow /\ m.state = s /\ m.user = token[t].user
<1>1. token[t] \in TokenRow /\ token \in [Tokens -> TokenRow]
  BY AcctKept DEF AcctType
<1> QED BY <1>1, AcctKept DEF TokenRow, AcctType

LEMMA TokenDeleteInv ==
    ASSUME IInv, NEW p \in Procs, TokenDelete(p)
    PROVE  IInv'
<1>1. /\ pc[p] = "token_delete" /\ Goto(p, "token_insert") /\ UNCHANGED <<set, loc>>
      /\ UNCHANGED <<status, password, identity, sessions, mailed, proved, begun>>
      /\ token' = [t \in Tokens |->
           IF token[t].user = User(p) /\ token[t].state \in {"unused", "expired"}
           THEN [token[t] EXCEPT !.state = "deleted"] ELSE token[t]]
  BY DEF TokenDelete
<1>2. mailed \subseteq Tokens
  BY AcctKept DEF AcctType
<1>3. ASSUME NEW t \in Tokens
      PROVE  token'[t] \in TokenRow /\ (token'[t].state = "unused" => token'[t].user \in Users)
  BY <1>1, TokenType
<1>4. token' \in [Tokens -> TokenRow]
  BY <1>1, <1>3
<1>5. AcctType' /\ Grown
  BY <1>1, <1>2, <1>3, <1>4, TokenStep
<1>6. Know("token_delete", loc[p]) /\ Enter("token_delete", loc[p], status, proved, identity)
  BY <1>1, Holder DEF Writing
<1>7. Know("token_insert", loc[p]) /\ Enter("token_insert", loc[p], status', proved', identity')
  BY <1>1, <1>6 DEF Know, Enter
<1>8. "token_insert" \in PCs
  BY DEF PCs
<1> QED BY <1>1, <1>5, <1>7, <1>8, GotoStep DEF Writing

LEMMA TokenInsertInv ==
    ASSUME IInv, NEW p \in Procs, NEW t \in Tokens, TokenInsert(p, t)
    PROVE  IInv'
<1> DEFINE l == loc[p]
<1>1. /\ pc[p] = "token_insert" /\ Goto(p, "mail") /\ UNCHANGED set
      /\ UNCHANGED <<status, password, identity, sessions, mailed, proved, begun>>
      /\ token' = [token EXCEPT ![t] = [state |-> "unused", user |-> l.user]]
  BY DEF TokenInsert, User
<1>2. PICK m : m = [l EXCEPT !.ref = t]
  OBVIOUS
<1>3. loc' = [loc EXCEPT ![p] = m]
  BY <1>2, At DEF TokenInsert, IInv
<1>4. /\ l \in Loc /\ Know("token_insert", l) /\ l.user \in Users
      /\ Rows(l.wrote) = {} /\ l.gone = {}
      /\ Enter("token_insert", l, status, proved, identity)
  BY <1>1, Holder DEF Writing
<1>6. /\ m \in Loc /\ m.op = l.op /\ m.user = l.user /\ m.ref = t
      /\ m.name = l.name /\ m.to = l.to
      /\ m.list = l.list /\ m.shared = l.shared /\ m.len = l.len
      /\ m.wrote = l.wrote /\ m.gone = l.gone /\ m.next = l.next
  <2>1. t \in Refs \cup {NoRef}
    BY Constants
  <2> HIDE DEF l
  <2> QED BY <1>2, <1>4, <2>1 DEF Loc
<1>7. Know("mail", m) /\ Enter("mail", m, status', proved', identity')
  BY <1>1, <1>4, <1>6 DEF Know, Enter
<1>8. AcctType' /\ Grown
  <2>1. mailed \subseteq Tokens /\ token \in [Tokens -> TokenRow]
    BY AcctKept DEF AcctType
  <2>2. [state |-> "unused", user |-> l.user] \in TokenRow
    BY <1>4 DEF TokenRow
  <2>3. \A r \in Tokens : token'[r].state = "unused" => token'[r].user \in Users
    BY <1>1, <1>4, <2>1, AcctKept DEF AcctType
  <2> QED BY <1>1, <2>1, <2>2, <2>3, TokenStep
<1>9. "mail" \in PCs
  BY DEF PCs
<1> QED BY <1>1, <1>3, <1>4, <1>6, <1>7, <1>8, <1>9, RequestStep DEF Goto

LEMMA MailInv ==
    ASSUME IInv, NEW p \in Procs, Mail(p)
    PROVE  IInv'
<1>1. /\ pc[p] = "mail" /\ mailed' = mailed \cup {loc[p].ref} /\ Answer(p) /\ UNCHANGED set
      /\ UNCHANGED <<status, password, identity, sessions, token, proved, begun>>
  BY DEF Mail
<1>2. loc[p].ref \in Tokens
  BY <1>1, Holder DEF Writing, Know
<1>3. AcctType' /\ Grown
  <2>1. mailed \subseteq Tokens /\ token \in [Tokens -> TokenRow]
    BY AcctKept DEF AcctType
  <2> QED BY <1>1, <1>2, <2>1, AcctKept, TokenStep DEF AcctType
<1> QED BY <1>1, <1>3, AnswerStep

LEMMA ActivateInv ==
    ASSUME IInv, NEW p \in Procs, Activate(p)
    PROVE  IInv'
<1> DEFINE l == loc[p]  u == l.user
<1>1. /\ pc[p] = "activate" /\ status' = [status EXCEPT ![u] = "active"]
      /\ Goto(p, "mark") /\ UNCHANGED <<set, loc>>
      /\ UNCHANGED <<password, identity, sessions, token, mailed, proved, begun>>
  BY DEF Activate, User
<1>2. /\ l \in Loc /\ Know("activate", l) /\ u \in Users
      /\ Enter("activate", l, status, proved, identity)
  BY <1>1, Holder DEF Writing
<1>3. u \in proved
  BY <1>2 DEF Enter
<1>4. AcctType' /\ Grown
  <2>1. password' \subseteq Users
    BY <1>1, AcctKept DEF AcctType
  <2> HIDE DEF u
  <2> QED BY <1>1, <1>2, <1>3, <2>1, StatusStep
<1>5. Know("mark", l) /\ Enter("mark", l, status', proved', identity')
  BY <1>1, <1>2 DEF Know, Enter
<1>6. "mark" \in PCs
  BY DEF PCs
<1> QED BY <1>1, <1>4, <1>5, <1>6, GotoStep DEF Writing

LEMMA MarkInv ==
    ASSUME IInv, NEW p \in Procs, Mark(p)
    PROVE  IInv'
<1> DEFINE t == loc[p].ref
           row == IF token[t].state = "deleted" THEN token[t]
                                                ELSE [token[t] EXCEPT !.state = "verified"]
<1>1. pc[p] = "mark"
  BY DEF Mark
<1>2. t \in Tokens
  BY <1>1, Holder DEF Writing, Know
<1>3. row \in TokenRow /\ row.state # "unused" /\ token \in [Tokens -> TokenRow]
  BY <1>2, TokenType
<1>4. /\ token' = [token EXCEPT ![t] = row] /\ Answer(p) /\ UNCHANGED set
      /\ UNCHANGED <<status, password, identity, sessions, mailed, proved, begun>>
  BY <1>2, <1>3 DEF Mark
<1>5. AcctType' /\ Grown
  <2> HIDE DEF row, t
  <2>1. \A r \in Tokens : token'[r].state = "unused" => token'[r].user \in Users
    BY <1>2, <1>3, <1>4, TokenType
  <2> QED BY <1>2, <1>3, <1>4, <2>1, AcctKept, TokenStep DEF AcctType
<1> QED BY <1>4, <1>5, AnswerStep

\* An account of the database, or of a link of Google, becomes active: it was
\* proved before.
LEMMA GetIdentityInv ==
    ASSUME IInv, NEW p \in Procs, GetIdentity(p)
    PROVE  IInv'
<1> DEFINE l == loc[p]  u == identity[l.ref]
<1>1. /\ pc[p] = "identity" /\ UNCHANGED set
      /\ UNCHANGED <<password, identity, sessions, token, mailed, proved, begun>>
  BY DEF GetIdentity
<1>2. /\ l \in Loc /\ Know("identity", l) /\ Rows(l.wrote) = {} /\ l.gone = {}
      /\ Enter("identity", l, status, proved, identity) /\ l.op = "google" /\ l.ref \in Subjects
  BY <1>1, Holder DEF Writing, Know
<1>3. CASE u = NoUser
  <2>1. Goto(p, "lookup") /\ UNCHANGED <<loc, status>>
    BY <1>3 DEF GetIdentity
  <2>2. AcctType' /\ Grown
    BY <1>1, <2>1, AcctKept, AcctGrown DEF AcctType, acct, IInv
  <2>3. Know("lookup", l) /\ Enter("lookup", l, status', proved', identity')
    BY <1>1, <1>2, <2>1 DEF Know, Enter
  <2>4. "lookup" \in PCs
    BY DEF PCs
  <2> QED BY <1>1, <2>1, <2>2, <2>3, <2>4, GotoStep DEF Writing
<1>4. CASE u # NoUser
  <2>1. Fit(u, status, proved)
    BY <1>2, <1>4 DEF IInv, Entry
  <2>2. PICK m : m = [l EXCEPT !.user = u]
    OBVIOUS
  <2>3. /\ loc' = [loc EXCEPT ![p] = m] /\ status' = [status EXCEPT ![u] = "active"]
        /\ Goto(p, "session")
    BY <1>4, <2>2, At DEF GetIdentity, IInv
  <2>4. /\ m \in Loc /\ m.op = l.op /\ m.user = u /\ m.ref = l.ref
        /\ m.name = l.name /\ m.to = l.to
        /\ m.list = l.list /\ m.shared = l.shared /\ m.len = l.len
        /\ m.wrote = l.wrote /\ m.gone = l.gone /\ m.next = l.next
    <3>1. u \in Users
      BY <2>1 DEF Fit
    <3> HIDE DEF l, u
    <3> QED BY <1>2, <2>2, <3>1 DEF Loc
  <2>5. AcctType' /\ Grown
    <3>1. u \in Users /\ u \in proved /\ password' \subseteq Users
      BY <1>1, <2>1, AcctKept DEF Fit, AcctType
    <3> HIDE DEF u
    <3> QED BY <1>1, <2>3, <3>1, StatusStep
  <2>6. Fit(u, status', proved') /\ identity'[m.ref] = m.user
    BY <1>1, <2>1, <2>4, <2>5, GrownFit
  <2>7. Know("session", m) /\ Enter("session", m, status', proved', identity')
    <3>1. u \in Users /\ u \in proved'
      BY <2>6 DEF Fit
    <3> HIDE DEF u
    <3> QED BY <1>2, <2>4, <2>6, <3>1 DEF Know, Enter
  <2>8. "session" \in PCs
    BY DEF PCs
  <2> QED BY <1>1, <1>2, <2>3, <2>4, <2>5, <2>7, <2>8, RequestStep DEF Goto
<1> QED BY <1>3, <1>4

LEMMA LookupInv ==
    ASSUME IInv, NEW p \in Procs, Lookup(p)
    PROVE  IInv'
<1> DEFINE l == loc[p]  u == l.user
<1>1. /\ pc[p] = "lookup" /\ UNCHANGED <<set, loc>>
      /\ UNCHANGED <<password, identity, sessions, token, mailed, proved, begun>>
  BY DEF Lookup
<1>2. /\ l \in Loc /\ Know("lookup", l) /\ u \in Users /\ l.op = "google"
      /\ Enter("lookup", l, status, proved, identity) /\ u \in proved
  BY <1>1, Holder DEF Writing, Know, Enter
<1>3. CASE status[u] = "none"
  <2>1. Goto(p, "create") /\ UNCHANGED status
    BY <1>3 DEF Lookup, User
  <2>2. AcctType' /\ Grown
    BY <1>1, <2>1, AcctKept, AcctGrown DEF AcctType, acct, IInv
  <2>3. Know("create", l) /\ Enter("create", l, status', proved', identity')
    BY <1>1, <1>2, <2>1 DEF Know, Enter
  <2>4. "create" \in PCs
    BY DEF PCs
  <2> QED BY <1>1, <2>1, <2>2, <2>3, <2>4, GotoStep DEF Writing
<1>4. CASE status[u] # "none"
  <2>1. Goto(p, "link") /\ status' = [status EXCEPT ![u] = "active"]
    BY <1>4 DEF Lookup, User
  <2>2. AcctType' /\ Grown
    <3>1. password' \subseteq Users
      BY <1>1, AcctKept DEF AcctType
    <3> HIDE DEF u
    <3> QED BY <1>1, <1>2, <2>1, <3>1, StatusStep
  <2>3. Fit(u, status', proved')
    BY <1>1, <1>2, <2>1, AcctKept DEF Fit, AcctType
  <2>4. Know("link", l) /\ Enter("link", l, status', proved', identity')
    BY <1>1, <1>2, <2>3 DEF Know, Enter
  <2>5. "link" \in PCs
    BY DEF PCs
  <2> QED BY <1>1, <2>1, <2>2, <2>4, <2>5, GotoStep DEF Writing
<1> QED BY <1>3, <1>4

LEMMA LinkInv ==
    ASSUME IInv, NEW p \in Procs, Link(p)
    PROVE  IInv'
<1> DEFINE l == loc[p]  u == l.user  s == l.ref
<1>1. /\ pc[p] = "link" /\ UNCHANGED set
      /\ UNCHANGED <<status, password, sessions, token, mailed, proved, begun>>
  BY DEF Link
<1>2. /\ l \in Loc /\ Know("link", l) /\ u \in Users /\ s \in Subjects
      /\ Enter("link", l, status, proved, identity) /\ Fit(u, status, proved)
  BY <1>1, Holder DEF Writing, Know, Enter
<1>3. CASE identity[s] \in {NoUser, u}
  <2>1. Goto(p, "session") /\ UNCHANGED loc /\ identity' = [identity EXCEPT ![s] = u]
    BY <1>3 DEF Link, User
  <2>2. Fit(u, status', proved') /\ identity \in [Subjects -> Users \cup {NoUser}]
    BY <1>1, <1>2, AcctKept DEF Fit, AcctType
  <2>3. AcctType' /\ Grown
    <3> HIDE DEF u, s
    <3>1. AcctType'
      BY <1>1, <1>2, <2>1, AcctKept DEF AcctType
    <3>2. Grown
      BY <1>1, <1>2, <1>3, <2>1, <2>2, AcctKept DEF Grown
    <3> QED BY <3>1, <3>2
  <2>4. Know("session", l) /\ Enter("session", l, status', proved', identity')
    BY <1>1, <1>2, <2>1, <2>2 DEF Know, Enter
  <2>5. "session" \in PCs
    BY DEF PCs
  <2> QED BY <1>1, <2>1, <2>3, <2>4, <2>5, GotoStep DEF Writing
<1>4. CASE identity[s] \notin {NoUser, u}
  <2>1. Answer(p) /\ UNCHANGED identity
    BY <1>4 DEF Link, User
  <2>2. AcctType' /\ Grown
    BY <1>1, <2>1, AcctKept, AcctGrown DEF AcctType, acct, IInv
  <2> QED BY <1>1, <2>1, <2>2, AnswerStep
<1> QED BY <1>3, <1>4

LEMMA CreateSessionInv ==
    ASSUME IInv, NEW p \in Procs, CreateSession(p)
    PROVE  IInv'
<1> DEFINE l == loc[p]  m == [user |-> l.user, via |-> l.ref]
<1>1. /\ pc[p] = "session" /\ sessions' = sessions \cup {m} /\ Answer(p) /\ UNCHANGED set
      /\ UNCHANGED <<status, password, identity, token, mailed, proved, begun>>
  BY DEF CreateSession, User
<1>2. /\ l \in Loc /\ Know("session", l) /\ l.user \in Users
      /\ Enter("session", l, status, proved, identity)
  BY <1>1, Holder DEF Writing
<1>3. /\ m \in Session /\ Fit(m.user, status, proved)
      /\ m.via \in Subjects => identity[m.via] = m.user
  BY <1>2 DEF Know, Enter, Session
<1>4. AcctType' /\ Grown
  <2> HIDE DEF m
  <2>1. AcctType'
    BY <1>1, <1>3, AcctKept DEF AcctType
  <2>2. Grown
    BY <1>1, <1>3, AcctKept DEF Grown
  <2> QED BY <2>1, <2>2
<1> QED BY <1>1, <1>4, AnswerStep

LEMMA ExpireInv ==
    ASSUME IInv, NEW t \in Tokens, Expire(t)
    PROVE  IInv'
<1>1. PICK m : m = [token[t] EXCEPT !.state = "expired"]
  OBVIOUS
<1>2. m \in TokenRow /\ m.state = "expired" /\ token \in [Tokens -> TokenRow]
  BY <1>1, TokenType
<1>3. /\ token' = [token EXCEPT ![t] = m] /\ UNCHANGED <<set, pc, loc>>
      /\ UNCHANGED <<status, password, identity, sessions, mailed, proved, begun>>
  BY <1>1, <1>2 DEF Expire
<1>4. \A r \in Tokens : token'[r].state = "unused" => token'[r].user \in Users
  BY <1>2, <1>3, TokenType
<1>5. AcctType' /\ Grown
  BY <1>2, <1>3, <1>4, AcctKept, TokenStep DEF AcctType
<1> QED BY <1>3, <1>5, TableStep

LEMMA EndSessionInv ==
    ASSUME IInv, NEW s \in sessions, EndSession(s)
    PROVE  IInv'
<1>1. /\ sessions' \subseteq sessions /\ UNCHANGED <<set, pc, loc>>
      /\ UNCHANGED <<status, password, identity, token, mailed, proved, begun>>
  BY DEF EndSession
<1>2. AcctType' /\ Grown
  BY <1>1, AcctKept DEF AcctType, Grown
<1> QED BY <1>1, <1>2, TableStep

\* What one start has translated the next finds translated.
LEMMA TranslatedFacts ==
    ASSUME NEW t \in Positions
    PROVE  /\ Translated(t) \in Positions
           /\ Translated(Translated(t)) = Translated(t)
<1> DEFINE s == Translated(t)
<1>1. \A n \in DOMAIN English : n \in Names /\ English[n] \in Names \ DOMAIN English
  BY AccountsAssumption
<1>2. s \in Positions
  BY <1>1 DEF Translated, Positions
<1>3. ASSUME NEW n \in Names PROVE Translated(s)[n] = s[n]
  <2>1. ASSUME NEW m \in DOMAIN English, s[m] = 0
        PROVE  t[m] = 0 /\ s[English[m]] = 0
    BY <1>1, <2>1 DEF Translated, Positions
  <2>2. Translated(s)[n] = IF n \in DOMAIN English /\ s[n] = 0 THEN s[English[n]]
                           ELSE IF \E m \in DOMAIN English : English[m] = n /\ s[m] = 0
                           THEN 0 ELSE s[n]
    BY DEF Translated
  <2> QED BY <2>1, <2>2
<1>4. Translated(s) = s
  BY <1>2, <1>3 DEF Translated, Positions
<1> QED BY <1>2, <1>4

LEMMA RestartInv ==
    ASSUME IInv, Restart
    PROVE  IInv'
<1>1. Typed /\ Kept /\ Whole /\ Entry
  BY DEF IInv
<1>2. /\ pc' = [p \in Procs |-> "idle"] /\ loc' = [p \in Procs |-> NoLoc] /\ defaults' = Defaults
      /\ table' = [u \in Users |-> Translated(table[u])]
      /\ UNCHANGED <<config, said, written, mixed>>
      /\ UNCHANGED <<status, password, identity, sessions, mailed, proved, begun>>
      /\ token' = [t \in Tokens |-> IF token[t].state \in {"verified", "expired"}
                                    THEN [token[t] EXCEPT !.state = "deleted"] ELSE token[t]]
  BY DEF Restart
<1>3. AcctType' /\ Grown
  <2>1. ASSUME NEW t \in Tokens
        PROVE  token'[t] \in TokenRow /\ (token'[t].state = "unused" => token'[t].user \in Users)
    BY <1>2, TokenType
  <2>2. token' \in [Tokens -> TokenRow]
    BY <1>2, <2>1
  <2> QED BY <1>2, <2>1, <2>2, AcctKept, TokenStep DEF AcctType
<1>4. Typed'
  <2>1. /\ config' \in [Users -> Config \cup {NoConfig}] /\ table' \in [Users -> Positions]
        /\ defaults' \in Seq(Names) /\ Len(defaults') = Len(Defaults)
        /\ said' \in [Users -> Config] /\ written' \in [Users -> Positions] /\ mixed' \subseteq Users
    BY <1>1, <1>2, Constants, TranslatedFacts DEF Typed, TypeOK
  <2>2. pc' \in [Procs -> PCs] /\ loc' \in [Procs -> Loc]
    BY <1>2, NoLocFacts DEF PCs, SettingPCs
  <2>3. \A p \in Procs : Know(pc'[p], loc'[p])
    BY <1>2, NoLocFacts DEF Know
  <2> QED BY <1>3, <2>1, <2>2, <2>3 DEF Typed, TypeOK, AcctType
<1>5. Kept'
  BY <1>1, <1>2 DEF Kept
<1>6. Whole'
  <2>1. ASSUME NEW u \in Users \ mixed'
        PROVE  table'[u] \in {written'[u], Translated(written'[u])}
    <3>1. u \in Users /\ written[u] \in Positions /\ written'[u] = written[u]
          /\ table'[u] = Translated(table[u])
      BY <1>1, <1>2 DEF Typed, TypeOK
    <3>2. table[u] \in {written[u], Translated(written[u])}
      BY <1>1, <1>2 DEF Whole, LastListWhole
    <3> QED BY <3>1, <3>2, TranslatedFacts
  <2>2. LastListWhole'
    BY <2>1 DEF LastListWhole
  <2> QED BY <1>2, <2>2, NoLocFacts DEF Whole, Apart, Lock, Steady, Writing
<1>7. Entry'
  <2>1. \A p \in Procs : Enter(pc'[p], loc'[p], status', proved', identity')
    BY <1>2, NoLocFacts DEF Enter
  <2> QED BY <1>1, <1>3, <2>1, EntryStep
<1> QED BY <1>4, <1>5, <1>6, <1>7 DEF IInv

LEMMA InvNext == ASSUME IInv, [Next]_vars PROVE IInv'
<1>1. CASE UNCHANGED vars
  <2>1. UNCHANGED <<set, pc, loc, acct, begun>>
    BY <1>1 DEF vars
  <2>2. AcctType' /\ Grown
    BY <2>1, AcctKept, AcctGrown DEF AcctType, acct, IInv
  <2> QED BY <2>1, <2>2, TableStep
<1>2. ASSUME NEW p \in Procs, NEW u \in Users, Register(p, u) \/ Login(p, u) PROVE IInv'
  BY <1>2, RegisterInv, LoginInv
<1>3. ASSUME NEW p \in Procs, NEW s \in Subjects, NEW u \in Users, Callback(p, s, u) PROVE IInv'
  BY <1>3, CallbackInv
<1>4. ASSUME NEW p \in Procs, NEW t \in Tokens, Follow(p, t) \/ TokenInsert(p, t) PROVE IInv'
  BY <1>4, FollowInv, TokenInsertInv
<1>5. ASSUME NEW p \in Procs,
             \/ CreateUser(p) \/ Reserve(p) \/ TokenDelete(p) \/ Mail(p)
             \/ Activate(p) \/ Mark(p)
             \/ GetIdentity(p) \/ Lookup(p) \/ Link(p) \/ CreateSession(p)
             \/ AskSignedIn(p)
      PROVE  IInv'
  BY <1>5, CreateUserInv, ReserveInv, TokenDeleteInv, MailInv, ActivateInv, MarkInv,
     GetIdentityInv, LookupInv, LinkInv, CreateSessionInv, AskInv
<1>6. ASSUME NEW p \in Procs, Settings(p) \/ Fail(p), UNCHANGED <<acct, begun>> PROVE IInv'
  BY <1>6, SettingsInv
<1>7. ASSUME NEW t \in Tokens, Expire(t) PROVE IInv'
  BY <1>7, ExpireInv
<1>8. ASSUME NEW s \in sessions, EndSession(s) PROVE IInv'
  BY <1>8, EndSessionInv
<1>9. CASE Restart
  BY <1>9, RestartInv
<1> QED BY <1>1, <1>2, <1>3, <1>4, <1>5, <1>6, <1>7, <1>8, <1>9, Zenon DEF Next

----------------------------------------------------------------------------
\* The inductive invariant of every behaviour.
THEOREM Invariant == Spec => []IInv
BY InvInit, InvNext, PTL DEF Spec

\* Tables and requests hold what they may.
THEOREM TypeCorrect == Spec => []TypeOK
<1>1. IInv => TypeOK
  BY DEF IInv, Typed
<1> QED BY <1>1, Invariant, PTL

\* Whoever is in by Google is in the account that Google account is bound to,
\* however many callbacks race in ensureGoogleIdentity.
THEOREM GoogleSticksThm == Spec => []GoogleSticks
<1>1. IInv => GoogleSticks
  BY DEF IInv, Entry
<1> QED BY <1>1, Invariant, PTL

\* Whoever AuthLogin or AuthGoogleCallback lets in has an active account of a
\* proved address.
THEOREM SignedInProvedThm == Spec => []SignedInProved
<1>1. IInv => SignedInProved
  BY DEF IInv, Entry
<1> QED BY <1>1, Invariant, PTL

\* No request that finds user_config without a row undoes what UpdateCurrency or
\* UpdateStartDate acknowledged.
THEOREM PreferencesKeptThm == Spec => []PreferencesKept
<1>1. IInv => PreferencesKept
  BY DEF IInv, Kept, PreferencesKept
<1> QED BY <1>1, Invariant, PTL

\* The categories are the list that was committed last, with English names
\* translated by a start or not yet, unless two lists without a common name met
\* in updateCategoriesTable.
THEOREM LastListWholeThm == Spec => []LastListWhole
<1>1. IInv => LastListWhole
  BY DEF IInv, Whole
<1> QED BY <1>1, Invariant, PTL
=============================================================================
