--------------------------- MODULE RecurringProofs ---------------------------
(***************************************************************************)
(* Theorems about Recurring, for any number of rules and requests, any     *)
(* plans and any instants; and about the calendar it counts with.          *)
(***************************************************************************)
EXTENDS Recurring, FiniteSetTheorems, WellFoundedInduction, TLAPS

\* One transaction holds a rule, which then is live.
Locked ==
    \A p \in Procs : Holds(p) =>
        /\ loc[p].rule \in Rules /\ rule[loc[p].rule].state = "live"
        /\ \A q \in Procs \ {p} : Holds(q) => loc[q].rule # loc[p].rule

\* A request knows its rule, and an update its plan.
Asked ==
    \A p \in Procs : pc[p] # "idle" =>
        /\ loc[p].rule \in Rules
        /\ pc[p] \in {"lock", "delete", "generate", "copy"} => loc[p].plan \in Plans

\* What a transaction has deleted are the instances due after its reading of
\* the clock, and what it has generated is due after its second one.
Prepared ==
    \A p \in Procs : pc[p] \in {"generate", "copy"} =>
        /\ \A e \in loc[p].gone : e.rule = loc[p].rule /\ loc[p].at <= e.date
        /\ \A e \in Generates(loc[p].rule) \ loc[p].gone : e.date < loc[p].at
        /\ IF loc[p].all THEN loc[p].at = 0 ELSE loc[p].at <= now
        /\ pc[p] = "copy" => /\ loc[p].at <= loc[p].till
                             /\ loc[p].new = Generated(loc[p].plan, loc[p].till)

\* What holds of the instances of one rule: a rule never added has none; one
\* that no hand has touched is on a date of its plan, and as NoLeftovers and
\* ScheduleKept have it.
RuleKept(r) ==
    /\ rule[r].state = "none" => Instances(r) = {}
    /\ \A e \in Generates(r) :
         /\ e.date \in Schedule(e.plan)
         /\ e.date < kept[r] \/ (rule[r].state = "live" /\ e.ver = rule[r].ver)
         /\ e.date \in owed[r]
    /\ owed[r] \ Dates(Generates(r)) \subseteq hand[r] \cup crossed[r]

IInv == /\ TypeOK /\ Locked /\ Asked /\ Prepared
        /\ \A r \in Rules : RuleKept(r)

----------------------------------------------------------------------------
(* The calendar *)

\* The table of the days before a month is right about their lengths.
LEMMA DaysBeforeFacts ==
    /\ \A b \in 0 .. 11 : DaysBefore[b + 1] \in 28 * b .. 334
    /\ \A b \in 0 .. 10 : DaysBefore[b + 1] + 28 <= DaysBefore[b + 2]
    /\ \A b, c \in 0 .. 11 : b <= c => DaysBefore[b + 1] <= DaysBefore[c + 1]
<1>1. DaysBefore[1] = 0 /\ DaysBefore[2] = 31 /\ DaysBefore[3] = 59 /\ DaysBefore[4] = 90
      /\ DaysBefore[5] = 120 /\ DaysBefore[6] = 151 /\ DaysBefore[7] = 181
      /\ DaysBefore[8] = 212 /\ DaysBefore[9] = 243 /\ DaysBefore[10] = 273
      /\ DaysBefore[11] = 304 /\ DaysBefore[12] = 334
  BY DEF DaysBefore
<1> HIDE DEF DaysBefore
<1>2. ASSUME NEW b \in 0 .. 11 PROVE b \in {0, 1, 2, 3, 4, 5, 6, 7, 8, 9, 10, 11}
  OBVIOUS
<1>3. \A b \in 0 .. 11 : DaysBefore[b + 1] \in 28 * b .. 334
  BY <1>1, <1>2
<1>4. \A b \in 0 .. 10 : DaysBefore[b + 1] + 28 <= DaysBefore[b + 2]
  BY <1>1
<1>5. \A b, c \in 0 .. 11 : b <= c => DaysBefore[b + 1] <= DaysBefore[c + 1]
  BY <1>1, <1>2
<1> QED BY <1>3, <1>4, <1>5

\* Years and months.
LEMMA MonthParts ==
    ASSUME NEW m \in Nat
    PROVE  /\ m \div 12 \in Nat /\ m % 12 \in 0 .. 11 /\ m = 12 * (m \div 12) + (m % 12)
           /\ (m + 46) \div 48 \in Nat
  OBVIOUS

\* Months follow one another, each of 28 days at least.
LEMMA MonthStartFacts ==
    /\ \A m \in Nat : MonthStart(m) \in Nat /\ 28 * m <= MonthStart(m)
    /\ \A m, n \in Nat : m <= n => MonthStart(m) <= MonthStart(n)
    /\ \A m \in Nat : MonthStart(m) + 28 <= MonthStart(m + 1)
    /\ MonthStart(0) = 0
<1> USE DEF MonthStart
<1>1. ASSUME NEW m \in Nat PROVE MonthStart(m) \in Nat /\ 28 * m <= MonthStart(m)
  <2> DEFINE a == m \div 12  b == m % 12  u == (m + 46) \div 48  x == DaysBefore[b + 1]
  <2>1. a \in Nat /\ b \in 0 .. 11 /\ m = 12 * a + b /\ u \in Nat
    BY MonthParts
  <2>2. MonthStart(m) = 365 * a + x + u
    OBVIOUS
  <2>3. x \in 28 * b .. 334
    BY <2>1, DaysBeforeFacts
  <2> HIDE DEF a, b, u, x, MonthStart
  <2>4. x \in Nat /\ 28 * b <= x
    BY <2>1, <2>3
  <2> QED BY <2>1, <2>2, <2>4
<1>2. ASSUME NEW m \in Nat, NEW n \in Nat, m <= n PROVE MonthStart(m) <= MonthStart(n)
  <2> DEFINE a == m \div 12  b == m % 12  c == n \div 12  d == n % 12
             u == (m + 46) \div 48  v == (n + 46) \div 48
             x == DaysBefore[b + 1]  y == DaysBefore[d + 1]
  <2>1. /\ a \in Nat /\ b \in 0 .. 11 /\ m = 12 * a + b /\ u \in Nat
        /\ c \in Nat /\ d \in 0 .. 11 /\ n = 12 * c + d /\ v \in Nat
    BY MonthParts
  <2>2. u <= v
    BY <1>2
  <2>3. MonthStart(m) = 365 * a + x + u /\ MonthStart(n) = 365 * c + y + v
    OBVIOUS
  <2> HIDE DEF a, b, c, d, u, v, MonthStart
  <2>4. x \in 28 * b .. 334 /\ y \in 28 * d .. 334 /\ (b <= d => x <= y)
    BY <2>1, DaysBeforeFacts
  <2> HIDE DEF x, y
  <2>5. a < c \/ (a = c /\ b <= d)
    BY <1>2, <2>1
  <2> QED BY <2>1, <2>2, <2>3, <2>4, <2>5
<1>3. ASSUME NEW m \in Nat PROVE MonthStart(m) + 28 <= MonthStart(m + 1)
  <2> DEFINE a == m \div 12  b == m % 12  c == (m + 1) \div 12  d == (m + 1) % 12
             u == (m + 46) \div 48  v == (m + 1 + 46) \div 48
             x == DaysBefore[b + 1]  y == DaysBefore[d + 1]
  <2>1. /\ a \in Nat /\ b \in 0 .. 11 /\ m = 12 * a + b /\ u \in Nat
        /\ c \in Nat /\ d \in 0 .. 11 /\ m + 1 = 12 * c + d /\ v \in Nat
    BY MonthParts
  <2>2. u <= v
    OBVIOUS
  <2>3. MonthStart(m) = 365 * a + x + u /\ MonthStart(m + 1) = 365 * c + y + v
    OBVIOUS
  <2> HIDE DEF a, b, c, d, u, v, MonthStart
  <2>4. (b = 11 /\ c = a + 1 /\ d = 0) \/ (b \in 0 .. 10 /\ c = a /\ d = b + 1)
    BY <2>1
  <2>5. x \in 28 * b .. 334 /\ y \in 28 * d .. 334
    BY <2>1, DaysBeforeFacts
  <2>6. b \in 0 .. 10 /\ d = b + 1 => x + 28 <= y
    BY DaysBeforeFacts
  <2> HIDE DEF x, y
  <2> QED BY <2>1, <2>2, <2>3, <2>4, <2>5, <2>6
<1>4. MonthStart(0) = 0
  BY DEF DaysBefore
<1> QED BY <1>1, <1>2, <1>3, <1>4

\* The number of month starts up to a date tells the month it falls in.
LEMMA MonthIs ==
    ASSUME NEW m \in Nat, NEW d \in Nat, MonthStart(m) <= d, d < MonthStart(m + 1)
    PROVE  Month(d) = m
<1>1. {k \in 1 .. (d \div 28) : MonthStart(k) <= d} = 1 .. m
  <2>1. ASSUME NEW k \in 1 .. m PROVE k \in 1 .. (d \div 28) /\ MonthStart(k) <= d
    <3>1. k \in Nat /\ k <= m /\ k >= 1
      BY <2>1
    <3>2. MonthStart(k) <= MonthStart(m) /\ 28 * k <= MonthStart(k) /\ MonthStart(k) \in Nat
          /\ MonthStart(m) \in Nat
      BY <3>1, MonthStartFacts
    <3>3. MonthStart(k) <= d /\ 28 * k <= d
      BY <3>1, <3>2
    <3> QED BY <3>1, <3>3
  <2>2. ASSUME NEW k \in 1 .. (d \div 28), MonthStart(k) <= d PROVE k \in 1 .. m
    <3>1. k \in Nat /\ ~(m + 1 <= k)
      BY <2>2, MonthStartFacts
    <3> QED BY <3>1
  <2> QED BY <2>1, <2>2
<1>2. Cardinality(1 .. m) = m
  BY FS_Interval
<1> QED BY <1>1, <1>2 DEF Month

\* Induction by a least element.
LEMMA Least ==
    ASSUME NEW T, T \subseteq Nat, T # {}
    PROVE  \E x \in T : \A y \in T : x <= y
<1>1. IsWellFoundedOn(OpToRel(<, Nat), Nat)
  BY NatLessThanWellFounded
<1>2. PICK x \in T : \A y \in T : ~(<<y, x>> \in OpToRel(<, Nat))
  BY <1>1, WFMin
<1>3. \A y \in T : ~(y < x)
  BY <1>2 DEF OpToRel
<1> QED BY <1>3

\* Every date is in a month.
LEMMA InMonth ==
    ASSUME NEW d \in Nat
    PROVE  \E m \in Nat : MonthStart(m) <= d /\ d < MonthStart(m + 1)
<1> DEFINE T == {m \in Nat : d < MonthStart(m + 1)}
<1>1. d \in T
  <2> DEFINE e == d + 1
  <2>1. e \in Nat
    OBVIOUS
  <2> HIDE DEF e
  <2>2. 28 * e <= MonthStart(e) /\ MonthStart(e) \in Nat
    BY <2>1, MonthStartFacts
  <2>3. d < MonthStart(e)
    BY <2>1, <2>2 DEF e
  <2> QED BY <2>3 DEF e
<1>2. PICK m \in T : \A k \in T : m <= k
  BY <1>1, Least
<1>3. MonthStart(m) <= d
  <2>1. CASE m = 0
    <3>1. MonthStart(m) = MonthStart(0)
      BY <2>1
    <3> QED BY <3>1, MonthStartFacts
  <2>2. CASE m # 0
    <3>1. m - 1 \in Nat /\ m - 1 \notin T /\ (m - 1) + 1 = m
      BY <1>2, <2>2
    <3>2. MonthStart(m) \in Nat
      BY <1>2, MonthStartFacts
    <3> QED BY <3>1, <3>2
  <2> QED BY <2>1, <2>2
<1> QED BY <1>2, <1>3

\* A month after a day that every month has comes the same day.
LEMMA MonthKeepsDay ==
    ASSUME NEW d \in Nat, DayOfMonth(d) <= 28
    PROVE  DayOfMonth(AddDate("monthly", d)) = DayOfMonth(d)
<1>1. PICK m \in Nat : MonthStart(m) <= d /\ d < MonthStart(m + 1)
  BY InMonth
<1>2. Month(d) = m
  BY <1>1, MonthIs
<1> DEFINE k == d - MonthStart(m)  e == MonthStart(m + 1) + k
<1>3. /\ MonthStart(m) \in Nat /\ MonthStart(m + 1) \in Nat /\ MonthStart(m + 2) \in Nat
      /\ MonthStart(m + 1) + 28 <= MonthStart(m + 2)
  <2>1. (m + 1) + 1 = m + 2 /\ m + 1 \in Nat /\ m + 2 \in Nat
    OBVIOUS
  <2> QED BY <2>1, MonthStartFacts
<1>4. DayOfMonth(d) = k + 1 /\ k \in 0 .. 27
  BY <1>1, <1>2, <1>3 DEF DayOfMonth
<1>5. AddDate("monthly", d) = e
  BY <1>2, <1>3, <1>4 DEF AddDate
<1>6. e \in Nat /\ MonthStart(m + 1) <= e /\ e < MonthStart((m + 1) + 1)
  <2>1. (m + 1) + 1 = m + 2
    OBVIOUS
  <2> HIDE DEF k
  <2> QED BY <1>3, <1>4, <2>1
<1>7. Month(e) = m + 1
  <2> HIDE DEF e
  <2> QED BY <1>6, MonthIs
<1>8. DayOfMonth(e) = e - MonthStart(m + 1) + 1
  BY <1>7 DEF DayOfMonth
<1> QED BY <1>1, <1>3, <1>4, <1>5, <1>8

\* The months since the start of the calendar are counted in natural numbers,
\* and every interval leads to a later day.
LEMMA LaterDay ==
    ASSUME NEW i \in Intervals, NEW d \in Nat
    PROVE  AddDate(i, d) \in Nat /\ d < AddDate(i, d)
<1>1. PICK m \in Nat : MonthStart(m) <= d /\ d < MonthStart(m + 1)
  BY InMonth
<1>2. Month(d) = m
  BY <1>1, MonthIs
<1> DEFINE x == MonthStart(m)  y == MonthStart(m + 1)  z == MonthStart(m + 12)
<1>3. x \in Nat /\ y \in Nat /\ z \in Nat /\ x + 28 <= y /\ y <= z
  <2>1. m + 1 \in Nat /\ m + 12 \in Nat /\ m + 1 <= m + 12
    OBVIOUS
  <2> QED BY <2>1, MonthStartFacts
<1>4. DayOfMonth(d) = d - x + 1
  BY <1>2 DEF DayOfMonth
<1>5. CASE i = "daily" \/ i = "weekly"
  BY <1>5 DEF AddDate
<1>6. CASE i = "monthly"
  <2>1. AddDate(i, d) = y + (d - x + 1) - 1
    BY <1>2, <1>4, <1>6 DEF AddDate
  <2> HIDE DEF x, y, z
  <2> QED BY <1>3, <2>1
<1>7. CASE i = "yearly"
  <2>1. AddDate(i, d) = z + (d - x + 1) - 1
    BY <1>2, <1>4, <1>7 DEF AddDate
  <2> HIDE DEF x, y, z
  <2> QED BY <1>3, <2>1
<1> QED BY <1>5, <1>6, <1>7 DEF Intervals

----------------------------------------------------------------------------
(* The occurrences of a plan: the recursion has a solution, by a least     *)
(* number of dates for which it had none, and its dates go up              *)

Follows(q, n, g) ==
    g = [k \in 0 .. n |-> IF k = 0 THEN q.start ELSE AddDate(q.interval, g[k - 1])]

LEMMA OccurrenceSolves ==
    ASSUME NEW q \in Plans
    PROVE  Occurrence[q] = CHOOSE g : Follows(q, q.occ, g)
  BY Zenon DEF Occurrence, Follows

LEMMA SolutionLonger ==
    ASSUME NEW q, NEW n \in Nat, n # 0, NEW g, Follows(q, n - 1, g)
    PROVE  \E h : Follows(q, n, h)
<1> DEFINE next == AddDate(q.interval, g[n - 1])
           h == [k \in 0 .. n |-> IF k = n THEN next ELSE g[k]]
<1>1. ASSUME NEW k \in 0 .. n
      PROVE  h[k] = IF k = 0 THEN q.start ELSE AddDate(q.interval, h[k - 1])
  <2>1. CASE k = n
    <3>1. h[k - 1] = g[n - 1] /\ h[k] = next
      BY <2>1
    <3> QED BY <2>1, <3>1
  <2>2. CASE k # n
    <3>1. k \in 0 .. n - 1 /\ h[k] = g[k]
      BY <2>2
    <3>2. g[k] = IF k = 0 THEN q.start ELSE AddDate(q.interval, g[k - 1])
      BY <3>1 DEF Follows
    <3>3. k # 0 => h[k - 1] = g[k - 1]
      BY <2>2
    <3> HIDE DEF h
    <3> QED BY <3>1, <3>2, <3>3
  <2> QED BY <2>1, <2>2
<1>2. h = [k \in 0 .. n |-> h[k]]
  OBVIOUS
<1>3. Follows(q, n, h)
  <2> HIDE DEF h
  <2> QED BY <1>1, <1>2 DEF Follows
<1> QED BY <1>3

LEMMA SolutionExists ==
    ASSUME NEW q, NEW n \in Nat
    PROVE  \E g : Follows(q, n, g)
<1> DEFINE T == {k \in Nat : ~ \E g : Follows(q, k, g)}
<1>1. SUFFICES ASSUME T # {} PROVE FALSE
  OBVIOUS
<1>2. PICK k \in T : \A j \in T : k <= j
  <2>1. T \subseteq Nat
    OBVIOUS
  <2> HIDE DEF T
  <2> QED BY <1>1, <2>1, Least
<1>3. k # 0
  <2> DEFINE g == [j \in 0 .. 0 |-> q.start]
  <2>1. Follows(q, 0, g)
    BY DEF Follows
  <2> QED BY <1>2, <2>1
<1>4. k - 1 \in Nat /\ k - 1 \notin T
  BY <1>2, <1>3
<1>5. PICK g : Follows(q, k - 1, g)
  BY <1>4
<1>6. \E h : Follows(q, k, h)
  BY <1>2, <1>3, <1>5, SolutionLonger
<1> QED BY <1>2, <1>6

\* The generator starts on the date of the rule and goes on by one interval at
\* a time, to later dates only, for every plan and every number of occurrences.
THEOREM OccurrencesFollow ==
    \A q \in Plans :
      /\ Occurrence[q] \in [0 .. q.occ -> Nat]
      /\ Occurrence[q][0] = q.start
      /\ \A k \in 0 .. q.occ - 1 :
           /\ Occurrence[q][k + 1] = AddDate(q.interval, Occurrence[q][k])
           /\ Occurrence[q][k] < Occurrence[q][k + 1]
<1> TAKE q \in Plans
<1> DEFINE n == q.occ  g == Occurrence[q]
<1>1. n \in Nat /\ q.start \in Nat /\ q.interval \in Intervals
  BY PlansAssumption DEF Plan
<1>2. Follows(q, n, g)
  BY <1>1, SolutionExists, OccurrenceSolves
<1>3. /\ DOMAIN g = 0 .. n /\ g = [k \in 0 .. n |-> g[k]]
      /\ \A k \in 0 .. n : g[k] = IF k = 0 THEN q.start ELSE AddDate(q.interval, g[k - 1])
  <2> HIDE DEF n, g
  <2> QED BY <1>2 DEF Follows
<1> HIDE DEF n, g
<1> DEFINE T == {k \in 0 .. n : g[k] \notin Nat}
<1>4. T = {}
  <2>1. SUFFICES ASSUME T # {} PROVE FALSE
    OBVIOUS
  <2>2. PICK k \in T : \A j \in T : k <= j
    <3>1. T \subseteq Nat
      BY <1>1
    <3> HIDE DEF T
    <3> QED BY <2>1, <3>1, Least
  <2>3. k # 0 /\ k \in 0 .. n
    BY <1>1, <1>3, <2>2
  <2>4. k - 1 \in 0 .. n /\ k - 1 \notin T
    BY <1>1, <2>2, <2>3
  <2>5. g[k - 1] \in Nat /\ g[k] = AddDate(q.interval, g[k - 1])
    BY <1>3, <2>3, <2>4
  <2>6. g[k] \in Nat
    BY <1>1, <2>5, LaterDay
  <2> QED BY <2>2, <2>6
<1>5. \A k \in 0 .. n : g[k] \in Nat
  BY <1>4
<1>6. g \in [0 .. n -> Nat]
  <2> HIDE DEF T
  <2> QED BY <1>3, <1>5
<1>7. g[0] = q.start
  BY <1>1, <1>3
<1>8. ASSUME NEW k \in 0 .. n - 1
      PROVE  g[k + 1] = AddDate(q.interval, g[k]) /\ g[k] < g[k + 1]
  <2>1. k \in 0 .. n /\ k + 1 \in 0 .. n /\ k + 1 # 0 /\ (k + 1) - 1 = k
    BY <1>1
  <2>2. g[k + 1] = AddDate(q.interval, g[k])
    BY <1>3, <2>1
  <2>3. g[k] \in Nat
    BY <1>5, <2>1
  <2> QED BY <1>1, <2>2, <2>3, LaterDay
<1> QED BY <1>6, <1>7, <1>8 DEF n, g

----------------------------------------------------------------------------
\* The loop that skips the dates before today and counts them against the
\* occurrences leaves the dates from today on, as Generated has it.
THEOREM SkippedFirst ==
    ASSUME NEW q \in Plans, NEW t \in Nat
    PROVE  \E s \in 0 .. q.occ :
             /\ \A k \in 0 .. s - 1 : Occurrence[q][k] < t
             /\ Generated(q, t) = {Occurrence[q][k] : k \in s .. q.occ - 1}
<1> DEFINE n == q.occ  g == Occurrence[q]
           T == {k \in 0 .. n : k = n \/ t <= g[k]}
<1>1. n \in Nat
  BY PlansAssumption DEF Plan
<1>2. /\ \A k \in 0 .. n : g[k] \in Nat
      /\ \A k \in 0 .. n - 1 : g[k] < g[k + 1]
  BY <1>1, OccurrencesFollow
<1> HIDE DEF n, g
<1>3. PICK s \in T : \A k \in T : s <= k
  <2>1. T \subseteq Nat /\ n \in T
    BY <1>1
  <2> HIDE DEF T
  <2> QED BY <2>1, Least
<1>4. s \in 0 .. n /\ (s # n => t <= g[s])
  BY <1>3
<1>5. \A k \in 0 .. s - 1 : g[k] < t
  <2> TAKE k \in 0 .. s - 1
  <2>1. k \in 0 .. n /\ k # n /\ k \notin T
    BY <1>1, <1>3, <1>4
  <2> QED BY <1>2, <2>1
<1>6. \A k \in s .. n - 1 : t <= g[k]
  <2> DEFINE R == {k \in s .. n - 1 : g[k] < t}
  <2>1. SUFFICES ASSUME R # {} PROVE FALSE
    BY <1>1, <1>2, <1>4
  <2>2. PICK k \in R : \A j \in R : k <= j
    <3>1. R \subseteq Nat
      BY <1>1, <1>4
    <3> HIDE DEF R
    <3> QED BY <2>1, <3>1, Least
  <2>3. k # s
    BY <1>1, <1>2, <1>4, <2>2
  <2>4. k - 1 \in s .. n - 1 /\ k - 1 \in 0 .. n - 1 /\ k - 1 \notin R /\ (k - 1) + 1 = k
    BY <1>1, <1>4, <2>2, <2>3
  <2>5. k - 1 \in 0 .. n /\ k \in 0 .. n
    BY <1>1, <2>4
  <2>6. t <= g[k - 1] /\ g[k - 1] < g[k] /\ g[k - 1] \in Nat /\ g[k] \in Nat
    BY <1>2, <2>4, <2>5
  <2>7. g[k] < t
    BY <2>2
  <2> QED BY <2>6, <2>7
<1>7. Generated(q, t) = {g[k] : k \in s .. n - 1}
  <2>1. Generated(q, t) = {d \in {g[k] : k \in 0 .. n - 1} : t <= d}
    BY DEF Generated, Schedule, n, g
  <2>2. \A k \in 0 .. n - 1 : t <= g[k] <=> k \in s .. n - 1
    <3> TAKE k \in 0 .. n - 1
    <3>1. k \in 0 .. s - 1 \/ k \in s .. n - 1
      BY <1>1, <1>4
    <3>2. g[k] \in Nat /\ ~(k \in 0 .. s - 1 /\ k \in s .. n - 1)
      BY <1>1, <1>2, <1>4
    <3> QED BY <1>5, <1>6, <3>1, <3>2
  <2>3. \A k \in s .. n - 1 : k \in 0 .. n - 1
    BY <1>1, <1>4
  <2> QED BY <2>1, <2>2, <2>3
<1> QED BY <1>4, <1>5, <1>7 DEF n, g

LEMMA InvInit == ASSUME Init PROVE IInv
<1> USE PlansAssumption DEF Init
<1>1. TypeOK
  <2>1. NoRule \in Rule /\ NoLoc \in Loc
    BY DEF NoRule, Rule, NoLoc, Loc
  <2> QED BY <2>1 DEF TypeOK, PCs
<1>2. Locked /\ Asked /\ Prepared
  BY DEF Locked, Asked, Prepared, Holds
<1>3. \A r \in Rules : RuleKept(r)
  BY DEF RuleKept, Generates, Instances, Dates
<1> QED BY <1>1, <1>2, <1>3 DEF IInv

\* The dates of a plan are natural numbers.
LEMMA ScheduleType == ASSUME NEW q \in Plans PROVE Schedule(q) \subseteq Nat
<1>1. q.occ \in Nat /\ Occurrence[q] \in [0 .. q.occ -> Nat]
  BY OccurrencesFollow, PlansAssumption DEF Plan
<1> QED BY <1>1 DEF Schedule

\* New instances are rows of the table.
LEMMA StampedType ==
    ASSUME NEW r \in Rules, NEW q \in Plans, NEW n \in Nat,
           NEW dates, dates \subseteq Schedule(q)
    PROVE  Stamped(r, dates, n, q) \subseteq Expense
  BY ScheduleType DEF Stamped, Expense

\* What a request moves: its own place and memory.
LEMMA Frame ==
    ASSUME TypeOK, NEW p \in Procs, Update(p) \/ Remove(p) \/ Fail(p)
    PROVE  /\ now' = now
           /\ \A q \in Procs \ {p} : pc'[q] = pc[q] /\ loc'[q] = loc[q]
           /\ pc' \in [Procs -> PCs]
  BY DEF TypeOK, PCs, Update, Remove, Fail, UpdateBegin, UpdateRule, DeleteInstances,
         Generate, Copy, RemoveBegin, RemoveRule, RemoveInstances, Goto, Answer

\* A request's memory with some of its fields set anew.
LEMMA LocAsked ==
    ASSUME NEW l \in Loc, NEW r \in Rules, NEW a \in BOOLEAN
    PROVE  /\ [l EXCEPT !.rule = r, !.all = a] \in Loc
           /\ \A q \in Plans : [l EXCEPT !.rule = r, !.plan = q, !.all = a] \in Loc
<1>1. [l EXCEPT !.rule = r, !.all = a] \in Loc
  BY DEF Loc
<1>2. ASSUME NEW q \in Plans PROVE [l EXCEPT !.rule = r, !.plan = q, !.all = a] \in Loc
  BY DEF Loc
<1> QED BY <1>1, <1>2

LEMMA LocRead ==
    ASSUME NEW l \in Loc, NEW t \in Nat
    PROVE  /\ \A g \in SUBSET Expense : [l EXCEPT !.at = t, !.gone = g] \in Loc
           /\ \A d \in SUBSET Nat : [l EXCEPT !.till = t, !.new = d] \in Loc
<1>1. ASSUME NEW g \in SUBSET Expense PROVE [l EXCEPT !.at = t, !.gone = g] \in Loc
  BY DEF Loc
<1>2. ASSUME NEW d \in SUBSET Nat PROVE [l EXCEPT !.till = t, !.new = d] \in Loc
  BY DEF Loc
<1> QED BY <1>1, <1>2

\* The memory of a request keeps its type.
LEMMA Memory ==
    ASSUME IInv, NEW p \in Procs, Update(p) \/ Remove(p) \/ Fail(p)
    PROVE  loc' \in [Procs -> Loc]
<1> USE DEF IInv
<1>1. CASE UpdateBegin(p)
  <2>1. PICK r \in Rules, q \in Plans, a \in BOOLEAN :
          loc' = [loc EXCEPT ![p] = [loc[p] EXCEPT !.rule = r, !.plan = q, !.all = a]]
    BY <1>1 DEF UpdateBegin
  <2>2. loc[p] \in Loc /\ loc \in [Procs -> Loc]
    BY DEF TypeOK
  <2>3. [loc[p] EXCEPT !.rule = r, !.plan = q, !.all = a] \in Loc
    BY <2>2, LocAsked
  <2> QED BY <2>1, <2>2, <2>3
<1>2. CASE RemoveBegin(p)
  <2>1. PICK r \in Rules, a \in BOOLEAN :
          loc' = [loc EXCEPT ![p] = [loc[p] EXCEPT !.rule = r, !.all = a]]
    BY <1>2 DEF RemoveBegin
  <2>2. loc[p] \in Loc /\ loc \in [Procs -> Loc]
    BY DEF TypeOK
  <2>3. [loc[p] EXCEPT !.rule = r, !.all = a] \in Loc
    BY <2>2, LocAsked
  <2> QED BY <2>1, <2>2, <2>3
<1>3. CASE DeleteInstances(p)
  <2> DEFINE t == IF loc[p].all THEN 0 ELSE now
             g == {e \in Instances(loc[p].rule) : t <= e.date}
  <2>1. t \in Nat /\ g \in SUBSET Expense
    BY DEF TypeOK, Instances
  <2>2. loc' = [loc EXCEPT ![p] = [loc[p] EXCEPT !.at = t, !.gone = g]]
    BY <1>3 DEF DeleteInstances
  <2> HIDE DEF t, g
  <2>3. loc[p] \in Loc /\ loc \in [Procs -> Loc]
    BY DEF TypeOK
  <2>4. [loc[p] EXCEPT !.at = t, !.gone = g] \in Loc
    BY <2>1, <2>3, LocRead
  <2> QED BY <2>2, <2>3, <2>4
<1>4. CASE Generate(p)
  <2> DEFINE t == IF loc[p].all THEN 0 ELSE now
             g == Generated(loc[p].plan, t)
  <2>1. t \in Nat /\ g \in SUBSET Nat
    BY <1>4, ScheduleType DEF TypeOK, Generated, Generate, Asked
  <2>2. loc' = [loc EXCEPT ![p] = [loc[p] EXCEPT !.till = t, !.new = g]]
    BY <1>4 DEF Generate
  <2> HIDE DEF t, g
  <2>3. loc[p] \in Loc /\ loc \in [Procs -> Loc]
    BY DEF TypeOK
  <2>4. [loc[p] EXCEPT !.till = t, !.new = g] \in Loc
    BY <2>1, <2>3, LocRead
  <2> QED BY <2>2, <2>3, <2>4
<1>5. CASE loc' = loc \/ Answer(p)
  <2>1. NoLoc \in Loc
    BY DEF NoLoc, Loc
  <2> QED BY <1>5, <2>1 DEF TypeOK, Answer
<1> QED
  BY <1>1, <1>2, <1>3, <1>4, <1>5
  DEF Update, Remove, Fail, UpdateRule, Copy, RemoveRule, RemoveInstances, Goto

\* What COPY and COMMIT do when no date is taken.
CopyDone(p) ==
    LET r == loc[p].rule  q == loc[p].plan  t == loc[p].at
        stay == expenses \ loc[p].gone
        n == rule[r].ver + 1
    IN  /\ rule' = [rule EXCEPT ![r] = [state |-> "live", plan |-> q, ver |-> n]]
        /\ expenses' = stay \cup Stamped(r, loc[p].new, n, q)
        /\ owed' = [owed EXCEPT ![r] =
             {d \in @ : d < t} \cup {d \in Schedule(q) : t <= d}]
        /\ hand' = [hand EXCEPT ![r] = {d \in @ : d < t}]
        /\ crossed' = [crossed EXCEPT ![r] = {d \in @ : d < t}
             \cup {d \in Schedule(q) : t <= d /\ d < loc[p].till}]
        /\ kept' = [kept EXCEPT ![r] = t]

Still == UNCHANGED <<rule, expenses, hist>>

\* A request changes the tables only when it commits.
LEMMA Commits ==
    ASSUME NEW p \in Procs, Update(p) \/ Remove(p) \/ Fail(p)
    PROVE  (Copy(p) /\ CopyDone(p)) \/ RemoveInstances(p) \/ Still
  BY DEF Update, Remove, Fail, UpdateBegin, UpdateRule, DeleteInstances, Generate,
         Copy, RemoveBegin, RemoveRule, CopyDone, Still

\* What the holder of a rule that is about to commit knows.
LEMMA Ready ==
    ASSUME IInv, NEW p \in Procs, pc[p] = "copy" \/ pc[p] = "remove"
    PROVE  /\ loc[p].rule \in Rules /\ rule[loc[p].rule].state = "live"
           /\ rule[loc[p].rule] \in Rule /\ rule[loc[p].rule].ver \in Nat
           /\ now \in Nat /\ loc[p].at \in Nat /\ loc[p].till \in Nat
           /\ pc[p] = "copy" =>
                /\ loc[p].plan \in Plans
                /\ loc[p].new = Generated(loc[p].plan, loc[p].till)
                /\ loc[p].new \subseteq Schedule(loc[p].plan)
                /\ Schedule(loc[p].plan) \subseteq Nat
                /\ loc[p].at <= loc[p].till
  <1>1. loc[p] \in Loc
    BY DEF IInv, TypeOK
  <1>2. loc[p].rule \in Rules /\ rule[loc[p].rule].state = "live"
    BY DEF IInv, Locked, Holds
  <1>3. rule[loc[p].rule] \in Rule /\ now \in Nat
    BY <1>2 DEF IInv, TypeOK
  <1>4. rule[loc[p].rule].ver \in Nat
    BY <1>3 DEF Rule
  <1>5. loc[p].at \in Nat /\ loc[p].till \in Nat
    BY <1>1 DEF Loc
  <1>6. ASSUME pc[p] = "copy"
        PROVE  /\ loc[p].plan \in Plans
               /\ loc[p].new = Generated(loc[p].plan, loc[p].till)
               /\ loc[p].at <= loc[p].till
    BY <1>6 DEF IInv, Asked, Prepared
  <1>7. ASSUME pc[p] = "copy"
        PROVE  /\ loc[p].new \subseteq Schedule(loc[p].plan)
               /\ Schedule(loc[p].plan) \subseteq Nat
    BY <1>6, <1>7, ScheduleType DEF Generated
  <1> QED BY <1>2, <1>3, <1>4, <1>5, <1>6, <1>7

\* A request leaves every variable in its type.
LEMMA TypeStep ==
    ASSUME IInv, NEW p \in Procs, Update(p) \/ Remove(p) \/ Fail(p)
    PROVE  TypeOK'
<1>1. TypeOK /\ now' \in Nat /\ pc' \in [Procs -> PCs] /\ loc' \in [Procs -> Loc]
  BY Frame, Memory DEF IInv, TypeOK
<1>2. CASE Copy(p) /\ CopyDone(p)
  <2> DEFINE r == loc[p].rule  q == loc[p].plan  n == rule[r].ver + 1
             old == owed[r]
             o == {d \in owed[r] : d < loc[p].at} \cup {d \in Schedule(q) : loc[p].at <= d}
             h == {d \in hand[r] : d < loc[p].at}
             c == {d \in crossed[r] : d < loc[p].at}
                    \cup {d \in Schedule(q) : loc[p].at <= d /\ d < loc[p].till}
  <2>1. /\ r \in Rules /\ q \in Plans /\ n \in Nat /\ loc[p].at \in Nat
        /\ loc[p].new \subseteq Schedule(q) /\ Schedule(q) \subseteq Nat
    BY <1>2, Ready DEF Copy
  <2>2. /\ rule' = [rule EXCEPT ![r] = [state |-> "live", plan |-> q, ver |-> n]]
        /\ expenses' = (expenses \ loc[p].gone) \cup Stamped(r, loc[p].new, n, q)
        /\ owed' = [owed EXCEPT ![r] = o] /\ hand' = [hand EXCEPT ![r] = h]
        /\ crossed' = [crossed EXCEPT ![r] = c] /\ kept' = [kept EXCEPT ![r] = loc[p].at]
    BY <1>2 DEF CopyDone
  <2>3. [state |-> "live", plan |-> q, ver |-> n] \in Rule
    BY <2>1 DEF Rule
  <2>4. Stamped(r, loc[p].new, n, q) \subseteq Expense
    BY <2>1, StampedType
  <2>5. o \subseteq Nat /\ h \subseteq Nat /\ c \subseteq Nat
    BY <1>1, <2>1 DEF TypeOK
  <2> HIDE DEF r, q, n, o, h, c
  <2> QED BY <1>1, <2>1, <2>2, <2>3, <2>4, <2>5 DEF TypeOK
<1>3. CASE RemoveInstances(p)
  <2> DEFINE r == loc[p].rule  t == IF loc[p].all THEN 0 ELSE now
             o == {d \in owed[r] : d < t}
  <2>1. r \in Rules /\ rule[r] \in Rule /\ t \in Nat
    BY <1>3, Ready DEF RemoveInstances
  <2>2. /\ rule' = [rule EXCEPT ![r].state = "removed"]
        /\ expenses' \subseteq expenses
        /\ owed' = [owed EXCEPT ![r] = o] /\ kept' = [kept EXCEPT ![r] = t]
        /\ hand' = hand /\ crossed' = crossed
    BY <1>3 DEF RemoveInstances
  <2>3. [rule[r] EXCEPT !.state = "removed"] \in Rule
    BY <2>1 DEF Rule
  <2>4. o \subseteq Nat
    BY <1>1, <2>1 DEF TypeOK
  <2> HIDE DEF r, t, o
  <2> QED BY <1>1, <2>1, <2>2, <2>3, <2>4 DEF TypeOK
<1>4. CASE Still
  BY <1>1, <1>4 DEF TypeOK, Still, hist
<1> QED BY <1>2, <1>3, <1>4, Commits

\* The row of a rule is held by one transaction at a time, and keeps its state
\* for it.
LEMMA LockStep ==
    ASSUME IInv, NEW p \in Procs, Update(p) \/ Remove(p) \/ Fail(p)
    PROVE  Locked' /\ Asked'
<1> DEFINE held == {"delete", "generate", "copy", "remove"}
           updating == {"lock", "delete", "generate", "copy"}
<1>1. /\ Locked /\ Asked /\ TypeOK
      /\ \A q \in Procs \ {p} : pc'[q] = pc[q] /\ loc'[q] = loc[q]
  BY Frame DEF IInv
<1>2. CASE UpdateRule(p) \/ RemoveRule(p)
  <2>1. /\ rule' = rule
        /\ pc'[p] = "idle" \/
              /\ loc' = loc /\ rule[loc[p].rule].state = "live" /\ Free(loc[p].rule)
              /\ loc[p].rule \in Rules /\ pc[p] # "idle"
              /\ pc'[p] \in updating => pc[p] \in updating
    BY <1>1, <1>2 DEF Asked, TypeOK, UpdateRule, RemoveRule, Goto, Answer
  <2> QED BY <1>1, <2>1 DEF Locked, Asked, Holds, Free
<1>3. CASE DeleteInstances(p) \/ Generate(p)
  <2>1. /\ pc[p] \in {"delete", "generate"} /\ pc'[p] \in {"generate", "copy"}
        /\ rule' = rule
    BY <1>1, <1>3 DEF DeleteInstances, Generate, Goto, TypeOK
  <2>2. loc'[p].rule = loc[p].rule /\ loc'[p].plan = loc[p].plan
    <3>1. loc[p] \in Loc /\ loc \in [Procs -> Loc]
      BY <1>1 DEF TypeOK
    <3>2. CASE DeleteInstances(p)
      BY <3>1, <3>2 DEF DeleteInstances, Loc
    <3>3. CASE Generate(p)
      BY <3>1, <3>3 DEF Generate, Loc
    <3> QED BY <1>3, <3>2, <3>3
  <2> QED BY <1>1, <2>1, <2>2 DEF Locked, Asked, Holds
<1>4. CASE UpdateBegin(p)
  <2>1. PICK r \in Rules, q \in Plans, a \in BOOLEAN :
          loc' = [loc EXCEPT ![p] = [loc[p] EXCEPT !.rule = r, !.plan = q, !.all = a]]
    BY <1>4 DEF UpdateBegin
  <2>2. pc'[p] = "lock" /\ rule' = rule
    BY <1>1, <1>4 DEF UpdateBegin, Goto, TypeOK
  <2>3. loc'[p].rule \in Rules /\ loc'[p].plan \in Plans
    BY <1>1, <2>1 DEF TypeOK, Loc
  <2> QED BY <1>1, <2>2, <2>3 DEF Locked, Asked, Holds
<1>5. CASE RemoveBegin(p)
  <2>1. PICK r \in Rules, a \in BOOLEAN :
          loc' = [loc EXCEPT ![p] = [loc[p] EXCEPT !.rule = r, !.all = a]]
    BY <1>5 DEF RemoveBegin
  <2>2. pc'[p] = "lock_removal" /\ rule' = rule
    BY <1>1, <1>5 DEF RemoveBegin, Goto, TypeOK
  <2>3. loc'[p].rule \in Rules
    BY <1>1, <2>1 DEF TypeOK, Loc
  <2> QED BY <1>1, <2>2, <2>3 DEF Locked, Asked, Holds
<1>6. CASE Answer(p) /\ Still
  <2>1. pc'[p] = "idle" /\ rule' = rule
    BY <1>1, <1>6 DEF Answer, Goto, TypeOK, Still
  <2> QED BY <1>1, <2>1 DEF Locked, Asked, Holds
<1>7. CASE (Copy(p) /\ CopyDone(p)) \/ RemoveInstances(p)
  <2>1. /\ Holds(p) /\ pc'[p] = "idle"
        /\ \A r \in Rules \ {loc[p].rule} : rule'[r] = rule[r]
    BY <1>1, <1>7 DEF Holds, Copy, CopyDone, RemoveInstances, Answer, Goto, TypeOK
  <2> QED BY <1>1, <2>1 DEF Locked, Asked, Holds
<1> QED
  BY <1>2, <1>3, <1>4, <1>5, <1>6, <1>7
  DEF Update, Remove, Fail, Copy, CopyDone, Still

\* What the other transactions have prepared is of other rules.
LEMMA PreparedStep ==
    ASSUME IInv, NEW p \in Procs, Update(p) \/ Remove(p) \/ Fail(p)
    PROVE  Prepared'
<1>1. /\ TypeOK /\ Locked /\ Prepared /\ now' = now /\ now \in Nat
      /\ \A q \in Procs \ {p} : pc'[q] = pc[q] /\ loc'[q] = loc[q]
  BY Frame DEF IInv, TypeOK
<1>2. CASE DeleteInstances(p)
  <2> DEFINE t == IF loc[p].all THEN 0 ELSE now
             g == {e \in Instances(loc[p].rule) : t <= e.date}
             l == [loc[p] EXCEPT !.at = t, !.gone = g]
  <2>1. /\ loc' = [loc EXCEPT ![p] = l] /\ pc'[p] = "generate" /\ expenses' = expenses
    BY <1>1, <1>2 DEF DeleteInstances, Goto, TypeOK
  <2>2. l.rule = loc[p].rule /\ l.at = t /\ l.gone = g /\ l.all = loc[p].all
    BY <1>1 DEF TypeOK, Loc
  <2> HIDE DEF l
  <2>3. loc'[p] = l /\ t \in Nat /\ (loc[p].all => t = 0) /\ (~loc[p].all => t = now)
    BY <1>1, <2>1 DEF TypeOK
  <2>4. \A e \in Generates(loc[p].rule) : e.date \in Nat
    BY <1>1 DEF Generates, Instances, TypeOK, Expense
  <2>5. \A e \in Generates(loc[p].rule) \ g : e.date < t
    BY <2>3, <2>4 DEF Generates
  <2>6. \A r : Generates(r)' = Generates(r)
    BY <2>1 DEF Generates, Instances
  <2>7. \A e \in g : e.rule = loc[p].rule /\ t <= e.date
    BY DEF Instances
  <2>8. IF loc[p].all THEN t = 0 ELSE t <= now'
    BY <1>1, <2>3
  <2> HIDE DEF t, g
  <2> QED BY <1>1, <2>1, <2>2, <2>3, <2>5, <2>6, <2>7, <2>8 DEF Prepared
<1>3. CASE Generate(p)
  <2> DEFINE t == IF loc[p].all THEN 0 ELSE now
             g == Generated(loc[p].plan, t)
             l == [loc[p] EXCEPT !.till = t, !.new = g]
  <2>1. /\ loc' = [loc EXCEPT ![p] = l] /\ pc[p] = "generate" /\ pc'[p] = "copy"
        /\ expenses' = expenses
    BY <1>1, <1>3 DEF Generate, Goto, TypeOK
  <2>2. /\ l.rule = loc[p].rule /\ l.at = loc[p].at /\ l.gone = loc[p].gone
        /\ l.all = loc[p].all /\ l.till = t /\ l.new = g /\ l.plan = loc[p].plan
    BY <1>1 DEF TypeOK, Loc
  <2> HIDE DEF l
  <2>3. loc'[p] = l
    BY <1>1, <2>1 DEF TypeOK
  <2>4. loc[p].at <= t
    BY <1>1, <2>1 DEF Prepared
  <2> HIDE DEF t
  <2> QED BY <1>1, <2>1, <2>2, <2>3, <2>4 DEF Prepared, Generates, Instances
<1>4. CASE (Copy(p) /\ CopyDone(p)) \/ RemoveInstances(p)
  <2>1. /\ Holds(p) /\ pc'[p] = "idle" /\ loc[p].rule \in Rules
    BY <1>1, <1>4 DEF Locked, Holds, Copy, RemoveInstances, Answer, Goto, TypeOK
  <2>2. \A r : r # loc[p].rule => Instances(r)' = Instances(r)
    <3>1. CASE Copy(p) /\ CopyDone(p)
      <4>1. \A e \in loc[p].gone : e.rule = loc[p].rule
        BY <1>1, <3>1 DEF Prepared, Copy
      <4> QED BY <3>1, <4>1 DEF CopyDone, Stamped, Instances
    <3>2. CASE RemoveInstances(p)
      BY <3>2 DEF RemoveInstances, Instances
    <3> QED BY <1>4, <3>1, <3>2
  <2>3. ASSUME NEW q \in Procs, pc'[q] \in {"generate", "copy"}
        PROVE  q # p /\ loc[q].rule # loc[p].rule /\ loc'[q] = loc[q] /\ pc'[q] = pc[q]
    BY <1>1, <2>1, <2>3 DEF Locked, Holds
  <2> QED BY <1>1, <2>2, <2>3 DEF Prepared, Generates
<1>5. CASE Still /\ pc'[p] \notin {"generate", "copy"}
  BY <1>1, <1>5 DEF Prepared, Still, Generates, Instances
<1>6. pc'[p] \notin {"generate", "copy"} \/ DeleteInstances(p) \/ Generate(p)
  BY <1>1 DEF Update, Remove, Fail, UpdateBegin, UpdateRule, Copy, RemoveBegin,
       RemoveRule, RemoveInstances, Answer, Goto, TypeOK
<1> QED BY <1>2, <1>3, <1>4, <1>5, <1>6, Commits

\* What is stamped, and with what.
LEMMA StampedFacts ==
    ASSUME NEW r, NEW dates, NEW n, NEW q
    PROVE  /\ \A e \in Stamped(r, dates, n, q) :
                e.rule = r /\ e.date \in dates /\ e.ver = n /\ e.plan = q
           /\ \A d \in dates : \E e \in Stamped(r, dates, n, q) : e.date = d
<1>1. ASSUME NEW d \in dates
      PROVE  \E e \in Stamped(r, dates, n, q) : e.date = d
  <2> DEFINE x == [rule |-> r, date |-> d, ver |-> n, plan |-> q]
  <2>1. x \in Stamped(r, dates, n, q) /\ x.date = d
    BY <1>1 DEF Stamped
  <2> QED BY <2>1
<1>2. ASSUME NEW e \in Stamped(r, dates, n, q)
      PROVE  e.rule = r /\ e.date \in dates /\ e.ver = n /\ e.plan = q
  BY <1>2 DEF Stamped
<1> QED BY <1>1, <1>2

\* A rule whose row, instances and history stay is as it was.
LEMMA RuleStill ==
    ASSUME NEW r \in Rules, RuleKept(r), Instances(r)' = Instances(r),
           rule'[r] = rule[r], kept'[r] = kept[r], owed'[r] = owed[r],
           hand'[r] = hand[r], crossed'[r] = crossed[r]
    PROVE  RuleKept(r)'
  BY DEF RuleKept, Generates

\* An update leaves the instances of its own version, and those that were due
\* before it read the clock.
LEMMA CopyKeeps ==
    ASSUME IInv, NEW p \in Procs, Copy(p), CopyDone(p)
    PROVE  \A s \in Rules : RuleKept(s)'
<1> DEFINE r == loc[p].rule  q == loc[p].plan  t == loc[p].at  u == loc[p].till
           n == rule[r].ver + 1
           stay == expenses \ loc[p].gone
           o == {d \in owed[r] : d < t} \cup {d \in Schedule(q) : t <= d}
           h == {d \in hand[r] : d < t}
           c == {d \in crossed[r] : d < t} \cup {d \in Schedule(q) : t <= d /\ d < u}
<1>1. /\ r \in Rules /\ n \in Nat /\ n # ByHand /\ t \in Nat /\ u \in Nat /\ t <= u
      /\ Schedule(q) \subseteq Nat
      /\ loc[p].new = {d \in Schedule(q) : u <= d}
  BY Ready DEF Copy, ByHand, Generated
<1>2. /\ rule' = [rule EXCEPT ![r] = [state |-> "live", plan |-> q, ver |-> n]]
      /\ expenses' = stay \cup Stamped(r, loc[p].new, n, q)
      /\ owed' = [owed EXCEPT ![r] = o] /\ hand' = [hand EXCEPT ![r] = h]
      /\ crossed' = [crossed EXCEPT ![r] = c] /\ kept' = [kept EXCEPT ![r] = t]
  BY DEF CopyDone
<1>3. /\ \A e \in loc[p].gone : e.rule = r /\ t <= e.date
      /\ \A e \in Generates(r) \ loc[p].gone : e.date < t
  BY DEF IInv, Prepared, Copy
<1>4. \A s \in Rules : RuleKept(s)
  BY DEF IInv
<1>5. /\ rule \in [Rules -> Rule] /\ owed \in [Rules -> SUBSET Nat]
      /\ hand \in [Rules -> SUBSET Nat] /\ crossed \in [Rules -> SUBSET Nat]
      /\ kept \in [Rules -> Nat]
  BY DEF IInv, TypeOK
<1> DEFINE new == Stamped(r, loc[p].new, n, q)
<1>6. /\ \A e \in new : e.rule = r /\ e.date \in loc[p].new /\ e.ver = n /\ e.plan = q
      /\ \A d \in loc[p].new : \E e \in new : e.date = d
  BY StampedFacts
<1>7. expenses' = stay \cup new
  BY <1>2
<1> HIDE DEF r, q, t, u, n, stay, o, h, c, new
<1>8. ASSUME NEW s \in Rules, s # r PROVE RuleKept(s)'
  <2>1. Instances(s)' = Instances(s)
    BY <1>3, <1>6, <1>7, <1>8 DEF Instances, stay
  <2>2. /\ rule'[s] = rule[s] /\ kept'[s] = kept[s] /\ owed'[s] = owed[s]
        /\ hand'[s] = hand[s] /\ crossed'[s] = crossed[s]
    BY <1>2, <1>5, <1>8
  <2> QED BY <1>4, <2>1, <2>2, RuleStill
<1>9. ASSUME NEW s \in Rules, s = r PROVE RuleKept(s)'
  <2>1. Generates(s)' = (Generates(s) \ loc[p].gone) \cup new
    BY <1>1, <1>6, <1>7, <1>9 DEF Generates, Instances, stay
  <2>2. /\ rule'[s].state = "live" /\ rule'[s].ver = n /\ kept'[s] = t
        /\ owed'[s] = o /\ hand'[s] = h /\ crossed'[s] = c
    BY <1>1, <1>2, <1>5, <1>9
  <2>5. \A e \in new : e.date \in Schedule(e.plan) /\ e.ver = n /\ e.date \in o
    BY <1>1, <1>6 DEF o
  <2>6. \A e \in Generates(s) \ loc[p].gone :
          e.date \in Schedule(e.plan) /\ e.date < t /\ e.date \in o
    BY <1>1, <1>3, <1>4, <1>9 DEF RuleKept, o
  <2>7. ASSUME NEW d \in o, d \notin h \cup c
        PROVE  \E e \in Generates(s)' : e.date = d
    <3>1. CASE d < t
      <4>1. d \in owed[s] \ (hand[s] \cup crossed[s])
        BY <1>1, <1>9, <2>7, <3>1 DEF o, h, c
      <4>2. PICK e \in Generates(s) : e.date = d
        BY <1>1, <1>4, <4>1 DEF RuleKept, Dates
      <4>3. e \notin loc[p].gone
        BY <1>1, <1>3, <1>5, <1>9, <3>1, <4>1, <4>2
      <4> QED BY <2>1, <4>2, <4>3
    <3>2. CASE ~(d < t)
      <4>1. d \in Schedule(q) /\ u <= d
        BY <1>1, <2>7, <3>2 DEF o, c
      <4> QED BY <1>1, <1>6, <2>1, <4>1
    <3> QED BY <3>1, <3>2
  <2>8. o \ Dates(Generates(s)') \subseteq h \cup c
    BY <2>7 DEF Dates
  <2> QED BY <2>1, <2>2, <2>5, <2>6, <2>8 DEF RuleKept, Dates
<1> QED BY <1>8, <1>9

\* A removal leaves what was due before it read the clock.
LEMMA RemoveKeeps ==
    ASSUME IInv, NEW p \in Procs, RemoveInstances(p)
    PROVE  \A s \in Rules : RuleKept(s)'
<1> DEFINE r == loc[p].rule  t == IF loc[p].all THEN 0 ELSE now
<1>1. r \in Rules /\ t \in Nat
  BY Ready DEF RemoveInstances
<1>2. /\ rule' = [rule EXCEPT ![r].state = "removed"]
      /\ expenses' = {e \in expenses : e.rule = r => e.date < t}
      /\ owed' = [owed EXCEPT ![r] = {d \in owed[r] : d < t}]
      /\ kept' = [kept EXCEPT ![r] = t] /\ hand' = hand /\ crossed' = crossed
  BY DEF RemoveInstances
<1>3. \A s \in Rules : RuleKept(s)
  BY DEF IInv
<1>4. /\ rule \in [Rules -> Rule] /\ owed \in [Rules -> SUBSET Nat]
      /\ kept \in [Rules -> Nat]
  BY DEF IInv, TypeOK
<1> HIDE DEF r, t
<1>5. ASSUME NEW s \in Rules, s # r PROVE RuleKept(s)'
  <2>1. Instances(s)' = Instances(s)
    BY <1>2, <1>5 DEF Instances
  <2>2. rule'[s] = rule[s] /\ kept'[s] = kept[s] /\ owed'[s] = owed[s]
    BY <1>2, <1>4, <1>5
  <2> QED BY <1>2, <1>3, <2>1, <2>2, RuleStill
<1>6. ASSUME NEW s \in Rules, s = r PROVE RuleKept(s)'
  <2>1. Generates(s)' = {e \in Generates(s) : e.date < t}
    BY <1>2, <1>6 DEF Generates, Instances
  <2>2. rule[s] \in Rule
    BY <1>4
  <2>3. rule'[s].state = "removed" /\ kept'[s] = t /\ owed'[s] = {d \in owed[s] : d < t}
    BY <1>2, <1>4, <1>6, <2>2 DEF Rule
  <2>4. /\ RuleKept(s) /\ owed[s] \subseteq Nat /\ hand'[s] = hand[s] /\ crossed'[s] = crossed[s]
    BY <1>2, <1>3, <1>4
  <2> QED BY <1>1, <2>1, <2>3, <2>4 DEF RuleKept, Dates, Instances, Generates
<1> QED BY <1>5, <1>6

\* The user's hand takes an instance out of the schedule and notes its date.
LEMMA HandKeeps ==
    ASSUME IInv, NEW e \in expenses,
           DeleteExpense(e) \/ \E d \in EditDates : EditExpense(e, d)
    PROVE  IInv'
<1> USE DEF IInv
<1>1. /\ UNCHANGED <<now, rule, pc, loc, owed, crossed, kept>>
      /\ hand' = [hand EXCEPT ![e.rule] = hand[e.rule] \cup {e.date}]
      /\ Settled(e)
  BY DEF DeleteExpense, EditExpense
<1>2. e \in Expense /\ e.rule \in Rules /\ e.date \in Nat
  BY DEF TypeOK, Expense
<1>3. /\ expenses \ {e} \subseteq expenses'
      /\ \A x \in expenses' \ (expenses \ {e}) :
           x \in Expense /\ x.rule = e.rule /\ x.ver = ByHand
  <2>1. CASE DeleteExpense(e)
    BY <2>1 DEF DeleteExpense
  <2>2. ASSUME NEW d \in EditDates, EditExpense(e, d) PROVE <1>3
    <3> DEFINE x == [e EXCEPT !.date = d, !.ver = ByHand]
    <3>1. x \in Expense /\ x.rule = e.rule /\ x.ver = ByHand
      BY <1>2, PlansAssumption DEF Expense, ByHand
    <3>2. expenses' = (expenses \ {e}) \cup {x}
      BY <2>2 DEF EditExpense
    <3> HIDE DEF x
    <3> QED BY <3>1, <3>2
  <2> QED BY <2>1, <2>2
<1>4. TypeOK'
  <2>1. hand[e.rule] \cup {e.date} \in SUBSET Nat
    BY <1>2 DEF TypeOK
  <2> QED BY <1>1, <1>3, <2>1 DEF TypeOK
<1>5. \A r : Generates(r)' = Generates(r) \ {e}
  BY <1>3 DEF Generates, Instances
<1>6. Locked' /\ Asked'
  BY <1>1 DEF Locked, Asked, Holds
<1>7. Prepared'
  BY <1>1, <1>5 DEF Prepared, Generated, Schedule
<1>8. ASSUME NEW r \in Rules PROVE RuleKept(r)'
  <2>1. RuleKept(r)
    OBVIOUS
  <2>2. r # e.rule => e \notin Generates(r)
    BY DEF Generates, Instances
  <2>3. hand'[r] = IF r = e.rule THEN hand[r] \cup {e.date} ELSE hand[r]
    BY <1>1 DEF TypeOK
  <2>4. rule'[r].state = "none" => Instances(r)' = {}
    BY <1>1, <1>2, <1>3, <2>1 DEF RuleKept, Instances
  <2>5. Dates(Generates(r)) \subseteq Dates(Generates(r) \ {e}) \cup {e.date}
    BY DEF Dates
  <2>6. Dates(Generates(r)) \subseteq Dates(Generates(r)') \cup (hand'[r] \ hand[r]) \cup hand'[r]
    BY <1>5, <2>2, <2>3, <2>5 DEF Dates
  <2> QED BY <1>1, <1>5, <2>1, <2>3, <2>4, <2>6 DEF RuleKept
<1> QED BY <1>4, <1>6, <1>7, <1>8

\* A new rule has the instances of its plan, and no other transaction is at it.
LEMMA AddKeeps ==
    ASSUME IInv, NEW r \in Rules, NEW q \in Plans, AddRecurringExpense(r, q)
    PROVE  IInv'
<1> DEFINE new == Stamped(r, Schedule(q), 1, q)
           row == [state |-> "live", plan |-> q, ver |-> 1]
<1>1. /\ rule[r].state = "none" /\ rule' = [rule EXCEPT ![r] = row]
      /\ expenses' = expenses \cup new /\ owed' = [owed EXCEPT ![r] = Schedule(q)]
      /\ UNCHANGED <<now, pc, loc, hand, crossed, kept>>
  BY DEF AddRecurringExpense
<1>2. /\ \A e \in new : e.rule = r /\ e.date \in Schedule(q) /\ e.ver = 1 /\ e.plan = q
      /\ \A d \in Schedule(q) : \E e \in new : e.date = d
  BY StampedFacts
<1>3. row \in Rule /\ new \subseteq Expense /\ Schedule(q) \subseteq Nat
  BY ScheduleType, StampedType DEF Rule
<1>4. row.state = "live" /\ row.ver = 1
  OBVIOUS
<1> HIDE DEF new, row
<1>5. TypeOK /\ Locked /\ Asked /\ Prepared /\ \A s \in Rules : RuleKept(s)
  BY DEF IInv
<1>6. TypeOK'
  BY <1>1, <1>3, <1>5 DEF TypeOK
<1>7. rule'[r] = row /\ \A s \in Rules \ {r} : rule'[s] = rule[s]
  BY <1>1, <1>5 DEF TypeOK
<1>8. Locked' /\ Asked'
  BY <1>1, <1>4, <1>5, <1>7 DEF Locked, Asked, Holds
<1>9. \A s : s # r => Instances(s)' = Instances(s)
  BY <1>1, <1>2 DEF Instances
<1>10. Prepared'
  <2>1. \A p \in Procs : pc[p] \in {"generate", "copy"} => loc[p].rule # r
    BY <1>1, <1>5 DEF Locked, Holds
  <2> QED BY <1>1, <1>5, <1>9, <2>1 DEF Prepared, Generates
<1>11. RuleKept(r)'
  <2>1. Generates(r)' = new
    BY <1>1, <1>2, <1>5 DEF RuleKept, Generates, Instances, ByHand
  <2>2. owed'[r] = Schedule(q)
    BY <1>1, <1>5 DEF TypeOK
  <2>3. \A d \in Schedule(q) : d \in Dates(Generates(r)')
    BY <1>2, <2>1 DEF Dates
  <2> QED BY <1>2, <1>4, <1>7, <2>1, <2>2, <2>3 DEF RuleKept
<1>12. ASSUME NEW s \in Rules \ {r} PROVE RuleKept(s)'
  <2>1. /\ rule'[s] = rule[s] /\ kept'[s] = kept[s] /\ owed'[s] = owed[s]
        /\ hand'[s] = hand[s] /\ crossed'[s] = crossed[s]
    BY <1>1, <1>5, <1>7 DEF TypeOK
  <2> QED BY <1>5, <1>9, <2>1, RuleStill
<1> QED BY <1>6, <1>8, <1>10, <1>11, <1>12 DEF IInv

\* A request keeps the whole invariant.
LEMMA RequestKeeps ==
    ASSUME IInv, NEW p \in Procs, Update(p) \/ Remove(p) \/ Fail(p)
    PROVE  IInv'
<1>1. TypeOK' /\ Locked' /\ Asked' /\ Prepared'
  BY TypeStep, LockStep, PreparedStep
<1>2. CASE Copy(p) /\ CopyDone(p)
  BY <1>1, <1>2, CopyKeeps DEF IInv
<1>3. CASE RemoveInstances(p)
  BY <1>1, <1>3, RemoveKeeps DEF IInv
<1>4. CASE Still
  <2>1. ASSUME NEW s \in Rules PROVE RuleKept(s)'
    BY <1>4, <2>1, RuleStill DEF IInv, Still, hist, Instances
  <2> QED BY <1>1, <2>1 DEF IInv
<1> QED BY <1>2, <1>3, <1>4, Commits

\* Time only moves away from the clocks that were read.
LEMMA TickKeeps == ASSUME IInv, Tick \/ UNCHANGED vars PROVE IInv'
<1>1. /\ UNCHANGED <<rule, expenses, pc, loc, hist>>
      /\ now \in Nat /\ now' \in Nat /\ now <= now'
  BY PlansAssumption DEF Tick, vars, IInv, TypeOK
<1>2. TypeOK' /\ Locked' /\ Asked'
  BY <1>1 DEF IInv, TypeOK, Locked, Asked, Holds, hist
<1>3. Prepared'
  <2>1. \A p \in Procs : loc[p].at \in Nat
    BY DEF IInv, TypeOK, Loc
  <2> QED BY <1>1, <2>1 DEF IInv, Prepared, Generates, Instances, Generated, Schedule
<1>4. ASSUME NEW s \in Rules PROVE RuleKept(s)'
  BY <1>1, <1>4, RuleStill DEF IInv, hist, Instances
<1> QED BY <1>2, <1>3, <1>4 DEF IInv

LEMMA InvNext == ASSUME IInv, [Next]_vars PROVE IInv'
  BY AddKeeps, RequestKeeps, HandKeeps, TickKeeps DEF Next

----------------------------------------------------------------------------
\* The invariant that carries the theorems below.
THEOREM Invariant == Spec => []IInv
<1>1. Init => IInv
  BY InvInit
<1>2. IInv /\ [Next]_vars => IInv'
  BY InvNext
<1> QED BY <1>1, <1>2, PTL DEF Spec

\* Every variable keeps its type; an instance never loses its rule.
THEOREM TypeCorrect == Spec => []TypeOK
  BY Invariant, PTL DEF IInv

\* Overlapping updates and removals of one rule leave none of the instances of
\* the version that they replaced, whichever is first at the rule's row.
THEOREM NoLeftoversThm == Spec => []NoLeftovers
<1>1. IInv => NoLeftovers
  BY DEF IInv, RuleKept, NoLeftovers
<1> QED BY <1>1, Invariant, PTL

\* Whatever fails and whatever the user edits meanwhile, the instances are the
\* dates that the plans ask for, save the user's and those that came due
\* between the two readings of the clock.
THEOREM ScheduleKeptThm == Spec => []ScheduleKept
<1>1. IInv => ScheduleKept
  BY DEF IInv, RuleKept, ScheduleKept, Dates
<1> QED BY <1>1, Invariant, PTL

----------------------------------------------------------------------------
\* So do all the occurrences of a plan.
LEMMA OnItsDay ==
    ASSUME NEW q \in Plans, q.interval = "monthly", DayOfMonth(q.start) <= 28
    PROVE  \A k \in 0 .. q.occ : DayOfMonth(Occurrence[q][k]) = DayOfMonth(q.start)
<1> DEFINE T == {k \in 0 .. q.occ : DayOfMonth(Occurrence[q][k]) # DayOfMonth(q.start)}
<1>1. /\ q.occ \in Nat /\ Occurrence[q] \in [0 .. q.occ -> Nat]
      /\ Occurrence[q][0] = q.start
      /\ \A k \in 0 .. q.occ - 1 :
           Occurrence[q][k + 1] = AddDate("monthly", Occurrence[q][k])
  BY OccurrencesFollow, PlansAssumption DEF Plan
<1>2. SUFFICES ASSUME T # {} PROVE FALSE
  OBVIOUS
<1>3. PICK k \in T : \A j \in T : k <= j
  <2>1. T \subseteq Nat
    BY <1>1
  <2> HIDE DEF T
  <2> QED BY <1>2, <2>1, Least
<1>4. k # 0
  BY <1>1, <1>3
<1>5. k - 1 \in 0 .. q.occ - 1 /\ k - 1 \in 0 .. q.occ /\ (k - 1) + 1 = k
      /\ k - 1 \notin T
  BY <1>1, <1>3, <1>4
<1>6. /\ DayOfMonth(Occurrence[q][k - 1]) = DayOfMonth(q.start)
      /\ Occurrence[q][k - 1] \in Nat
      /\ Occurrence[q][k] = AddDate("monthly", Occurrence[q][k - 1])
  BY <1>1, <1>5
<1>7. DayOfMonth(Occurrence[q][k]) = DayOfMonth(q.start)
  BY <1>6, MonthKeepsDay
<1> QED BY <1>3, <1>7

\* A monthly rule that starts on a day up to the 28th stays on it, whatever the
\* plans, the clock and the number of occurrences.
THEOREM MonthlyOnItsDayThm == Spec => []MonthlyOnItsDay
<1>1. IInv => MonthlyOnItsDay
  <2>1. SUFFICES ASSUME IInv, NEW r \in Rules, NEW e \in Generates(r),
                        e.plan.interval = "monthly", DayOfMonth(e.plan.start) <= 28
                 PROVE  DayOfMonth(e.date) = DayOfMonth(e.plan.start)
    BY DEF MonthlyOnItsDay
  <2>2. e.plan \in Plans
    BY <2>1 DEF IInv, TypeOK, Generates, Instances, Expense
  <2>3. e.date \in Schedule(e.plan) /\ e.plan.occ \in Nat
    BY <2>1, <2>2, PlansAssumption DEF IInv, RuleKept, Plan
  <2>4. PICK k \in 0 .. e.plan.occ : e.date = Occurrence[e.plan][k]
    BY <2>3 DEF Schedule
  <2> QED BY <2>1, <2>2, <2>4, OnItsDay
<1> QED BY <1>1, Invariant, PTL
=============================================================================
