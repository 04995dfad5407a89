------------------------ MODULE IdempotencyGuardProofs ------------------------
(***************************************************************************)
(* Theorems about IdempotencyGuard, for any number of requests, keys and   *)
(* restarts and any TTL.                                                   *)
(***************************************************************************)
EXTENDS IdempotencyGuard, TLAPS

\* A holder that has not outlived its entry is the one the entry stands for.
EntryOfHolder ==
    \A r \in Holding : key[r] \notin outlived =>
        /\ expiresAt[key[r]] = began[r] + TTL
        /\ now < began[r] + TTL

\* An entry is always that of a request in progress: nothing else leaves one.
HolderOfEntry ==
    \A k \in Keys : expiresAt[k] # Absent => \E q \in Holding : key[q] = k

PastClocks == \A r \in Reqs : began[r] <= now

IInv == TypeOK /\ NoOverlap /\ EntryOfHolder /\ HolderOfEntry /\ PastClocks

\* Holding, once the request r has moved.
LEMMA HoldingMoves ==
    ASSUME TypeOK, NEW r \in Reqs, NEW l \in PCs, Goto(r, l), key' = key
    PROVE  /\ l \in {"running", "finished"} /\ key[r] # NoKey =>
                Holding' = Holding \cup {r}
           /\ l \notin {"running", "finished"} \/ key[r] = NoKey =>
                Holding' = Holding \ {r}
  BY DEF TypeOK, Goto, Holding

\* The map starts empty and no request has begun.
LEMMA InvInit == ASSUME Init PROVE IInv
  BY GuardAssumption
  DEF Init, IInv, TypeOK, PCs, NoOverlap, EntryOfHolder, HolderOfEntry, PastClocks,
      Holding, Absent

\* A step that neither reserves nor releases.
LEMMA OtherStep ==
    ASSUME IInv, NEW r \in Reqs,
           Arrive(r) \/ Unguarded(r) \/ Execute(r) \/ Fail(r)
    PROVE  IInv'
<1> USE DEF IInv
<1>1. TypeOK'
  BY DEF TypeOK, PCs, Arrive, Unguarded, Execute, Fail, Goto
<1>2. UNCHANGED <<now, expiresAt, outlived>> /\ PastClocks'
  BY DEF TypeOK, PastClocks, Arrive, Unguarded, Execute, Fail
<1>3. Holding' = Holding /\ \A q \in Holding : key'[q] = key[q] /\ began'[q] = began[q]
  BY DEF TypeOK, Holding, Arrive, Unguarded, Execute, Fail, Goto
<1>4. NoOverlap' /\ EntryOfHolder' /\ HolderOfEntry'
  BY <1>2, <1>3 DEF NoOverlap, EntryOfHolder, HolderOfEntry
<1> QED BY <1>1, <1>2, <1>4

\* Purging takes no entry away from a holder that has not outlived it.
LEMMA PurgeKeeps ==
    ASSUME IInv, NEW r \in Reqs, NEW q \in Holding, key[q] \notin outlived
    PROVE  Purged(r)[key[q]] = expiresAt[key[q]] /\ began[r] < expiresAt[key[q]]
<1>1. key[q] \in Keys /\ began[r] <= now /\ now \in Nat
      /\ began[r] \in Nat /\ began[q] \in Nat /\ TTL \in Nat
  BY GuardAssumption DEF IInv, TypeOK, Holding, PastClocks
<1>2. expiresAt[key[q]] = began[q] + TTL /\ now < began[q] + TTL
  BY DEF IInv, EntryOfHolder
<1> QED BY <1>1, <1>2 DEF Purged

\* The check under the mutex: a reservation finds no holder, unless one has
\* outlived its entry.
LEMMA ReserveStep == ASSUME IInv, NEW r \in Reqs, Reserve(r) PROVE IInv'
<1> USE DEF IInv
<1>1. TypeOK'
  BY GuardAssumption DEF TypeOK, PCs, Reserve, Goto, Purged, Absent
<1>2. /\ key[r] \in Keys /\ r \notin Holding /\ key' = key /\ began' = began
      /\ now' = now /\ outlived \subseteq outlived' /\ Holding' = Holding \cup {r}
      /\ expiresAt'[key[r]] = began[r] + TTL
      /\ \A k \in Keys \ {key[r]} : expiresAt'[k] = Purged(r)[k]
  BY HoldingMoves DEF TypeOK, PCs, Reserve, Holding, Purged
<1>3. ASSUME NEW q \in Holding, key[q] = key[r] PROVE key[q] \in outlived
  BY <1>3, PurgeKeeps, GuardAssumption
  DEF Reserve, Held, TypeOK, Holding, EntryOfHolder, Absent
<1>4. NoOverlap'
  BY <1>2, <1>3 DEF NoOverlap
<1>5. EntryOfHolder'
  <2>1. key[r] \notin outlived' => now < began[r] + TTL
    BY <1>2, GuardAssumption DEF Reserve, TypeOK
  <2>2. ASSUME NEW q \in Holding, key[q] \notin outlived'
        PROVE  expiresAt'[key[q]] = began[q] + TTL /\ now < began[q] + TTL
    <3>1. key[q] \in Keys \ {key[r]} /\ key[q] \notin outlived
      BY <1>2, <1>3, <2>2 DEF TypeOK, Holding
    <3> QED BY <1>2, <3>1, PurgeKeeps DEF EntryOfHolder
  <2> QED BY <1>2, <2>1, <2>2 DEF EntryOfHolder
<1>6. HolderOfEntry'
  BY <1>2 DEF HolderOfEntry, Purged
<1>7. PastClocks'
  BY <1>2 DEF PastClocks
<1> QED BY <1>1, <1>4, <1>5, <1>6, <1>7

\* A refusal only purges.
LEMMA RefuseStep == ASSUME IInv, NEW r \in Reqs, Refuse(r) PROVE IInv'
<1> USE DEF IInv
<1>1. TypeOK'
  BY DEF TypeOK, PCs, Refuse, Goto, Purged, Absent
<1>2. /\ key' = key /\ began' = began /\ now' = now /\ outlived' = outlived
      /\ Holding' = Holding /\ expiresAt' = Purged(r)
  BY DEF TypeOK, Refuse, Goto, Holding
<1>3. EntryOfHolder'
  BY <1>2, PurgeKeeps DEF EntryOfHolder
<1>4. NoOverlap' /\ HolderOfEntry' /\ PastClocks'
  BY <1>2 DEF NoOverlap, HolderOfEntry, PastClocks, Purged
<1> QED BY <1>1, <1>3, <1>4

\* A release takes away the entry of its key: that of another holder only if
\* somebody outlived it.
LEMMA ReleaseStep == ASSUME IInv, NEW r \in Reqs, Release(r) PROVE IInv'
<1> USE DEF IInv
<1>1. TypeOK'
  BY DEF TypeOK, PCs, Release, Goto, Absent
<1>2. /\ key' = key /\ began' = began /\ now' = now /\ outlived' = outlived
      /\ Holding' = Holding \ {r}
      /\ \A k \in Keys : expiresAt'[k] = IF k = key[r] THEN Absent ELSE expiresAt[k]
  BY DEF TypeOK, Release, Goto, Holding
<1>3. EntryOfHolder'
  <2>1. ASSUME NEW q \in Holding \ {r}, key[q] \notin outlived
        PROVE  key[q] \in Keys /\ key[q] # key[r]
    BY <2>1, GuardAssumption DEF NoOverlap, TypeOK, Holding, Release
  <2> QED BY <1>2, <2>1 DEF EntryOfHolder
<1>4. NoOverlap' /\ HolderOfEntry' /\ PastClocks'
  BY <1>2 DEF NoOverlap, HolderOfEntry, PastClocks
<1> QED BY <1>1, <1>3, <1>4

\* The clock moves on: a key whose entry is over now counts as outlived.
LEMMA TickStep == ASSUME IInv, Tick PROVE IInv'
<1> USE DEF IInv
<1>1. TypeOK'
  BY DEF TypeOK, Tick, Holding
<1>2. /\ key' = key /\ began' = began /\ expiresAt' = expiresAt
      /\ now' = now + 1 /\ Holding' = Holding /\ outlived \subseteq outlived'
  BY DEF Tick, Holding
<1>3. ASSUME NEW q \in Holding, key[q] \notin outlived' PROVE now' < began[q] + TTL
  BY <1>3, GuardAssumption DEF Tick, TypeOK, Holding
<1>4. EntryOfHolder'
  BY <1>2, <1>3 DEF EntryOfHolder
<1>5. NoOverlap' /\ HolderOfEntry' /\ PastClocks'
  BY <1>2 DEF TypeOK, NoOverlap, HolderOfEntry, PastClocks
<1> QED BY <1>1, <1>4, <1>5

\* A restart empties the map and ends every request.
LEMMA CrashStep == ASSUME IInv, Crash PROVE IInv'
<1>1. Holding' = {}
  BY DEF Crash, Holding, IInv, TypeOK
<1> QED
  BY <1>1 DEF IInv, TypeOK, PCs, Crash, NoOverlap, EntryOfHolder, HolderOfEntry,
              PastClocks, Absent

\* Every step keeps the inductive invariant.
LEMMA InvStep == ASSUME IInv, [Next]_vars PROVE IInv'
<1>1. CASE UNCHANGED vars
  BY <1>1 DEF vars, IInv, TypeOK, NoOverlap, EntryOfHolder, HolderOfEntry, PastClocks,
              Holding
<1> QED BY <1>1, OtherStep, ReserveStep, RefuseStep, ReleaseStep, TickStep, CrashStep
        DEF Next, Serve

\* The inductive invariant holds in every state of every behaviour.
THEOREM Invariance == Spec => []IInv
  BY InvInit, InvStep, PTL DEF Spec

\* The guard's map and the requests stay within their types.
THEOREM TypeCorrect == Spec => []TypeOK
<1>1. IInv => TypeOK
  BY DEF IInv
<1> QED BY <1>1, Invariance, PTL

\* Whatever the handlers take, two mutations with one key are processed at the
\* same time only after a request has held that key for the whole TTL.
THEOREM MutualExclusion == Spec => []NoOverlap
<1>1. IInv => NoOverlap
  BY DEF IInv
<1> QED BY <1>1, Invariance, PTL

\* A request that failed costs nobody a retry: a refused request repeats one that
\* is being processed at that moment.
THEOREM RefusalsJustified == Spec => RefusedOnlyRepeats
<1>1. ASSUME IInv, NEW r \in Reqs, Refuse(r)
      PROVE  \E q \in Reqs \ {r} : key[q] = key[r] /\ q \in Holding
  <2>1. PICK q \in Holding : key[q] = key[r]
    BY <1>1 DEF IInv, TypeOK, Refuse, Held, Purged, HolderOfEntry
  <2> QED BY <1>1, <2>1 DEF Refuse, Holding
<1>2. IInv /\ [Next]_vars =>
        [\A r \in Reqs : Refuse(r) =>
           \E q \in Reqs \ {r} :
              /\ key[q] = key[r]
              /\ q \in Holding \/ (q \in executed /\ began[r] < began[q] + TTL)]_vars
  BY <1>1
<1> QED BY <1>2, Invariance, PTL DEF Spec, RefusedOnlyRepeats

\* The map never keeps an entry of a request that is not in progress, so without
\* any timer of its own it stays as small as the requests being served.
THEOREM EntriesHaveHolders == Spec => []HolderOfEntry
<1>1. IInv => HolderOfEntry
  BY DEF IInv
<1> QED BY <1>1, Invariance, PTL
=============================================================================
