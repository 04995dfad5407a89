--------------------------- MODULE IdempotencyGuard ---------------------------
(***************************************************************************)
(* internal/api/idempotency.go and the handlers that use it: a map in      *)
(* memory, from scope|Idempotency-Key to the time the entry expires, that  *)
(* refuses a mutation while the same one is being processed.  Keys are     *)
(* composites, so equal header values of other scopes are other keys.      *)
(*                                                                         *)
(* The handlers write `defer releaseIdempotency(idempotencySuccess)`: Go   *)
(* evaluates the argument when the statement runs, where it is false, so a *)
(* request that succeeds releases its key exactly like one that fails.     *)
(*                                                                         *)
(* Left out: headers that are refused as malformed (400, no state).        *)
(***************************************************************************)
EXTENDS Integers, FiniteSets

CONSTANTS
    Reqs,        \* requests, each sent once
    Keys,        \* composites of scope and header
    NoKey,       \* a request without the header
    TTL,         \* mutationIdempotencyTTL, in ticks
    MaxTime,     \* bound: ticks in a run
    MaxCrashes   \* bound: restarts in a run

ASSUME GuardAssumption ==
    /\ TTL \in Nat \ {0}
    /\ MaxTime \in Nat
    /\ MaxCrashes \in Nat
    /\ NoKey \notin Keys

Absent == -1

VARIABLES
    now,       \* the clock
    expiresAt, \* mutationIdempotencyState: expiry by key, or Absent
    pc,        \* where each request is
    key,       \* its key
    began,     \* the time it read before it asked for the mutex
    executed,  \* history: requests whose mutation was committed
    outlived,  \* history: keys a request held for the whole TTL and more
    crashes    \* restarts so far

vars == <<now, expiresAt, pc, key, began, executed, outlived, crashes>>

PCs == {"new", "arrived", "running", "finished", "answered"}

Init ==
    /\ now = 0
    /\ expiresAt = [k \in Keys |-> Absent]
    /\ pc = [r \in Reqs |-> "new"]
    /\ key = [r \in Reqs |-> NoKey]
    /\ began = [r \in Reqs |-> 0]
    /\ executed = {} /\ outlived = {} /\ crashes = 0

----------------------------------------------------------------------------
Goto(r, l) == pc' = [pc EXCEPT ![r] = l]

\* Requests that hold their key: from the reservation to the release.
Holding == {r \in Reqs : pc[r] \in {"running", "finished"} /\ key[r] # NoKey}

\* The map as r leaves it: entries that were over when r looked at its clock
\* are deleted.
Purged(r) == [k \in Keys |-> IF began[r] > expiresAt[k] THEN Absent ELSE expiresAt[k]]

\* Faulty variant: an entry is due one tick too early.
HeldEarly(r) == Purged(r)[key[r]] # Absent /\ began[r] + 1 < expiresAt[key[r]]

\* The key is in the map and not yet due.
Held(r) == Purged(r)[key[r]] # Absent /\ began[r] < expiresAt[key[r]]

Arrive(r) ==
    /\ pc[r] = "new"
    /\ \E k \in Keys \cup {NoKey} : key' = [key EXCEPT ![r] = k]
    /\ began' = [began EXCEPT ![r] = now]
    /\ Goto(r, "arrived")
    /\ UNCHANGED <<now, expiresAt, executed, outlived, crashes>>

\* beginMutationIdempotency without a header.
Unguarded(r) ==
    /\ pc[r] = "arrived" /\ key[r] = NoKey
    /\ Goto(r, "running")
    /\ UNCHANGED <<now, expiresAt, key, began, executed, outlived, crashes>>

\* Faulty variant: the TTL is subtracted.
ReserveBackdated(r) ==
    /\ pc[r] = "arrived" /\ key[r] # NoKey
    /\ ~Held(r)
    /\ expiresAt' = [Purged(r) EXCEPT ![key[r]] = began[r] - TTL]
    /\ Goto(r, "running")
    /\ UNCHANGED <<now, key, began, executed, outlived, crashes>>

Reserve(r) ==
    /\ pc[r] = "arrived" /\ key[r] # NoKey
    /\ ~Held(r)
    /\ expiresAt' = [Purged(r) EXCEPT ![key[r]] = began[r] + TTL]
    /\ outlived' = outlived \cup {k \in {key[r]} : now - began[r] >= TTL}
    /\ Goto(r, "running")
    /\ UNCHANGED <<now, key, began, executed, crashes>>

\* 409 "Duplicate request".
Refuse(r) ==
    /\ pc[r] = "arrived" /\ key[r] # NoKey
    /\ Held(r)
    /\ expiresAt' = Purged(r)
    /\ Goto(r, "answered")
    /\ UNCHANGED <<now, key, began, executed, outlived, crashes>>

\* The handler validates and mutates; either may fail.
Execute(r) ==
    /\ pc[r] = "running"
    /\ executed' = executed \cup {r}
    /\ Goto(r, "finished")
    /\ UNCHANGED <<now, expiresAt, key, began, outlived, crashes>>

Fail(r) ==
    /\ pc[r] = "running"
    /\ Goto(r, "finished")
    /\ UNCHANGED <<now, expiresAt, key, began, executed, outlived, crashes>>

\* Faulty variant: only a success releases its key.
ReleaseOnSuccess(r) ==
    /\ pc[r] = "finished"
    /\ expiresAt' = [k \in Keys |-> IF k = key[r] /\ r \in executed
                                    THEN Absent ELSE expiresAt[k]]
    /\ Goto(r, "answered")
    /\ UNCHANGED <<now, key, began, executed, outlived, crashes>>

\* The deferred release(false) deletes whatever entry the key has by now.
Release(r) ==
    /\ pc[r] = "finished"
    /\ expiresAt' = [k \in Keys |-> IF k = key[r] THEN Absent ELSE expiresAt[k]]
    /\ Goto(r, "answered")
    /\ UNCHANGED <<now, key, began, executed, outlived, crashes>>

Tick ==
    /\ now < MaxTime
    /\ now' = now + 1
    /\ outlived' = outlived \cup
         {key[r] : r \in {q \in Holding : now' - began[q] >= TTL}}
    /\ UNCHANGED <<expiresAt, pc, key, began, executed, crashes>>

\* A restart: the map and the requests in progress are gone.
Crash ==
    /\ crashes < MaxCrashes
    /\ crashes' = crashes + 1
    /\ expiresAt' = [k \in Keys |-> Absent]
    /\ pc' = [r \in Reqs |-> IF pc[r] = "new" THEN "new" ELSE "answered"]
    /\ UNCHANGED <<now, key, began, executed, outlived>>

Serve(r) == \/ Unguarded(r) \/ Reserve(r) \/ Refuse(r)
            \/ Execute(r) \/ Fail(r) \/ Release(r)

Next == Tick \/ Crash \/ \E r \in Reqs : Arrive(r) \/ Serve(r)

Spec == Init /\ [][Next]_vars

----------------------------------------------------------------------------
TypeOK ==
    /\ now \in Nat
    /\ expiresAt \in [Keys -> Nat \cup {Absent}]
    /\ pc \in [Reqs -> PCs]
    /\ key \in [Reqs -> Keys \cup {NoKey}]
    /\ began \in [Reqs -> Nat]
    /\ executed \subseteq Reqs
    /\ outlived \subseteq Keys
    /\ crashes \in Nat

\* Two requests with one key are never processed at the same time, except for
\* a key that some request has held for longer than an entry lives: its release
\* takes away the entry of whoever came next.
NoOverlap ==
    \A r, q \in Holding : key[r] = key[q] /\ r # q => key[r] \in outlived

\* A request is answered 409 only if another with its key is in progress, or has
\* changed something within the TTL: one that failed never costs its client the
\* retry, whatever expired, was released or restarted in between.
RefusedOnlyRepeats ==
    [][\A r \in Reqs : Refuse(r) =>
         \E q \in Reqs \ {r} :
            /\ key[q] = key[r]
            /\ q \in Holding \/ (q \in executed /\ began[r] < began[q] + TTL)]_vars

\* idempotency_test.go: after a request that succeeded, one with the same key
\* within the TTL is a duplicate.
RepeatRefused ==
    \A r, q \in executed :
        r # q /\ key[r] = key[q] /\ key[r] # NoKey =>
            began[q] >= began[r] + TTL \/ began[r] >= began[q] + TTL
=============================================================================
