# ExpenseLog: specifications and proofs

ExpenseLog is a Go server (`net/http`, PostgreSQL) that keeps the expenses of
its users, with bots and phone automations that write to the same ledger. This
directory models the parts of it where statements of several requests, restarts
and failures meet: as TLA+ modules that TLC checks on small instances, and with
theorems that TLAPS proves for every value of the constants.

Contents: 1 Inventory · 2 Modules and code · 3 Runs · 4 Proofs ·
5 Disagreements found · 6 What is left out · 7 Plan

## 1. Inventory

The server is one process (`kubernetes/expenselog-deployment.yml`: a
StatefulSet with one replica). Every request runs in a goroutine of its own.
Shared state is of two kinds: tables of PostgreSQL, at READ COMMITTED (no
transaction asks for another level), and maps guarded by a mutex, which a
restart empties. Most storage methods are single statements, each a transaction of its own; the few that
open a transaction are named below.

| component | state | operations | what is hard | what makes it correct |
|---|---|---|---|---|
| Reconciliation (`databaseStore.go` 2263-2607, `reconciliation.go`) | `reconciliations`, system rows of `expenses` | apply, revert, history; each in a transaction | balance read before the insert and by a clock read earlier still, one key twice, two reverts | history and ledger agree, a key adjusts once, system rows are immutable |
| Legacy migration (`databaseStore.go` 583-720) | the same tables | runs at each start, before the server listens | not a transaction: any prefix may survive a crash; a row it cannot take stops every start | finishes what an earlier boot began, the server starts |
| Expenses (`handlers.go` 374-599) | `expenses` | add, edit, delete, bulk delete, list | lock test and write are two statements | locked rows stay |
| Idempotency guard (`idempotency.go`) | map key → expiry | begin, release | a request longer than the TTL, clock read outside the mutex, restart | at most one request per key at a time, a repeat is refused |
| Bot links (`telegram_bot.go`, `whatsapp_kapso.go`) | `*_link_codes`, `*_user_links` | create a code, consume it (a transaction with row locks), status | two codes, two chats, one code twice | a code links once, a chat speaks for one account |
| Credentials (`auth.go`, `email_dispatch_guard.go`) | `users`, `sessions`, `password_resets`, cooldown map, throttle maps | sign-up, login, logout, request and confirm a reset | delete-then-insert, guesses that arrive together, ignored errors | the mailed code works, guesses are limited, old sessions end |
| Google OAuth (`auth_google.go`), e-mail verification (`email_verification.go`) | `users`, `oauth_identities`, `email_verifications`, mail reservations | start, callback; send, follow | one Google account in two callbacks, a sign-up that fails half-way, a link that is replaced while it is followed | whoever is in is in the right account, and the address is theirs |
| Apple Wallet (`apple_wallet.go`) | `wallet_ingest_events`, drafts in `expenses` | ingest, tokens, debug | insert-then-search by several deliveries, failure after the event is stored | a purchase becomes one expense, and not none |
| Kapso webhook (`whatsapp_kapso_webhook.go`) | `wallet_ingest_events` (source whatsapp), map of pending actions, map of processed keys | verify, answer 200, process in a goroutine | registered before it is processed; answers out of order; restart | a message is booked once |
| Recurring expenses (`databaseStore.go` 2609-2868) | `recurring_expenses`, `expenses` | add, update, delete, each in a transaction | two readings of the clock, month arithmetic, two changes of one rule, instances moved by hand | the instances are those of the rule as it stands |
| Categories, currency, start date (`handlers.go` 61-368, `databaseStore.go` 1189-1241, 1826-1974) | `user_config`, `categories`, the package's slice of defaults | get, add, rename, delete, replace; each makes what is missing | rows made by whoever comes first; a list written row by row; the slice is shared | acknowledged settings stay; a list is not a mixture of two |
| Card payment, flow (`card_payment.go`, `flow.go`), alerts (`alerts.go`) | none (pure over the ledger) | classify, sum | signs, rounding, boundaries of months | sums match their definition |
| Import, export, report (`import-export.go`, `monthly_report_export.go`) | none of their own | CSV, XLSX | a row in the middle fails | an export can be imported |
| Mail (`email*.go`) | none | send | provider errors | the caller learns of failure |
| Start and health (`cmd/expenselog`) | none | migrate, listen, drain, health | order of migration and listening | no request meets a half-migrated table |
| `telegram-receipt-bot` | its own database, chats' drafts | OCR, dialogue, POST of an expense | retries of POST | an expense once |
| `expenselog-ai-parser`, web client, deployment | none / browser cache | parsing, pages | – | – |

**Interactions.** Handlers call `storage.Storage`; requests meet only in the
tables and in the maps. The guard of Idempotency-Key stands in front of adding,
editing and deleting expenses, of the same for recurring expenses and of card payments, not of
reconciliation, which has its own key in a column with a unique index. The mail guard stands in front of reset and verification mails.
The webhook and Apple Wallet write expenses through `AddExpense`, without
a guard, and share one table of events. The migration touches the rows that
reconciliation and expense editing do, which is safe because it runs before the
server listens.

`PROJECT.json` lists each hazard at its line with the properties that watch it.

## 2. Modules and code

One process of a model (`Procs`, `Reqs`) is a slot for a request the server
works on; when it is idle again the next request may take it, so a run has more
requests than slots. One action is one SQL statement together with what the
handler computes before the next one, or a mutex section. A statement inside a
transaction changes only the request's own `loc` until COMMIT, since READ COMMITTED
shows others nothing before; locks that it takes are what others wait for. A
crash empties every slot and every map and keeps committed rows.

Definitions whose comment says *Faulty variant* are not part of the
specification. Each states one plausible slip in the definition beneath it, and
shows that a property notices it. *History* variables record what was
answered or what overlapped; no guard reads them.

| module | models | notes |
|---|---|---|
| `Reconciliation` | apply (`ApplyBegin`, `ApplyRead`/`ApplyNoop`, `ApplyDuplicate`, `ApplyInsert`/`ApplyOverflow`, `ApplyRecord`, `ApplyCollision`, `ApplyCommit`), revert (`RevertBegin`, `RevertRead`/`RevertRefused`, `RevertUpdate`, `RevertCommit`), expense writes (`AddExpense`, `EditCheck`/`EditWrite`, `RemoveCheck`/`RemoveWrite`), migration (`BootStart`, `Scan`/`ScanFails` … `BootDone`) | `live`/`exp`: the rows of `expenses`, dated; `now` of a request is the clock its handler read, by which it sums and dates; `form`: whether the migration can read a row and store its tags; `rec`: the rows of `reconciliations` by their adjustment; `server`, `todo`, `half`: where the migration is |
| `CashLedger` | nothing of the code by itself: what reconciling promises, as a history and a balance of two parts, the user's and the system's, that change in one step (`Adjust`, `Undo`, `Spend`; `Adopt`, `AdoptUndo`, `Take` for the migration) | abstract specification; `MovesTogether` of `Reconciliation` is its refinement |
| `IdempotencyGuard` | `beginMutationIdempotency` (`Arrive` reads the clock, `Reserve`/`Refuse` are its mutex section, `Unguarded` is a request without the header) and the release | `expiresAt`: the map; the handler's own work is the stay at `running` |
| `AccountLink` | nothing of the code by itself: what linking promises, as a table changed in one piece by `Issue`, `Withdraw`, `Bind` | abstract specification; `LinksAtomically` of `BotLink` is its refinement |
| `BotLink` | `CreateTelegramLinkCode` and `ConsumeTelegramLinkCode` with their WhatsApp twins, which run the same statements on twin tables | row locks of FOR UPDATE and pending unique-index entries are derived from `pc`/`loc` of the transactions in flight; `bound` records what was committed, whether or not the answer still reached the client |
| `PasswordReset` | `AuthResetRequest`, `AuthResetConfirm`, `AuthLogin`, the mail cooldown | the change of the password may be committed and answered as failed (`ConfirmLost`); a session is the password that opened it (the count of changes); a code row is unused, used or deleted |
| `WalletIngest` | `AppleWalletIngest` | `stamp` gives each INSERT its start time, so visible order and `created_at` order may differ |
| `Inbox` | nothing of the code by itself: what the webhook promises of a message (`Take`, `Book`, `Settle`, and `LetLoose` for one that cannot be registered) | abstract specification; `TakenInOnce` of `KapsoWebhook` is its refinement |
| `KapsoWebhook` | a delivery (`Repeat`, `Accept`), the registration (`BeginWork`, `TurnAway` of an account that is no longer linked or premium … `LookupFail`), buttons (`PressEdit`, `PressDelete`, `Cancel`), the text that answers one (`TakeAction`), the command that names an expense (`TakeCommand`, `RefuseCommand`), the edit of either (`ReadRow` … `ClearAction`), a text or receipt that becomes an expense (`NoActionTaken`, `Save`, `SaveFail`), the result (`Complete`) | one linked phone; a process is a goroutine; `pending` is the phone's entry of `whatsAppPendingActions`; the INSERTs of a message and of an expense, the UPDATE of an expense and that of a result may each be committed and report an error; a field of an expense is the text it was set from, so a lost edit shows |
| `Calendar` | `AddDate` of Go on days since 2024, for the switch of the generator | pure; right for the years 2024 to 2099 |
| `Recurring` | `AddRecurringExpense`; update (`UpdateBegin`, `UpdateRule`, `DeleteInstances`, `Generate`, `Copy`); removal (`RemoveBegin`, `RemoveRule`, `RemoveInstances`); `EditExpense` and `DeleteExpense` of one instance | `rule`: `recurring_expenses`; `expenses`: the rows with a `recurring_id`; the row of a rule is held from the first statement (`Holds`); `at`, `till`: the two readings of the clock |
| `UserSettings` | the row of `user_config` (`ConfigSelect`, `ConfigInsert`, `Upsert`), the list of categories (`ListRead`, `Edit`, `WriteRow`, `Sweep`, `SweepRow`, `Commit`, `SeedCommit`) | `table`: the position of each name; `wrote`, `gone`, `sweep`: rows that a transaction holds or has still to delete; `shared`: the request's list is the package's slice itself |
| `Accounts` | sign-up (`Register`, `CreateUser`), links by mail (`Reserve`, `TokenDelete`, `TokenInsert`, `Mail`, `Follow`, `Activate`, `Mark`), Google (`Callback`, `GetIdentity`, `Lookup`, `Link`), login and sessions, `Restart` with what it cleans up and the category names it translates (`Translated`); composed with `UserSettings`, which it extends | an account is its address; a session records the Google account it came by; a sign-up passes through the statements of `UserSettings` and comes back (`AfterConfig`, `AfterList`) |

`MC*.tla` give the constants that a `.cfg` cannot write down: ledgers, payloads,
symmetry sets.

What the data became: an amount is a small integer (NUMERIC(10, 2) is
`MaxAmount`, so overflow is reachable); names, categories and tags became the
kinds that `isReconCategory`, `isAdjustmentName` and `isReversalName` tell apart; a
link code, reset code or purchase is a model value; a time is a tick.

## 3. Runs

| run | question | bounds |
|---|---|---|
| `reconciliation` | do history and ledger stay in step while applies, reverts, edits and deletions interleave, through a crash at any point? | 5 rows, 2 requests at a time, 1 key, target 2, amounts −2..2, 2 instants, four legacy ledgers (an adjustment and its reversal; the same with a purchase; with tags that do not fit; with a row that cannot be read), 1 crash; 151 349 states |
| `reconciliation_revert_twice` | is an adjustment undone once? (no) | 3 rows, no legacy |
| `idempotency` | who runs together, who is refused? | 3 requests, 2 keys, TTL 2 of 5 ticks, 1 restart; 653 314 states |
| `idempotency_retry` | is a repeat within the TTL refused? (no) | 2 requests, 1 key |
| `bot_link` | do the transactions implement the table of links? | 2 each of accounts, chats, codes, requests; one account whose plan changes; codes expire; 441 268 states |
| `bot_link_rebind` | does a linked account keep its chat? (no) | the same |
| `password_reset` | does the mailed code work, are guesses limited, do old sessions end? | 2 requests at a time, 2 codes, 2 attempts, cooldown and TTL 1 of 2 ticks, 1 change of password, 1 crash; 4 261 316 states |
| `wallet_ingest` | when does a purchase become two expenses or none? | 3 events, 2 at a time, 5 payloads of 2 purchases, window 1, 1 crash; 1 397 172 states |
| `kapso_booking` | is a message booked once, and does its row say what came of it, through redelivery, failing statements and a restart? | a text, a receipt and a button, 4 deliveries, 2 goroutines, 1 fault, restart or message turned away, lifetimes 0 of 1 tick; 1 149 275 states |
| `kapso_edits` | does a button serve one text, and does an edit stay? | a text, a command with a short id that fits every expense, 4 buttons (two edits, delete, cancel), 4 deliveries, 2 goroutines, no fault; 2 643 331 states |
| `recurring` | are the instances those of the rule? | 1 rule, 2 requests at a time, a monthly and a daily plan, 3 instants, 2 dates to move to, 3 versions of the rule; 760 301 states |
| `accounts` | who is let in, and do acknowledged settings stay? | 2 users (one from before), 2 requests at a time and 3 in all, 3 names with 2 defaults, 1 list, 2 renames, 2 currencies, 2 links, 1 Google account, one name that a start translates into another; 1 287 772 states |

Why the bounds are enough for the cases named. *Two slots*: every conflict in
this code is between two parties (check and write, read and commit, holder and
waiter); the guard gets three requests because a release that takes away
somebody else's entry needs three. *Five rows*: a legacy adjustment, its
reversal, and an apply with two reverts, or a row of the user among them. *One key*, shared by two applies
or by an apply and a movement that the user files, names and tags like an adjustment, ahead of its date. *Two instants*: a clock read before, and an
adjustment dated after it. *TTL below MaxTime*: an
entry expires while its request runs, and another after it. *Two attempts*: the
first wrong guess is not the last. *Three events*: an original, a duplicate, and
a duplicate that finds the duplicate. *Four deliveries*: a button, two texts for
it and one more of either; they come again only while some are left, so the proofs
are what covers longer dialogues. *Three instants*: before, between and after the two readings of a clock, around a
date of the plan. *Three requests in all*: two that meet and one that made or
finds what they left; users may have lost their settings to a sign-up that stopped
half-way, which is an initial state. *One crash* anywhere, including in the
migration that follows the first start; that a second one adds nothing for
safety is what the proofs show.

**Deadlock checking is off** in every run: ids and ticks run out, and a user may
stop. That nothing the server began is stuck is stated instead as
`AnswersArrive`, which fails if two transactions wait for each other.

**Fairness.** Only steps that the server takes by itself are fair; nobody has to
send a request, and the clock need not move. In `Reconciliation` each request that has begun and
the migration are weakly fair: the Go scheduler and PostgreSQL run them, and the one wait
there (a unique-index entry of a transaction in flight) ends with that
transaction for good: it commits, and the waiter then collides with a row
that stays, or the server crashed and with it the waiter. In `BotLink` each request is strongly fair: a row
lock or index entry may pass to other requests in between, and PostgreSQL's
lock queue is first in, first out, so a waiter is not overtaken for ever.

### What the properties say

* `RecordsBacked`, `RevertsOffset`, `LockedImmutable`: the
  ledger and the history agree whatever interleaves. `MovesTogether`: seen from
  outside, the statements of applies, reverts, edits and migration are steps of
  `CashLedger`. The locked rows change by an adjustment in the very step that enters it in
  the history, by the amount entered, under a key that adjusts for the first time; the
  user's writes change neither history nor locked rows; the migration enters what the
  balance has already. Two overlapping reverts are two steps `Undo` there too. `AlignedUnlessOvertaken` says when an
  apply may miss the balance that was asked for: when another commit came
  between its read and its own, or when a movement is dated after the clock that its handler read
  and not after now. The second needs no overlap of transactions: an apply whose
  handler waited before BEGIN leaves out of its sum what a later request has committed meanwhile.
* `BootLocksLegacy`, `BootCompletes`: the migration, cut short anywhere, ends
  with all legacy movements locked; the server always comes up, *unless* the ledger has a row that the
  migration cannot take (`MigrationPossible`): one with NULL where the scan reads a string, an adjustment still
  to be recorded whose tags fit no column, or two of them with one key. Each ends every start, since
  nothing removes the row.
* `NoOverlap` holds *except* for keys some request outlived; `RefusedOnlyRepeats`:
  a request is refused only for another with its key that is in progress or has changed something within
  the TTL, so a failure never costs its client the retry. It holds for the guard as the test uses it and
  as the handlers do; that the handlers refuse *less* than they should is `RepeatRefused` (section 5).
* `OneAccountPerChat`, `CodeLinksOnce`, `LinksAtomically`: linking is
  atomic although creation is two statements, and consumption several. `ReplacedOnlyByRivals`: a linked
  account keeps its chat *unless* two of its codes could link together (`rivals`): one was stored while another request
  had withdrawn the old codes and not stored its own, or a consumption outlasted its code. What follows from
  the first is the run `bot_link_rebind`.
* `TimelyCodeWins`: what makes delete-then-insert safe is the mail guard, as
  long as storing takes less than the cooldown. `GuessesBounded`: guesses
  are compared before they are counted; the bound is `MaxAttempts` plus the number
  of other requests in flight. `SpentCodesRefused`: a code that a client was told is used up lets
  nobody in again, *except* where the error of `MarkPasswordResetUsed` was ignored (`unmarked`): success is
  answered all the same, and the code works until it expires. `OldSessionsEnd`: old sessions survive a failed
  deletion, a change that was committed and answered as failed, or a login that overtakes.
* `OneDraft`: two deliveries of one purchase make two expenses only if the younger
  searched while the INSERT of the elder had not committed. `DuplicatesHaveOriginal`: what is left behind a delivery that was
  answered "duplicate". Its last case, an event left `received` by a failure, is
  the way a purchase is lost: the retry takes that event for its original.
* `TakenInOnce`: the unique index makes a message one expense, booked before its
  result is stored, and the result is final and says what the server could know, *unless* its
  registration failed and it was worked on without a row (`loose` in `Inbox`). `EventsAccount`: an
  accepted message that nobody works on has a result, *unless* a failure or a
  restart cut it short, or it was turned away for want of a link or a premium plan, which leaves no row. One that was cut a message is lost: Kapso has its 200, and the row that
  is left refuses a redelivery. A stored result is true, *except* that the INSERT of the expense may be
  committed and report an error: the row then says `needs_review` of an expense that is there (`unseen`).
* `ServedOnce`: a press lets one text edit, *unless* two texts took its action before
  either cleared it (`contended`); an UPDATE that is committed and reports an error leaves the action waiting, and the
  chat, told of a failure, may use it again. `EditsKept`: what is
  stored stays, *unless* two edits of one expense had both read the row
  (`crossed`), since `UpdateExpense` writes all columns. That a text's `ClearAction` also
  takes away a button pressed meanwhile breaks neither, and loses that press.
* `NoLeftovers`, `ScheduleKept`: overlapping changes of a rule are kept apart by the row
  of the rule, which each writes first. What is missing from the schedule was taken away by
  hand, or came between the two readings of the clock (`crossed`): such an instance was
  deleted and not made again. An instance moved to a date of the new plan fails the
  whole update. `MonthlyOnItsDay`: up to the 28th; later days drift, since the generator adds a month
  to the date it last had.
* `GoogleSticks`: of two callbacks of one Google account the index lets one bind it,
  and the other ends without a session. `SignedInProved`: no order of
  sign-up, link, Google and login lets anybody into an account that is pending or whose
  address nobody showed to be theirs. It does not say that only the owner is in: a password that somebody else
  set at a sign-up that was never verified opens the account after Google has activated it.
* `PreferencesKept`: the two places that make the row of `user_config` look first and
  insert then; what keeps the second from undoing a currency acknowledged meanwhile is that
  it inserts plainly, and fails. `LastListWhole`: the transactions of two lists
  wait for each other at the row of a common name. *Unless* they have none, or a seeding
  meets a list, or the shared slice is changed under a writer, the list is the
  later one, whole, but for the English default names that a start since then has renamed (`Translated`). Of two edits of one list the earlier is lost all the same, which breaks nothing
  said here. That a rename on the shared slice is what the next user
  gets as defaults is in the model (`defaults`) and contradicts no statement of the repository; `TypeOK`
  checks that the slice keeps its length, which `DeleteCategory` shifts in place.

## 4. Proofs

Each `*Proofs` module proves, for all constants that satisfy its module's
assumption, the invariance of an `IInv` (theorem `Invariance` or `Invariant`) by one lemma per
action or group of actions, and derives the properties from it.

| module | assumption | why the properties alone are not inductive; what `IInv` adds |
|---|---|---|
| `ReconciliationProofs` | `MaxAmount` positive, `None`, `NoKey` are not ids or keys, legacy and user rows are rows that are unlocked, users' rows can be read, each legacy ledger is finite | `RecordsBacked` needs to know what a transaction in flight read and will write: its row id is fresh and reserved, its key is taken by nobody else, the record it read existed, a row that an edit found unlocked is still (`InFlight`); and rows that are recorded but not locked exist only while the migration still has to visit them (`Ledger`). `BootLocksLegacy` needs what a boot has behind it: rows off its list are locked, and a locked adjustment is recorded (`LegacyDone`). `AlignedUnlessOvertaken` needs that an apply in flight which nobody overtook still has the difference to the balance at its clock, which is not ahead of time (`Aligned`) |
| `IdempotencyGuardProofs` | TTL positive | a holder's entry is present until its time unless outlived (`EntryOfHolder`), an entry has a holder (`HolderOfEntry`, so the map stays as small as the requests in flight), clocks read are past (`PastClocks`) |
| `BotLinkProofs` | `None` is no id | what a request holds is exclusive (`CodeHeld`, `EntryHeld`) and what it read under a lock is still so; `Refinement` maps each statement to a step of `AccountLink` or a stutter; `NeverAllWaiting` adds who has locked which row of the links (`RowsOwn`, `RowsApart`); `LinksKept` adds, for accounts without rivals, that one of their codes at most can still link (`OneAlive`), also while a request is between withdrawing and storing (`Withdrawn`), and that no other consumption has linked the account since its link was looked up (`LinkFree`) |
| `PasswordResetProofs` | TTLs positive, finitely many slots | `Guard` and `Cleared`: there is one request that has held the address for less than the cooldown, and whatever unused code it finds at its INSERT is older than its clock; `Counted`: guesses told plus guesses in flight stay below the bound, an argument about cardinalities |
| `WalletIngestProofs` | payloads are payloads, `None` is no event | `Searches`: what a delivery that has searched may not have seen; `Roots`: a duplicate has an elder that is no duplicate, which it inherits from the one it found |
| `KapsoWebhookProofs` | `Content` gives messages contents, `None` is no message, lifetimes are natural | `Work`, `Owners`: who registered a message is alone with its row; `Results`, `Rows`: what a goroutine is about to store is so, and a row without a result has an owner or was cut short; `PressedOnce`, `Uses`: a button that was worked on is not worked on again, and whoever holds an action that was used is the one that clears it; `Copies`: what an edit read is still there unless crossed; `Known`: no edit has an id that a new expense will get; `InboxImplements` maps each statement to a step of `Inbox` or a stutter |
| `RecurringProofs` | plans are valid (`RecurringExpense.Validate`) | a holder of the rule's row is alone (`Holds`), and what it deleted and generated is what the rule's instances were and the plan asks for; an instance carries the plan of its version |
| `AccountsProofs` | names finite and not empty, defaults and lists not empty, English names are translated into names that are not English, references are links and Google accounts, apart | `Kept`: settings said are the base until there is a row, and whoever upserts has seen a row; `Whole`: transactions of one user hold different rows (`Apart`), and an uncrossed DELETE has seen every row that it does not keep (`Steady`); `Entry`: whoever is about to get a session is in an account it may enter |

**Three abstract specifications** are implemented, step by step: `AccountLink`
(`Refinement`), `CashLedger` (`LedgerImplements`) and `Inbox` (`InboxImplements`). Each
proof maps the initial states, and under `IInv` every step to one of the abstract
actions or a stutter. Neither side has fairness there.

**Sums and dates.** The balance is a sum over the rows of a finite set, whose
library definition is a CHOOSE of a recursive function. `ReconciliationProofs` shows
that such a function exists and what a sum does when a row comes, goes or changes, by a
minimal counterexample among the subsets (`SubsetInduction`, `SumsExist`, `SumStep`, `TotalAdd`,
`TotalSkip`); the library's own induction takes an operator, which the provers
cannot instantiate. In the same way `OccurrencesFollow` gets from the recursive
definition of a plan's dates that each follows from the one before, and `SkippedFirst` that
the generator's loop, which uses up occurrences for the dates it skips, makes just the
dates of the schedule that are not past (`Generated`). That dates ascend, and that a month later falls on the
same day up to the 28th, are lemmas about `AddDate` for every day.

**Only model-checked**: `AnswersArrive` and `BootCompletes`, which are liveness
properties: the prover has no rule for fairness and ENABLED. What safety says about them is
proved. `BootGoesThrough`: while `MigrationPossible` holds no
statement of a boot fails, and each goes from start to scan to list, begins the work on a row of the list or crosses one
off, and keeps the migration possible; `BootNeverStuck`: some statement has its turn, and the list is
finite. `NeverAllWaiting`: as long as a request of `BotLink` waits for a code, a row or an
index entry, another is under way that does not wait: consumptions take code, chat and
account in this order, and who has locked the row of an account can only wait for
one that has inserted. In `Reconciliation`, whoever holds what a request waits for
commits next and waits for nothing, by the guards themselves.

**Bounds in the proofs.** `MaxTime`, `MaxChanges`, `MaxCrashes`, `MaxDeliveries`, `MaxFaults`, `MaxVersion`, `MaxRequests`, `Times`, `EditDates` occur only in
guards and are any natural number or set of them, so the theorems hold for any number of ticks
and restarts; sets of ids may be infinite where the assumption does not say
otherwise.

## 5. Disagreements found

Three runs end in a violation, each of a statement the repository makes:

1. `reconciliation_revert_twice`: `RevertReconciliation` reads without FOR UPDATE
   and updates without a condition, so two overlapping reverts both succeed;
   `storage_test.go` expects the second to get `ErrReconciliationAlreadyReverted`.
   `RevertsOffset` still holds: each reversal cancels, there are just two of them.
2. `idempotency_retry`: `defer releaseIdempotency(idempotencySuccess)` passes
   the value at the time of the defer, `false`; the entry is dropped after a success
   too, and a retry runs again. `idempotency_test.go` tests the function with
   `release(true)`, which no handler ever does. The mail guard is used the same
   way (`auth.go`, `email_verification.go`), so its cooldown covers a request in
   progress and not the minutes after it.
3. `bot_link_rebind`: two codes made at the same time are both active, and the
   second to be consumed replaces the chat of the first, where
   `ErrTelegramAlreadyLinked` is meant to refuse it.

## 6. What is left out

* Listing and reading of data, formatting, wording, mail bodies, pages: no property
  is about them.
* Throttles of failed logins, sign-ups and resets, which only refuse; wrong passwords; the
  change of the display name. `AuthMe`'s branch for a session of an account that is not
  active is never taken: `SignedInProved` shows that there is none.
* In `UserSettings`: the plan tier, and letter case: two names that differ in it are one
  to the handlers and two to the table. In `Accounts`: a mail that fails (its request
  fails), any but one pair of the names that a start translates in the run (the proofs take any), the reset of a password (`PasswordReset`). The reservation of a mail ends with its
  request, as in section 5, item 2.
* In `Recurring`: names, amounts, currencies, tags; databases in which the start left out
  the unique index because it found duplicates. The page offers 0 occurrences as
  "indefinite", which `RecurringExpense.Validate` refuses.
* Statements that fail inside a transaction of `Reconciliation` or `BotLink` for reasons other
  than those modelled (unique index, overflow): they roll back, which the
  model's crash covers up to the answer.
* In `KapsoWebhook`: messages that change nothing (menus, lists, the question
  before a deletion); several messages in one delivery, which are separate deliveries here, and so in
  any order; a phone relinked to another account while its action waits.
* The connection pool and its limits.
* PostgreSQL itself is modelled by READ COMMITTED statements, row locks, unique
  indexes that make an inserter wait for the transaction that holds the entry,
  and rollback at a crash.

### Not modelled

* **Import, export and monthly report** (the largest file): CSV and XLSX layout,
  column widths, styles and sums over a list that was read once. There is no state,
  and what could be wrong is wording and layout. The import is one `AddExpense` per
  row, which `Reconciliation` has.
* **Card payment, flow, alerts**: arithmetic on floats over rows read by one
  statement, without a state of their own; their writes go through `AddExpense` and the guard
  of Idempotency-Key, which are modelled.
* **Mail delivery and templates, pages, AI parser, web client, deployment**: input and
  output; success or failure is an outcome in the models that call them.
* **`telegram-receipt-bot`**: a program of its own with its own database, in the repository only as
  compiled output.

## 7. Plan

1. A phone relinked to another account while its action waits, in `KapsoWebhook`.
2. The throttles of `auth.go`: windows, locks, pruning and restarts.
3. Pure modules for card payment, flow and alerts, checked over bounded inputs.
4. `ReceiptBot`: the retrying client composed with `IdempotencyGuard`.
5. Proofs: abstract specifications of the guard of Idempotency-Key and of the reset of a
   password, which their modules implement.
