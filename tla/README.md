# Regulation: TLA+ models, checks and proofs

Regulation links bank accounts through Plaid, imports their transactions,
categorises them with a language model and applies savings rules to them: a rule
that matches a settled transaction moves an amount into a virtual savings ledger.
This directory holds TLA+ modules of the parts of the Go server in which order,
concurrency and failure decide what a user's ledger says, TLC configurations that
check them on small instances, and proofs that TLAPS checks for every instance.
All paths are relative to `src/api/` unless they begin with `src/`.

## 1. The system

### Components, their state and their operations

| Component | State | Operations | Hard part | Makes it correct |
|---|---|---|---|---|
| Rule engine, `server/services/rule/engine.go` | tables `rules` (with counters), `rule_executions`, `savings_transfers` | `ProcessTransaction`, `executeRule`, `sendNotification` | concurrent calls for one transaction, failures between statements, commit in a deferred function | saves once per rule and transaction; ledger whole; counters exact; no rule forgotten |
| Rule handlers, `server/handlers/rule/` | `rules` | create, update, toggle, delete, list, executions | run while the engine works on rules it has read | no orphaned execution; the engine's counters survive |
| Sync service, `server/services/plaid/sync_service.go` | tables `transactions`, `sync_cursors`, `accounts` (balances) | `SyncItemTransactions`, `SyncAllUserItems` | several syncs of one item at once, cursor saved only at the end, replay after failures | no update skipped; table follows the bank; one row per transaction |
| Sync worker, `server/services/plaid/sync_worker.go` | none but the ticker | `Start`, `runSyncCycle`, `syncItemWithRetry`, `calculateBackoff` | retries for ever, one item after the other | every item gets its turn; the delay is capped |
| Plaid client, `server/services/plaid/client*.go` | Plaid's | paged `SyncTransactions`, `GetAccounts`, link and refresh requests | external | - |
| Bank links, `server/handlers/plaid/` | `items`, `accounts` | exchange token, disconnect, manual sync | starts a sync before its own commit | an item comes whole, and is synced although its first sync may miss it |
| Categorizer, `internal/categorizer/service.go` | two channels per batch | `CategorizeBatch`, `Categorize` | pool of goroutines, cancellation, retries | each answer at its own index; the batch ends |
| Transaction generator, `server/services/plaid/transaction_generator.go`, `server/handlers/plaid/transaction_generator.go` | map of running generators, stop channel | start, stop, status, refresh loop | loop reads the channel without the lock | one loop per item; the status is true; the item's owner decides |
| Query cache and pool, `server/server_database.go` | entcache in Redis (30 s), 75 connections | every query of the ent client outside of a database transaction | stale answers; a second connection while one is held | a stale answer does no lasting harm; the pool is not exhausted below its limit |
| Push notifications, `server/services/notification/webpush.go`, `server/handlers/notification/` | table `push_subscriptions` | subscribe, unsubscribe, send | sends while a database transaction is open, from rows read before | an endpoint is one user's, who may leave; dead endpoints, and only they, are deactivated |
| Sessions, `internal/session/session.go`, `server/middleware/auth.go` | a hash per session in Redis with a TTL | create, get and refresh, delete | refresh writes what it read, in two commands | a session is its owner's, expires, and does not come back |
| Accounts, recommendations, financial views | `users`; otherwise read-only | signup, login, me; suggestions; sums | - | arithmetic of the views |
| Infrastructure | - | routing, configuration, encodings | - | - |

### How they interact

    worker, request, new link ──> SyncService ──> Plaid client
                                      │  │
                                      │  └──> categorizer (one batch per list)
                                      └─────> rule engine ──> push notifications
    rule handlers ──> rules <── rule engine ──> rule_executions, savings_transfers
    every query outside of a database transaction ──> query cache ──> PostgreSQL

The parts share nothing in memory: they meet in PostgreSQL (READ COMMITTED, unique
indexes and foreign keys of `internal/ent/migrate/migrations/20251108162752_baseline.sql`)
and in Redis.  Nothing serialises two syncs of one item: the worker, a request to
`/plaid/sync-transactions` and the goroutine `exchange_token.go:113` starts may all
run `SyncItemTransactions` for it, and each hands settled transactions to the rule
engine.  No tests are kept with the Go code, so the comments, log texts and schema
comments are what it says of itself.

The hazards this leads to are listed, each at its line, under `hazards` in
`PROJECT.json`, with the properties that would catch them.

## 2. Modules

| Module | Models | Role |
|---|---|---|
| `SavingsLedger` | what the engine promises | abstract specification |
| `RuleEngine` | `engine.go`, the rule handlers, the constraints and locks they rely on | detailed specification |
| `MCRuleEngine` | - | instances of `RuleEngine` |
| `RuleEngineProofs` | - | theorems about `RuleEngine` |
| `SyncService` | `sync_service.go` | detailed specification |
| `MCSyncService` | - | instances of `SyncService` |
| `SyncServiceProofs` | - | theorems about `SyncService` |
| `Categorizer` | `CategorizeBatch` and `Categorize` of `categorizer/service.go` | detailed specification |
| `MCCategorizer` | - | instances of `Categorizer` |
| `CategorizerProofs` | - | theorems about `Categorizer` |
| `SyncWorker` | `sync_worker.go`, `SyncAllUserItems` | detailed specification |
| `MCSyncWorker` | - | instances of `SyncWorker` |
| `Linking` | `exchange_token.go` before `SyncWorker`, which it extends | composition, implements `SyncWorker` |
| `MCLinking` | - | instances of `Linking` |
| `LinkingProofs` | - | theorems about `SyncWorker` and `Linking` |
| `ConnectionPool` | the pool of `server_database.go` and its waiters | detailed specification |
| `Notifications` | `webpush.go`, `subscription.go`, over `ConnectionPool` | composition |
| `MCNotifications` | - | instances of `Notifications` |
| `NotificationsProofs` | - | theorems about both |
| `Sessions` | `session.go`, `auth.go`, signup, login and logout | detailed specification |
| `TransactionGenerator` | `plaid/transaction_generator.go`, service and handlers | detailed specification |
| `Requests` | the handlers of `TransactionGenerator` behind `Sessions` | composition |
| `MCRequests` | - | instances of `Requests` |
| `RequestsProofs` | - | theorems about the three |
| `RuleEngineCallsProofs` | - | theorems about the calls of `RuleEngine` |
| `FiniteSetLemmas` | - | lemmas about maxima, minima and sums over finite sets |

### RuleEngine

A worker is one call of `ProcessTransaction`; a step of it is one statement sent to
the database.  `ProcessTransaction`, `LoadRules`, `EvaluateRule`, `FinishCall` are the
loop of `engine.go:36-139`; `InsertExecution`, `InsertTransfer`, `UpdateRuleStats`,
`MarkCompleted`, `SendNotification` and `Commit` are `executeRule` in the order of its
statements, `SkipExecuted` its early return on a constraint error (line 242), and
`Rollback` every error return, after which the deferred `hooks.Rollback` rolls back
and the loop continues (line 126).  The handlers are one action each: every one of
them writes with a single statement.

A database transaction is the buffer `txn[p]`.  Its writes are invisible until
`Commit`.  `KeyHeld` makes an insert wait for an open transaction that has inserted
the same unique key, `RuleLocked` makes an update wait for the lock of the rule's row,
`RuleReferenced` is what a foreign key sees of committed and open executions, so that
a delete fails or waits.  `ConstraintError` is what an insert fails with.

The query cache is a variable per query (`ruleCache`, `txCache`).  Its entry is
refilled by any read that misses and expires after 30 seconds; time is not
modelled, so a read may take the cached answer or the stored one.

Amounts are integers in cents, a rule's value is in hundredths.  `calculateSavingsAmount`
truncates a float64 product, which may fall short of the exact one (`int64(0.29 * 100)` is 28).
`Product` is the integer division less one where it does; which pairs fall short is a constant
(`FallsShort`), assumed of pairs only whose exact product is a whole number.  A
transaction may be written again with another amount, category or account of its user
(`WriteTransaction`).  Category and merchant
matching is equality on the category, which is all `matchesRule` looks at besides the
two limits.

`SavingsLedger` says in one action what all this is for: an entry appears together
with its count and its amount, once for a rule and a transaction, and stays.  The
refinement mapping joins executions with their transfers and hides rules, handlers,
caches, calls and failures.

### SyncService

A sync is one call of `SyncItemTransactions` for one item.  Plaid's side is a log of
events, at most one addition and one removal per transaction; a cursor is a position
in it.  `GetCursor` and `CreateCursor` are `getOrCreateCursor`; `Fetch` is one request,
whose page holds three lists that `IsNext` walks in the order of lines 73-91;
`AddTransaction`, `ModifyTransaction` and `RemoveTransaction` write one row,
`RunEngine` hands it to the rule engine (reduced here to: it may save for the row it
finds); `FinishPage` moves the local cursor; `GetAccounts` and `UpdateAccounts` are
`syncAccountBalances`; `RecordSuccess`, `QueryFailures` and `RecordError` are the two
recording functions.  `RowFails`, `CallFails`, `BalancesFail` and `RecordFails` are the
error returns and the `continue`s, `Crash` the death of the process, which loses the
locals only.

A row of `transactions` is its id and the event it was written from.  The upsert keeps
the id of a row that exists (`UpdateNewValues` ignores the immutable id), a delete fails
while an execution references the row.  `handled` is not in the code: it collects the
events some sync has dealt with, so that the cursor can be compared with the work.

### Categorizer

One batch: the caller, its goroutines `w \in Workers`, and the goroutine `closer` that
closes the results.  `CategorizeBatch`, `StartWorker`, `SendJob`, `CloseJobs`, `Collect`
and `FinishBatch` are the caller's statements, `CloseResults` is the closer's,
`ReceiveJob` to `StopRetrying` are `categorizationWorker` with `Categorize` inlined.  The
channels are sets with their bounds; a bounded send is a guard.  What the model answers
is a choice between an answer and a failure, and a response is named by the request it
answers, so that a response at a wrong index can be told.  `workerCount` is capped by the
number of requests; an empty batch returns at once and is left out.

### SyncWorker

The worker is one goroutine: `QueryItems` to `Stop` are `Start` and `runSyncCycle`,
`CallSync` to `Retry` are `syncItemWithRetry`, `calculateBackoff` is the arithmetic with
the width of `time.Duration` as a constant.  A sync succeeds or fails; an item in `Broken`
always fails.  `SyncAllUserItems`, `SyncOne` and `RequestReturns` are a request of a user
beside it.  Items are linked and never deactivated: no code in the server does that
(`disconnect_account.go` deactivates accounts).

### Linking

`Linking` extends `SyncWorker` with where its items come from: `InsertItem`, `InsertAccount`,
`StartFirstSync` are `ExchangeToken` in the order of its statements, `CommitLink` and
`LinkFails` are what `defer hooks.Rollback(tx)` does after it has returned.  The goroutine of
line 113 looks for the item in between, or later; if it finds none the cache keeps that answer
(`missing`), and a sync of the worker fails on it until it expires.  The goroutine's sync is not
repeated, so what it does after it has found the item is left to `SyncService`.  The abstract
specification is `SyncWorker` itself: `ImplementsWorker` is its `Spec`, with the variables of
the link hidden.

### ConnectionPool and Notifications

A call of the pool is a request or a sync.  `tx` are the open database transactions, `plain`
the statements of the plain client that have a connection, `waiting` those without one.
`TakeLock` and `Block` are the row and key locks of an open transaction, which come in one
order (`stage`); `executeRule` takes the key of the execution, then the row of the rule.

`Notifications` is `Subscribe`, `Unsubscribe` and `SendToUser`.  A sender is a rule execution
that has taken all its locks and sends a second query beside its transaction.  The rows it
loops over are its local list; `NextSubscription` takes them in any order (the query has none),
`Send` is a call of the endpoint that succeeds or fails and goes on to the next row, and
`SendExpired` and `Deactivate` are the answer 410 and the update that follows it.  Queries are
answered by the table or by the cache (`byEndpoint`, `byUser`); an answer may be of any age.
A statement of a request is one step that needs a free connection: it holds nothing else, so
that its own waiting cannot lock anybody up.

### Sessions, TransactionGenerator and Requests

`Sessions` sends one Redis command per step.  `Hset` and `ExpireKey` are `Manager.save`,
`Hgetall` is `Manager.Get` up to its refresh, `UserFound` and `UserNotFound` are the
middleware's query.  A request ends at any command that fails (`RequestFails`), all of them with
the server (`ServerEnds`).  `given` holds the cookies a client can present; `ended`, the sessions
that were deleted or expired, and `halfSaved`, those whose last save was cut short between its two
commands, exist only to state the properties.

`TransactionGenerator` numbers generators and their stop channels by the start that makes
them.  A handler holds `h.mu` from its check to its last write and is one step; the loop takes
no lock, and reads the channel of its generator each time it comes to its `select`.  It keeps the
Fiber context of the request that started it, which Fiber recycles after the response: a use of it
passes, if it belongs to another request by then (`Refreshed`), or is a nil dereference
(`ContextPanics`, after the comment in `exchange_token.go:111`), which in a goroutine of its own
nothing recovers, so that the server ends and forgets all generators.  `Requests`
makes the handlers the last step of an authenticated request: session and item are
compared in `Owns`.  There a panic ends the requests in progress, too.

## 3. What is checked

Every run is small enough to finish in two or three minutes with two workers.  Deadlock is
checked in all runs but `engine_stats` and those of `Notifications` and `Requests`, where the
system may come to rest: with every rule and transaction deleted, with the pool exhausted for good
or the bounded row ids used up, with both accounts deleted.

| Run | Instance | Properties | What it shows |
|---|---|---|---|
| `engine_calls` | 2 calls, 2 transactions, 2 rules of which one matches both and the other one of them | `OncePerTransaction`, `LedgerWhole`, `NoMatchLost`, `NoSecondNotice`, `CallsReturn` | with concurrent duplicates, failing statements, deletes and crashes a rule saves once, the ledger is whole, no matching rule is forgotten, and nobody is told again of savings another call has committed; calls wait for each other's unique keys and row locks, and none waits for ever |
| `engine_stats` | 2 calls, 2 transactions (debits and a credit), 1 rule, 2 users with 2 accounts each | `TypeOK`, `OneOwner`, `ExecutionCountsMatch`, `SavedTotalsMatch`, `NoOrphans`, `ImplementsLedger` | counters equal rows under lock waits, edits and toggles; user, rule and both accounts of an execution agree; the refinement of `SavingsLedger` |
| `sync_race` | 2 syncs, pages of one event, log of 2, all failures, 1 crash | `TypeOK`, `NoUpdateSkipped`, `OneRowPerTransaction` | the cursor never passes work that nobody did; savings stay on one row |
| `sync_alone` | 1 sync at a time, 2 transactions, pages of 2, log of 4 | `NeverBehind`, `BalancesCurrent` | without interference the table is the bank's, in any page layout |
| `sync_live` | 1 sync at a time, failures, 1 crash | `CatchesUp` | the cursor reaches the end |
| `sync_concurrent` | 2 syncs, no failures | `NeverBehind` (violated) | finding 1 |
| `categorizer` | 2 workers, 4 requests, 1 retry, with and without a key | `TypeOK`, `OwnAnswerOrError`, `NoSendOnClosed`, `RoomForEveryResult`, `BatchEnds` | each request gets its own answer or an error; channels are closed in time and large enough; the batch ends |
| `linking` | 2 items, 1 broken, 1 account each, 5 attempts, no overflow | `TypeOK`, `BackoffAsDocumented`, `ImplementsWorker`, `SyncedUnlessStuck`, `StopsWhenCancelled`, `RequestReachesAll` | links that fail at any statement and first syncs that come too early are, to the worker, items that appear; every item is synced again and again unless the worker stays with a broken one; it stops with the server; a request passes over failures; the pauses are the documented ones |
| `notifications` | 1 notifying execution and 1 other call with 2 connections; 2 users, 2 endpoints, 3 rows; 1 request | `TypeOK`, `ExhaustedAtLimitOnly`, `UnsubscribedStaysSilent`, `DeactivatesOnlyGone`, `NotifierEnds`, `GoneAreDeactivated` | the pool can be exhausted only by as many calls as connections; who leaves an endpoint is left alone; a dead endpoint, and no other, is deactivated, though calls of the user's other endpoint fail; the notifier ends |
| `requests` | 2 users, 2 sessions, 2 requests, 1 item, 3 starts | `TypeOK`, `SessionsExpire`, `GoneForGood`, `OneLoopPerItem`, `StatusIsTrue`, `OwnersOnly` | sessions expire, but for those whose last save was cut short, and stay gone; an item has one loop that goes on, its status is true, and only its owner decides |
| `requests_context` | the same | `RefreshesGoOn` (violated) | finding 3 |
| `worker_overflow` | 7 attempts | `BackoffAsDocumented` (violated) | finding 2 |

### Bounds, and why they are enough

* Two concurrent calls or syncs: every hazard listed is a race of two; a third would
  repeat the part of one of them.  The proofs have no such bound.
* `engine_calls` has two transactions and two rules, so that two calls meet on a key, on the row of
  a rule, and on both in turn, and a failure or a skip of the first rule can cost the second its
  turn.  The rules have different priorities and are there from the start (`CallsInit`): of the
  handlers only the delete, which takes a rule out of a call's hands, can change what a call waits
  for, and the others are left to `engine_stats`.  Three identities are as many executions as
  these rules and rows can have.
* `engine_stats` has every handler.  Its two transactions let two calls hold different keys and
  wait for the same row lock; two accounts of one user, that a row changes its account; and two
  users, that a rule could be applied to the other's transactions.
* `SyncService`: `MaxLog` of 4 with two transactions lets one come, change and go
  within a page and across pages of two.  With two syncs `MaxLog` is 2 (come and go),
  which is where a slower sync can undo a faster one.  `MaxFailures` caps the failure
  counter, `MaxCrashes` the deaths of the process.  Row identities are one or two more
  than transactions, for rows that are deleted and written again.
* `Categorizer`: two workers and twice as many requests, so that a worker takes several
  jobs and answers overtake each other; one retry, which more would repeat.
* `SyncWorker`: two items, one for the worker to hang on and one to wait behind it.  The
  width of an integer is 7 bits and the backoff 2 to 12, so that caps and overflows come
  after a few attempts instead of 6 and 34.  `MaxAttempts` bounds the counter: behind it the
  product stays capped, or does not fit any more.
* `Linking`: one account per item, so that a link can fail before, between and after its
  inserts; the proofs take any number.
* `Notifications`: two connections are the least at which one notifying execution alone can
  go on and two calls exhaust the pool.  The run begins with an endpoint of each user
  (`SubscribedInit`): the list of the user who is notified has two rows when he has subscribed the
  other's endpoint too, which changes hands, or is deleted and created anew (the third of
  `MaxRows`).  His own endpoint is never given up and not subscribed again (`EndpointStays`): its
  calls may fail and it may be unsubscribed, which is what it takes to disturb the loop.  A second
  request to subscribe at the same time is left to the proofs (`OneRow`, `Unsubscribed`).  One lock
  (`MaxStage`) is enough for a call to wait for another.
* `Requests`: two sessions and two requests, so that a logout can come between the two commands
  of another request's refresh, and a login beside it; three starts, so that a loop that was
  stopped can outlive its successor.
* Symmetry is used on calls, syncs, sessions, requests and identities, in runs of safety properties only.

### Fairness

`RuleEngine` assumes strong fairness of a call's progress: Go schedules every
goroutine, PostgreSQL answers every statement and grants a lock to its waiters in turn,
so a call that is enabled again and again takes its step (`Fairness`, which `CallsSpec` of
`MCRuleEngine` takes over).  Faults are never required to
stop happening within a call, since a fault ends the rule it hits.

`SyncService` assumes that the ticker of the worker starts syncs for ever, that every
step of a sync which nothing blocks is taken, and that what is asked for again and
again succeeds some time: the query and insert of the cursor's row, a page behind each
cursor, the update that records the success.  That last assumption is what "retry until
it works" needs of the environment.  Each page needs its own (`cur[p] = c`): if only the
first page ever succeeded the cursor, which is saved after the last page, would never
move.

`Categorizer` assumes weak fairness of the caller, the closer and each worker: the scheduler
runs them, and a call of the language model returns.  Nothing is assumed of what it returns.

`SyncWorker` assumes that the ticker ticks and that worker and request run.  A `select` with
two ready cases picks one at random, so `Stop` and `ReturnCancelled` are strongly fair; the
30 s cache expires between cycles 30 s apart, so `QueryItems` is; and so is the success of
each item that is not broken.  `Linking` adds that the cache forgets, and asks for a success
only of syncs that find their item; nothing is assumed of a link.

`Notifications` assumes that statements and transactions that nothing blocks end
(`GiveBack`, `End`), that the pool serves its waiters in turn (`Granted`; pgxpool queues
them), that a sender goes on, and that a push service asked again and again answers 410 some
time, and the update after it succeeds some time.  Nothing is assumed of who begins: requests
need not come.  `GoneAreDeactivated` speaks only of users that are notified again and again.

`Requests` has safety properties only.

## 4. What is proved

Each proof module shows an inductive invariant and draws the properties from it, for any
number of workers, users, rules, transactions, syncs, pages, requests and items.  Assumptions are those
of the modules: rules and execution identities are finite sets, the markers are no rows,
amounts and bounds are natural numbers.

`RuleEngineProofs`: the invariant `IInv` is the conjunction of

* `TypeOK`, with which locals exist at which statement;
* `KeysUnique`: the unique index over committed rows and the keys of open transactions,
  which is what makes `OncePerTransaction` inductive: a commit can only clash with what
  the insert could not see;
* `NoOrphans`, over open transactions too;
* `OpenWhole`: what an open transaction contains at each statement of `executeRule`
  (a completed execution, its transfer, the lock) so that `Commit` publishes all of it;
* `TablesWhole`: `LedgerWhole` and the identities of executions;
* `Counted`: count equals the cardinality of the rule's executions, total the sum of their
  transfers.

From it follow `SavesOnce`, `NothingOrphaned`, `LedgerIsWhole`, `CountsExact`, `TotalsExact`, the action
property `NothingTakenBack` and `EngineImplementsLedger`: the initial state maps to an
initial state of `SavingsLedger` and every step to a `Save` or to no change.
`NoWaitInCircle` adds `RowLockedLast`: an open transaction takes the key of its execution, then
the row of its rule, so who waits for a key waits for one who waits for a row at most, and that
one for nobody.  `CallsRunOut` gives a call a natural number, `StepsLeft`, from its loaded rules,
its index and its statement; every step of the call takes something from it, and no step of
another call, a handler or the environment adds to it.

`SyncServiceProofs`: `IInv` is `TypeOK`, `WorkCovered` (the events behind every cursor
that is stored, cached or held by a sync are handled, except those of the page in its
hands) and `SavedRowsStay` (a row something was saved for is there, under its id).  From
it follow `NothingSkipped` and `OneRowForSavings`.  Two more theorems have hypotheses, the
conditions without which the property fails or the code does not promise it:

* `BalancesFollow` (`BalancesCurrent`) assumes `OneSync` and that only rows fail.  The process
  may die anywhere.  `Balanced` says that balances are never behind the stored cursor, and those
  in a sync's hands not behind its own.
* `TableFollows` (`NeverBehind`) assumes `OneSync` and `Uninterrupted`: no death, no answer Plaid
  does not give, no row that fails.  The database may fail to answer for the cursor or to save
  it.  `AloneInv` is that the log is what a bank reports (`LogOrdered`, `LogStarts`), that a sync
  which starts from an older cursor, given to it by the cache, ends behind the stored one at the
  earliest (`CursorsGrow`), that a page is dealt with in the order of its three lists
  (`PageInOrder`), and that the table shows every event that is dealt with (`TableShows`): by a
  newer row, by a row that savings keep, or by no row if the transaction was removed.

`SyncsRunOut` gives a sync at most four steps for each event of the log it has not come to, and
one or two to finish.  It needs no hypothesis: that no sync works behind the end of the log is a
part of `WorkCovered`.  Only an event that Plaid adds meanwhile gives a sync more to do.

Without `OneSync` `TableFollows` is false (finding 1); a crash in the middle of a replay may leave
the table behind the cursor until the next sync.

`FiniteSetLemmas`: the proofs need the maximum of a set and the sum of amounts.  The operators of
the community modules are a `CHOOSE` and a fold, whose recursion is a function chosen to satisfy
its equation.  The lemmas go by induction on finite sets in the form `MinimalSubset`: any
collection of subsets of a finite set has a member that contains no other, which follows from
the well-foundedness of strict inclusion and takes no operator for a parameter.  So `SumsExist`
shows that there is a function that sums, `SumsAgree` that there is only one, `AmountStep` that
`AmountOf` obeys its recursion, and `AmountWithout` that the order of the summation is no matter.

`CategorizerProofs`: `IInv` is `TypeOK` (which says that the WaitGroup's counter is the
number of running workers), `Phases` (which channel is closed at which statement, and that
nobody runs once the results are closed), `Kept` (a request that was sent is in the jobs, with
a worker, in the results, or answered) and `Distinct` (in one of these places only).  `Kept`
and `Phases` give `AnswersInPlace`: at the end only the last place is left.  `Distinct` gives
`AlwaysRoom`: the results inject into the requests other than the one the sender holds.
`NeverStuck` adds `CloserDue`, the state of the goroutine that closes the results at each
statement of the caller: until the batch is done some goroutine's statement goes through.
`StepsRunOut` names the steps that requests, goroutines and the rest have left, and shows that
each step of the batch makes one of these three sets smaller and none larger; by
`StepsAreFinite` they are finite.

`RuleEngineCallsProofs` adds to `IInv` of `RuleEngineProofs` what calls carry between
statements: `RowsOwned` and `RulesKnown` (a rule in a cache or in a call's hands is its
caller's, and its row is still that user's or deleted), `TxsKnown`, `OpenKeys` (an open
execution is of the call's present rule and transaction) and `Owned` (user, rule and both
accounts of an execution agree).  `OwnersKept` is a part of it.  `MatchesKept` makes `NoMatchLost` itself
inductive with them: an index moves on only in one of the ways `PastRule` lists, and what a call has
passed is not taken back.  `NoticesOnce` follows from `KeysUnique`.

`LinkingProofs`: `BackoffCorrect` and `TypeCorrect` of the worker hold under the hypothesis
`NoOverflow`, which is exactly what the run `worker_overflow` lacks.  Powers of two are left
uninterpreted, and the hypothesis bounds them.  `CancelledRunsOut` and `RequestForgetsNone` need
no such hypothesis: after a cancellation each step of the worker takes one from four per item
left, but for the `select` that finds a tick beside the cancellation; and what a request has
loaded stays before it or is tried.  `LinkInv` is `LinkWhole` and its types; `LinkingImplementsWorker` maps each step of `Linking`
to one of `SyncWorker` or to none, and carries `TypeCorrect` and `BackoffCorrect` over.

`RequestsProofs`: of sessions, `LoginsApart` (no two logins write one id) and `LoginsSaved` (a
login that has sent the hash finds it, unless it was deleted), and the two parts of
`SessionsExpire`; of generators, `Numbered` and
`Mapped` (start, generator and channel have one number, the loop of an open channel is that of
the map).  From the first follow `SessionsAreOwn`, `SessionsDoExpire` and `SessionsStayGone`;
from the second `OneLoop` and `StatusTrue`; `OnlyOwners` needs both, for the request that
starts a loop carries the session's user since it read it.
`RequestsImplementBoth` shows that the composition is sound: with the other part hidden it is
the specification of `Sessions`, and of `TransactionGenerator`.

`NotificationsProofs`: `PoolInv` (types and `WithinLimit`), `RowsApart` (ids and endpoints are
unique), and `ReadKnown`: whoever has read a row, in the cache, a list or a sender's hands,
knows an id that was given and an endpoint that the row of that id, if there is one, still has;
rows cached for a user are his; and a sender deactivates only a row whose endpoint is gone.
`OneRow`, `GoneBeforeInactive` and `Unsubscribed` follow from these, `ExhaustedOnlyAtLimit` from
the types of the pool.
`CallsOfPool` shows that senders and requests are calls of `ConnectionPool` and no more.
`OnlyExhaustionStops` takes `InOrder` (who waits for a lock has reached a lower stage than its
holder): among the calls that hold one, one of the highest stage cannot wait for a lock, so if
all wait it waits for a connection, and the pool is exhausted.  `NeverAllWait` draws the
conclusion for fewer calls than connections, which is what a deployment can count on.
`NotificationsRunOut` rests on `ListsFinite` (a list that was read from finitely many rows) and
counts five steps for each row in a sender's list.

Five theorems state properties that no run checks: `AppendOnly` (`ImplementsLedger` implies
it), `LinkWhole`, `WithinLimit` and `OneRowPerEndpoint` (the database and the pool enforce them;
the proofs show that nothing around them undoes it), and `OwnSession` (`OwnersOnly` rests on it).

Model-checked only is liveness (`CallsReturn`, `CatchesUp`, `BatchEnds`, `SyncedUnlessStuck`,
`StopsWhenCancelled`, `RequestReachesAll`, `NotifierEnds`, `GoneAreDeactivated`): fairness and
ENABLED are outside of what the provers handle.  The safety core of most of these is proved for
every instance: that somebody can always go on, and that the steps run out.

| Liveness, checked by TLC | Somebody can go on | Steps run out |
|---|---|---|
| `BatchEnds` | `NeverStuck` | `StepsRunOut` |
| `CallsReturn` | `NoWaitInCircle` | `CallsRunOut` |
| `NotifierEnds` | `OnlyExhaustionStops` | `NotificationsRunOut` |
| `CatchesUp` | (no step of a sync waits) | `SyncsRunOut` |
| `StopsWhenCancelled` | (no step of the worker waits) | `CancelledRunsOut` |
| `RequestReachesAll` | (no step of a request waits) | `RequestForgetsNone` |

What is left to TLC is the step from there to fairness, and `SyncedUnlessStuck` and
`GoneAreDeactivated`, which need more of it: that what is tried again and again succeeds some time.

## 5. Findings

1. `sync_concurrent`: two syncs of one item.  The slower one writes a transaction the
   faster one has removed; the stored cursor is behind the removal, so nothing ever
   removes it again.
2. `worker_overflow`: the backoff is converted to a 64-bit duration before it is capped (line
   161).  From attempt 34, after about half an hour of failures, the result is up to the
   processor; where it is negative the worker retries without a pause.
3. `requests_context`: the handler that starts a refresh gives its own Fiber context to the
   goroutine (`handlers/plaid/transaction_generator.go:69`).  `exchange_token.go:111` says why that
   must not be done; here the use of the recycled context ends the server, and the refresh although
   no request stopped it.

Observed while modelling, without a run of their own:

* `syncItemWithRetry` never gives up (line 116), so one item whose syncs keep failing keeps the
  worker from all others, although line 58 promises "one complete sync cycle for all active
  items".  `SyncedUnlessStuck` states exactly this exception; a request's `SyncAllUserItems` does
  not have the problem (`RequestReachesAll`).
* `executeRule` notifies the user (line 310) while its commit is still deferred (line 226): a
  commit that fails leaves the user told of savings that do not exist.
* Every constraint error of the insert counts as a duplicate (`engine.go:242`), so a rule that
  was deleted after it was loaded is logged as already executed.
* The failure counter of a cursor is incremented from a cached value (`sync_service.go:519`):
  failures within 30 seconds count once.
* A sync that starts from a cached, older cursor and dies half-way can bring a removed
  transaction back, which is why `sync_alone` has no failures.
* The first sync of a link may come before the commit and then finds no item; the cache keeps
  that answer for up to 30 seconds, for the worker too.
* Whoever subscribes an endpoint that is another user's activates it for that user (`subscription.go:42`),
  and gets no subscription of his own.
* After an unsubscribe a subscribe within 30 seconds may be answered by the cache with the
  deleted row, and then creates none.
* 75 rule executions that notify at the same time exhaust the pool: each holds a connection and
  waits for a second one, and nothing sets a deadline.
* A login that fails between its two Redis commands leaves a session without a time to live,
  though with no client that knows it.  A request that refreshes a session while another logs out
  brings it back; if it fails between its two commands the session stays without a time to live,
  and its cookie is known.  `SessionsExpire` says that these two are the only ones.
* Amounts are products of float64 numbers that are truncated (`engine.go:348`, `352`), so a rule
  may save a cent less than its value says.
* Pages of transactions are ordered by a date that many share (`get_transactions.go:52`), so a
  row may be on two pages or on none.

## 6. Plan

In this order, the most important first; what exists is marked.

1. `RuleEngine`, `SavingsLedger`, proofs (done).
2. `SyncService`, proofs (done).
3. `Categorizer`, proofs (done).
4. `SyncWorker` and `Linking`, which composes it with the links, proofs (done).
5. `ConnectionPool` and `Notifications`, proofs (done).
6. `Sessions`, `TransactionGenerator` and `Requests`, which composes them, proofs (done).
7. `NoMatchLost`, `OneOwner` and `NoSecondNotice` of `RuleEngine` (proved).
8. Next: the composition of `SyncService` with `RuleEngine` in place of its reduced engine (what
   the sync hands over is what the engine saves for), with the engine's calls inside of a sync.
9. The toggle of a rule as a read, perhaps cached, and a write, with a property that says which
   value its user ends up with.
10. Operators: fallback categorisation and the sums of the financial views against reference
    definitions over bounded inputs.
11. Proved besides: `NeverBehind` and `BalancesCurrent` for one sync at a time, totals, waits in
   a circle, and that the steps of calls, syncs, batches and senders run out.

## 7. Not modelled

* Generated code: about nine tenths of the Go lines are the persistence code in `internal/ent`
  that ent generates from `internal/ent/schema`.  It is one builder, query, update and mutation per table, with
  a method per column, and has no control of its own beyond "send this statement".  What it
  does is modelled where it is used (constraint errors, upserts, `Only`, `UpdateOneID`, the
  cache), once, from the statements of one table; a model of each builder would repeat it.  The
  share of lines the models stand for is small for this reason.
* Rule listings, financial views and recommendations: read-only, with no state to go wrong
  between two steps.
* The text of prompts, notifications, errors and logs; encodings (CBOR, JSON); passwords.
* Merchant names, payment channels and dates: no modelled decision depends on them.
* Plaid's link tokens, sandbox and refresh requests: single calls.
* The debug handler that sends one push, and the keys of web push.
* The frontend, the SDK, configuration, routing, and the demonstration program in
  `cmd/simulate_overspending`.
