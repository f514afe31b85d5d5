# Verification of ai-unisub in TLA+

ai-unisub (`src/`) is a gateway for Claude, Codex and Grok subscriptions: a
downstream `unisub_*` key is bound to one upstream account, requests are relayed
with the account's OAuth token, and an admin API manages users, accounts, keys
and request logs. It is one Go process with an SQL database; nearly everything
hard in it is concurrency between HTTP handlers that share in-memory maps and
rows, across calls to a provider or to the database during which nothing is
locked.

This directory holds TLA+ modules that model that concurrency, TLC
configurations that check them on small instances, and theorems that TLAPS checks
for all values of the constants. `PROJECT.json` is the machine-readable index
(components, runs, mutants, map from definitions to source lines, hazards,
findings, theorems).

    tlasany Limiter.tla                                   # parse
    tlc -workers 2 -config MCLimiter_all.cfg MCLimiter    # model-check
    tlapm LimiterProofs.tla                               # check the proofs

## 1. Inventory

File names without a directory are in `src/internal/server/`; `repository.go`
and `request_logs.go` are in `src/internal/repository/`.

| Component | State | Operations | What is hard, and what must hold |
|---|---|---|---|
| Concurrency limiter (`server.go` `acquire`, `limiterChannel`, `resetSubscriptionLimiter`) | `Server.limiters`: account -> buffered channel; `concurrency_limit` of the row | acquire, release, reset | The limit is read long before it is used; the channel is replaced under its holders. No slot is lost or returned to another channel; the limit holds; nobody waits for ever. |
| Token renewal (`claude_oauth.go`, `codex_oauth.go`, `grok_oauth.go`) | `oauthRefreshLocks`, `grokRefreshLocks`; credentials and expiry in the row | credentials for a request, forced refresh after 401 | A rotated refresh token may be used once. One refresh at a time, each token renewed once, a stored rotation not undone. Every call may fail after the provider has rotated. Other writers: Grok profile lookup (`grok_usage.go`), admin PUT, whose edit form sends back what it read (`web/admin.js`). |
| User administration (`users.go`, users part of `repository.go`) | `users` table | create, update, delete, bootstrap | Read, count and write are separate statements. An enabled admin remains. |
| Account HTTP clients (`account_proxy.go`) | `subscriptionClients`: account -> client; `proxy_url` of the row | get or build, close | Clients are built from a stale row. The client kept matches the row; one pool per account. |
| Grok device login (`grok_oauth.go`) | `grokOAuthFlows` with flags under `grokOAuthMu` | start, poll, finish, cleanup | The mutex is released during calls; the page stops polling at its first error (`web/admin.js`). One login creates one account; the token is not lost; the page gives up only for a cause; a login whose page goes on polling completes. |
| Claude/Codex PKCE login (`pkce_oauth.go`) | `pkceOAuthFlows` with `Finalizing` | start, exchange, cleanup | As above; every way out clears `Finalizing`. |
| Proxy handler (`proxy.go`) | none of its own | key -> row -> credentials -> slot -> upstream -> retry after 401 -> relay -> log | Composes limiter, renewal and client; a refresh happens while a slot is held; the client may leave anywhere. The slot covers the whole call, the retry has another token, the log entry says what was answered, nobody hangs. |
| Subscription administration (`admin.go`, `repository.go`) | `subscriptions` rows | create, update, enable, proxy, delete | Row first, runtime state afterwards; early returns in between. |
| Rate limiter (`server.go` `allowRate`) | `Server.rates` windows | allow | Fixed windows; `now` is read before the mutex; the limit may change meanwhile. Less than twice the limit in a window's length; a refusal has its cause within the window. |
| API keys (`apikeys.go`, `repository.go`) | `api_keys` rows | create, update, reset, delete, resolve | Created for a subscription that is being deleted; expiry compared as text. No key outlives its subscription or its second. |
| Quota store (`quota_headers.go`, `*_usage.go`) | `quota_json`, `quota_checked_at` | merge headers, refresh | Read-merge-write over a whole request, without a lock. Nothing is lost without a race; the check time claims no more than the row has. |
| Request logs (`request_logs.go`, `request_log_admin.go`) | one table per local day | write, list, look up, report, clean up | Names of tables are collected first and queried later, while the cleanup drops tables and late requests create them; columns are added on the way. Instants are compared as text. What is retained is found, a report has its own days, what is expired goes, reports add up. |
| Migrations (`src/internal/database/`) | schema, `schema_migrations`, `PRAGMA foreign_keys` | start-up migration | Statement by statement, from the top after a crash. Nothing stored is lost or altered, what is recorded is in force, only the current schema is served. |
| Main (`src/cmd/server/main.go`) | - | start, signal, shutdown, exit | Requests in flight when the signal comes: a clean stop loses no token and no entry. |
| Body capture, SSE relay (`httplog.go`, `usage_parse.go`) | bounded buffers | append, parse | Chunk boundaries, truncation. |
| Sessions, identity headers, admin page, config | - | - | Stateless or pure. |

Interactions: an admin handler writes the row and then touches the runtime maps
(limiter, client, refresh mutex) in steps of their own; a proxied request reads
the row once and then works on those maps with what it read. Log-in handlers,
quota refreshes and proxied requests all write the credentials column. The
process keeps flows, limiters, clients and mutexes in memory only, so a restart
drops them; the rows survive.

The hazards, each at its line with the properties that watch it, are in
`PROJECT.json`.

## 2. Modules

Modelling conventions. One action per atomic step of the code: a critical
section, a `sync.Map` operation, one SQL statement, one provider answer. `pc[h]`
(`callerPc`, `stage` or `statement` in modules that another extends beside it) says which step of its handler a goroutine is at. Names, tokens and proxy URLs are model
values or numbers. "history" variables never influence a guard. Definitions
whose comment begins with "Mutant of" are plausible bugs, used only to
demonstrate that each property can fail; they are in no next-state relation.

**Limiter.** `row[a]` is `concurrency_limit`; `limiters[a]` the map entry;
`capacity`/`used` the channel. `ResolveAPIKey` reads the limit; `LoadOrStore`,
`CompareAndSwap` are the two halves of the loop of `limiterChannel`; `TryAcquire`
and `Admit` the two `select`s of `acquire` (a send takes a slot), `LeaveQueue` its timer and
context cases; `Release` the deferred receive, from the channel the slot came
from. `UpdateRow`, `RejectCredentials`, `DeleteRow`, `ResetLimiter` are the
admin handlers' steps in their order.

**TokenRefresh.** Tokens are numbers of the grants that issued them, 0 is no refresh
token; `live` is the set of refresh tokens the provider has not withdrawn, `due` the clock. `Resolve`,
`LoadMutex`, `Lock`, `Reread` (the double check), `Grant`, `Store` are
`claudeCredentialsForRequest` and its two siblings, which have the same control.
Each of their calls may fail, by itself or because the client under whose context
it runs has gone: `Refuse` is a provider that refuses or is not reached,
`LoseAnswer` one that has redeemed the token while its answer is lost, `StoreFails` the
UPDATE. `UseToken` is the upstream call and the one forced retry of `proxyHandler`.
`FetchProfile`/`WriteProfile` are `refreshGrokQuota`, which writes the credentials
without the mutex. `OpenForm`, `BeginPut` and `PutCredentials` are the admin PUT, which stores
its body as it is: `SaveForm` the form of the page, filled when it was opened, with or
without its refresh token; `PasteLogin` credentials of a login made elsewhere, with or without one.
`DeleteRow` and `ForgetLocks` are the deletion, which drops the mutex from the map whoever holds it.
History: `renewed` are the access tokens renewed since they last came into the row, `orphans` the refresh tokens whose
successor never reached it, `putBack` says that the row has credentials written back
by who had read them before (`WriteBack`), `misdated` that an expiry was ever stored with credentials it does not
belong to.

**AdminUsers.** `users` is the table; a handler is `Authorize`, `ReadTarget`,
`CountAdmins`, `Write`. `overlapped` records that two handlers were ever
between their read and their write together. `RestartServer` drops the
handlers and runs `BootstrapAdmin`.

**ClientCache.** `Resolve`, `LoadClient`, `StoreClient` (`LoadOrStore` with the
client built), `EndRequest`; `WriteProxy`, `DeleteRow`, `CloseClient`,
`RejectCredentials` for the admin. `raced` and `rejected` record the two ways to
keep an outdated client.

**DeviceFlow.** `pending` and the flag sets are `grokOAuthFlows`. A poll is
`Poll` (critical section), `Answer` (xAI), `Receive` (critical section),
`SlowDown`/`Remove`, `Finish` (critical section), `Insert`, `Restore`. `page` is the page that
began the login: it sends one poll after the other (`PagePoll`) while the answers are
202, and gives up at any error (`Respond`); `ClientPoll` is anybody else. Failing
calls, a failing read-back after the insert, expiry and a restart are
actions of the environment.

**PkceFlow.** `Exchange` (critical section), `Redeem` (provider), `Insert`,
`Clear` (`setPKCEFinalizing(false)`), `Remove`; `Start`, `Expire`, `Restart`.
What follows `Clear` is in `then`, because after `invalid_grant` the code clears
the flag and removes the flow in two critical sections.

**QuotaStore.** A quota maps each field (a window by its name, the two rate limit
quotas, tier, credit) to the time of the provider's report it holds. `Resolve` and
`BeginRefresh` read the row; `Headers` is the answer of a proxied request and
`MergeHeaders` what `quotaFromResponseHeaders` and `mergeQuotaWindows` make of it;
`Body` is the answer of a usage endpoint, after whatever retry, and `MergeBody`
the common part of the three `normalize...` functions, `Recognized` what each
of them accepts; `Store`, `StoreQuotaError` are the two UPDATEs. `behind` and
`raced` record that a goroutine stored what it had read before another's
store, `latest` the newest report stored so far.

**RequestLogs.** A table is its day, an entry its request. `Serve` and
`RecordRequest` (a transaction, or `RollBack`) are the proxy handler's; `Wake`,
`ListExpired`, `DropTable`, `CleanupFails` the hourly goroutine's, one DROP a step. A reader
(kind: list, get, bySubscription, byUser) is `ListTables`, `ListNames`,
then `ReadColumns`, `AddColumns`, `CreateIndex` for each table, `CountEntries`
for a listing, `Query`. `old` are tables of an older version that lack columns.
Instants are ordered as their text is: `Text` places the first second of a day
before its midnight, because RFC3339Nano leaves out a fraction of zero and '.' sorts
before 'Z'; `Counted` is the filter of a report. `Asked` is what the report is asked
for, calendar days, and `must` records by it what an answer owes.

**Semaphore** is what the limiter promises: each account has holders that come
and go, and while its settings are left alone they are at most its limit.
`Limiter!ActsAsSemaphore` instantiates it with the requests in flight, the limits
seen and the resets counted.

**Gateway** is `proxyHandler` as a whole. Instead of the channels it has the
variables of Semaphore and its `Enter`, `Leave` and `Touch`, so that what holds here holds
with the limiter in its place; the renewal is that of TokenRefresh for one
provider, without deletions and the writers that bypass the mutex. `ResolveAPIKey` ..
`Acquire` lead to the slot, `Lock`, `Reread`, `Refresh`, `Store` are passed before it if
the token is due and once more with the slot in hand after a 401 (`Respond`);
`Release` and `RecordRequest` are the deferred calls in their order.
`CheckRequest` stands for the rate limit and every check of path and body, which go on or
answer an error. `Disconnect` cancels the context of the request, under which all its queries
run; `Signal`, `Drained`, `ShutdownTimeout`, `Exit` are `main`.

**Admission** is API keys, the subscriptions they hang on, and `allowRate`. `BeginCreate` and
`InsertKey` are the two statements of `CreateAPIKey`, `DeleteSubscription` cascades.
`ReadClock` and `AllowRate` are the two halves of `allowRate`, before and under the mutex.
A tick is half a second and `Text` orders instants as RFC3339Nano text.

**Migration** has one action for each statement of `Migrate`, or for a group that differs only in names
(`Version4`, `CreateTables`, `Records1To11`), and for the two transactions that rebuild
`api_keys`. A table is a set of columns with rows, `foreignKeys` the PRAGMA of the only connection, `statement` the next
one. `Upgrade` is its specification. What an earlier version may have left is the assumption `LeftBehind`: subscriptions are in one of the
two tables, a renamed column has one of its names, and what is recorded as done has been done. That excludes a database
on which an old binary was run after the upgrade and which it gave a second table of accounts with rows. `Crash` ends the process between any two statements or while it serves; `Edit`
requests are served in between. **Records** knows subscriptions, keys and users and no schema: `Kept` reads them out of
whatever tables there are (the old table or the new, the old column or the new, milliseconds until version 3 is recorded,
the old admin until there are users), and `RecordsKept` says that they change by requests only.

`MCLimiter`, `MCTokenRefresh`, `MCAdminUsers`, `MCClientCache`, `MCGateway` and `MCAdmission` instantiate a
component for TLC and let a finished instance stop instead of reporting
a deadlock; `MCQuotaStore` and `MCRequestLogs` supply symmetry and owners, `MCMigration` the databases that `database_test.go` upgrades. DeviceFlow and
PkceFlow never stop and are checked directly.
The `*Proofs` modules hold the theorems: `GatewayProofs` those of Gateway and ClientCache, `AdmissionProofs` those of
Admission and AdminUsers, `DatabaseProofs` those of QuotaStore and Migration. As each of these pairs is extended by one module, the
definitions that would clash carry a prefix (`CacheInit`, `UsersNext`) or another name (`Opened`, `Step`, `Upgrade` in Migration).

## 3. Runs

| Run | Shows |
|---|---|
| `limiter` | `ActsAsSemaphore` (refinement): however requests race to create the limiter and admins replace it, holders come and go as in Semaphore. `SlotsMatchHolders`: slots taken = requests in flight on that channel, within its capacity, across replacements. `RebuildBound`: each dropped entry costs at most one further batch. `EveryRequestEnds` under fairness. |
| `token` | `SingleFlight`, also when a deletion drops the held mutex. `RenewedOnce`: a token is renewed twice only if it was written back, or what the first renewal bought was not stored. `WithdrawnForCause`: a withdrawn refresh token is in the row only if credentials were written back, its successor was lost before the store, or a refresh is under way. `RenewedWhenDue`. `EveryRequestEnds` under fairness, through failures and the mutex. |
| `users_serial` | An enabled admin remains unless two changes overlapped. |
| `users_last` (violation) | Two concurrent changes leave no admin. |
| `client_cache` | The kept client matches the row except after a race or an early return; one pool until the first close. |
| `device` | `OneSubscription`, `AskedOnceAtATime`, `TokenKept`. `PageFailsForCause`: no race of the page's polls with those of others makes it see an error. `ApprovedLoginCompletes` under fairness: as long as the page polls and the flow lives. |
| `pkce` | `OneSubscription`, `OneExchange`, and `NeverStuckFinalizing` under fairness. |
| `quota` | `LatestUnlessRaced`: the row has the newest report of every field unless a write overtook another. `NeverClaimsFresher`: `quota_checked_at`, which decides what is shown as stale, is not later than the newest report in the row, unless Codex answered with nothing in it. |
| `request_logs` | `RetainedKept`: a written entry is there until its day expires. `AnswersComplete`: what was there when a listing or report began, and is retained when it ends, is in it, and a page has what the total counts; a report has the days it is asked for and no others, but for the first second of its first day and of the day after its last. `FailsForCause`. `ReportsAddUp`, with lines for what was deleted meanwhile. `ExpiredDropped` under fairness. |
| `migration` | `RecordsKept` (refinement of Records): an upgrade cut off and begun again anywhere changes no record. `RecordedVersionsHold` between any two statements. `ServesCurrentSchema`: also that the deletion of a subscription takes its keys along, which needs the PRAGMA restored. `EventuallyServes` under fairness: no leftover makes a repeated statement fail for ever. |
| `gateway` | `UpstreamBound`: calls open upstream are within the limit of an account left alone, through retries and streams. `RetriedWithAnother`: at most two calls, with different tokens. `LoggedAsAnswered`: an action property of the entry that is written. `CleanStopLosesNothing`: a shutdown that does not time out leaves every accepted request with its entry and every token stored, unless its client had left. `EveryRequestEnds` under fairness: a refresh with a slot in hand and a queue for that slot do not block each other. |
| `admission` | `LessThanTwice`: in any stretch of a window's length less than twice the largest limit passes. `RefusedForCause`: whoever is refused had its limit used up by others within the window before. `ExpiryToTheSecond`. `TypeOK`, here with `NoOrphanKeys`. |

Bounds. Three requests are enough for a holder, a waiter and a third who
replaces the entry between the load and the compare-and-swap of a second;
two limits make entries differ; two writes let an entry be replaced
and put back, with a reset between a load and a swap. For tokens, two requests
suffice for every two-party race (the mutex admits one refresh, the other is
the late reader or the quota worker); three grants
allow the initial token, its renewal and one more (a forced refresh or an
admin's), which a form opened before any of them can undo. The two mutexes (the second follows a deletion) are handed out in one
order (`AllocatedInOrder`: they differ by identity only), and the user id is not known at first (`MCInit`: a row that has
it is reached by the quota refresh or a pasted login). Three user handlers: a promotion and a
demotion can slip between read and write of a third. Three exchanges
of one login: one inside, one racing it, one that enters in the gap between two
critical sections. Two polls of a device-code login: the page's and one other's, each of which may poll again once it is
answered; its guards keep pairs apart, and `DeviceFlowProofs` has the invariants for any number. Two faults let an insert fail and its retry fail too; one
restart separates the two lives of the process. With one flow, `MaxPending` is not reached;
flows are otherwise independent. For quotas, two requests and a refresh overlap in every order, with three reports:
one stored before, two that race. For request logs, one request that may end
days after it began beside an entry of an older version, one reader, one fault, one deletion;
three days with a retention of two let a day expire under a reader and be created anew;
readers only meet at columns, where the request is the other party.
At the bound on
grants the provider refuses, and the clock stands still, so that a request is not left
without an answer by the bound.

For the gateway, two requests of one account with one slot: one holds the slot and waits for the mutex, the other holds
the mutex or waits for the slot; two grants are one renewal, after which the provider refuses; the
bounds on tokens are caps on what the provider does, not on the handler. For admission, four requests with limits of one and two: less
than twice the limit is three, so a fourth could break it, around the boundary of two windows of two ticks.
For migrations, six databases (empty; the first version with and without its marks; a bare one; version 9 with and without its marks), three crashes:
two that cut off and one restart of the finished upgrade; three edits.

Symmetry is used only in runs without liveness.

Fairness. Limiter: a runnable goroutine runs and an upstream call ends
(WF of the request steps; the transport has timeouts and the client's context), and
`Admit` is strongly fair: Go hands a freed slot directly to the longest waiting
sender, which is stronger. Nothing is assumed of timers, cancellations or
admins. TokenRefresh: goroutines run and the provider answers or is given up (the HTTP client has a
timeout), and `Lock` is strongly fair, because `sync.Mutex` hands over to a waiter starved for
a millisecond. DeviceFlow: started handlers run to their end, `NextPollAt`
comes, and the page that started the flow polls by its timer while it is open and has had no
error (`web/admin.js`: any error makes it forget the flow). Nobody is assumed to poll after that, nor
the user to approve. PkceFlow: started handlers run to their end.
Gateway: handlers run and providers answer (WF), and, as above, the mutex and the channel are strongly fair;
neither timers nor clients that leave are assumed, so that `EveryRequestEnds` does not rest on the queue timeout.
Migration: while the process lives, it goes on (WF of `Migrate`).
RequestLogs: the cleanup goroutine runs (WF): its timer fires, its statements return or fail; requests
and readers may stop for ever.

Mutants. Each property of a passing run is broken by a mutant of the
code: a dropped guard, a lock not taken, a flag not cleared, a check of the
wrong copy. `PROJECT.json` lists them.

## 4. Theorems

Every invariant, action property and refinement that a passing run checks is also a theorem: TLC shows it on a small
instance, TLAPS for all values of the constants. The sets of actors may be infinite where no assumption of the module says otherwise.
The assumptions are named in the module of the component: constants have their types, null
values are not members, numbers of requests are finite where they are counted, old databases are as `LeftBehind` says.

* `LimiterProofs`: `TypeCorrect`; `SlotsAccounted`; `QuietBound`; `ImplementsSemaphore`; `RebuildCost`. Type correctness
  is strengthened by `ChannelsMade` (a channel in use has been made, a
  request beyond `resolved` has one). The count of the holders
  is followed with `FiniteSetTheorems`. For the quiet bound the argument is that
  an account without a reset has one channel, that every holder got its slot there (`QuietChannel`), and that its capacity is
  the only limit ever seen (`SnapshotsSeen`). That gives room at every entry of the semaphore; each
  step of the limiter is then an `Enter`, a `Leave`, a `Touch` or a stutter. For `RebuildBound`, `BatchInv` counts channels: the ones in
  use, the entry and the entry still to come are at most one more than the resets, since only a reset makes room for another. Each
  admits one batch, and a least counterexample carries that from one channel to any number.
* `TokenRefreshProofs`: `RefreshesNeverOverlap` from: whoever is past `Lock` owns
  the mutex it loaded; while the row exists nothing is dropped, so all have the
  same mutex; a refresh begins only if the row exists when it is read again.
  The last point is why a deletion that drops a held mutex is harmless.
  `RotationUndoneForCause` and `RenewedAtMostOnce` from `TokenInv`: grants are numbered (`Numbered`); the access token in the row has not been renewed
  since it came there, unless its successor is with the one goroutine about to store it (`Unrenewed`), and the refresh token in the row is
  not a withdrawn one, under the same exception, unless it was written back or its successor was lost (`Kept`). `WriteBackKeeps` is
  the lemma for the writers outside the mutex. `RenewedInTime`: who refreshes has found the token due when reading it under the mutex,
  and no other store can come between, unless an expiry was stored with credentials it does not belong to.
* `GatewayProofs`, Gateway: `TypeCorrect`, `UpstreamWithinLimit`, `RetryHasAnotherToken`, `CleanStop` and the action property
  `HonestLog` from one invariant. `SlotsHeld`: a slot is held exactly where the code has it in hand, from the `select` to the deferred receive,
  so that the retry and the stream are inside. `SlotsCounted`: the semaphore's count is that of its holders. `MutexHeld`: who is between `Lock` and
  `Store` owns the mutex of its account. `TokensSent`: what has been sent at each place, and that after a refresh the token in
  hand is not the one refused. `GrantsKept`: a token in no row is with the one request that bought it. `DatabaseOutlives`: while the drain has not
  timed out, whoever needs the database finds it open. `Answered`: who gets to the log without an answer has left. `HolderNeverQueues` says of
  slots and mutex that they are taken in one order, the safety half of `EveryRequestEnds`.
  `UsesSemaphore`: the steps of Gateway on the slots are those of Semaphore; with `ImplementsSemaphore` the handler is right on the
  limiter of the code.
* `GatewayProofs`, ClientCache: `StaleClientCauses`, `PoolShared`. An installed client for another
  proxy means that an admin is between write and close, or one of the two recorded causes.
* `AdmissionProofs`, Admission: `TypeCorrect` with `NoOrphanKeys`, `RateWithinTwice`, `RefusalHasCause`, `ExpiryHonoured`. The
  windows of a key lie apart and the one in memory is the last (`WindowsApart`); its count is the number of requests let through in it
  (`CountsMembers`); they read the clock before it was over, and the last of them still saw room (`WindowsBounded`). A stretch of a
  window's length meets at most two windows, and if it has all the requests of one it has not all of the other.
* `AdmissionProofs`, AdminUsers: `LastAdminSafe`. With no overlap ever, the handler that has
  counted is alone between its read and its write, so what it read and counted still holds.
* `DeviceFlowProofs`: `LoginCreatesOne`, `AskedSafely`, `TokensKept`, `PageGivesUpForCause`. A flow has at most one finisher, and rows
  beyond the misread ones exist only once its flow is out of the finishers' reach; a granted token is in the flow, with its
  finisher, or in a row. The page fails only for a cause because a flow leaves the map, a poll fails to finish and xAI refuses an answer
  only for one, and no cause goes away (`Caused`); the second answer of a spent code is the case that needs `AskedSafely`.
* `PkceFlowProofs`: `LoginCreatesOne`, `ExchangesApart`, likewise with the owner of `Finalizing`.
* `DatabaseProofs`, QuotaStore: `TypeCorrect`; `LossNeedsRace` from `MergeInv`: a goroutine that is not behind holds the row or
  something newer in every field; `CheckedHonestly` from the merge lemmas: what is stored
  with a check time has a field at least as new.
* `DatabaseProofs`, Migration: `VersionsHold`, `SchemaServed` and the refinement `NothingLostInUpgrade`, for every database that is
  `LeftBehind`, any rows and any number of crashes. `MigrationInv` says what each statement finds: tables that are tables (`Tables`), rows in
  one of the two (`OneTable`), one name for each column (`OneName`, `KeyColumns`), the work of the current version as far as it has
  come (`SubscriptionsAt`, `OthersAt`), and each version recorded that the statement lies behind (`Recorded`). A crash keeps all of it because
  only what is recorded is assumed of the rest. For the refinement, one lemma per table operator says what `Rename`, `Ensure`, `Drop` and
  `Rebuilt` leave readable under the old name or the new; each statement then stutters in Records, and each served request is one of its steps.
* `RequestLogsProofs`: `TypeCorrect`; `NothingLostEarly`: days the cleanup has listed are expired and stay so (`CleanupInv`);
  `FailuresExplained`: a day a reader has listed has its table or has expired, and only an older version's table
  lacks columns (`CauseInv`); `NothingLeftOut`: until the query all that is owed lies in listed tables and matches
  (`AnswerInv`), since `requestLogTablesInRange` keeps every table of the days asked for; `CountedAsked` compares the filter, an order of texts, with those
  days, and finds that they differ in two first seconds;
  `ReportTotals`: the entries found are parted by the name of their owner, and the sizes of the parts add up.

Each component has its type invariant as a theorem (Migration's is `Tables` within `MigrationInv`); all but that of
Admission, which says more than types, are no longer checked by a run.

Two proofs need an induction over finite sets (`ReportTotals`, `RebuildCost`). The induction theorems of the library take an operator as a
parameter, which the provers cannot instantiate; `Least` states instead that a set of numbers with a member has a least one, by
`WellFoundedInduction`, and the proofs refute a least counterexample. A theorem that ranges over all predicates stays out of reach.

The inductive invariants above were checked by TLC as invariants of the runs' instances before they were proved.

Only model-checked, because they need fairness and ENABLED, which TLAPS cannot handle: `EveryRequestEnds` of Limiter, TokenRefresh and
Gateway, `ApprovedLoginCompletes`, `NeverStuckFinalizing`, `ExpiredDropped`, `EventuallyServes`. `SomeAdminRemains` is refuted by its run.

## 5. What the code does otherwise than it says

One run shows a divergence and is listed as a finding, `users_last`: two concurrent changes can leave no admin.

Further divergences seen while modelling, without a run of their own:

* The page fills its edit form with the stored credentials and sends them back on every save
  (`web/admin.js:62`, `:66`), and the PUT stores them as they are, without the refresh mutex: a renewal in between is
  undone and the withdrawn refresh token is back, against SUBSCRIPTION_API_PLAN.md:514, although docs/api.md:448 does say
  that a PUT overwrites. `RotationKept` of TokenRefresh fails for that; `WithdrawnForCause` names the cause (`putBack`).
* The page stops polling at any error (`web/admin.js:68`), so that the "retry polling" of
  `grok_oauth.go:289` does not happen and the login is lost with its token in the flow. `ApprovedLoginCompletes` is
  therefore stated as far as the page polls.
* `request_logs.go:359` compares instants as text, and `...00:00:00.5Z` sorts before `...00:00:00Z`: an
  entry of the first second after midnight is counted on the day before, against docs/api.md:658 (`OnEdge` of RequestLogs,
  the exception in `AnswersComplete`).
* Every settings update drops the limiter entry (`server.go:252`, from `admin.go:211`), also when the limit stays, while
  requests keep the slots of the old channel: twice the limit may be in flight, against
  docs/database.md:116. Semaphore therefore promises the limit only while `rebuilt[a] = 0`.
* `refreshGrokQuota` (`grok_usage.go:84`) writes back credentials it read before a renewal, as the edit form does (`putBack`
  of TokenRefresh).
* The example body of docs/api.md:434 has no `refresh_token`: sent as it is, it leaves an OAuth account that can
  not be renewed (`NoToken` of TokenRefresh).
* `rpm_limit` (docs/api.md:545) is enforced in fixed windows: almost twice the limit may pass within a
  minute around the end of one, as `LessThanTwice` allows.
* `mergeTokenUsage` (`usage_parse.go:16`) keeps a total of an earlier event beside later counts, against
  docs/database.md:192; the parser is not modelled.
* The refresh and its store run under the context of the downstream request
  (`claude_oauth.go:101`, `:124`, the others alike): a client that disconnects after
  the provider has rotated the token prevents the store, and the row keeps a
  withdrawn one (`orphans`), against SUBSCRIPTION_API_PLAN.md:514.
* `updateSubscription` commits `proxy_url` before it validates the credentials of
  the same request; the 400 of `admin.go:190` returns before the client is
  closed (`rejected`), against docs/api.md:452.
* `CreateSubscription` inserts and then reads back; if the read fails,
  `grok_oauth.go:289` asks for a retry, which creates a second account (`misread`).
* docs/database.md:120 calls `quota_json` the most recent quota. `LatestKept` fails when two writes
  race: the later one restores what it had read (`LatestUnlessRaced` names the cause), and
  `quota_checked_at` of a slow refresh goes back, as it is taken before the call.
* `misdated` of TokenRefresh: `refreshGrokQuota` stores `account.TokenExpiresAt` of
  before the renewal (`grok_usage.go:84`), so that a fresh token is renewed
  again by the next request, although README.md:112 says one minute before expiry; the admin PUT
  stores new credentials with the old expiry unless it is given one.
* A refresh under way when an admin PUTs credentials stores its own over them.
* `clientForSubscription` stores a client for the proxy resolved earlier,
  also after the proxy was changed and the client closed (`raced`).
* `pkce_oauth.go:179` asks to retry the exchange with a code that the provider has redeemed already.
* The `reauth_required` state of `SUBSCRIPTION_API_PLAN.md:513` is never set.

## 6. Not modelled, and the plan

Left out of the modules above: the values inside a quota window, relative report ranges, log filters, paging and member
scoping, the 24-hour summary of one subscription; wording, logging, header rewriting, proxy URL
syntax, parsing of the pasted code, passwords and JWT signing (pure functions of
the request), CSS and HTML.

Gateway takes the database to answer until it is closed (a client that leaves makes its own queries fail), and
has one provider's renewal. Migration is SQLite's: the Postgres migrations start from
schemas that are not in the repository, and the rewriting of placeholders (`db.go`, `postgres.go`) is string
processing. Of Migrate it leaves out indexes no statement trips over, and the branch of version 10 that copies
between two tables, which the early rename leaves nothing to do. Body capture and the SSE usage parser (`httplog.go`, `usage_parse.go`) are
sequential functions of one request, whose interest is in bytes.

Done of the plan of the beginning: the eight components with their proofs, the rate limiter and API keys (Admission), migrations (Migration,
Records), the composition (Gateway), the refinements of Semaphore and Records, and the theorems for all safety properties the runs check. Left, in this order:

1. A one-shot login as an abstract specification that DeviceFlow and PkceFlow both implement, with both refinements proved.
2. Theorems that relate modules: that the renewal inside Gateway is TokenRefresh for one account, so that `RotationUndoneForCause` carries over, and with it the answers of the provider that are lost, which Gateway does not have.
3. `mergeTokenUsage` and the bounded buffers as functions against reference definitions.
4. The deletion of a subscription in Gateway, which today meets limiter, mutex and client only in the modules of each.
