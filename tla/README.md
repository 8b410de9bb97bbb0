# A TLA+ verification project for the PropChain back end

PropChain-BackEnd is a NestJS service (TypeScript, Prisma on PostgreSQL, Redis,
Socket.IO, BullMQ, cron jobs) for property listings and the transactions on them.
Several replicas of it may run. Almost none of its handlers opens a database
transaction: a handler reads a row, decides, and writes with later queries, and every
`await` between them lets other requests, jobs and replicas in. That is where its
correctness is decided, and it is what these modules model: **each awaited call that
reads or writes shared state is one action, and the guard of a write is what the code
really tests again, which is usually nothing.**

Paths below are relative to the root of the repository.

## 1. The system and its parts

| Part | State | Operations | Works with | What makes it correct |
|---|---|---|---|---|
| Transactions (`src/transactions`, `src/commissions`, `src/blockchain`) | rows of `transactions`, `commissions`, `transaction_history`, timeline | create, update, admin status, verify, record on chain, escrow, cancel, refund | one another through the rows | lifecycle; commissions, audit and chain records that agree with the row |
| Webhooks (`src/webhooks`) | webhook rows, delivery log, BullMQ queue | trigger, deliver, cron retry, replay, challenge, remove, prune | the receiver over HTTP | a log that tells the truth, every delivery settles, a stable idempotency key |
| Tokens and sessions (`src/auth`, `src/sessions`) | session rows, blacklist, user flags | login, refresh, logout, revoke one or all, clean-up | fraud (token reuse), users (deactivation), sockets | a given-up token is never accepted again; revocation covers all; limit of sessions |
| Account deletion (`src/users`) | user row, deletion date, legal hold, audit | request, cancel, deactivate, daily job, admin removal | sessions (who can sign in) | nobody is removed early; a requested removal happens; a cancelled one does not |
| Logins and limits (`src/auth`) | attempts, locks, window counters | check, count, lock, unlock, reset | login, every route | the lock comes and ends; counting after checking goes wrong by no more than the overlap |
| Credentials (`src/auth`, `src/users/email-verification.service.ts`) | password history, reset tokens, recovery codes, trusted devices, API keys, pending address | request, use, rotate, revoke | users, sessions | each secret is spent once, each address is proved |
| Fraud (`src/fraud`) | alerts, blocks | detect, escalate, block, review | users, sessions | severity, score and block of an alert agree |
| Users and exports (`src/users`, `src/admin`) | role, activation, export jobs and archives | role change, block, reactivate, export, clean-up | sessions, audit, mail | sessions and audit follow the row; an announced export can be fetched |
| Listings (`src/properties`, `src/listings`) | property rows, price history, addresses, images, cached views | status workflow, expiry job, renewal, edits, uploads | transactions, cache | the workflow of `property-status.constants.ts`; what hangs on a listing agrees with it |
| Documents (`src/documents`, `src/transactions`) | rows, versions, signature | upload, new version, sign, expire, archive | storage | versions without gaps, one signature, no way back from ARCHIVED |
| Lists | rows | pages by number and by cursor | clients that walk them | every row once |
| Routes and guards (`src/app.module.ts`, controllers, `src/auth/guards`) | the request | route, guard, handle | every handler | the handler named by the path, behind its guards |
| Presence and notifications (`src/notifications`) | socket maps, presence keys in Redis, notification rows | connect, disconnect, heartbeat, revocation, send, mark | sessions | no live socket on a revoked session; presence and marks that tell the truth |
| E-mail (`src/email`) | queue, suppression, bounces | send, process, bounce, complaint | the provider | a bounced user gets no mail; queued mail settles |
| Reminders, tours, tickets (`src/transactions`, `src/open-house`, `src/support-tickets`) | stamps, tour rows, tickets | jobs, answers, assignment | notifications | one reminder in time; breaches are flagged |
| Backup and archive (`src/backup`, `src/archive`) | job rows, files, timer | create, restore, schedule, retention, archive | the whole database | one job at a time, no data lost |
| Clean-up (`src/database/cleanup.service.ts`) | old rows of eight tables | batches | other instances | expired rows go |
| RPC failover (`src/blockchain`) | health of providers, active one | health cron | transactions | a dead provider is left |
| Seeding (`prisma/seed.ts`) | the database | reset, mark, insert | the schema | foreign keys, no fixtures twice |
| Disputes, duplicates, SMS, digests, search, analytics, wiring | – | – | – | see "Not modelled" |

`PROJECT.json` lists every component with its status, and under `hazards` the places
where an interleaving, a crash, a late answer or a stale value can go wrong, each at its
line with the properties that watch it.

## 2. The modules

| Module | Models | Instances |
|---|---|---|
| `Transactions` (`TransactionsProofs`) | TransactionsService, TransactionCancellationService, the row updates of BlockchainService and CommissionsService | itself, `MCListings`, `MCLive` |
| `Webhooks` (`WebhooksProofs`) | WebhooksService with its queue and its cron, for one webhook | itself, `MCLiveJobs` |
| `Sessions` (`SessionsProofs`) | AuthService (tokens), SessionsService, the clean-up of tokens and sessions, for one user | `MCSessions`, `MCLive` |
| `AccountDeletion` (`AccountsProofs`) | AccountDeletionService, ScheduledDeletionService, UsersService.deactivate | itself, `MCAccounts`, `MCLiveJobs` |
| `LoginLimits` (`AccountsProofs`), `RateLimits` (`LiveProofs`) | LoginRateLimitService with the start of login; RateLimitService and its guard | `MCAccounts`, `MCLive` |
| `Passwords`, `Emails`, `TwoFactor`, `ApiKeys` (`AccountsProofs`) | the credentials of one user in AuthService, TwoFactorService, EmailVerificationService, ApiKeyAnalyticsService | `MCAccounts` |
| `Fraud`, `Users`, `Exports` (`AccountsProofs`) | FraudService; role, activation and sessions; DataExportService with its clean-up | `MCAccounts` |
| `Workflow` | abstract: a status that moves along a table | instantiated by `Listings` and `Documents` |
| `Listings`, `ListingEdits`, `PriceHistory` (`ListingsProofs`) | the status of one property and the expiry job; addresses and geocoding; price and history | `MCListings`, `MCLiveJobs` |
| `ListingCache`, `PropertyImages`, `Paging`, `Documents` (`ListingsProofs`) | cached views and tags; uploads, cover and files; pages of eighteen endpoints; versions, signature, expiry | `MCListings` |
| `Routes` (`PlatformProofs`) | all declared routes as data, the router, the guards in their order | `MCPlatform` |
| `Seed` (`PlatformProofs`) | the statements of the seed script against the foreign keys | `MCPlatform` |
| `Presence`, `Notifications`, `Mail` (`PlatformProofs`) | sockets and Redis; the marks of a notification; checks, queue and bounces | `MCPlatform`, `MCLive` |
| `DeadlineReminders`, `Tours`, `Tickets` (`PlatformProofs`) | the three reminder and SLA jobs with the requests beside them | `MCPlatform`, `MCLive` |
| `Backups`, `Archive` (`PlatformProofs`) | back-up jobs, restore, retention and the timer of the schedule; the archive job | `MCPlatform` |
| `Cleanup`, `Rpc` (`LiveProofs`) | the batch loops of the daily clean-up; health checks and failover | `MCLive` |

Conventions. A request is a record or a program counter that names the next query and
holds what the handler has read; the first action of a handler is its first read with
the checks that follow it, and a request that a check refuses changes no state and is
not a step. Columns are variables, rows are indices. Names of operators are those of
the methods; other names (`StatusWrite`, `RevokeAllList`, `commitPrimary`) stand for one
query of a method. Variables under "history" record what happened and are never read
by a guard. Definitions whose names end in an underscore and a word (`Doomed_Oldest`) are plausible
bugs that the properties must be able to tell from the code; no behaviour uses them.

**Histories that explain.** In a program without locks most promises hold only while
requests do not overlap. Such a property is stated with a history variable
(`tfRaced`, `usRaced`, the `stale` flag of a request, ...) that is set exactly where a
write is based on a row that has changed since it was read, or where a crash or failure
the property names has happened: "only a write from an outdated read can bring a spent
code back". What such a property excludes is everything else: a missing check, a wrong
order of two queries, a lost reset. Where the overlap is bounded, the property gives the
bound instead (`QuotaBounded`, `FailuresBounded`, `SessionLimit`, `LiveResetsBounded`).

**The first four modules.** *Transactions*: `status`, `escrow`, `hash`, `refund` are the
columns of the row; `comm` the common status of its commission rows; `audit` and `stage`
the history and timeline entries. `Chain` is the configuration of the blockchain
service, `Faults` allows a query to fail or the process to die between two queries. *Webhooks*:
a job is a BullMQ job or a `setImmediate` task; it and the per-minute cron may work on
one row, and `attempts` is written from a value read before the POST; a job whose row is gone keeps
the old id in its data, so each of its retries creates another row. *Sessions*: a pair is an
access and a refresh token with one session row; time is the age of a pair. `Scenarios`
is a set of sets of operations of which each behaviour uses one. *AccountDeletion*:
requests of one user overlap, each between its read and its update,
and so do several runs of the job, each with the list of candidates it read; `Linked` users
have rows that refer to them without a cascade, so that the delete fails.

**Accounts.** `LoginLimits` counts the failures of one address in ticks of a clock; the
check, the count and the insertion are separate steps. `TwoFactor` keeps the recovery
codes by generation, so that a code of an old list that comes back is visible. `Fraud`
abstracts a detector to the severity it reports; which alert it finds, raises and blocks
for is modelled query by query. `Users` holds the roles that sessions carry.

**Properties.** `Listings` has every writer of the status column: the owner's transition,
the unchecked column of `PUT /properties/:id`, moderation, bulk moderation, soft
deletion, renewal and the expiry job with its two statements. `ListingCache` has the
Redis keys and, per instance, the tag map in memory; storing and tagging a key, and deleting the
keys of a tag and forgetting it, are steps of their own. `Paging` describes an endpoint by its
order, its tie-breaker and whether it takes a cursor; the walk of a client is a behaviour.

**Platform.** `Routes` lists the routes of the controllers in the order Nest registers
them, with their guards in the order Nest runs them and the identity field the handler
reads; a request is routed, passes its guards and is handled. `Presence` keeps the sockets
of the instances and the fields and time to live in Redis apart. `Backups` knows that a
dump contains the table of the back-ups itself, and lets every query of a job fail, the one that
records the failure included. `Notifications` asks Redis or, without an answer, the map of the
sending instance. `Archive` keeps what has been written to the compression stream apart from what
is in the file, and names a file after its table and the second its run began in, so that runs of
one second truncate, mix or remove each other's. `Tours` counts quarters of an hour.

**Composition and refinement.** `Workflow` states what `property-status.constants.ts` and
the life of a document promise: a status that moves along a table, but for single writes that bypass
the table or rely on an outdated read of the row.
`Listings` and `Documents` instantiate it with their own status column, and the
properties `ListingFollowsWorkflow` and `DocumentFollowsWorkflow` say that they implement
it: the document with every write, the listing with every write but those of the writers that its
property names; after such a write the table counts again. The `MC`
modules `MCAccounts`, `MCListings`, `MCPlatform`, `MCLive` and `MCLiveJobs` put modules that
share no state side by side: `part` is chosen in the initial state and a behaviour is one
of that part. Where components do share state, one module holds both sides: tokens,
fraud and deactivation in `Sessions`; sessions and roles in `Users`; exports and clean-up
in `Exports`; sockets and revocation in `Presence`; transactions, commissions and the
chain in `Transactions`.

## 3. The runs

| Run | Instance | Checks |
|---|---|---|
| `tx_all` | 1 row, 3 requests, all operations, faults | commissions, audit, stage events, chain hashes and refunds never claim a status the row has not had |
| `tx_admin_race` | 2 overlapping administrators | **violated**: both pass the check on PENDING, the second write leaves a terminal status |
| `wh_all` | 3 rows, 1 event, 3 attempts in all, 2 jobs, 2 workers, crashes, replay, deactivation, removal, pruning | SUCCESS only after an acknowledgement, attempts never invented, what waits for a retry is selectable, one idempotency key |
| `wh_failed_final` | 1 row, 2 jobs | **violated**: a duplicated job posts after FAILED |
| `ss_all` | 2 pairs, 2 requests, four scenarios | given-up tokens stay refused; a finished revocation of all covers what was open at its start; the limit is exceeded by at most the overlapping counts |
| `ss_rotation` | 3 pairs, 1 request | **violated**: a refresh at the limit gives up the old token and issues none |
| `ad_cancelled` | 1 user, 1 run of the job | **violated**: a cancellation that was answered is lost to a list read earlier |
| `accounts` | 1 user, 2 overlapping requests in each module (also of the deletion), 2 runs of the deletion job, 3 calls of an API key, 2 detectors, 2 exports and 2 cleaners | nobody is removed early, no date on an active account; limits are exceeded by the overlap at most; secrets are spent once; alerts are consistent; sessions, audit and announced exports agree with the rows; a changed address was proved |
| `listings` | 1 property, 2 overlapping requests in each module, 2 instances of the cache, 2 images, 3 files of a document, 3 rows in a list; 4 transactions served one after the other | listings and documents implement `Workflow`; cached views, addresses, prices, images, versions, signatures and pages; serial transactions obey their lifecycle and agree with audit and commissions |
| `platform` | all routes and credentials; 2 seed runs in 2 scopes; 2 sockets; 2 back-up jobs, each query of which may fail; 2 runs of the archive on 2 rows, in one second or two; 2 reminder calls; tours at four quarters; 2 requests on a ticket; 2 mails | routing and guards, foreign keys, presence and marks, copies, reminders |
| `live` | the small instances of `MCLive`, weak fairness | time limits end, sockets settle, work that has begun ends |
| `live_jobs` | the small instances of `MCLiveJobs`: 1 delivery with 2 jobs, 2 overlapping requests of a user against 1 run of the deletion job, 1 listing; strong fairness for what competes | deliveries settle, deletions happen, overdue listings leave the market |

The conjunctions the runs check are put together in the `MC` modules; their parts are
stated, with the lines they are about, in the modules of the components:

* `LimitsHold`: `FailuresBounded`, `QuotaBounded`. `CredentialsSafe`: `HistoryHeadsPassword`,
  `LiveResetsBounded`, `ResetUsesBounded`, `CodesSingleUse`, `EnabledHasSecret`,
  `TrustIsProved`. `AlertsConsistent`: `ScoreMatchesSeverity`, `EscalationKept`,
  `AutoBlockTakesEffect`. `AccountRecordsAgree`: `SessionsMatchUser`, `AuditEndsWithRole`,
  `MailedIsAvailable`.
* `QuietRecordsAgree`: `CommissionsAgreeWhenQuiet`, `EveryChangeAudited`.
  `CachedViewsExplained`: `OutdatedViewsExplained`, `CachedKeysTagged`.
  `PropertyRecordsAgree`: `AddressesDistinct`, `GeocodeBudgetKept`, `HistoryEndsAtPrice`,
  `OneCover`, `RowsHaveFiles`, `LatestVersionShown`, `OneSignature`. `WalksComplete`:
  `PagesComplete`, `CursorWalksForward`.
* `RequestsGuarded`: `OnlyKnownHidden`, `CallerIdentified`, `RoleRoutesGated`,
  `LimitedPerCaller`. `SeedingSafe`: `ForeignKeysKept`, `FixturesOncePerScope`,
  `ResetEmpties`. `DeliveriesExplained`: `PresenceExplained`, `DeliveredWasSeen`,
  `NoMailToBouncedUser`. `CopiesKept`: `RunningExplained`, `LatestBackupKept`,
  `TimerMatchesSchedule`, `RecordsKept`. `RemindersSafe`: `RemindedTwiceExplained`,
  `TourRemindedDayAhead`, `TourRemindersBounded`, `TicketStamped`.
* `TimeLimitsEnd`: `LockEnds`, `OverLimitEnds`, `BlacklistIsCleaned`, `ExpiredRowsGo`.
  `SocketsSettle`: `OfflineNoticed`, `RevokedSocketsClose`. `StartedWorkEnds`:
  `StatusChangeRecorded`, `SlaBreachNoticed`, `QueuedMailSettles`, `DownProviderIsLeft`.

Every part has a mutated form of a modelled definition that violates it.

**Why the bounds are enough.** Every race in this code is between a read and a later
write of one handler and the writes of others, so two requests on one row already show
each of them; a third one in `tx_all` lets a request act on the result of a race, and a
third call of an API key goes past a quota that two have used up. Rows of different
transactions, webhooks, users and properties share nothing, so one of each suffices; rows
only meet in queues, limits, lists, addresses and batches, and there two or three are
used. Limits are small (`MaxAttempts`, `Quota`, `MAX_SESSIONS`, `MaxImages`, `BatchSize`,
`Retention`, ...) so that they are reached and exceeded. `MaxRows`, `MaxTokens`, `MaxGen`,
`MaxUse`, `MaxTries`, `MaxRequests`, `MaxSeeds`, `MaxBackups`, `MaxRestores`, `MaxSeconds`, `MaxReminders`,
`MaxFiles`, `MaxOrder`, `LastTick` bound what the program does not. The requests of a run are
exchangeable and symmetric, except under fairness. Deadlock is not checked: a bounded set of
requests comes to its end, and a service without requests may rest.

**Fairness.** Handlers that have begun are driven on by the event loop: weak fairness of
their next query. Timers, cron jobs and clocks come again and again: weak fairness of
the heartbeat, the retry time, expiry, the clean-up, the health check. Jobs of the
webhook queue and runs of the deletion job compete for a bounded number of model slots
that other jobs may take first, and the expiry job's statement may be disabled for a while by
a request that changes the row; BullMQ serves waiting jobs in turn and the daily jobs come
every day, so these have strong fairness. The provider may refuse every mail and a client
may call anything or nothing: clients, administrators, faults and answers are never fair. The
liveness runs have no crash of a handler: the code has no recovery of a handler that
died, which the safety runs cover; crashed instances of `Presence` are there, since the
heartbeat is meant for them.

## 4. What is proved

With TLAPS, for every value of the constants (any number of rows, requests, workers,
users, instances and runs of a job, any limits), from the named assumptions of the modules:
sets of requests are finite where they are counted, limits are numbers, `Quota` and the
like are not zero. Every invariant and every safety property of a step that a passing run
checks is a theorem, but for one of the four parts of `RequestsGuarded` (see "Only model-checked").

**The shape of the arguments.** A handler acts on what it read some queries ago, so none
of these properties is inductive by itself: the invariant has to speak of the requests in
flight. Four forms occur again and again, and each proof has one step for each query:

* *What was read was true once.* The value a request holds is one the row has had
  (`Transactions`, `AccountDeletion`, signatures, mail, tickets).
* *What was read is true until somebody writes.* For a request whose `stale` flag is not
  set, what it read still holds; every write sets the flag of the others (`Emails`,
  `TwoFactor`, `Users`, `Listings`, `ListingEdits`, `PriceHistory`, `PropertyImages`).
* *What is missing, somebody is about to do.* A record that is behind its row has a
  request in flight that will write it (commissions, audit, covers, reminders, exports).
* *Counts.* What has been done plus those who have passed the check and not yet acted is
  at most the limit plus the overlap (attempts, resets, quotas, geocoding, sessions, tours).

**Transactions** (`TransactionsProofs`): `TypeCorrect`, `CommissionsSafe`, `HistorySafe`,
`ChainRecordSafe`, `RefundSafe`. The value a request has read, and the status it is about
to pass on to commissions, audit and timeline, are statuses the row has had; a request past
the validation of the chain record has seen COMPLETED; one past the check of a refund has
seen CANCELLED. For requests served one at a time (`Serial`), `SerialInv` says that at most one
handler is busy and that what it has read still holds; from it follow `LifecycleSafe`
(clients that do not call `update` and `verify`, which skip the table), `CommissionsQuiet`
(no faults, no `cancel`, which forgets the commissions) and `AuditQuiet` (none of the three).
The hypotheses are the operations that the source shows to be exempt, and `tx_all` reaches
what they exclude.

**Webhooks** (`WebhooksProofs`): `TypeCorrect`, `SuccessSafe`, `AttemptsSafe`, `RetrySafe`
and `KeySafe`. What a job has read is at most what was tried, a job about to store SUCCESS
has an acknowledgement, and RETRYING is stored only below the maximum with a retry time.
The idempotency key is stable because a row and every job for it carry the same payload
(`PayloadKeys`), on the hypothesis that payloads have an `id`, which section 5 comes back to. The id in
the data of a job and the row it works on are two things: only the latter is known to exist.

**Sessions** (`SessionsProofs`): `TypeCorrect`, `GivenUpSafe`, `RevokeAllSafe`, `LimitSafe`.
A row of the blacklist lasts at least as long as its token; a token that was given up
has its row or has expired; a revoked session had both tokens given up unless it was closed
by the update of a revocation that had not listed it (`bare`); the sets a revocation of all
carries contain what was open at its start. For the limit, the open sessions and the
requests between their count and their insertion are counted together.

**Accounts** (`AccountsProofs`): `AccountsTyped`, `LimitsSafe`, `CredentialsProved`,
`AlertsProved`, `RecordsProved`, `EmailProved` for `MCAccounts`, from one theorem for each
module, and `TypeCorrect`, `DeletionSafe`, `DateSafe` for the deletion of accounts: each
run's list holds only users whose date has passed, however old the list is; and since every update
of a deletion request writes the date and the deactivation together, no order in which the updates of
overlapping requests land leaves a date on an active account. `LoginLimits` counts the
rows without a lock together with the logins that have decided against one;
`Passwords` the live resets together with the requests about to create one; `ApiKeys` the
uses together with the calls past the check. In `TwoFactor` and `Emails` a current read
equals the row, and a token that is known was sent to the address it changes to. In `Fraud` an alert
of automatic severity was acted upon or a detector holds its block. In `Users` a request whose
read is current knows the role; in `Exports` the list of a cleaner holds old jobs only.

**Properties** (`ListingsProofs`): `ListingsTyped`, `CachedViewsProved`,
`PropertyRecordsProved`, `WalksProved`, `WorkflowsProved` and `QuietProved` for `MCListings`.
`WorkflowsProved` is the refinement of `Workflow` by listings and documents: a request whose
read is current holds a target the table allows, and a write of another request ends that; the table
is the one of the source, and each write that skips it or relies on an outdated read is a `Free` step.
In the cache the two properties are inductive together: an invalidation that loses a key finds it in
the map of another instance because cached keys are tagged somewhere, or their loader is between the
SET and the tagging (`Untagged`); a key that was tagged while an invalidation waited for Redis, and
forgotten with the tag, is remembered in `excused`. A price history
without a slip ends at the price, or at what the one request between row and price will write.
Where the cover of a property is missing, some request is about to set it (`CoverInv`). The
versions of a document are 1 to n and a number that was read is at most n + 1
(`VersionsNumbered`, `NumbersRead`). For the pages, under a total order the number of rows before
a row is its place in every answer, so the pages show the places 1, 2, 3, ... (`NumberInv`); a
walk by cursor has shown a row of each time stamp it has passed (`CursorInv`). `QuietProved` takes
`LifecycleSafe`, `CommissionsQuiet` and `AuditQuiet` to `MCListings`.

**Platform** (`PlatformProofs`): `DeliveriesProved`, `CopiesProved`, `RemindersProved` for
`MCPlatform`, from one theorem for each module. Mail: a call made after the bounce is stopped at the
latest by the check of the user (`WarnedStopped`). Notifications: emit and check see the same
sockets unless a socket came or went between them or the answer came from an entry without a socket,
in Redis or in the map of the instance (`MarksEarned`). Presence: the life of one
socket (`SocketLife`). Back-ups: a RUNNING row has a job that dumps it or restores from it, was left by a job that died or
could not store its end, or came back with a restore; and until a restore, or a failure after a dump,
disturbs it (`Calm`), the newest complete back-up has its file and is on nobody's list (`BackupInv`).
The timer follows the schedule until two refreshes overlap or one cannot read the schedule
(`TimerFollows`). Archive: a batch about to be deleted is in its stream (`BatchesWritten`), and as
long as no two runs began in one second the file a run opens is empty and nobody else has it open
(`FilesOwned`), so that rows of a file are lost only after such a meeting. Reminders: lists of two requests are disjoint but for the milestones that
have an excuse (`ListsDisjoint`). Tours: an hour of the job that falls in the window of a tour has
reminded of it (`HoursServed`), and there are two such hours only for a tour at half past
(`RemindersCounted`). Tickets: what an operation will write fits dates that are set and are never
cleared (`DecisionsHold`). `PlatformTyped` collects the type invariants of all these modules.

Seeding (`SeedSafe`, `SeedingProved`), for any number of runs and scopes and wherever a run dies: the
tables a run has deleted so far are empty together with everything that cascades from them, so that no
delete meets a restricting key (`EmptiedSoFar`); behind the marker the tables of the earlier blocks are
filled, so that no insertion lacks its parents (`FilledSoFar`); and each set of fixtures stands for a
marker, each marker for a run (`MarkersCounted`).

Routes (`RequestsSafe`, `CallersProved`): what the guards that are still to run owe the handler
(`RequestInv`). If the handler reads the caller, one of the guards still to run identifies it or it is
identified already; if the route names roles, the check of roles is still ahead or was passed; no
limit per caller is reached before the caller is known, except on the three bulk routes. Initially this is a statement about the list of guards of
a route, shown controller by controller for all 66 tables (`ControllersGuarded`); each guard that
runs preserves it (`GuardInv`).

**Limits, clean-up and providers** (`LiveProofs`): `LiveTyped`, the type invariant of `MCLive`, from
`LimitsTyped`, `CleanupTyped` and `ProvidersTyped` and the type theorems of the components
above. That the provider of a failover is a
configured one needs that a finite, non-empty set of numbers has a first member (`FirstExists`).

**Composition.** Each theorem about an `MC` module first shows that a behaviour of the chosen
part is one of that component (`AccountsSpec`, `ListingsSpec`, `PlatformSpec` imply the
specification of the part while the variables of the other parts do not move) and then cites
the component's theorem.

**What the attempts found.** The proofs changed the models in these places. `LatestBackupKept`
was false beyond the instance of the run: three overlapping jobs can leave the newest COMPLETED
row without its file, because a retention deletes what another has found to be surplus and the job whose
delete then throws marks its complete back-up as failed; it is now stated up to the first back-up that was
spoiled like that (`bkSpoiled`). The
back-ups that a restore brought back have to be remembered for good (`bkRevived`). The bands of the fraud score
and the stages of the request guard were written as overlapping cases, of which TLC takes the
first and the logic of TLA+ takes any: they are now disjoint. And several constants had no assumption
at all (`Tours`, `Backups`, `Paging`, finiteness of tokens and requests in `Sessions`).

The union in `Tables` of `Seed` was read by the two tools with different precedence and is now in
parentheses; the next task of `Cleanup` was a nested EXCEPT that the provers cannot follow and is an
explicit record. `Seed`, `Presence`, `DeadlineReminders`, `Tickets`, `Archive` and `Rpc` have got the assumptions their
type proofs need; the set of callers in `RateLimits` must not be empty.

**Only model-checked.** The liveness properties (`TimeLimitsEnd`, `SocketsSettle`,
`StartedWorkEnds` and those of `live_jobs`), since the prover has neither fairness nor ENABLED;
and `OnlyKnownHidden`, the part of `RequestsGuarded` that says which of the declared endpoints
another route answers. It is a closed statement about one table, the 327 registered routes in their order: there
is no constant to generalise over, the run `platform` receives a request for every declared endpoint
and so decides it completely, and a proof would repeat the table. The other three parts,
`CallerIdentified`, `RoleRoutesGated` and `LimitedPerCaller`, are theorems.

## 5. Disagreements between code and documents

The four violated runs are the findings of `PROJECT.json`. Met while modelling and
visible in the modules, without a run of their own (files under `src/` unless named):

*Transactions and webhooks*
* `PUT /transactions/:id` writes a status without the lifecycle check and without an
  audit entry (`transactions/transactions.service.ts:260`; `src/transactions/README.md:15`
  and `:24`), and `verify` completes a cancelled row (`:376`).
* The commissions of `create` are looked up outside of its transaction (`:101`); a refund
  can be processed and announced twice (`transactions/transaction-cancellation.service.ts:76`).
* A replay of a payload without `id` has another idempotency key
  (`webhooks/webhooks.service.ts:458`; `docs/WEBHOOKS.md:55`); a crash between the log row
  and `queue.add` leaves the row PENDING, which the cron does not select (`:205`).
* A retry of a delivery whose row is gone creates another row each time, since the job keeps the old id
  (`webhooks/webhooks.service.ts:423`).
* `verifySignature` of a document answers "verified" for every signature.

*Accounts*
* Two overlapping refreshes of one token both issue a pair
  (`auth/auth.service.ts:519`; `docs/Auth_and_User_APIs.md:219`).
* A session created between the list and the update of `revokeAllSessions` is revoked
  with its tokens usable, and is not announced (`sessions/sessions.service.ts:244`).
* Users with transactions are never removed (a restricting foreign key,
  `prisma/schema.prisma:713`); the PERFORMED audit row refers to a user that is gone
  (`users/account-deletion.service.ts:243`); a deactivated user cannot sign in to
  cancel (`auth/auth.service.ts:344`); a reactivation can never succeed, since only the
  hash of its token is kept and the token is given to nobody (`users/users.service.ts:610`).
* A lock that an invalid CAPTCHA answer causes sends no mail; `rotateApiKey` drops the
  monthly quota of the key; the guard of the request limits has no dedicated bucket although
  its comment names one; `trust-score` routes ask for a token and a key at once.
* The update of an existing fraud alert lacks the user that the notice reads; the header
  of the clean-up names login attempts, which it does not delete.

*Properties*
* The table of `property-status.constants.ts:17-37` is broken by every writer that does not ask it:
  `PUT /properties/:id` writes any status (`properties/properties.service.ts:506`), deletion and
  restoring write ARCHIVED and DRAFT (`:526-592`), `bulkUpdatePropertyStatus` DRAFT,
  ACTIVE or ARCHIVED (`:941`),
  `bulkModerate` any decision (`admin/admin.service.ts:320`), renewal ACTIVE from any status
  (`properties/property-expiry.service.ts:225`), and the job expires what is UNDER_CONTRACT.
  The comment above the table (`:19`) lets any non-terminal status go to ARCHIVED; the table refuses it
  for UNDER_CONTRACT.
* A key that is tagged while the deletion of its tag waits for Redis loses its tag
  (`cache/cache.service.ts:241`), and the next edit does not find it.
* `create` never geocodes, a failed geocoding is not tried again, and a search without
  coordinates is refused; the cursor of the moderation queue is not read; notices about
  archived listings are not sent.

*Platform*
* Six routes under `/users` are answered by `:id` or `:id/verify`, among them
  `GET /users/preferences` (`docs/RBAC_Permission_Matrix.md:155`); eleven controllers are
  registered by no module; on three bulk routes the limit runs before the caller is known.
* A seed run stores its marker before its fixtures, so a run that died is never repeated
  (`README.md:204`), and a second `SEED_ENV` doubles tables before it fails; the first
  migration alters a table that does not exist.
* `disconnectSocket` looks a socket up where a namespace has none
  (`notifications/notifications.gateway.ts`); notifications are not flushed on connect
  although `src/notifications/README.md` says so; READ is overwritten by DELIVERED; no SMS is
  ever sent, since the look-up of the opt-out answers an object.
* `setNx` answers an object that is tested as a boolean, so that the lock of the deadline
  reminders refuses nobody (`transactions/transaction-reminders.service.ts:21`).
* A restore brings back the RUNNING row of its own back-up, which then refuses every
  later job (`backup/backup.service.ts:137`; `src/backup/README.md:28`); overlapping retentions
  mark a complete back-up FAILED; `psql` runs without `ON_ERROR_STOP`; two overlapping
  refreshes of the schedule leave a timer behind.
* A back-up whose failure cannot be stored stays RUNNING without a crash
  (`backup/backup.service.ts:238`), and so does a restore; a delete that fails after the unlink of the
  retention sends a complete back-up to the catch, which removes its file (`:349`, `:248`), and the older
  ones may be gone by then; a query that fails after the old timer was stopped leaves none (`:267`).
* Names of archive files are cut to the second (`archive/archive.service.ts:371`): the weekly runs of two
  instances, or a run an administrator starts in that second, open the same file; the later one truncates
  it (`:329`), and a run that archived nothing removes it (`:360`), with rows that are already deleted.
* A client that leaves while its handshake is awaited stays in the map of the instance
  (`notifications/notifications.gateway.ts:169-183`), so that with Redis down a notification to
  nobody is marked DELIVERED.
* The archive job deletes a batch before its stream is ended, so that a failed second
  batch loses the first; archived views of properties cannot be restored.
* The reminder an hour ahead covers only half of the hour; tours at half past get the
  day-ahead reminder twice; `assignTicket` writes back the status it read.
* The e-mail processor drops html, text and headers of a job, `List-Unsubscribe` among
  them; nothing calls `handleUnsubscribe`, and no send looks at `emailNotifications`.

`TransactionCancellationService` is not a provider of its module and `WebhooksModule`
is not imported by the application module at this commit; both are modelled as written.

## 6. Not modelled

* Disputes: opening, a status column without a table of transitions, and a resolution
  with one read before the write; the same pattern as the tickets.
* Duplicate detection, trust score, similarity: floating-point measures. The comparisons
  they feed are inputs where another module uses them.
* Search, analytics, reports, metrics: reads of the database without a protocol.
* SMS, digests: not reachable at this commit (see above). Mail templates and the hashing,
  signing and TOTP libraries: a secret is right or wrong.
* DTO validation, interceptors, versioning, configuration, tracing, generated Prisma code.

## 7. What is left

1. Disputes as an extension of `Transactions`, and the socket side of `Sessions` composed
   with `Presence` through the revocation channel instead of an input.
2. `OnlyKnownHidden` from the order of the tables, once a route that is shadowed can be told by
   prefix and length instead of by comparing every pair.
