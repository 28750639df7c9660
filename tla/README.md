# A TLA+ model of ai-search-api

This directory holds a formal model of the repository: TLA+ modules, the TLC runs that check them on small instances, and theorems about them that TLAPS proves for every instance. Paths are relative to the repository root. `PROJECT.json` lists the runs, the theorems, the lines each definition models, and the mutants that show each property can fail.

The system is a NestJS API for many tenants. It stores everything in PostgreSQL through Prisma and queues background jobs in the same database with pg-boss. At least two replicas run (`docs/deployment.md`), each serving requests and working jobs. No replica holds a lock and almost no code opens a transaction, so **each awaited database call is atomic and everything else interleaves**. That is the granularity of every model here.

## The parts of the system

| Component | State it keeps | Operations | What is hard | What makes it correct |
|---|---|---|---|---|
| GEO audits (`modules/geo/audits.service.ts`, `geo-audit.worker.ts`) | rows of `audits`, their jobs | `create`, `handle`, `reapStale`, `purgeOld` | cap read before the insert, insert and send apart, worker against reaper, crashes anywhere | an audit is run by one handler, settled once, told once, and never stuck |
| Refresh tokens (`modules/auth/token.service.ts`, `core/jobs/refresh-token-cleanup.job.ts`) | rows of `refresh_tokens` | `issue`, `rotate`, `revoke`, `revokeAllForUser`, `purgeStale` | concurrent presentation, claim and insert apart, retries, account deletion | a session never forks, reuse is noticed, a revoked token stays dead |
| Password login (`modules/auth/auth.service.ts`) | `failedLoginAttempts`, `lockedUntil` | `login`, `registerFailedLogin` | a slow verification between what is read and what is written | every failure counts, a lock holds |
| Accounts (`auth.service.ts`, `modules/users`) | `users`, `tenants`, `login_methods` | `register`, Google sign-in, `updateProfile`, `softDelete` | check then insert, upsert of a link, deletion under a sign-in | one account per address and per identity, none without a way in, none entered once shut |
| Files (`modules/files`, `integrations/storage`) | rows of `files`, objects in a bucket | `upload`, `download`, `remove` | row and object cannot change together | no row without its object, a removed file goes |
| Notifications (`modules/notifications`) | rows of `notifications` | `notify`, `list`, `markRead`, `markAllRead` | overlapping calls | `readAt` is set once, by the owner |
| Tenant scoping (`core/prisma/tenant-scope.extension.ts`) | the tenant of the async context | `scopeArgs` | operations in no list | no operation touches another tenant's row |
| Page fetcher (`modules/geo/page-fetcher.ts`, `url-guard.ts`) | none past one fetch | `fetch`, `get`, `readCapped`, `assertFetchableUrl` | redirects, names that resolve anew, timers per hop | every connection goes to a checked address, every fetch ends |
| Page checks (`modules/geo/checks`) | none; the site changes as its owner follows the report | `run` | grouping of `robots.txt` lines, checks that judge one page | the rules are those the lines give, the advice helps |
| Pagination (`core/common/pagination.ts`) | none; the client holds a cursor | `parseSort`, the `list` methods | rows change between pages | a row that stays is seen once |
| Service lifecycle (`main.ts`, `core/config`, `core/jobs/jobs.service.ts`, `core/prisma`, `core/health`, `integrations/storage`) | the parts that are up; in the database, queues and schedules | start, `registerWorker`, `registerSchedule`, `enqueue`, stop, readiness | order of start and stop, replicas starting together, outages | who says it is ready works its queues, all serve in the end |
| HTTP exchange (`app.module.ts`, `core/common/interceptors`, `core/common/filters`, guards) | the response of a request | throttle, guard, intercept, handle, answer | a timeout against a late handler, a callback that answers by itself | one answer, always, and failures reported exactly when told |
| The rest: audit log, logging, tracing, password hashing | none that another part reads | | | |

They interact by function calls inside a replica and by rows across replicas. `create` calls `JobsService.enqueue`. pg-boss calls `handle`, `reapStale`, `purgeOld` and `purgeStale`. `handle` and `reapStale` call `NotificationsService.notify`. `login`, `register` and Google sign-in end in `TokenService.issue`. `softDelete` does not touch the tokens: `rotate` reads `deletedAt` through its join. The timeout interceptor answers 408 and lets the handler run on, so a client can come back while its first request is still working.

`PROJECT.json` lists the hazards of these parts at the lines where they bite, with the properties that watch them.

## What is modelled

### AuditPipeline

`AuditPipeline.tla` models the life of a site audit. An audit stands for its POST request too, since every request that passes the cap inserts one row.

| State | In the code |
|---|---|
| `status`, `createdAt`, `updatedAt` | the row of `audits`; every write sets `updatedAt` (`@updatedAt`) |
| `request` | how far `SiteAuditsService.create` is for the audit |
| `jobs` | how often pg-boss may still hand out the audit's job |
| `at`, `audit` | an invocation of `GeoAuditWorker.handle` and the job it got |
| `sweep`, `cutoff`, `candidates`, `reaped` | an invocation of `reapStale`: its cutoff, the rows left of its `findMany`, the row it is about to notify of |
| `notes` | the notifications created for the audit |

The actions are the awaits: `CountInflight`, `CreateRow`, `Enqueue` or `EnqueueThrows`, `FailOrphan` for `create`; `Deliver`, `Claim`, `Load`, `Complete` or `RunThrows` and `Fail`, `NotifyAudit` for `handle`; `ReapScan`, `ReapRow`, `ReapNotify` for `reapStale`; `PurgeOld`. `AbortRequest`, `AbortHandler` and `AbortSweep` are crashes and errors thrown by the database, at any point. A write whose answer is lost is the write followed by an abort, except where the code catches the error: `RunThrows` includes a completion that was applied although it threw, and `EnqueueThrows` a `send` that threw with its job stored or not.

Choices worth knowing:

* A tick of `now` is any amount of time; only the order of `Stale` and `Retention` against it matters. Replicas share one clock: skew between them is left out.
* `ReapScan` takes the cutoff and runs the query in one step. The cutoff is computed just before; a later query could only list rows that an earlier one would list as well or that are no longer stale, and `ReapRow` compares every row again.
* `ReapRow` visits the candidates in any order, as the query has no `orderBy`.
* pg-boss is external. With `retryLimit: 0` it hands a job out once (`Deliveries = 1`); the runs that say otherwise use 2, for the redelivery that the comment on the claim speaks of.
* Two handlers may overlap even in one replica: a handler that outlives its job's expiry goes on.
* The page, the findings and the error text are left out. A run of the checks either ends or throws.

`AuditLifecycle.tla` is the promise to one audit's owner: the status moves forward, settles once, and that settlement is told at most once. One step goes over a settlement (`Err`): the request that created the audit answers its client with an error, once, and fails the row for good, whatever was told before. `AuditPipeline` implements it with `phase <- status`, `told <- notes`, `owed` computed from the handlers and reapers about to notify, and `erred` from the requests that errored (`Errored`).

### RefreshTokens

`RefreshTokens.tla` models the token service for any set of users. A token is a model value drawn once (`token` is "unused" before the insert and "gone" after the cleanup). `Login` is a sign-in that has read an account that is not deleted; `Present` the arrival of a request with any token ever drawn, live or not; `Find`, `RevokeAll`, `Claim` and `Mint` the awaits of `rotate` and `issue`; `Logout`, `SoftDelete` and `PurgeStale` one call each; `Abort` a crash. The check on the tenant's deletion is the same line as the account's, so `deleted` stands for both.

Three variables are history for the properties: `root` names the login a token descends from, `caught` the tokens a reuse revoked, `late` the tokens stored for an account already deleted.

### LoginLockout

`LoginLockout.tla` models the lockout of one account. What a request knows is what it read first: `dirty` is the condition of `auth.service.ts:103` on that read. `Refuse` and `Accept` are the two verdicts of the password verification, after which `Count`, `Lock` and `Clear` are one update each. Unknown accounts write nothing and are left out. `guesses`, `overtaken` and `lost` are history.

### Accounts

`Accounts.tla` models the ways into an account over the rows of `users` and `login_methods`: `email`, `password`, `google` are their columns, `closed` and `tenantClosed` the two `deletedAt`. A request stands at its next database call: `Register`, `GoogleLinked` or `GoogleUnlinked`, `ByEmail`, `Create` or `CreateRefused`, `TenantActive`, `Link` or `LinkRefused`, `Issue` are the calls of `register` and `issueSessionForGoogleUser`; `Login` and `VerifyPassword` those of `login` without its counter; `Own` and `SoftDelete` those of the caller's own account. A creation is one step because the code makes the user, its tenant and its login method in one transaction; the unique indexes are the guards of `Create` and `Link`. An identity may come with another address later, as Google allows. Counting failed passwords is in `LoginLockout`, what becomes of the session in `RefreshTokens`. `before`, `signedInto` and `displaced` are history.

### Files and StoredFile

`Files.tla` has two stores, `object` and `row`, and requests whose calls to them are listed in order by `UploadCalls` and `RemovalCalls`. `Put`, `Insert`, `Find`, `Get`, `DeleteRow` and `DeleteObject` are one call each; `Fail` is a call that did nothing or a process that died, `LoseAnswer` a call that was applied although it threw. `StoredFile.tla` is what a client may believe: a file is absent, available or removed, in that order, and only its tenant receives its content. A file of `Files` is available when its row leads to an object; under this mapping every step of the two stores is one of the abstract file or none.

### TenantScope

`TenantScope.tla` models the Prisma extension: `ScopeArgs` and `MayWrite` are `scopeArgs` branch by branch, `Passes` the extension's refusals, `Enter` and `Exit` the interceptor and `TenantContext.run`. Callers send any listed operation with any arguments (`Args`: rows, a tenant in the `where`, in the data and in an upsert's update, each maybe absent). What Prisma then reads or writes is external. `by` and `reached` are history: for whom the last query ran, and whose rows it touched. Relations nested in a query are left out; no service writes one through this client.

### PageFetcher

`PageFetcher.tla` is one audit's fetch: the homepage, then `robots.txt` and `llms.txt` at the same time, each a walk over hops. `Validate` looks a name up, gets some addresses, and approves it only if none is blocked, keeping one to pin; `Redirect`, `Respond`, `Read`, `End` are what servers may do; `Abort` the hop's timer; `LookupFails` the resolver giving up, which no timer of the code covers. With `GEO_ALLOW_PRIVATE_URLS` nothing is looked up or pinned. Which addresses `isBlockedAddress` refuses is the constant `Blocked`: the parsing of address texts in `url-guard.ts` is not modelled.

### Robots and SiteReport

`Robots.tla` is the parser of `robots.txt` in `crawler-access.check.ts`, a file being a sequence of lines: `SawRule` and `Pending` follow the two loop variables of `parseGroups` line by line, as recursive functions over the position, `ParseGroups` makes the groups of them, and `IsBlocked` judges a bot. Beside it stands a reference that has no loop: `Says` gives an agent every rule between whose line and an agent line naming it no group begins. It is about grouping only. Rules before any agent line go to `*` in both, which is the parser's reading (RFC 9309 gives them to nobody), and which group judges a bot whose own group has no rules is said in one place for both (`Governing`).

`SiteReport.tla` is a site, reduced to what the six checks read: the lines of `robots.txt`, the number of scripts, the JSON-LD blocks as trees, lengths of texts, and whether tags are there. `collectTypes` is a recursion over a tree; `CollectTypes` collects from what it visits, the least set that has the value and the parts of its values (`Visited`). `Passes` is the verdict of each check. Each action is an owner following one recommendation to the letter: the two ways of opening `robots.txt` (`RemoveDisallow`, `DeleteGroups`) and one action per other check, with every length the advice allows and, for structured data, every shape JSON-LD allows. The recommendation to render on the server names no length, so `RenderOnServer` puts any text on the page that is no shorter than before, and may leave its finding; the recommendations followed on the page itself are `OnPage`.

`SiteAudit` puts the fetcher and the report side by side, with the guard or without (`allowPrivate`, fixed at the start). They share no state but the files, which come from anywhere, so a behaviour is of one half (`half`) while the other rests at its end; the product of the two would show nothing more. `MCSiteAudit` gives it its instance.

### ServiceLifecycle

`ServiceLifecycle.tla` is a deployment: settings (`env`), what the database holds (`queues`, `schedules`), the bucket, and for each replica how far its start or stop is. `ValidateEnv`, `ConfigureApp`, then the `onModuleInit` of `PrismaService` (`Connect`), `JobsService` (`StartBoss`, `BossStarts`, `JobsStarted`) and `StorageService` (`HeadBucket`, `CreateBucket`) in any order, then the `onApplicationBootstrap` of the worker and of the cleanup, side by side, each a list of calls (`Plan`), then `Listen`. A call that fails ends the process. A signal to a listening replica stops pg-boss and Prisma; what Nest does with an earlier one is not this code's. `Crash`, `Restart` and `DatabaseTurns` are the platform's; `calm` says that crashes, signals and outages are over.

### Notifications, Pagination, HttpExchange

`Notifications.tla`: `markRead` as find, guarded update and second read, overlapped by `markAllRead` and by others of its kind. `counted` sums the counts the database reported.

`Pagination.tla`: a client walks the pages of a list (`Begin`, `Fetch`) while rows are inserted, deleted, read and change status. `parseSort`, `Take` and `Page` are shared by the three `list` methods. How Prisma treats a cursor is external and stated at the head of the module. `stable` and `disturbed` are history.

`HttpExchange.tla`: one request, through throttler, guard, interceptors, handler and exception filter, on six kinds of route. What the envelope interceptor makes of an answer follows from the route and from what the handler returned (`Values`, `Enveloped`): JSON, a stream, or nothing. `Timeout` ends the subscription to the handler, which runs on; `Catch` and `Describe` are the filter.

`Clients` puts the three side by side, each behaviour being of one while the other two rest, since they share nothing; `MCClients` gives it the instance of its run.

## What the runs check

Every run is exhaustive within its bounds. Deadlock is not checked: clocks are bounded, and a system whose requests are all answered, or whose replicas all serve, may stop.

| Run | Instance | Shows |
|---|---|---|
| `audit_races` | 2 audits, 2 handlers, 1 reaper, 2 deliveries, stale after 1 tick, purge after 2, clock to 3 | `AtMostOneNotification`, `HandledByOne`, `NotificationMatchesStatus`, `ErroredRequestLeavesFailedAudit`, `FreshAuditsAreNotReaped` |
| `audit_status` | 2 audits, 1 handler, 2 reapers, 1 delivery, stale after the one tick | the pipeline implements `AuditLifecycle`; `OverdueAuditsSettle`, a liveness property |
| `audit_cap` | 4 requests of 2 tenants, cap 1, overlap 2 | `SoftCap` |
| `token_rotation` | 2 requests, 3 tokens, 1 user, lifetime 1 tick, no grace, clock to 2 | `SessionNeverForks`, `LateTokensAreUseless`, `CaughtFamilyIsDead`, `ReuseIsCaught` |
| `token_family` | 2 requests, 2 tokens, no clock | `TheftForcesRelogin` is violated: see below |
| `login_races` | 3 requests, lock at 2 failures for 2 ticks, 2 lost locks, clock to 5 | `GuessesAreBounded`, `NoSessionThroughLock` |
| `account_sign_ins` | 2 requests, 2 accounts, 2 addresses, 2 identities | `OneAccountEach`, `EveryAccountHasAWayIn`, `ClosedAccountsStayShut`, `IdentityStaysPut` |
| `files_stores` | 3 requests, 2 files, 2 tenants | `RowHasObject`, `OrphansComeFromFailures`; `Files` implements `StoredFile`; `RemovedObjectsGo`, a liveness property |
| `tenant_isolation` | 2 callers, 2 tenants, 3 rows, the 15 operations the extension lists | `Isolation` |
| `site_audit` | the fetch: 3 files, 1 redirect, a timer of 1 tick, a resolver's limit of 2, a cap of 1 on bodies of up to 2, one public and one private address, with the guard and without; the report: every `robots.txt` of up to 4 lines, every length at and beside a limit | `ConnectsWhereApproved`, `FetchIsBounded`, `EveryAgentItsRules`, `AdviceHelps`; `FetchEnds` and `ReportsRunDry`, liveness properties |
| `service_starts` | 2 replicas, each of 6 settings | `ReadyWorksItsQueues`, `ListeningIsWhole`, `FiresHaveAQueue`, `RegisteredAfterStart`; `AllServeInTheEnd`, a liveness property |
| `clients` | a list of 4 rows in pages of 1, sorted by `createdAt`, the site's URL, a status that changes, or a column that is not allowed; 2 notifications, 2 users, 3 requests, clock to 3; 6 kinds of route | `TypesOK`, `EveryRowOnce`, `CountedOnce`, `FirstReadStays`, `OneAnswer`; `EveryRequestIsAnswered`, a liveness property |

Why these bounds are enough to meet the interesting cases. Almost every hazard listed needs at most two processes on one row, plus a third to change the world between their steps.

* In `audit_races` a handler, a second handler through a redelivery and a reaper meet on one audit while the other audit keeps the reaper's list non-trivial, and the clock lets a row become stale, be claimed, become stale again and be purged. In `audit_status`, which has no redelivery, two sweeps hold the same row on their lists, and one of them may die between settling it and telling its user.
* Three tokens are a login, its successor and a second login or successor; two requests are the race. A lifetime of one tick and no grace let the cleanup take spent and expired tokens within the clock. `MaxLost` and `MaxTime` of `LoginLockout` allow two locks one after the other and two lost ones.
* Two accounts, addresses and identities are what a race on a unique index, an identity that changes its address and a link that displaces another need; a request ends and its place is taken by the next, so histories are long although only two overlap.
* Three requests are an upload that failed, and a download and two removals that overlap on one file.
* In `tenant_isolation` three rows are one of each tenant's and one that is not there yet.
* A file of four lines can name an agent, give it a rule, name another and return to the first; two bots and one other agent, beside `*`, can share groups. The lengths are the limits of the checks and their neighbours, so that a page rendered on the server may stay under the limit of `client-rendering`. One redirect is the difference between a hop that may redirect and one that may not.
* The six settings are a production and a development, and production with the fetch guard off, with open origins, with an invalid setting and with half of the storage configured. Two replicas are the race for the bucket and for the schema.
* Pages of one make every row but the last a cursor, and four rows let one be inserted, another deleted and a third moved in a walk.

The runs use symmetry over processes, and over audits of one tenant, accounts and identities, where no temporal property is checked; the refinement and liveness runs use none.

### Where the code and its words differ

`token_family` checks one sentence of the repository and finds it violated. `token.service.ts:48` says that on reuse the whole family is revoked and a login forced; a rotation between its claim and its insert stores a live successor after the revocation, and the session goes on. What does hold is `CaughtFamilyIsDead`: the tokens that existed then stay dead.

Modelling met more disagreements of the same kind. They are visible in the modules, and the properties above are stated so as to be true beside them:

* `docs/security.md:63` caps a tenant at 5 audits in flight. Overlapping requests all pass the count; the code calls the cap soft, and `SoftCap` says how soft: by the overlap.
* `audits.service.ts:73` speaks of an orphan no worker will ever pick up. If `send` stored the job and still threw, a worker has the audit while the catch fails it by its id alone, and its user may have been told of a completion before. `NotificationMatchesStatus` and `AuditLifecycle` allow this one case and no other.
* `token.service.ts:70`: a benign retry does not trip reuse detection. It does when its lookup comes after the first request's claim; only a lookup before it ends in a plain 401.
* `auth.service.ts:102`: a successful login clears the failures. Not those counted after it read the account, if there were none before. ADR 0003 (`docs/adr/0003-auth-token-strategy.md:23`) says an account is locked for `LOGIN_LOCK_MINUTES`; a login let in before the lock, with a failure on the account it read, clears it.
* `prisma/schema.prisma:86` says the provider's id "lets us recognise a returning user". When a second identity with the address of the first signs in, the upsert of the link overwrites it; the first identity, coming back with another address, gets a new account. `IdentityStaysPut` excepts identities displaced in this way.
* `docs/security.md:79`: one tenant can never see or modify another's data. `createManyAndReturn` and `updateManyAndReturn` are in none of the extension's lists and pass unscoped. No service uses them, and `Isolation` is checked and proved for callers that use the listed operations.
* `files.service.ts:95-97` says a row without its object "would 500 on the next download"; since lines 85-88 catch that case, it answers 404.
* `pagination.ts:13` calls cursors resilient to deletes. A walk ends early when its cursor's row is deleted, and passes over a row when the cursor's notification is read and leaves the unread list, as `skip: 1` then drops the row after it. `EveryRowOnce` is stated of walks whose cursors stay in place.
* `docs/api.md:40`: the answer of mark-read may show the notification unread when another call was faster, since it is the row found before.
* `crawler-access.check.ts:54-55` judges a bot by its group; a group without rules leaves no trace in the parser, and its bot falls under `*`. For the same reason deleting a bot's group, as the recommendation offers, can leave the bot blocked. `ReportsRunDry` therefore has the owner take out the rules rather than the groups.
* `env.validation.ts:108-111` has a misconfigured deployment fail "instead of booting into a half-working state". Storage with some of its four settings and not the others boots: `storage.service.ts:40-56` takes it for not configured, warns, and the routes of files answer 503. `ListeningIsWhole` promises the bucket to a deployment with all four only.
* `client-rendering.check.ts:48-49` recommends rendering on the server and names no length. A page rendered on the server with less than 200 characters and one script stays flagged, whatever its owner does about rendering. `ReportsRunDry` therefore excepts this finding, and `AdviceHelps` asks of this recommendation only that it spoils nothing.
* `docs/frontend-integration.md:115-117` says Google sign-in is registered only with `GOOGLE_POST_LOGIN_REDIRECT` set. `auth.module.ts` does not ask for it.
* `auth.controller.ts:72-73` promises a redirect on any failure of the callback. A timeout answers it with the JSON error of the filter. And `timeout.interceptor.ts:13-15` bounds a request's time, but guards run before interceptors, so the exchange with Google is outside of it; `EveryRequestIsAnswered` excepts that one guard.
* `docs/security.md:52-56` and ADR 0010 (lines 45-47) still list DNS rebinding as open, while `page-fetcher.ts` pins the checked address. `ConnectsWhereApproved` shows that the pin closes it.

### Fairness

Each liveness property assumes only what the code or its platform does by itself.

| Run | Assumed | Not assumed |
|---|---|---|
| `audit_status` | time passes; a scheduled reaper starts when there is something to reap (pg-boss fires it every five minutes, `geo-audit.worker.ts:53`), and goes on: `WF` for `Tick`, `ReapScan`, `ReapNotify`; it does not die at the same row for ever: `SF` for `ReapRow` of each | anything of requests, handlers, the queue and the retention sweep, which may stop for ever at any await |
| `files_stores` | a request goes on while its calls succeed: `WF` for its `Proceed` | that calls succeed: a removal that failed is excepted by the property |
| `site_audit` | the process's timers, the resolver's limit and the clock: `WF` for `Abort`, `LookupFails`, `Further`, `Tick`; of the owner, that every recommendation but that of rendering is followed some time | that a server or a name server ever answers |
| `service_starts` | a process runs its own code, and the platform restarts it: `WF` for `Step` and `Restart`; the property is about runs that become calm | that outages, crashes or signals end |
| `clients` | the process's guards and its timer: `WF` for `Throttle`, `JwtAuth`, `NoGuard` and for `Timeout` | that a handler, or Google, ever comes back |

Without strong fairness `OverdueAuditsSettle` fails, as a reaper may die at each start.

## What is proved

The theorems hold for every value of the constants that satisfies the assumptions named in the modules: `ConstantsOK` and its like (types of the constants), and, where sets are counted, that the audits, the requests or the notifications are finite (`FinitelyManyAudits`, and a part of `ConstantsOK` in `LoginLockout` and `Notifications`). Every safety property and action property of the runs is stated by a theorem. Type correctness is proved first, as a theorem of its own (`TypeCorrect`, `ClientTypes`) or, for the fetcher, with its bounds (`FetchKeepsToItsLimits`); most runs leave type invariants out, as they are proved.

**AuditPipeline_proofs.** None of the safety properties is inductive by itself: that a second notification is impossible follows from who may notify, which follows from who settled the row, which follows from who owns it. `IInv` says this: a process holds an audit exactly while it needs one (`HoldersInv`); the row's status fits the request (`RequestInv`); after its claim a handler is its audit's only one and the status is past PENDING (`OwnerInv`); a notification was made only of a settled row (`NotesInv`); whoever is about to notify found no notification and is alone in this (`HandlerTellsInv`, `ReaperTellsInv`, `SoleTellerInv`); a sweep's cutoff is no later than its window (`CutoffInv`). `Ownership` proves it, and `NotifiedOnce`, `ClaimExcludes`, `ErrorsLeaveFailed` and `ReapsOnlyStale` follow.

`OutcomesAgree` needs `OutcomeInv` beside it: whoever is about to tell an outcome, and whoever was told one, has it from the row, unless the row's request errored and failed it since. A settled row stands against every guarded write (`SettledRowsStand`), so only the catch of `create` can break the agreement, and it leaves the request errored.

`PipelineImplementsLifecycle`: each action maps to a step of `AuditLifecycle` or to none. The work is in `owed`: a handler or a reaper that starts or stops owing changes it for its audit only, because it is the sole teller. The write of the catch is `Err`, over any status.

`CapIsSoftByOverlap` stands on an invariant of its own. It counts the requests past the cap together with the rows in flight: their sum is at most the cap plus the overlap less one; the insert moves one from one side to the other.

**RefreshTokens_proofs.** `IInv` says that the root of a drawn token is drawn, so that a login's fresh token starts a session of its own (`DrawnInv`), that a session has one live token or one rotation under way (`SessionNeverForks` is inductive with this), that what was caught is drawn and not live, that a late token's owner is deleted, and that the cleanup forgot only the expired and those past their grace. `NoFork`, `LateTokensDie`, `CaughtStayDead` and `ReuseCaught` follow.

**LoginLockout_proofs.** `GuessesBounded` counts the requests about to lock with the cardinality theorems of the library; `LockHolds` rests on `OvertakenInv`.

**Accounts_proofs.** `OneAccount`, `AlwaysAWayIn`, `ClosedStayShut` and `IdentitiesStayPut`. The first two are inductive with the unique indexes in the guards. The others need to know what a request has read: what it carries from call to call (`Carries`); that past the check of the account, and before that of its workspace, only the workspace can have been shut when it began (`ShutApart`); and that an identity it found linked is still linked unless displaced (`LinkHeld`).

**Files_proofs.** `RowsLeadToBytes`, `OrphansExplained`, and `Implementation`, the refinement of `StoredFile`. The invariant says that a key is drawn by one upload (`OneUpload`), that a file with a row has an owner and its bytes go after its row (`StoresApart`), and what each request standing before a call knows of its file: nothing stored before `put`, an object and no row before `insert`, a row of its own workspace before `get` and `deleteRow`, a deleted row before `deleteObject` (`Knows`).

**TenantScope_proofs.** `TenantsAreIsolated`, under the one assumption that callers use the operations the extension lists (`Operations \subseteq Listed`). The invariant is `Isolation` with `Bound`: the context of a caller is the tenant it acts for, however many callers overlap. The rest is an argument over the branches of `scopeArgs`.

**Service_proofs**, of `ServiceLifecycle`. What a replica has follows from the stage it is in and from the calls its two bootstrap hooks have made, so `IInv` says for each process what each stage implies: before its start and after its end it holds nothing, and a started `JobsService` has a boss that runs (`StageInv`); past `validateEnv` the settings are valid, and a storage that came up has its bucket (`SettingsInv`); a queue whose worker a hook has registered is in the database for good, and worked by the process until its boss stops, and so is a schedule once stored (`RegisteredInv`). `ReadyMeansWorking`, `ListeningMeansWhole`, `SchedulesHaveQueues` and `RegistersOnlyAfterStart` follow, the third because in `Plan` the schedule of a queue comes right after its worker. An action of one process leaves the others as they are (`OneMoves`), so each step is looked at for one process.

**Service_proofs**, of `Clients`. `AnsweredOnce` needs that headers are out exactly when an answer was counted, and that whoever still listens to a handler has not been answered (`ExchangeInv`). `NoteCountedOnce` and `FirstTimeStays` need what each request knows: a time it shows is the row's (`ReadingInv`); the count of a user is then the cardinality of the rows that user has read, and a guarded update adds to both the same rows. `ScanShowsOnce` needs the most: that a walk whose cursor stayed in place has shown, of the rows that stay, exactly those not after the cursor (`ScanInv`). That one page carries this on rests on lemmas about the order: the orderBy with its tiebreaker is a strict total order; a finite set has a listing in this order, so that the `CHOOSE` of `InOrder` finds one; a prefix of the listing is closed downwards; and the last item of a page that has a next one is not among those still to show. The lemmas hold for any columns, any limit and any number of rows.

**SiteAudit_proofs**, of the fetcher. `PinnedIsApproved` is inductive with what was pinned: with the guard, a hop that requests has a pinned address, and it was approved. `FetchKeepsToItsLimits` is about a sum that no variable holds: each hop has its own timer, and the clock counts them all. `FetchInv` bounds the time by what targets have used of their rounds, a round being `MaxRedirects + 1` hops: until the two further files begin, by what the homepage has used (`Used`); from then on, by one round and what each file that still runs has used. A redirect starts a new hop and never lowers what is used; a tick adds one to the clock and one to each target that runs, as a target that is due would stop the clock first; and while the fetch has not ended some target runs.

**SiteAudit_proofs**, of the report. `AgentsHaveTheirRules` compares two readings of a `robots.txt` of any length, the parser's recursion and the lines taken by position (`Says`). `SawIs` and `PendingIs` prove what the two loop variables are after `n` lines in closed form, for every `n`; `CollectedAt` that before a rule this is what the words say. `AdviceClears` takes the recommendations one by one: each of `OnPage` clears its own finding, down to `LlmsTxtClears`, and every one leaves what the other checks look at (`FindingsKept`); for structured data, `AdvisedVisits` shows that the walk reaches the Organization in each advised shape.

The library's induction theorems take an operator as a parameter, which the installed provers cannot instantiate. Where induction is needed the proofs take the least counterexample instead: `Least` gets a least member of a set of numbers from the well-foundedness of `<`, and a function defined by recursion is shown to equal its closed form because there is no first place where a function with the same equations could differ from it.

### What the proofs showed about the model

* `CountedOnce` needs finitely many notifications, and the clock of `Notifications` must have a first tick, as time 0 stands for unread. Both are assumptions now.
* The type invariant of `ServiceLifecycle` bounded the calls of each hook but did not say that `call` is a function, without which no update of it can be reasoned about.
* `FetchInv` is not inductive without the guard's setting as part of the state: what is pinned means something with the guard only. `allowPrivate` is a variable that no step changes.

### What is only model-checked

The six liveness properties (`OverdueAuditsSettle`, `RemovedObjectsGo`, `FetchEnds`, `ReportsRunDry`, `AllServeInTheEnd`, `EveryRequestIsAnswered`), since the prover handles neither fairness nor `ENABLED`; and the violation of `TheftForcesRelogin`, which is a counterexample.

## What is not modelled

* **Text.** The parsing of addresses, URLs and HTML, names, messages, logs. Addresses, texts and lines are members of small sets.
* **The libraries.** Prisma, pg-boss, Passport, argon2, JWT signatures, multer and the throttler appear by what the code relies on. Of the rate limiter, only that it may refuse a request and that a tenant's overlap is bounded (`Burst`): it counts per address and per process, so `Burst` is a parameter and not a number.
* **What writes no state another part reads.** The audit log, whose failures are swallowed; logging, tracing, error reporting; `updateProfile`, which writes a `displayName` only shown; the API's documentation.
* **Validation of payloads**, body limits and headers, which are settings of libraries; each setting's own format, which is one Boolean of `env`.
* **Streams.** A download's bytes, once its stream is open.
* **A signal during the start**, which is Nest's to handle.
* **Clock skew** between replicas.
* **Nested relations and free-text search** in queries.
