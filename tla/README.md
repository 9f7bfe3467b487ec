# OpsHub: TLA+ models of the outbox relay, the request engine and the services around them

This directory holds a verification development of OpsHub: TLA+ modules
translated from the code, TLC configurations that check them on small
instances, and TLAPS proofs that hold for every instance. Paths below are
relative to the repository.

## 1. The system

OpsHub is a NestJS API (`apps/api`), a worker (`apps/worker`), and a web client
(`apps/web`) over Postgres and Valkey. The domain code is in `libs/modules`, what
the modules share is in `libs/platform`. Most modules are one-row reads and
writes behind a permission; the behaviour that is hard to get right is in the
parts that several processes share.

| Component | State | Operations | Interacts with | What makes it correct |
|---|---|---|---|---|
| Outbox relay (`libs/platform/src/outbox/abstract-outbox-relay.ts`) | outbox rows (status, attempts, lease token, lease expiry, due time); per process: the batch in hand | claim (reap, select, lease), renew, deliver, finish / fail / defer | every module enqueues into it; email, notification, webhook and Graph relays extend it | settled once, bounded deliveries, terminal rows final, nothing pending for ever |
| Relay passes (same file, `outbox-wake.service.ts`) | two promises per process, `inFlight` and `queued` | `relay()` from the cron and from NOTIFY | starts the passes of the relay | one pass at a time; a caller gets a pass that starts after its call; passes keep starting |
| Request engine (`libs/platform/src/requests/request-engine.service.ts`) | request items, approvals | submit, approve, reject, cancel, expire | hooks of the type definitions in the engine's transaction; notifications and webhooks enqueued in it; delegation; permissions | one outcome, the whole chain approved, authority of each decision, request and domain row agree, every request closes |
| Type definitions (`*.type-def.ts`) | leave, WFH, overtime, attendance, access, offboarding ... rows | onApprove, onReject, onCancel, onExpire, onStepApproved | called by the engine | the domain row follows the request |
| Delegation (`libs/platform/src/authz/delegation.service.ts`) | delegations with a window | create, revoke, findActiveDelegationTo | read by the engine | authority is lent, separation of duties stays |
| Workforce services (`libs/modules/workforce`) | leave, WFH, justification rows, balances, month close | file in three transactions, review, cancel, close and reopen a month | own the domain rows, file with the engine; hooks of the engine write them back | no double booking, no overdraft, a closed month at rest, a decision stands |
| Access requests (`libs/modules/access-requests`) | requests, grants | submit in three transactions, approve, reject, revoke | the engine's hooks issue grants, offboarding revokes them | one grant for a request, nothing left to a leaver |
| Notifications and email (`libs/modules/notifications`) | two outboxes, preferences | settle a notification, cascade to email | extends the relay | each notification shown once, the email not lost |
| Webhooks (`libs/modules/webhooks`) | deliveries, subscriptions | fan-out, expiry by age, retry | extends the relay | a failed delivery stays failed, every delivery ends, a retry is attempted |
| Graph tasks (`libs/modules/graph`) | task outbox in order of its sequence | enqueue with a change of status, claim in order per employee, reconcile | extends the relay; calls Entra | the account follows the status, one call at a time, every task ends |
| Authorization (`libs/platform/src/auth/authz.service.ts`) | roles, assignments, `employees.roles`, a shared cache | resolve, invalidate, the administration of roles, offboarding | used everywhere | a revoked permission stops counting, what is derived is corrected |
| Idempotency (`libs/platform/src/http/idempotency.interceptor.ts`) | stored answers and locks in Valkey | intercept | in front of every mutation | a retried request runs once, an answer is replayed to its own request, a lock is freed |
| File storage (`libs/platform/src/storage`) | rows, links, objects in S3 | presign, PUT, confirm, remove, orphan sweep | attachments of every module | a completed file is there, the quota holds, no object outlives its row |
| Scheduled jobs (`apps/worker/src/cron`) | none of their own | expiry, SLA, retention, contract and review sweeps | under `ExclusiveJob` | a sweep changes what it meant to |
| Record-keeping modules (documents, contracts, ISMS, QMS, training, performance, assets, ...) | one table or a few each | CRUD and status changes | request engine, audit | status machines |

The hard behaviours: workers that die or outlive their lease while another
takes their row; commits whose answer is lost; state read before a transaction
and used in it; two doors to one row; a promise chained to one that rejects;
authority that changes while a decision is in flight. `PROJECT.json` lists them
one by one under `hazards`, each with its line.

## 2. The modules

### OutboxRelay

One table and several relays. The table variables are the columns the base class
leases by; `hold` and `dueIn` are `locked_until` and `scheduled_at` minus the
database's clock, since the code compares both with `now()` only. The memory of a
relay (`pc`, `hand`, `tok`, `att`, `outcome`, `wedged`) is what a process loses when it
dies. `deliveries`, `refunds`, `accepted` and `settled` are history.

| Action | Code |
|---|---|
| `Enqueue` | a scheduler's insert, seen when the caller's transaction commits |
| `Claim` (`ClaimRows`, `StampLeases`) | `claim`: `reapAbandoned`, `beforeSelect`, `selectDue`, `stampLeases`, one transaction |
| `ClaimThrows` | the claim rejects while another pass is queued: `relay()` of this process starts no pass any more (finding 3), until the process is restarted (`Crash`) |
| `RenewLease`, `RenewLost`, `RenewError` | the three outcomes of `renewLease` in `handle` |
| `DeliverReturns` | `deliver` resolves, or throws one of the four kinds of error `fail` tells apart |
| `Finish` | the fenced transaction: `settle` + `markSent`, or `markFailed`, or `refundAttempt` + `markFailed`, then `releaseLease` |
| `FinishLost` | `holdsLease` finds no row: nothing is written |
| `FinishError`, `FinishUnacknowledged` | the transaction throws with nothing, or with everything, committed; after a success `handle` goes on to `fail` |
| `Crash`, `Tick` | the process dies; the clock advances |

The reaper and the selection share the claim's transaction, so both are one
step. `FOR UPDATE SKIP LOCKED` can pass over a row whose lapsed holder is inside
its own transaction at that moment: `MaybeLocked` lets a claim skip such rows.
Lease tokens are random and do not repeat: a claim takes one that no row carries
and no relay remembers. `selectDue` is the one of the email relay; the other
relays restrict it further, which `ClaimRows` takes as a parameter. A pass may
claim up to fifty batches and a claim may find nothing; the model has no limit
because the next pass goes on where the last one stopped. `settle`'s
post-commit task (the SSE push) is not modelled.

### OutboxContract

What the callers rely on, without leases, attempts or clocks: a row is accepted
by the outside at least once before it is sent, its writes are settled with it,
once, and both ends are final. `OutboxRelay` implements it with the identity
as refinement mapping on `status`, `accepted` and `settled`.

### RelayPass

The two promise fields of one process. A promise made by `runOnce()` has a pass
behind it; a promise made by `inFlight.then(...)` waits, then starts a pass or
passes a rejection on. `EndPass` includes the `finally` block of `runOncePass`,
because nothing runs between it and the settling of the promise. Promise names
are used again once nothing refers to them, so three are enough for any history.

### RequestEngine

A call has three moments: `Read` (getOrFail and the status check), `Authorize*`
(delegation, separation of duties, permission, assignee) and `Commit*` (the
transaction, hooks and notifications included). The transaction updates the
request row first, so two transactions on one request serialize and each is one
step. `Authorize*` takes the several awaited reads of the checks as one moment:
what they read (permissions, delegations, employee status) is changed only by
`Delegate`, `EndDelegation` and `Offboard`. `ReadToExpire` takes the sweep's
`findExpired` and `expire`'s own read as one moment, the later one. `Fail`
stands for every refusal, for a hook that throws (a closed month, for example)
and for a lost connection: nothing is written.

Kinds: `leave` (unassigned, guarded hooks), `wfh` (assigned to the manager,
guarded hooks; attendance justification is written alike), `overtime`
(unassigned, hooks without a guard, no onCancel) and `access` (two steps, hooks
without a guard, no onCancel, a grant on approval). Notifications are kept by
their idempotency key, so they are sets. Permissions are read as they are; the
cache in front of them is in `AuthzCache`. Writes that the services of the types make
past the engine (the path for rows without a request) are in `LeaveDesk` and
`AccessGrants`.

### The services: MCServices

Seven modules model parts that share no state with each other. `MCServices`
extends them all. A variable `focus` selects the one that a behaviour moves, so
the states of the run are the sum of theirs and not the product; every property
speaks of one service. Variables whose comment begins with "history" record what
the properties need to name an exception; no guard reads them.

**Idempotency** is one key of one caller and the HTTP requests that carry it.
`intercept` has the moments `LookUp` (or `Replay`, with the fingerprint check),
`AcquireLock` or `RefuseInFlight`, `HandlerSucceeds` or `HandlerFails`, `Store`,
`Release`. The store and the release are sent in this order and not awaited, so
they are steps of their own. A pod may die, a command may fail, and the cache
may be down (`Bypass`), in which case the interceptor lets the request through.
`LockExpires` is the time to live of the lock. The stored answer
does not expire: its time to live is a day, far longer than any retry.

**AuthzCache** is one permission. `ReadGrants` and `Fill` are the two halves of
`AuthzService.resolve`. An administrative call (`AssignRole`,
`RevokeAssignment`, `PlanSync` and `SyncUserRoles`, `SetRolePermissions`,
`DeleteRole`, and `OffboardPrincipal` of the offboarding type) commits and then,
user by user, reads and writes `employees.roles` and drops the cache entry, in
the order of each method; it may die anywhere. Ages are counted in ticks up to
the bound after which nothing more can change.

**WebhookRelay** is one subscription. `ClaimHooks` is the transaction of a
claim: reap, expire at most `ExpirePerClaim`, select from an active
subscription, stamp. `OutboxRelay` has the leases in full; here a relay holds one
delivery at a time, and a back-off is the time in which no claim picks the
delivery. `RetryDelivery`, `SetActive`, `DeleteSubscription` and `Fanout` are
the calls of the service.

**GraphAccounts** is one employee, the tasks queued for them and the Entra
account. `updateStatus` reads the employee (`ReadEmployee`) and decides from that
read whether its transaction queues a task (`NeedsTask`): entering or leaving
`offboarded` does (`UpdateWithTask`), going between `active` and `on_leave` does
not (`UpdateWithoutTask`), and the update is by id whatever the status is by then.
The approvals of an offboarding and of an onboarding queue a task too. A
task is inserted with the employee's row locked if the status changes
(`EnqueueTask`) and seen, with the status, when the transaction commits
(`CommitTask`). `ClaimTask` respects the order per employee and claims nothing
while Graph is not configured (`graphOn`, `ConfigureGraph`); a claim that is made
then still dead-letters what was abandoned (`ReapTasks`). The employee has an
Entra object id: for one that has none a task is sent and nothing is done. `RenewAndRead`, `RereadStatus`, `BeginCall`, `EndCall` and
`FinishTask` are `reconcile`. A lease is fresh while one more call fits into it,
then short, then lapsed. That `GRAPH_CALL_TIMEOUT_MS` ends a call before
a lease that was fresh at its beginning has lapsed is the assumption
`LeaseRuns` makes, and the code makes it too. A call may land and still report
an error.

**StoredFiles** is the files of one entity. A confirmation is `VerifyUpload`
(or `RefuseMismatch`), `CompleteUpload`, `FindsRoom` or `FindsNoRoom`, `Link`: no
transaction spans them. A removal is `Unlink`, `DeleteUnlinked` and an S3
command that succeeds or fails. The sweep selects, deletes the objects, and marks
the rows in three steps. `old` takes the expiry of the upload URL and the cutoff
of the sweep, which comes later, as one moment.

**LeaveDesk** is what one employee files for one month: leave, WFH and
justifications. Filing has five moments (`CheckMonth`, `CheckBalance`,
`InsertAsk`, `SubmitAsk`, `LinkAsk`). `EngineBegins` and `EngineCommits` are the
engine's transaction, which holds the item and the lock of the month; between
them lies what a hook read. `ReadRow` and `WriteRow` are a service call that
found no request id and writes the row itself. `CloseMonth` takes the lock of
the month. Who may decide is in `RequestEngine`.

**AccessGrants** is the access requests of one employee: submission in three
writes, decisions that read the item and later write it by id, hooks that do not
look at the row, grants that end by revocation or time, and offboarding.

## 3. What the runs show

| Run | Instance | Result |
|---|---|---|
| `outbox_safety` | 2 rows, 2 workers, 2 attempts, batches of 2, lease 1 tick, 1 deferral per row | 472,608 states (up to symmetry); type invariant, settled once, deliveries paid, snapshot current, terminal rows final, implements the contract |
| `outbox_timely` | 3 rows, batches of 2, lease 2, every row handled within its lease | 123,558 states; no worker loses a row it has still to handle |
| `outbox_liveness` | 1 row, 2 workers, 3 attempts, lease 2 | 51,064 states; every row ends, or all processes are wedged at once |
| `relay_passes` | cron and two wake-ups, passes end and throw | 15,297 states; one pass at a time, a caller awaits a pass of its own or a later one, all calls served unless a pass threw |
| `relay_wedge` | cron and one wake-up | violated, see below |
| `request_safety` | one request of any of the four kinds, 2 calls, the sweep, 3 users, delegations and leavers | 1,687,516 states (up to symmetry); every property holds |
| `request_liveness` | leave or access, 2 calls, the sweep | 95,329 states; every request closes |
| `request_expire_race` | leave, 1 call, the sweep | violated, see below |
| `request_self_decision` | leave, the requester has a delegation | violated, see below |
| `services` | seven services, one at a time; sizes below | 911,743 states (up to symmetry); every property holds |
| `services_liveness` | idempotency, webhooks, account tasks, leave; pods die anywhere | 65,467 states; a key is freed, every delivery and leave request ends, and so does every task while Graph stays on |
| `webhook_retry` | 1 delivery, 2 relays, 2 attempts, 1 manual retry | violated, see below |

What `services` shows, service by service:

| Service | Sizes | Properties |
|---|---|---|
| Idempotency | 3 copies, one of them with another body | `ReplayMeansDone`: a replay stands for work that was done, with this body. `RepeatedOnlyByOvertaken`: with a working cache the work is repeated only by a copy that looked before the answer was stored and asked for the lock after its release |
| AuthzCache | 1 user, 1 role, 2 administrative calls, 1 read, time to live 1 | `StaleAtMostTtl`: nothing lost longer ago than the time to live is granted. `QuietMeansFresh`: calls that do not overlap or die leave cache and `employees.roles` right |
| WebhookRelay | 2 deliveries, 2 relays, 2 attempts, 1 expiry per claim, 1 manual retry | `FailedIsFinal`: no late relay writes over a failed delivery |
| GraphAccounts | 2 tasks, 2 workers, 2 attempts, 1 edit to `on_leave` or `offboarded` beside the approvals | `AccountFollowsStatus`: once the task of the last change of status that has one is sent, the account is what the status says, unless an edit overwrote an offboarding it had not seen. `OneCallAtATime` |
| StoredFiles | 2 files, 2 calls, the sweep, quota 1 | `CompletedIsThere`, `AttachedStays`, `QuotaHeld`, `NothingLeftBehind`, each with the exceptions the code leaves open |
| LeaveDesk | 2 asks (two leaves, leave and WFH, WFH and justification), 2 clerks, 1 day | `NoDoubleBooking`, `DecisionStands`, `ClosedMonthIsQuiet`, `OverdrawnOnlyByRace` |
| AccessGrants | 1 request, 2 approvers, at most 2 grants | `OneGrantEach`, `LeaverKeepsNothing` |

The two workers, callers, clerks or approvers of a service are `a1` and `a2` in all
of them: one service moves at a time, so swapping the two names is a symmetry of
the run. Both runs have no deadlock check: a service whose requests have all ended has
nothing more to do.

**Bounds.** Two workers are what the fence is about (a holder and a
usurper), two rows are the least that makes a batch with a row waiting, and two
attempts the least that has both a retry and an exhausted budget. Four tokens let
each worker have a current one while rows still carry old ones. A lease of one
tick already lapses between any two steps; longer ones matter only to
`LeaseCoversWork` and have two ticks there. The proofs remove these bounds for
safety. For the engine, two calls and a sweep give every race of two people and
the cron on one request; requests do not share state, so one is enough. The
three users have every role: a requester who reviews and administers, a manager
who is assigned, and HR. `MaxDefers`, `Leavers` and `Delegable` bound the environment only. In the
services two callers and the sweep or the clock are the parties of each race;
three copies let one be overtaken while another holds the lock; one user and one
role are enough for the cache, whose entries are independent; the two tasks of
an employee are the earlier and the later of every question about order; a quota
and an allowance of one make the second file and the second day the ones too many.
`MaxTasks`, `MaxManualRetries`, `MaxIssued`, `MaxFill`, `Forms`, `Editors`, `Targets`
and `MayTurnOff` bound the environment. One edit and the approval of an offboarding
are the two parties of a crossing; the edit returns people from `offboarded` to
`on_leave`, which to the account is the same as `active`. Graph is off at first and
configured at any time; that it is taken away again matters to liveness and is in
`services_liveness`, where people change the status by approvals only. The
liveness run has one relay, one clerk and one attempt where the second adds only states.

**Fairness.** `OutboxRelay`: weak fairness of the clock, of each worker's
renewal, delivery and finish (each call has a timeout), and strong fairness of its
claim: the cron calls `relay()` for ever, and a process that is able to claim again
and again has one claim that does not throw. Nothing is assumed about crashes and about
errors after a claim, which may come every time: the budget is spent at claim time,
so the row still ends. Nor is it assumed that a process is ever restarted:
`ClaimThrows` may wedge one for good, and `EveryRowEnds` promises the end of a
row or a moment in which every process is wedged. The webhook and Graph relays
inherit that caveat. Their modules have no `ClaimThrows`; `EveryDeliveryEnds` and
`EveryTaskEnds` assume that some process is not wedged. `EveryTaskEnds` holds
while Graph is configured: without a credential the relay claims nothing and the
tasks wait, as `graph-task-relay.service.ts:69` says they should. `RelayPass`: weak fairness of the
callers (the cron calls again), of the end of a pass and of the promise
machinery, and strong fairness of a pass ending well (not every pass throws).
`RequestEngine`: weak fairness of the deadline and of the sweep's read, strong
fairness of its commit (not every transaction of the sweep is lost). People are
under no fairness: they need not decide. The services: a pod that lives goes on
with the request it has begun and a lock's time to live ends; time passes for leases
and ages, and the relays of webhooks and Graph work, since a cron starts them
every few seconds in every process; a filing that has inserted its row and does not die goes on, the
transactions of the engine end, and the expiry sweep comes again. Nothing is assumed of people or of
whether a call to the outside succeeds. `request_liveness` has no deadlock
check, since a closed request leaves nothing to do.

**Findings.** Numbers 1 to 4 are runs with an expected violation. In the
others the code departs from what a comment says, and the property of the
passing run states what holds all the same, with the departure as the only exception.

1. `request_expire_race`. `request-expiry.cron.ts:13` says that `expire()` is a
   no-op on a decided request. It reads the status outside its transaction, so a
   decision committed in between is overwritten: an approved leave becomes
   cancelled. `OneDecision` states what does hold: nothing *but* the sweep
   changes the outcome of a guarded type.
2. `request_self_decision`. `request-engine.types.ts:205` says that a requester
   cannot approve their own request. Separation of duties is judged on the
   delegator when the actor has a delegation, so a requester who is somebody's
   delegate passes it. `DecidedWithAuthority` states what does hold: no
   decision is made *for* the requester.
3. `relay_wedge`. A pass that throws with one queued behind it leaves a rejected
   promise in `inFlight` for ever: the relay of this process stops, and neither the cron
   nor a NOTIFY starts it again (`outbox-wake.service.ts:5` expects the next
   tick to recover). `ServedUnlessThrown` states what does hold, and
   `EveryRowEnds` what is left of liveness: rows end unless this has befallen every process.
4. `webhook_retry`. `retryDelivery` sets a failed delivery to pending and leaves its
   attempts and its age, so the next claim gives it up again without a POST.
5. Idempotency looks for the stored answer before it takes the lock and not
   again after: a retry may run the handler a second time
   (`RepeatedOnlyByOvertaken`; `idempotency.interceptor.ts:69`).
6. A permission read before a revocation may fill the cache after the
   invalidation and stays for the time to live, not for milliseconds
   (`StaleAtMostTtl`; `authz-admin.service.ts:51`).
7. `renewLease` revives a lapsed lease whose token is still on the row, although
   another task of the employee was leased meanwhile: two calls to Entra may
   overlap (`OneCallAtATime`; `graph-task.ts:47`). The account still ends up
   right (`AccountFollowsStatus` has no exception for it).
8. `updateStatus` takes `wasOffboarded` from a read before its transaction and
   updates by id. An edit that read `active`, sets `on_leave` and commits after an
   offboarding ends the offboarding without a task: the status is `on_leave` and
   the account stays off, with nothing queued (`AccountFollowsStatus`;
   `employee.service.ts:169`, against "the task exists if and only if the status
   change committed" at 190).
9. The quota of attachments is counted outside a transaction: two
   confirmations that count together both link (`QuotaHeld`;
   `entity-attachments.service.ts:105`).
10. A repeated confirmation of an attached file at a full quota deletes the file
   (`AttachedStays`; `entity-attachments.service.ts:169`).
11. The object of a refused upload, and one whose deletion failed, is never
    looked for again, since the sweep selects pending rows (`NothingLeftBehind`;
    `storage.service.ts:223`).
12. A leave row without its request id yet can be decided directly while its item
    is open, and the expiry of the item then cancels what was approved
    (`DecisionStands`; `workforce.service.ts:423`).
13. The month is checked outside the transaction that files or cancels
    directly, and not at all by the expiry (`ClosedMonthIsQuiet`;
    `attendance.service.ts:607`).
14. The leave balance is read outside the transaction of the insert
    (`OverdrawnOnlyByRace`; `leave-balance.service.ts:360`).
15. An access request approved before its request id is written gets a grant
    directly, and another one when its item is approved (`OneGrantEach`;
    `access-request.service.ts:184`).

## 4. What is proved

Every invariant and every action property that a passing run checks is also
proved, for every value of the constants; so is the refinement. Eight modules
hold the proofs. An assumption that a proof uses is an `ASSUME` of the module it
is about, and TLC evaluates it on every run.

| Module | Theorems (the property each states) | Inductive invariant |
|---|---|---|
| `OutboxRelayProofs` | `TypeCorrect`, `SettlesOnce`, `EveryDeliveryPaid`, `DeliveriesBounded` (from it: at most `MaxAttempts + MaxDefers` deliveries of a row), `SnapshotTrue`, `TerminalStaysFinal` (`TerminalIsFinal`), `Implementation` (`ImplementsContract`), `LeasesCoverWork` (`LeaseCoversWork`) | `IInv`, and `LeaseInv` next to it |
| `RelayPassProofs` | `PassesAlone` (`OnePassAtATime`), `CallersGetALaterPass` (`AwaitsLaterPass`) | `PassInv` |
| `RequestEngineProofs` | `EngineTypeCorrect`, `ChainIsComplete` (`EveryStepApproved`), `DecisionsAreEntitled` (`DecidedWithAuthority`), `RowsAgree` (`DomainAgrees`), `DecidedOnce` (`OneDecision`), `NobodyIsForgotten` (`SomebodyWasTold`) | `EngineInv`, and `Steadfast` for the last |
| `IdempotencyProofs` | `ReplaysAreTrue` (`ReplayMeansDone`), `RepetitionsBounded` (`RepeatedOnlyByOvertaken`) | `KeyInv` |
| `AuthzCacheProofs` | `AuthzTypeCorrect`, `StalenessIsBounded` (`StaleAtMostTtl`), `QuietCacheIsFresh` (`QuietMeansFresh`) | `StaleInv`, `FreshInv` |
| `StoredFilesProofs` | `FilesTypeCorrect`, `CompletedFilesAreThere`, `QuotaIsHeld`, `AttachmentsStay`, `ObjectsAreCollected` (`NothingLeftBehind`) | `FilesInv` |
| `FilingProofs` | of `LeaveDesk`: `DeskTypeCorrect`, `BookedOnce` (`NoDoubleBooking`), `DecisionsStand`, `ClosedMonthsAreQuiet`, `OverdraftsAreRaces` (`OverdrawnOnlyByRace`); of `AccessGrants`: `AccessTypeCorrect`, `GrantedOnce` (`OneGrantEach`), `LeaversHoldNothing` (`LeaverKeepsNothing`) | `DeskInv` and `BalanceHolds`; `AccessInv` |
| `ServicesProofs` | of `GraphAccounts`: `GraphTypeCorrect`, `AccountsFollow` (`AccountFollowsStatus`), `CallsAlone` (`OneCallAtATime`); of `WebhookRelay`: `WebhookTypeCorrect`, `FailedDeliveriesStay` (`FailedIsFinal`); of all seven: `ServicesKeepTheirSpecs`, `ServicesTypeCorrect` | `GraphInv`; `WebhookInv` |

**The outbox relay.** None of the properties is inductive alone. `SettledOnce`
needs that a row which is not pending carries no token (`TerminalReleased`), so
that whoever passes the fence finds it pending; `SnapshotCurrent` needs that no
two workers have the same token (`TokensApart`) and that an idle worker has none
(`PassShape`), so that a claim takes the token away from everybody else;
`DeliveriesPaid` needs that a worker which holds a row and has not begun to
deliver it has an attempt paid in advance (`PaidAhead`), which in turn needs the
snapshot, since a refund may only be made by the holder; the contract needs that a
success about to be recorded was seen (`SuccessSeen`), and the bound on refunds
`DeferralLeft`. `LeaseCoversWork` is arithmetic on top of that (`LeaseInv`): for
a row that waits, what is left of its lease plus the time spent on the current
row is at least as many leases as the worker has rows in hand. A tick moves one
unit from the first term to the second; when the next row's turn comes, less than one
lease was spent and the batch is one row shorter. Assumed: rows are a finite set
of naturals, workers a finite set, the bounds naturals, attempts, batch and
lease at least one.

**Relay passes.** A queued promise could start its pass beside the one in flight
if that one were fulfilled while the field still held it: `FieldsLive` says it
never is (the `finally` block replaces it first), `QueueBehind` that the queued
promise waits for exactly that one, `AwaitedIsServed` that a pass which starts
serves everybody who awaits it.

**The request engine.** A call decides from what it read before its transaction,
so what is true of a decision is first true of the memory of the call:
`CallShape` (the step that was read had been reached) and `CallEntitled` (what
the checks found justifies the record that will be written, whoever leaves
meanwhile). The latter needs `HoldsShrink` and `AssigneeFit`: permissions are
only lost, and an assignee lacks the permission only after leaving.
`NobodyIsForgotten` has a hypothesis of its own, an administrator who is not
among the leavers: without one the code has nobody to tell. The instance of
`request_safety` satisfies it (`alice`).

**Idempotency.** `HolderHasLock` makes the lock serialize the copies while the
cache works, `FirstRunsAlone` and `OvertakenCounted` make the count of
executions inductive: a copy that runs after the first has been counted as
overtaken before it runs.

**The permission cache.** `StaleAtMostTtl` is an argument about ages: what a
reader has read is no older than its fill (`ReadRecently`), what is cached no
older than its age and one fill (`CachedRecently`). `QuietMeansFresh` is one
about debts: as long as calls neither overlap nor die, the users whose entry or
`employees.roles` may be wrong are on the list of what the one call under way has
still to do (`CacheTrue`, `ClaimsTrue`).

**Stored files.** No transaction spans the row, the link and the object. What
holds them together is what a call or the sweep remembers: a confirmation has an
intact object before it unless it crossed a deletion (`VerifiedStays`), what the
sweep selected stays old (`SweepSound`), a count of attachments is right until
another file becomes one (`RoomTrue`). Assumed: finitely many files, since they are
counted.

**Leave and access.** `HookHolds` and `ReadHolds` say how far what a hook or a
direct call read is still so; `BalanceHolds` bounds the days of a filing that found
room. Assumed: finitely many asks. For access, `ForceWithinIssued` and
`Settled`: a request whose item was decided in order has had its one grant.

**Accounts and webhooks.** A run calls Entra only while its lease is good. So a
run that read an older status keeps every claim away, and the task of the
newer status is untouched (`Current`); once a worker holds that task, every run
that can still call agrees with the status, and what the holder has done stays
done (`Progress`). All that counts of a status is whether it is `offboarded`, so
an edit between `active` and `on_leave` disturbs nothing unless it overwrites an
offboarding; `overwritten` records that it did, and the next committed change with a
task ends the exception, whatever runs are under way (`WithoutTaskInv`,
`CommitInv`). TLC checked `GraphInv` on the instance of `services` before it was proved.
For webhooks `FailedUnheld`: the fence of a delivery that was given up is
nobody's.

**The services together.** `ServicesKeepTheirSpecs` shows that a behaviour of
`MCServices` is a behaviour of each of the seven services, so the theorems about
one hold of the specification that `services` and `services_liveness` check.

**Only model-checked.** Liveness (`EveryRowEnds`, `ServedUnlessThrown`,
`EveryRequestCloses`, `KeyIsFreed`, `EveryDeliveryEnds`, `EveryTaskEnds`,
`EveryAskEnds`): it rests on fairness and ENABLED, which are outside the prover.
The four violations are counterexamples, which TLC finds.

## 5. Plan

The modules of the plan exist and what their runs check of safety is proved.
Worth proving next: the safety half of the liveness properties, that a pending row,
delivery or task always has a way on (an attempt left, or the reaper's condition once its lease
lapses), and that `OutboxContract` is implemented by a claim with the hooks of any
subclass, which `StampLeasesInv` already allows.

Candidates for further modules: the offboarding of assets, the status machines of
documents and contracts, and the ingestion of door events.

## 6. Not modelled

The web client, identity and session handling (an external service decides),
rate limiting and resilience wrappers, the record-keeping modules (documents,
contracts, ISMS, QMS, training, performance, assets: rows that one call reads and
writes), the wording and layout of messages, audit entries (written in the
same transaction as what they record), metrics and logs. Of modelled parts: the
choice of channels when a notification is settled (sequential, in one
transaction), the SLA sweep (a mark and a notification), the scans and
synchronisations of Graph (they only read from it), the evaluation of permission scopes (a
function of what was read), timesheets, overtime entries and the attendance
report. `PROJECT.json` lists every component with its status.

The map covers a small part of the 137,000 lines of the repository, and will not
come near a third of them: most are the generated API client, the web client,
controllers and DTOs, configuration schemas, catalogues and one-row reads
and writes, in which there is no interleaving, order or failure to
check. The state that several processes share is in a few thousand lines,
and those are what the modules translate.
