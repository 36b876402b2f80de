# EarlyCV: a TLA+ verification project

EarlyCV is a NestJS API (`src/apps/api`) over Postgres (Prisma), with a
Next.js front end. A user uploads a CV, has it analysed and adapted to a job, and
pays for it in credits bought through Mercado Pago. Cron workers inside the API
process send e-mails, extract CVs and ingest jobs.

There is no queue server and no distributed lock service: every protocol of the
system is written in rows of Postgres, with `updateMany ... WHERE status = ...`,
row locks, unique keys, advisory locks and one home-made lock table. That is where
the errors that tests do not reach live: each statement is atomic, the sequences of
statements are not, and the process may die between any two of them. The modules
here model those sequences, one database statement or provider call per action.

All paths below are relative to `src/apps/api/src/` unless they start with `src/`.

- [1. Inventory](#1-inventory)
- [2. How the modules model the code](#2-how-the-modules-model-the-code)
- [3. Modules](#3-modules)
- [4. Runs](#4-runs)
- [5. What the code does not guarantee](#5-what-the-code-does-not-guarantee)
- [6. Proofs](#6-proofs)
- [7. Not modelled](#7-not-modelled)
- [8. Plan](#8-plan)

## 1. Inventory

`PROJECT.json` lists all 33 components with their files. Those with a protocol of
their own, in the order of what an error in them costs:

### Plan purchases and credits (`plans/`, `payments/`, part of `cv-adaptation/`)

*State.* `PlanPurchase` (status, credits, price, `mpPaymentId`, coupon),
`User.creditsRemaining`, `CvAdaptation.isUnlocked` with its `CvUnlock` row; the
payments themselves are at Mercado Pago.

*Operations.* `createCheckout`, `resumeCheckout`, `applyCheckoutCoupon`,
`submitBrickPayment`, `handleWebhook` (approval, failure, refund),
`reconcilePending` and the administrator's `reconcileOne`, `redeemWithCredit`,
`claimGuest`, `setCredits`.

*Interactions.* The provider calls the webhook at least once, in any order, and
concurrently with the request that created the payment; reconciliation asks the
provider; all of them end in `applyApprovedPurchaseInsideTransaction`, which
unlocks the CV the purchase was made for and enqueues a confirmation e-mail.

*Hard.* The status is read, the provider is called (seconds), and the status is
written by id. Approval, failure, refund and redemption race on the same balance.
The process may die between the provider's charge and the write of its answer.

*Correct if* a purchase is credited once and only for an approved payment; a refund
takes back what was granted, once; a CV costs one credit; settled purchases do not
reopen; an approved payment settles its purchase; an overdraft is bounded.

### Scheduler lock (`ingestion/ingestion-lock.repository.ts`)

*State.* One row of `IngestionSchedulerLock` per worker: owner, `expiresAt`.

*Operations.* `acquire` (read, then upsert), `release` (read, then delete).
*Interactions.* Every cron worker wraps its batch in it.
*Hard.* Neither write repeats the condition the read established; a TTL may pass
under a batch that is only slow; a process may die with the lock.
*Correct if* two batches overlap for known causes only, and a dead holder does not
stop the worker.

### Email dispatch (`email-dispatch/`)

*State.* `EmailDispatch` rows (status, attempts, `scheduledFor`, `expiresAt`,
`updatedAt`, `sentAt`), `EmailDispatchEvent` rows, the modes of the kinds (a setting).
*Operations.* Four enqueue paths, `processPendingBatch` (recover stale rows, expire,
list, and for each row claim, decide, send, write), `processSesEvent`.
*Interactions.* Scheduler lock; SES, whose answer may be lost and whose events come
through SNS, duplicated and in any order; rows of one user decide on one another
(welcome before feedback, one offer per cooldown).
*Hard.* Overlapping batches, a death after the provider took the e-mail, an event
that is faster than the answer, a recovery of a row whose batch is alive, decisions
on other rows' states read earlier.
*Correct if* the provider takes an e-mail at most once; a row has one life; attempts
are bounded; the feedback waits for the welcome; nothing stays open for ever.

### CV processing jobs (`cv-processing/`)

*State.* `CvProcessingJob` rows (status, attempts, `claimedAt`, `masterIntent`,
`resumeId`), `CvStructuredProfile`.
*Operations.* `enqueue` (advisory lock per text, reuse, upgrade), the kick after the
answer (`triggerProcessing`), `processPendingBatch` with `recoverStaleProcessing`,
`processJob` (extraction, promotion, READY), `markFailed` with its retry.
*Interactions.* Uploads, analyses, set-primary and claims enqueue; the promotion
writes the Master CV; the batch and the kicks compete for a job.
*Hard.* Late kicks, old lists, deaths at every statement, recovery by id of what may
still be alive, reuse of a job that asks for less.
*Correct if* a text has one open job and a job one worker; attempts are bounded; a
finished job stays so; every job ends; reuse keeps the stronger intention.

### Product update campaigns (`product-updates/`, `admin-product-updates/`)

*State.* `ProductUpdateCampaign` (status, content, `testSentAt`, snapshots),
`ProductUpdateDelivery` (status, attempts, `updatedAt`), `ProductUpdateEvent`.
*Operations.* The administration's edit, test, mark ready, start and cancel
(`product-updates.service.ts`); `processPendingBatch` and `completeIfDone`
(`product-update-sender.worker.ts`); `processSesEvent`.
*Interactions.* Requests, batch and events write the same rows; the provider may not
answer.
*Hard.* Every request but start reads, checks and writes by id; a delivery is taken by
id; a campaign is completed by a count made before; a cancel meets a batch in the middle
of a send.
*Correct if* each recipient gets one content, the tested one, at most once; the rows
say what happened; a cancel stops all but the message on its way; a campaign ends.

### Job life cycle and Google indexing queue (`jobs/`, `google-indexing/`)

*State.* The job's status and what makes it public; `GoogleIndexingQueueItem` (one pending
row per slug, type, priority, attempts, `nextAttemptAt`), `GoogleIndexingLog`, a daily
quota.
*Operations.* `closeJobs`, `activateJobs`, the end of an enrichment, the backfill, each
of which calls `enqueue`; `runOnce` (expire, pick within the quota, match, send, log,
finish or retry).
*Interactions.* A job changes, then the queue is looked at, then written by the id that
was read; the worker finishes rows meanwhile. The log decides what a removal is for.
*Hard.* An enqueue that overlaps a send; quota over midnight; priorities that starve.
*Correct if* the quota is kept; a removal does not expire behind new jobs; Google is told
that a job closed.

### Monitor digests (`monitor/`, `admin-monitor/`)

*State.* `MonitorDigest` (status, attempts, `updatedAt`, `outcomeUnknownAt`) with its
recommendations, the user's `emailEnabled`.
*Operations.* The scheduler's discovery and creation; the administration's
`sendDigestNow` and `resendDigest`; the worker (recover, list, send, record); the
events; the reconciler of unknown outcomes.
*Interactions.* Three locks for three crons, none for requests and events; all write
digests by id.
*Hard.* Who writes last; retries by three actors out of one budget; an opt-out while
digests wait; two writers choosing recommendations before either creates its digest.
*Correct if* sends are bounded and repeated only for a cause; an opt-out is respected; a
recommendation is announced twice only by choices that overlap; every digest comes to rest.

### Master CV (`cv-processing/cv-master-promotion.service.ts`, `resumes/`)

*State.* The active `CvMasterDesignation` of the user, `Resume.isMaster`, the `UserProfile`
derived from it; the intention and the resume a `CvProcessingJob` carries.
*Operations.* Of a resume: create, update, set-primary, remove; the start of an analysis;
the worker's `promoteAndProject`; the administration's `promoteResumeToMaster`.
*Interactions.* Requests enqueue a job and answer; what they asked for happens when the
worker has the extraction, and other requests have come and gone meanwhile.
*Hard.* A promotion decides on a designation another changes; a resume is deleted under its
job; a job serves several requests; two writers of `isMaster` know no designation.
*Correct if* the active designation names a resume that exists, with the text it is about, and
the profile follows it; "if first" never replaces; nothing is replaced unasked.

### Protocols planned, not modelled yet

| component | state | what is hard, and what makes it correct |
|---|---|---|
| CV analysis jobs (`cv-adaptation/cv-analysis.worker.ts`) | `CvAnalysisJob` | recovery has no limit of attempts. Correct if an analysis is not done twice and ends |
| Free coupons, affiliates (`plans/`, `admin-affiliates/`) | redemptions, limits | limits counted outside the lock |
| Analysis protection (`analysis-protection/`) | rate windows, dedupe cache | windows at their edges; two requests with one key |
| Ingestion and its policies (`ingestion/`) | runs, circuit breaker, stale policy | the manual runner's heartbeat renews a lock it may have lost; pure decisions at their boundaries |
| Mock interviews (`mock-interviews/`) | orders, slots | two orders for a slot |

### Components without a protocol of their own

Templates, settings and subscriptions of e-mails; e-mail providers and suppression
(their outcomes are choices of `EmailDispatch`); purchase confirmation recovery;
CV adaptation proper (prompts, parsing, documents); product update content;
monitor matching and preferences; job enrichment, jobs, applications; funnel and
observability; authentication; profiles edited by hand; payment recovery e-mails; CV
unlocks; companies and sources; persistence; the web application. Each is in
`PROJECT.json` with the reason.

`PROJECT.json` also lists the hazards: the lines where a step of one actor between two
of another, a death, a duplicate, a stale copy or a limit can do harm, and the
properties aimed at each.

## 2. How the modules model the code

**A statement is a step.** A Prisma call outside a transaction is one action: it reads
or writes atomically. A handler that makes several is a small program: its next
statement (`request[h].step`, `step[w]`, `step[p]`) and what it has read so far
(`seen`, `funds`, `todo`, `copy`, `found`) are state, and any other actor may act in
between. What the code works on after an `await` is that copy, never the row.

**Transactions.** Postgres runs at READ COMMITTED. An `updateMany` with the status in
its WHERE clause tests and writes atomically: the test is the action's guard. A
transaction is one action from the first row lock it takes until its commit when
nothing it reads in between can be changed by others; when it can (the refund reads
the user's balance under the lock of the purchase only), the read and the write are two
actions and the row lock is a guard of every other writer of the row (`RowLocked`). A
transaction that reads before it locks starts with the action that reads
(`LockForRefund`, `FindReusable`). The advisory lock of `enqueue` is the guard
`LockedBy`.

**Death.** `Crash(h)`, `Die(w)` and `CallerDies(c)` are possible between any two steps: the local copies
are gone, the open transaction is rolled back, the rows stay as they are. A batch
takes the lock under a fresh UUID, so the lock of a dead batch belongs to nobody
(`NoBatch`).

**Time.** Timestamps are not numbers but the comparisons the code makes with them:
`due`, `expired`, `stale`, `recent`, `live` hold the rows for which the comparison is
true now, and an action lets each become true. No relation between deadlines is
assumed, except where a constant of the code gives one: `MaxSlow`, `MaxMishaps` bound
how often a row goes stale under a process that lives (ten minutes in one row).

**Data.** Ids are model values; amounts are small numbers; an e-mail, a CV or a
provider's answer is the outcome the code tells apart. Logging, metrics, rendering and
the audit tables are left out.

**History variables** record what happened and change nothing in the database: `grants`,
`reversals`, `charges`, `calls`, `excused` are never read by an action; `accepted` is
the provider's memory, which its events and `NeverSentTwice` are about;
`fresh` is the age of what it took; `inbox`, `mailed`, `late` (campaigns), `told`, `lost`,
`expired` (indexing) and `accepted`, `left`, `late`, `resends` (digests) are what the
outside world saw; `apart` (Master CV) says that `isMaster` was written without the
designation; `overwritten` (purchases) and `raced` (campaigns) say that a row was written by id over
what its request had not read, `overlapped` (digests) that somebody else had chosen recommendations as
a digest was created. The counters of faults are read by their bounds.

**Bounds** are constants: `MaxCrashes`, `MaxLost`, `MaxDeaths`, `MaxFaults`, `MaxSlow`,
`MaxDropped`, `MaxMishaps`, `MaxUnusual`, `MaxAsks`, `MaxDays`, `MaxDigests`,
`MaxPeriods`, and the sizes of the sets. The proofs hold for every value of them. `MostCredits`
is no bound on the behavior but the largest number of credits an offer grants. One run has a CONSTRAINT
([Purchases](#purchases)).

Definitions with a comment `Mutant:` are variants of the definition that follows
them, as a plausible error would leave it. No specification uses them: they record,
property by property, an error that the property finds.

## 3. Modules

### PlanPurchases, CreditLedger, MCPlanPurchases

`purchase` is the `PlanPurchase` table, `balance` is `creditsRemaining`, `adaptation` is
`absent | locked | unlocked`, `payment` and `preferences` are Mercado Pago's side,
`notify` the notifications it has not had answered, `request` the requests in progress.

| actions | code |
|---|---|
| `CreateCheckoutPro`, `CreateCheckoutBrick` → `PublishBrick`, `ReuseCheckout`, `ResumeCheckout` | `plans.service.ts` `createCheckout`, `resumeCheckout` |
| `ApplyCheckoutCoupon` | `payments.service.ts` `applyCheckoutCoupon` |
| `SubmitBrickPayment` → `LockSubmission` → `ProviderCreates` or `ProviderUnreachable` → `AnswerBrick`; `AbortSubmission` | `submitBrickPayment`, with the network call in its middle |
| `ReceiveWebhook`, `StartReconcile…` → `LookUpPurchase` → `MarkFailed`, `LockForRefund` → `ReverseCredits`, or `ReadEligible` → `Approve` | `handleWebhook`, `handleRefundedPayment`, `reconcilePending`, `reconcileOne`, `applyApprovedPurchaseInsideTransaction` |
| `LoseWebhook` | the lookup of a payment that fails and is answered 200 |
| `RedeemWithCredit`, `ClaimGuest` → `SpendCredit` | the balance test, and the transaction after it |
| `SetCredits` | `admin-users.service.ts` `setCredits` |
| `PayPreference`, `PaymentChanges` (external) | the payer, and the provider's decisions |
| `Crash` | the process |

`CreditLedger` is what the component promises: `Grant`, `Reverse`, `Unlock`,
`SetCredits`, each at most once per purchase or CV, each with the change of balance it
is worth. `LedgerSpec` instantiates it with the history of `PlanPurchases`;
`PlanPurchases_proofs` proves it for Checkout Pro, and for both modes up to a write over what
was not seen.

Five statements write a status by id, whatever the row has become since the request read it:
the second write of a Brick checkout, the failed branch of the webhook, and in
`submitBrickPayment` its abort and its writes of a declined and of an open payment. They are `WriteById`; `Known` is the status the request takes the row to
have, and the history `overwritten` collects the purchases for which that was wrong. No action
reads it: it is what the properties say of the code's other steps that they would break without.

### SchedulerLock, LockOverlap

`lock` is the owner in the row, `live` says that it has not expired; `AcquireRead` →
`AcquireRefused` or `AcquireUpsert`, `ReleaseRead` → `ReleaseDelete` are the database
calls of `acquire` and `release`. `LockOverlap` adds the history `excused`: a TTL passed
under a batch, or two batches read before either wrote. `EmailDispatch` INSTANCEs
`SchedulerLock`, with its workers as the owners: its `StartBatch`, `TakeLock`, `EndBatch`,
`DropLock`, `Die` and `LockExpires` are steps of the lock.

### EmailDispatch, EmailContract, MCEmailDispatch

One variable per column of the rows; `phase` and `step` of each batch; `overdue`, `todo`,
`seen` what it listed, `row` and `plan` the row it holds and the branch it has taken.

| actions | code |
|---|---|
| `EnqueueRelationshipForVerifiedUser`, `EnqueuePurchaseConfirmation`, `CheckRecentOffer` → `EnqueueMockInterviewOffer`, `EnqueueSecondCall` | `email-dispatch.service.ts`, and the worker's own insert |
| `RecoverStaleProcessing`, `ExpireOverdue`, `ListDue`, `Claim` | `processPendingBatch`: `recoverStaleProcessing`, `expireOverdue`, the list, and each row's conditional update to PROCESSING |
| `Decide` → `Deliver` → `WriteStatus` or `RetryOrFail` | `processOne`: mode, eligibility, feedback deferral, cooldown; the provider's call; the write of its outcome |
| `SwitchModes` | the administration turns the last kind OFF, or a first one on: `enabled` is the gate of `processBatch` |
| `WriteThrows`, `BatchThrows`, `Die` | a statement that throws, in `processOne` and outside it; the process |
| `ReceiveEvent` → `RecordEvent` → `ApplyEvent`, `DropWebhook` | `processSesEvent` |
| `BecomesDue`, `Expires`, `GoesStale`, `GapElapses`, `LockExpires` | time |

`EmailContract` is the life of one e-mail: it waits, is processed, leaves at most once,
is never tried again once it may have left. `ContractSpec` maps `status` to its stages.

### CvProcessing, MCCvProcessing

`job` is the table, `stale` the claims older than the threshold, `step`, `holds` and
`copy` each process's next statement and what it read, `found` and `todo` the batch's
two lists.

| actions | code |
|---|---|
| `StartEnqueue`, `FindReusable` → `InsertJob` or `UpgradeJob` | `CvProcessingJobService.enqueue` under the advisory lock |
| `Kick` | `triggerProcessing` after the request's answer |
| `Claim` (in `Kick` and `NextJob`) | `tryClaim`'s `updateMany` |
| `Load`, `Extract`, `Promote`, `MarkReady`, `Throw` → `ReadAttempts` → `MarkFailed` | `processJob` and its catch; a promotion commits or throws, what it writes is in `MasterCv` |
| `StartBatch`, `FindStuck`, `RecoverStaleProcessing`, `ListPending`, `NextJob`, `EndBatch` | `processPendingBatch` |
| `GoesStale`, `Die` | time, the process |

One batch runs at a time here; `LockOverlap` says what it takes for two.

### ProductUpdates, Announcement, MCProductUpdates

`status`, `content`, `tested`, `snapshot` are the campaign, `delivery`, `attempts`, `stale`
its rows, `request` and `asked` each request's next statement and what it read. `raced` records the
first write by id (`WritesById`) over a campaign whose status or content is not what its request
read (`MovedOn`): `Announces` and `AtMostOneLateMail` hold up to there.

| actions | code |
|---|---|
| `AskEdit`, `AskTest`, `AskReady`, `AskStart`, `AskCancel` | `findOrThrow` and the checks on its answer, in each request of `product-updates.service.ts` |
| `Edit`, `MailTest` → `StampTest` or `MailTestFails`, `MarkReady`, `Start`, `Cancel` | what each writes, and when |
| `Tick`, `Recover`, `List`, `Take`, `Check` or `CheckStops`, `Send`, `Record` or `RecordThrows` | `processPendingBatch`, `recoverStaleProcessing`, `sendToDelivery` and the catch around it |
| `CompleteRead` → `CompleteCount` → `CompleteWrite` | `completeIfDone` |
| `HookReads` → `HookResolves` or `HookDies` | `processSesEvent` |
| `Die`, `GoesStale` | the process, ten minutes |

`Announcement` is the promise: a content is chosen only if it was tested, it reaches each
recipient whole (subject and body) and at most once, and after the end at most one message
still goes out. `Announces` maps a campaign to it.

### JobIndexing, MCJobIndexing

`active` and `shown` are what the code asks of a job, `queue` the pending rows by
`createdAt`, `known`, `latest`, `sent` what the log answers. A caller reads the job, writes its status by id,
looks at the queue and writes there: four statements, and it may die between any two. What was
read decides what is enqueued: a job read as closed is written (`step` is `quietly`) and nothing is
said of it. `Kept` is a query or an update
with its `where`: the rows it leaves or returns, in their order. An id is used again once no row
has it and nobody remembers it, so `Ids` stands for the ids of any number of rows.

| actions | code |
|---|---|
| `ReadToClose` → `Close`, `ReadToActivate` → `Activate`, `Enriched`, `Backfill`, `Hide` | `job-lifecycle.service.ts`, `job-enrichment.worker.ts`, the backfill; other changes of a job |
| `Look` or `Drop`, then `Create`, `CreateConflicts`, `CreateThrows`, `Replace`, `Raise` | `enqueue`, `enqueueOne`, and its second try after P2002 |
| `Pick`, `Match`, `Skip`, `Send`, `SendFails`, `QuotaExceeded`, `Log`, `LogFails`, `Done`, `Retry` | `runOnce`: `expireStaleDeleted`, `pickBatch` with the floor, `matchesCurrentStatus`, the send, `finish`, the retry |
| `BecomesDue`, `Midnight`, `Die`, `CallerDies` | time, the processes |

### MonitorDigests, MCMonitorDigests

One user: users share no digest. `digests` is the table by `createdAt`; `scheduler`,
`admin`, `phase`/`todo`/`current`, `unknowns` and `hook` are the five kinds of actors and
what each read. `overlapped` holds the digests that were created while another actor had chosen its
recommendations and not created its digest yet.

| actions | code |
|---|---|
| `Discover` → `SchedulerChooses` → `SchedulerCreates`, `SchedulerSkips`, `NextPeriod` | `monitor-digest.scheduler.ts` |
| `NowChooses` → `NowCreates` → `NowChecks` or `NowStops` → `NowSends` → `NowRecords`; `ResendReads` → `ResendWrites` | `sendDigestNow`, `resendDigest` |
| `Tick`, `Recover`, `List`, `Take`, `Check` or `Stop`, `Send`, `Record` or `Throws` | `monitor-digest.worker.ts` |
| `ListUnknowns` → `Requeue` or `Exhaust` | the reconciler |
| `HookReads` → `HookResolves` → `HookSuppresses` | `monitor-digest-webhook.service.ts` |
| `OptOut`, `OptIn`, `GetsOld`, `WorkerDies`, `AdminDies` | the user, the clock, the process |

### MasterCv, MasterChoice, MCMasterCv

One user: owners share no row. `resume` is the table (a resume's text, whether it is linked to
its `CvSource` and keeps its `rawText`, `isMaster`), `designation` the active one, `profile` the
text the `UserProfile` derives from, `job` and `work` each text's open job and what its worker
loaded, `request` each request's next statement and what it read.

| actions | code |
|---|---|
| `StartCreate` → `CreateResume`; `StartUpdate` → `Update`; `Remove` | `resumes.service.ts` `create`, `update`, `remove`: what each reads first, and its transaction |
| `SetPrimary` → `PromoteNow` or `Enqueue`; `FlipMaster` | `setPrimaryCanonical`; `setPrimaryLegacy` and `promoteResumeToMaster` |
| `Analyse` → `FindResume` → `CreateBare` | the start of an analysis: `resolveCanonicalMasterIntent`, `ensureResumeForMasterPromotion` |
| `Enqueue` → `UpgradeJob`, `Link` | `enqueueFromUserText` and the statement after it |
| `Claim`, `Extract`, `Promote`, `MarkReady`, `GiveUp` | `processJob`; `markFailed` and the recovery |
| `PromoteAndProject`, `SupersededBy` | `promoteAndProject`, `supersedeIfResumeMatches`, under the owner's advisory lock |
| `RequestFails` | a statement that throws, the process |

A text has one open job and the job one worker here: `CvProcessing` says when.
`MasterChoice` is what a user is promised: the first Master is taken, another text replaces it
only if that was asked for, and it goes with its CV only. `MasterIsChosen` maps the rows to it;
what was asked for is what requests and open jobs carry.

### Proof modules

`PlanPurchases_proofs`, `LockOverlap_proofs`, `EmailDispatch_proofs`,
`CvProcessing_proofs`, `ProductUpdates_proofs`, `MonitorDigests_proofs`, `MasterCv_proofs`,
`JobIndexing_proofs` each extend the module they are about ([section 6](#6-proofs)).

## 4. Runs

Every run finishes within five minutes on two cores. Sizes are distinct states.

### Purchases

All instances have one user: purchases of different users share no row, so two users
add interleavings and no conflict. `MCOrigin` makes `p1` an `unlock_cv` purchase for
`a1`; `a2` is a second CV, so that a redemption of another CV can race with a refund.
Two payments of one purchase are enough for the second to find the purchase settled,
failed or refunded by the first; two request slots are enough for every race the code
has, each of which is between one reader and one writer of a row; a third would
add requests that wait. `CHECK_DEADLOCK FALSE`: when every payment
is refunded or rejected and the ids are used up, nothing is left to do.

| run | instance | shows |
|---|---|---|
| `purchases_pro` (232,862) | Checkout Pro, 2 requests, 2 payments, 2 CVs, 1 crash, fairness | `LedgerSpec` (no interleaving does more than the ledger allows, so no second grant, no reversal above what was granted and no unlock uncharged), `CreditsAreAccounted` (a CV costs one credit, a grant has its payment, a reversal its grant), `ApprovedPurchaseSettles` |
| `purchases_both` (3,127,714) | both modes, a coupon, 2 overlapping requests, 1 payment, 2 CVs, 1 crash between any two steps, a lost notification, a balance set by the administration; symmetric in requests and CVs; CONSTRAINT `MCNothingOverwritten` | `SettledNeverReopens` (a settled purchase stays so and a completed one only becomes refunded), `RefundsAreReversed`, `OverdraftBounded`: what holds of every interleaving until a status is written over unseen |
| `violation_brick_double_credit` | Brick, 2 requests, 1 payment | `GrantedAtMostOnce` fails |

The constraint of `purchases_both` cuts a behavior after the state in which `overwritten` is no longer
empty; that state itself is checked. What follows it is `violation_brick_double_credit`: a purchase
written over can be paid and credited without end, so nothing bounds the states after it.
`SettledNeverReopens` and `RefundsAreReversed` speak of the purchases that were not written over, and
the theorems of [section 6](#6-proofs) are about all behaviors. `OverdraftBounded` needs no such
condition: a balance is tested before the transaction that spends from it, and read before the
one that takes a refund, so requests that overlap leave it below zero, but a spent balance buys
nothing more, and what is below zero was all in the hands of requests under way at once. One payment
here, two in `purchases_pro`: with the Brick the overlaps to see are of requests about one payment.

`CreditsAreAccounted` also survives the races of the Brick, which break the status: the theorem
of [section 6](#6-proofs) is about every mode and every number of requests.

*Fairness* (`FairSpec`): `WF(Handle(h))`, as Node runs the handlers it has and its
database calls and provider calls end, in an answer or in an error;
`SF(ReceiveWebhook of q)`, as Mercado Pago repeats a notification until it is answered and
a server slot is free again and again. Strong, because slots may be taken by other
requests in between. Nothing is said of users, payments or reconciliation.
A lookup that fails is answered 200 and its notification is never repeated, so
`ApprovedPurchaseSettles` is checked with `MaxLost = 0`.

### Lock

| run | instance | shows |
|---|---|---|
| `lock_overlap` | 3 batches, 2 deaths | `OverlapHasCause`: two batches run at once only after a TTL passed under one of them or two reads of the lock overlapped; `DeadBatchIsReplaced` |

Three batches: one whose release is late, one that took over, one that the late release
lets in. *Fairness*: the TTL runs out, a batch takes its next step, and the cron calls
`acquire` every 30 seconds.

### Dispatch

| run | instance | shows |
|---|---|---|
| `dispatch_contract` (1.76 M) | 1 row, 2 overlapping batches, 1 webhook request; a death, a statement that throws, a dropped webhook; symmetric in batches | `NeverSentTwice`; `ContractSpec`: one life per row, whatever dies or throws |
| `dispatch_feedback` (408,564) | welcome and first feedback; 1 batch at a time; every mode OFF and on again at any time; modes and clock say release or defer; a death, and a statement that throws | `FeedbackWaitsForWelcome`, `NothingPendingForever`: once some kind stays on |
| `dispatch_offers` (2.3 M) | 2 offers, 1 batch at a time, a death, an error, a row that goes stale under it | `SendsBounded`, `RecordedOfferKeepsOthersBack` |

One row is enough where rows do not decide on one another; the welcome and the
feedbacks are the rows that do, and two offers are the others. `MaxSendAttempts = 2`
(3 in the code) leaves a first attempt, a retry and an exhaustion. `Verdicts` selects
the ways out of sending that an instance explores; between them the runs take all.
*Fairness* (`LiveSpec`): a batch goes on unless it dies and the cron fires;
`expiresAt`, the staleness threshold and the lock's TTL are reached. SES owes nothing, and nothing is
assumed of the modes: the fairness of a batch is that of its enabled steps, and a batch does not
start while every kind is OFF. `NothingPendingForever` therefore says `<>[]enabled => ...`; the two
values of `Modes` are in the run that checks it, and the others leave the modes on.
Deadlock is checked.

### CV processing

| run | instance | shows |
|---|---|---|
| `cv_jobs` (697,780) | 2 requests for 1 text (an analysis, and a promotion), 2 jobs, 2 attempts, one mishap: a death anywhere, or a claim that goes stale under its process | `OneOpenJobPerSource`, `OneWorkerPerJob`, `SettledStaysSettled`, `AttemptsBounded`, `EveryJobSettles` |

Texts share nothing but the batch, which takes its jobs one by one. Three actors (two
kicks and the batch) compete for a job; a second job exists once the first is settled.
`MaxAttempts = 2` (3 in the code) as above. `OneWorkerPerJob` and `SettledStaysSettled` are conditional on
`slow = 0`: after a claim went stale under a live process recovery by id may start a
second one, which `AttemptsBounded` charges at one attempt each, `OneOpenJobPerSource` at one
open job, and `EveryJobSettles` survives. *Fairness* (`FairSpec`): handlers and batches go on, and a claim nobody holds
goes stale. Deadlock is checked.

### Product updates

| run | instance | shows |
|---|---|---|
| `product_updates` (713,816) | 2 recipients, 2 contents, 1 request of the administration at a time, 1 event handled at a time, a death | `RowsTellTheTruth` (with at most one message to each), `AtMostOneLateMail`, `Announces`, `CampaignEnds` |

Two recipients are a batch with one delivery in hand and one waiting, which is what a
cancel or a death tells apart; a third would wait like the second. Two contents are the tested one and another.
One request at a time, which is a matter of size: with two requests and one recipient TLC does not finish
within the time a run has. With two requests, a test of the old content beside an edit gets the new
one sent untested ([section 5](#5-what-the-code-does-not-guarantee)); that nothing but such a write breaks
the promise, `CampaignKeepsItsPromise` and `OneLateMail` prove of any number of requests. *Fairness*
(`FairSpec`): the batch goes on and its cron ticks unless the process dies, and a row
nobody writes goes stale. Deadlock is checked.

### Indexing

| run | instance | shows |
|---|---|---|
| `job_indexing` (2,901,666) | 2 jobs, one known to Google, 2 callers, 3 changes of a job or deaths of a caller, a quota of 2 with a floor of 1, 1 send per run, 2 midnights, 2 mishaps; symmetric in callers | `QuotaKept`, `RemovalsGoOut`, `ClosedIsForgotten` |

Some of the first day's quota is used up at the start. Two jobs are the least for a removal to compete with a
new job; two callers the least for two enqueues of one slug. `ClosedIsForgotten` names its
exceptions by the history `lost`, each set by the action that loses the removal. Deadlock
is checked.

### Digests

| run | instance | shows |
|---|---|---|
| `monitor_digests` (1,541,352) | 2 recommendations, 2 digests, 2 periods, 2 requests that overlap, 1 event at a time, 2 attempts, one unusual thing: an opt-out, a resend, an event, a death or a failed statement | `SendsBounded`, `EveryRepeatHasACause`, `OptOutRespected`, `NothingRepeated`, `DigestsComeToRest` |

Two digests: one the worker has in hand, one that waits, from the schedule and requests. Two requests and the
schedule are three writers that choose for two places, so any two of them may overlap. Timeouts of
the provider are not counted as unusual. *Fairness* (`FairSpec`): worker and reconciler
tick and go on, a request that sends goes on, the clock advances; no event has to come.
Deadlock is checked: the crons always tick.

### Master CV

| run | instance | shows |
|---|---|---|
| `master_cv` (834,313) | 2 texts, 3 resumes, 2 requests at once, 3 in all, the workers of both texts, failures anywhere; symmetric in all three sets | `FormalInvariant`, `MasterIsChosen` |

Two texts are the Master's and the one that comes; the third resume is another with a text
that has one already, which is what realigns a designation. Three things asked for: one that
is queued, one that overtakes it, one that takes away what either is about. Safety only, so no
fairness. `CHECK_DEADLOCK FALSE`: when all was asked for and done, nothing is left.

Each property of a passing run has a mutant in `PROJECT.json`: a definition of the model as
a plausible error would leave it, under which the run finds the property violated.

## 5. What the code does not guarantee

One run shows a disagreement between the code and what the repository says of it.

- **A late Brick answer reopens a purchase** (`violation_brick_double_credit`).
  `submitBrickPayment` writes `pending_payment` by id after `Payment.create`
  (`payments/payments.service.ts:725`). If the payment's webhook has completed the
  purchase meanwhile, it is eligible again, and the next notification credits it a second
  time. The design (`src/docs/superpowers/specs/2026-05-11-…-design.md:156`) demands that
  repeated updates duplicate no credit.

Met while modelling, present in the modules as the code has them, and without a run
of their own:

- *Purchases.* `handleRefundedPayment` reads the balance and decrements by
  `min(granted, balance)` under the lock of the purchase but not of the user
  (`plans/plans.service.ts:1233`): a redemption between them leaves a negative balance,
  which the comment at 1178 rules out. A rejection whose webhook read the purchase before its approval commits writes
  `failed` over `completed` (`plans.service.ts:1004`). These writes by id are what `overwritten` records. The balance is tested before the redemption's
  transaction: two redemptions with one credit leave -1 (`cv-adaptation.service.ts:4102`); `OverdraftBounded`
  says how far it goes.
  A coupon applied between Brick's read and its conditional update charges the old price and
  grants the new offer (`payments.service.ts:489`). A declined Brick payment leaves its id on
  the purchase, which refuses the retry that the message invites (688, 482, 697). The Brick
  sends the purchase's id as `external_reference`, reconciliation searches by
  `paymentReference` (628, 788): it never finds a Brick payment. In Checkout Pro a declined
  first attempt settles the purchase as failed, so an approved second one is not credited.
- *Lock.* Two batches that read a free or expired lock both take it
  (`ingestion-lock.repository.ts:15`; the comment at `email-dispatch.worker.ts:44` counts on it).
- *Dispatch.* A bounce or delivery recorded while the row is PROCESSING has no effect; when the
  answer then times out, the row stays OUTCOME_UNKNOWN (`email-dispatch-webhook.service.ts:125`),
  although `email-dispatch.worker.ts:178` counts on the event. Overlapping batches may call the provider more than `MAX_SEND_ATTEMPTS` times, as the
  count is computed from a copy (`email-dispatch.worker.ts:481`). A feedback goes together with a
  welcome that is OUTCOME_UNKNOWN (451). The offers' cooldown counts only SENT.
  While every kind is OFF a batch returns at its gate (`email-dispatch.worker.ts:103`), before expiry and recovery:
  rows that wait past `expiresAt` stay PENDING and rows of a dead batch stay PROCESSING until a kind is on
  again. The comment at 100 means the gate to touch nothing; the one at 49 says that a PENDING row past its
  term becomes CANCELLED and nothing stays pending for ever. With one kind on, rows of the others end too.
- *CV jobs.* `enqueue` upgrades a reused job only from `NONE` and only while PENDING
  (`cv-processing-job.service.ts:86`): set-primary on a text whose upload is still queued gets the
  PROMOTE_IF_FIRST job back, although the comment above it says that a stronger intention must
  not be dropped. The upgrade is written by id, and may hit a job claimed meanwhile
  (`cv-processing-job.service.ts:93`; the comment at 78 rules it out). A worker slower than the staleness
  threshold and the recovery of its job both write by id (`cv-processing-job.service.ts:172`, 196, 218), and one may open
  again what the other has settled: if the text was enqueued meanwhile it has two open jobs, and
  one more per such worker.
- *Master CV.* `update`, `setPrimaryLegacy` and the administration's promotion write
  `Resume.isMaster` without the designation (`resumes.service.ts:488`, 607,
  `admin-resumes.service.ts:98`), although `schema.prisma:3684` says that exactly the designated
  resume has it; its triggers are on the designation only. `FormalInvariant` says that this is
  the only way. A text uploaded again while its job is PROCESSING is given that job, whose resume has just been deleted: the
  promotion fails and the new resume is never designated (the comment at
  `cv-processing-job.service.ts:78` speaks of a new job). A PROMOTE_IF_FIRST job for the active text moves
  the designation to its own resume, also after another was chosen. A promotion whose READY
  failed is repeated, over what was chosen meanwhile. An analysis that reads a profile an upload
  has just blanked promotes its own text explicitly, over the upload. A profile blanked by an
  upload that fails or becomes no Master stays blank under the active designation: promoting its
  text again changes nothing and writes no profile, although the comment at
  `cv-adaptation.service.ts:1700` sends an analysis there to repair it.
- *Product updates.* A test of the old content beside an edit by another administrator leaves
  the new content marked as tested, and start sends it (`product-update-email.service.ts:114`).
  The subject is the campaign's when a message goes out, the body the snapshot. A batch that dies at
  its last delivery leaves the campaign SENDING for ever: recovered rows touch no campaign
  (`product-update-sender.worker.ts:104`, 264). CANCELLED and COMPLETED may overwrite one another. A
  failure confirmed after a cancel leaves a PENDING row under a CANCELLED campaign. An event
  handled before OUTCOME_UNKNOWN is written is lost. `schema.prisma:2535` refers to a
  `ProductUpdateOutcomeReconciler` that does not exist.
- *Indexing.* A removal is lost when the job's first notification is on its way or its log
  failed (the log does not know the job yet), when the row it updates by id was finished
  meanwhile, when `create` meets P2002 twice, when the row is skipped although the job matches it again,
  when an enrichment that ends late replaces it (`job-enrichment.worker.ts:569`), when it
  expires or its attempts run out. It is never asked for when `closeJobs`, or an update, read the job as closed
  already and writes a closed status over an activation that came between (`job-lifecycle.service.ts:64`, 74), nor when
  the caller dies, or a statement throws, between the job's status and the enqueue (74, 80) outside
  a transaction; a caller that passes `tx` commits both. A caller that raises a row's priority does so by id
  (`google-indexing-queue.service.ts:223`): a row that became a removal after it looked then goes behind
  every later removal, and may expire. The backfill heals the side of active jobs, nothing the
  side of closed ones.
- *Digests.* The reconciler's comment (`monitor-digest-outcome-reconciler.service.ts:30`)
  leaves an exhausted OUTCOME_UNKNOWN to a manual resend, which `resendDigest` refuses for
  every status but FAILED (`admin-monitor.service.ts:1162`). A `recordDigestSent` that throws
  after the send turns a SENT digest into PENDING. The reconciler gives back, by id, a
  digest that an event has just resolved. An event handled before OUTCOME_UNKNOWN is written is lost,
  and the digest goes out again. The schedule and `sendDigestNow`, or two such requests, may announce the same job, by choices that overlap and only so. A
  SKIPPED or FAILED digest keeps its recommendations from later ones.

## 6. Proofs

TLAPS proves, for every value of the constants that satisfies the modules' assumptions
(any number of users, purchases, requests, batches, rows, deaths and faults):

| theorem | says | rests on |
|---|---|---|
| `PlanPurchases_proofs!TypeCorrect` | `Spec => []TypeOK` | `TypeOK` is inductive; one step per action |
| `UnlocksAreChargedOnce` | a CV costs one credit | inductive with `TypeOK`; only `Approve` and `SpendCredit` touch it |
| `RefundsNeedGrants` | nothing is reversed that was not granted | `RefundInv` |
| `GrantsNeedPayments` | credits are granted for approved payments only | `PaidInv` |
| `CreditsAccounted` | the three together, which `purchases_pro` checks | the three theorems |
| `ProKeepsTheLedger` | `Spec => LedgerSpec`, if `ProOnly` | `ProInv`, `RefundInv` |
| `RequestsKeepTheLedger` | `LedgerSpec` with the Brick too, while nothing is written over unseen | `CreditedUnlessOverwritten`, `RefundInv` |
| `ProCreditsOnce` | a purchase is credited once, if `ProOnly` | `ProInv` |
| `CreditedAtMostOnce` | a purchase is credited once, unless it was written over | `CreditedUnlessOverwritten` |
| `SettledStaysSettled` | a settled purchase stays so, unless it is written over | `FailsOpen`, `RefundInv` |
| `OverdraftIsBounded` | a balance is below zero by no more than the requests at once can take | `DebtInv` |
| `RefundedIsReversed` | what was refunded is reversed, unless it was written over | `FateInv`, `RefundInv` |
| `LockOverlap_proofs!OverlapNeedsCause` | no overlap without a TTL passed or reads that overlap | `LockInv` |
| `EmailDispatch_proofs!SentAtMostOnce` | the provider takes an e-mail at most once | `SendInv` |
| `TypeCorrect` | `Spec => []TypeOK` | `TypeInv`, `SendInv` |
| `RowsKeepTheContract` | the rows refine `EmailContract`, while `Quick` | `ContractInv`, `SendInv`, `TypeInv` |
| `BatchesStayApart` | batches run one at a time (`OneBatch`), while `NoOverlapCause` | `LockOverlap_proofs!LockInv` |
| `CallsStayBounded` | the provider is called as often as the attempts allow, while `OneBatch` | `CallsInv`, `TypeInv` |
| `OffersAreSpaced` | a recorded offer keeps the others back, while `OneBatch` and `NoNewsWhileSending` | `OfferIsAlone`, `SendInv` |
| `FeedbackWaits` | the feedback leaves after the welcome, while `OneBatch`, if `WelcomeComesToo` | `FeedbackInv`, `TypeInv` |
| `CvProcessing_proofs!TypeCorrect` | `Spec => []TypeOK` | `Typed` |
| `WorkersAreSeparated` | a job has one worker while no claim went stale under one | `Separated` |
| `SourcesHaveOneOpenJob` | a text has one open job, and one more per claim gone stale under a process | `SourcesAreRationed`, `InsertsAlone` |
| `SettledJobsStaySo` | a finished job is not taken up again, under the same condition | `Separated`, `StatusWriters` |
| `AttemptsStayBounded` | a job has `MaxAttempts` attempts, and one more per claim gone stale under a process | `JobsAreRationed` |
| `ProductUpdates_proofs!TypeCorrect` | `Spec => []TypeOK` | `MailInv` |
| `MailedAtMostOnce` | nobody gets a campaign twice | `MailInv` |
| `RowsAreTrue` | the rows say what happened, and nobody got it twice | `MailInv` |
| `CampaignKeepsItsPromise` | a campaign refines `Announcement`, up to a write over what was not read | `MailInv`, `PromiseInv` |
| `OneLateMail` | one message at most after a cancel, unless a request wrote over what it had not read | `PromiseInv` |
| `MonitorDigests_proofs!TypeCorrect` | `Spec => []TypeOK` | `TypeInv` |
| `RepeatsHaveACause` | a digest goes out again only after it was queued again | `TypeInv`, `CleanInv` |
| `OptOutIsRespected` | after an opt-out only what was in hand goes out | `TypeInv`, `OptInv` |
| `NothingIsRepeated` | a recommendation is announced twice only by choices that overlapped | `TypeInv`, `NewsInv` |
| `SendsStayBounded` | a digest goes out `MaxAttempts` times at most, and as often again per resend | `TypeInv`, `BudgetInv` |
| `MasterCv_proofs!TypeCorrect` | `Spec => []TypeOK` | `Typed` |
| `InvariantHolds` | the designation has its resume, text and profile | `Typed` |
| `MasterIsKept` | the Master CV refines `MasterChoice` | `Typed`, `FormalInvariant` |
| `JobIndexing_proofs!TypeCorrect` | `Spec => []TypeOK` | `TypeInv` |
| `QuotaIsKept` | the quota of a day is not exceeded | `TypeInv`, `Covered` |
| `ClosedJobsAreForgotten` | Google forgets the jobs that close, but for the losses named | `TypeInv`, `RemovalsPend` |
| `RemovalsOutrunExpiry` | no removal expires while sends do not fail, while `BacklogFits` and `RaisesInTime` | `TypeInv`, `OutInv` |

*RefundInv.* `ReversedOnlyIfGranted` is not inductive: `ReverseCredits` writes its history two
statements after the conditional update that tested `completed`. `RefundHoldsRow` says
that the purchase is still completed when it does, and `OneRefundPerRow` that it does so
alone; both because every other writer waits for the row lock. The invariant
counts a completed purchase as one grant not yet reversed.

*PaidInv, ProInv.* A handler approves by what it was told, so `CreditsWerePaid` needs that what
a request carries is still true of the payment when it writes: an approved payment may be refunded,
but was approved (`FundedStays`). The refinement of `CreditLedger` fails with the Brick
([section 5](#5-what-the-code-does-not-guarantee)); with `ProOnly` a purchase leaves "none" once
and for good, nobody writes a status that an approval accepts, and so a purchase that was credited
is not eligible again (`CreditedOnce`). With the Brick that write exists, and `overwritten` has every purchase
it took out of a settled status: the others are credited once and settled since
(`CreditedUnlessOverwritten`). So a double credit takes such a write, as `violation_brick_double_credit` shows.

*FailsOpen, DebtInv, FateInv.* Nothing here is assumed of how requests overlap. The failed branch has read
a purchase that was not completed (`FailsOpen`), so a completed one it meets was written over. A request that has
tested a balance, or read it for a refund, and found it above zero may still take up to `MostCredits` from it
(`Takers`). The debt of a user is at most that much for every request that is no such taker now: one that
takes leaves them, and a new one needs a balance above zero (`DebtInv`). A completed purchase is one grant not yet taken back, and Mercado Pago stands by it, or
its refund is notified or in a request's hands (`ReliedIsOwed` of `FateInv`), unless it was written over: so nothing is
left to be refunded once all was heard, also when a webhook dies over it.

*LockInv.* While nothing excuses an overlap, at most one batch is past its first read of the
lock, and one that finished `acquire` owns a row that has not expired (`AloneWithLock`). An
unexpired row with another owner is what refuses the others; that it is still there until
the release is what a TTL under a batch would break.

*SendInv.* The lock plays no part in `SentAtMostOnce`. `Claim` writes PROCESSING only over
PENDING, so a row is held by one batch (`Held`, `OneHolder`). After the provider took
the e-mail the batch has only plans that write something other than PENDING
(`LeftWithHolder`), and neither recovery nor the webhook writes PENDING, so a row whose
e-mail may have left never waits again (`LeftNeverWaits`). This is why the code
turns a stale row into OUTCOME_UNKNOWN instead of retrying it.

*TypeInv of `EmailDispatch`.* That `attempts` keeps within its bound is not local to a row: a row that
waits or is held has an attempt left, and so has every copy in a batch's list (`Counted`), which
needs that nobody else writes a row that is held (`SendInv`).

*ContractInv, CallsInv, OfferIsAlone, FeedbackInv.* That no batch lives past the staleness threshold
(`Quick`) is what the contract needs: then a held row stays PROCESSING, and what SES reports on did
leave. The other three need one batch at a time (`OneBatch`). `BatchesStayApart` says when there
is: every step of the dispatch is a step of `LockOverlap` with the history `excused` left false
(`LockStep`, `SameLock`), unless it is one of the two causes that `NoOverlapCause` rules out, a TTL
that passes under a batch and two batches that read the lock before either takes it. What a batch listed of a row then still stands when it claims it
(`ListsAreFresh`), so the copy it counts from is right and at most one call is not counted yet.
No offer becomes recently sent after the check of the one in hand, unless an
event makes it so: `NoNewsWhileSending` rules out that one order. `WelcomeComesToo` says that
whoever is enqueued the feedback is enqueued the welcome at the same time; each kind has its own mode, so this is
a matter of deployment, and a welcome enqueued later would find the feedback gone. The welcome then
has its row first, and has ended when a batch decides to send the feedback (`WelcomeFirst`).

*Separated.* While `slow = 0`, a job that is worked on is PROCESSING, is not
stale and is not in the list of stuck jobs the batch works from: recovery by id cannot
meet a worker, and no step reopens a job that ended. `StatusWriters` says that
only four actions write a status, each to a job that is open.

*JobsAreRationed.* A job has rights to be worked on: it waits, a process holds it, or nobody does
and recovery may find it. There is one, and one more for each claim gone stale under a live
process (`Rights`). A job whose attempts are used up comes back only by what was read before the
last attempt (`Overdue`), and each of those spends a right.

*SourcesAreRationed.* The rights of a text are those of its jobs: the processes that hold one, the jobs
that wait and those left for recovery. They are at most `slow` when it has no open job, and one more
when it has. Every open job takes one of them. A holder or the recovery that settles a job spends a right,
one that writes PENDING hands it on, also when the job had ended; a claim turns a job that
waits into a holder. Only an insert adds one, and who inserts found no open job
and is alone under the advisory lock (`InsertsAlone`): no more than `slow` rights, until it has inserted.

*MailInv, PromiseInv.* A delivery is taken by id, so `AtMostOneMail` rests on what the batch
remembers: who is in hand or listed has had no message (`Hand`, `Listed`), nobody whose row waits
has (`Mail`), and an event read as OUTCOME_UNKNOWN is about a row that stays settled (`Heard`).
The promise needs that from READY on the content is a tested one (`WasTested`), that what was sent stays
(`Frozen`), and that a test or a mark is about a content its request had read (`HadRead`). Any number of requests
may be under way: start repeats its condition in its own write, and every other write either is over the
campaign as it was read, or sets `raced`, and there the promise ends. `LastOne` ties a late
message to the delivery that was in hand.

*TypeInv, CleanInv, OptInv, NewsInv.* Room for digests is reserved by those about to create them
(`Places`), and what each actor holds are copies of rows that exist (`Rows`, `Listed`, `Held`,
`Waits`, `Fresh`, `Known`). As long as nothing was resent, a digest has one sender and is in no
other's list (`Apart`), and one that was taken is not waiting (`NotLeft`). An opt-out leaves
at most one passed check per sender (`OptInv`). Recommendations chosen and not yet
written differ from those of every digest that was there when they were chosen; the others were created while
this choice was pending, so they are in `overlapped` (`Unseen` of `NewsInv`). The schedule's own are not among
them, as it is one process that creates before it chooses again (`UnseenByItself`).

*BudgetInv.* Worker, reconciler and the row itself each count attempts from copies and write
them back by id, so no counter bounds the sends. `Potential` is what a digest may still become: the
attempts its row allows, those the reconciler's copy and the worker's do, and the send in hand,
weighed by who may still write over whom (`Worth`). What was accepted and what may still be never exceed
`MaxAttempts * (1 + resends)`, and only a resend raises it.

*Typed of `MasterCv`.* Requests, jobs and workers carry ids of resumes that may be gone when they
write. An id is given once, to one text: `Known` says that what is carried still means that text,
or a resume that was deleted, and a promotion with the latter throws. A job's id is never of a
deleted resume (ON DELETE SET NULL), a worker's copy may be. With that `FormalInvariant` is inductive, and each step
is `Take`, `Replace`, `Change` or none of `MasterChoice`'s: a step that replaces was carried by a request
or a job, which is what `Wanted` collects.

*TypeInv, Covered, RemovalsPend of `JobIndexing`.* Callers and the worker write by an id they read. `Remembers`
says that, as long as they do, its row, if there still is one, is of the same job, so an update never hits
another one; the ids that rows and memories take are fewer than `Ids`, so a new row finds one (`NewIdIsFree`,
by counting). The quota covers what was sent today and what is left of the batch
(`Covered`), counting once the item that was sent and is not finished; at midnight the first goes to zero.
As long as Google has the page of a closed job or is about to get it (`Announced`), its
removal is queued or a caller is about to write it (`Pending`), or it was lost: every step that
takes the one away sets the history `lost` or tells Google. A caller counts from its write of the status on,
and one that dies there, or writes a closed status over an activation it had not read, is among these steps.

*OutInv of `JobIndexing`.* A removal goes out in the order of its creation, before any update, within what
the quota leaves; the floor is what updates leave it (`FloorIsKept`). So a removal that has seen
`age` midnights has to wait for fewer removals than the `TTL - age` days left bring out (`OutInTime`): at its
first midnight because `BacklogFits`, and later because a new removal goes behind it and a day
that ends has sent its share or everything. `BacklogFits` is a bound on the removals that wait at once, in
the code's values 6 days of 60 (`INDEXING_DELETED_DAILY_FLOOR`, a TTL of 7 days): 360.
`RaisesInTime` rules out the raised priority of [section 5](#5-what-the-code-does-not-guarantee): a removal
that got an update's priority is overtaken by every later one, and TLC finds it expired in an
instance whose backlog fits. `OutInv` is inductive while nothing failed (`mishaps = 0`), with
rows that are due and removals of the first priority (`Smooth`).

Only model-checked:

- liveness (`ApprovedPurchaseSettles`, `DeadBatchIsReplaced`, `NothingPendingForever`,
  `EveryJobSettles`, `CampaignEnds`, `DigestsComeToRest`), which rests on fairness and ENABLED;
- that the hypotheses above hold of a deployment: `ProOnly`,
  `WelcomeComesToo` are constants an instance chooses, `Quick`, `NoOverlapCause`, `NoNewsWhileSending`,
  `RaisesInTime` a matter of time, `BacklogFits` of load.

Every invariant and action property of the runs is thus stated by a theorem, some under a hypothesis;
`GrantedAtMostOnce`, which the code violates, is among them.

No module declares a RECURSIVE operator.

## 7. Not modelled

`PROJECT.json` gives the reason for each component. In the components that are modelled:
100 % coupons (`redeemFreeCoupon`), unlimited plans, superadmins, analysis credits
(which move with the others in the same statements), the rows of the audit tables;
the limits and the validity of coupons; the subscription centre, settings and
templates of e-mails, SES suppression; guests' designations and the claim of their sources, a profile
edited by hand (its sync writes the profile, and may meet a promotion), adapted resumes, the deletion
of a source under its job; the removal of a job's row (`jobs.service.ts:942`, which enqueues before it deletes); the audience and the rendering of a campaign; how recommendations
are matched and ranked; the calendar of the schedule. Clock skew between processes is covered where time is a choice,
and not otherwise. A failure of Postgres itself is a statement that throws.

Two reads are one action where nobody can tell: `MonitorDigests!Discover` reads the preferences and looks
for the period's digest (`monitor-digest.scheduler.ts:187`, 243), and a change of mind between the two is one
after them, looked at again before the send; `MasterCv!SetPrimary` reads the resume and the designation
(`resumes.service.ts:652`, 664), and writes nothing or has it done by the promotion, which reads both again under
the advisory lock.

## 8. Plan

Done: `PlanPurchases`, `CreditLedger`, `SchedulerLock`, `LockOverlap`,
`EmailDispatch`, `EmailContract`, `CvProcessing`, `ProductUpdates`, `Announcement`,
`MonitorDigests`, `MasterCv`, `MasterChoice`, `JobIndexing` and their proofs.

Next modules, in this order:

1. **AnalysisJobs**: the skeleton of `CvProcessing` without a limit of attempts.
2. Free coupons (in `PlanPurchases`); the manual runner's heartbeat (in `LockOverlap`);
   ingestion policies as operators against a reference definition.
3. The claim of a guest's sources and the sync of an edited profile, in `MasterCv`.
4. **Purchases with confirmation**: `PlanPurchases` with the dispatch enqueued by an approval.

Next theorems:

1. `CallsStayBounded` without `OneBatch`, in the form that counts overlaps.
2. `RowsKeepTheContract` with rows that go stale, for a contract in which SENT and
   OUTCOME_UNKNOWN may replace one another.
3. `RemovalsOutrunExpiry` with sends that fail, in the form that counts them against the days left.
