# Verification of the KIMates backend

KIMates is a multi-tenant API (Express, TypeORM on PostgreSQL, Redis/BullMQ) through which a
company collects purchases from a QR form, runs lucky draws, and pays KIMates through PayPal.
What is hard to get right in it is money and access: PayPal's answers, its webhooks, three crons
and the admins all move the same few columns, and each of them can be late, repeated, lost or
interrupted half-way. This directory models that part in TLA+, checks it with TLC on small
instances and proves the central properties with TLAPS for every value of the constants.

All paths below are relative to `src/src/`.

- [Inventory](#inventory)
- [Modules](#modules)
- [What each run checks](#what-each-run-checks)
- [What is proved](#what-is-proved)
- [Known divergences](#known-divergences)
- [Not modelled](#not-modelled)
- [Plan](#plan)
- [Running](#running)

## Inventory

| Component | State it keeps | Operations | Hard because |
|---|---|---|---|
| One-time payments (`services/PaymentService.ts`) | `payments` rows: status, window, `updated_at`, `paypal_response`; `companies.subscription_expires_at` | initiate a plan or spin order, capture, finalize, COMPLETED webhook, reconcile | the HTTP call to PayPal sits between two short transactions; three paths settle one row |
| Reversals (`services/PaypalWebhookService.ts`) | the same rows and expiry | full and partial refunds, chargebacks, denials, sale reversals, disputes | they come before, after or beside the capture they undo |
| Payment reconcile cron (`cron/paymentReconcile.cron.ts`, `utils/paymentReconcile.ts`) | none but a session advisory lock | every 10 minutes: list stuck rows, ask PayPal, complete / fail / wait | PayPal's answer is old when it is applied; a batch limit |
| Webhook ledger (`paypal_webhook_events`) | one row per event: claimed, processed, received_at | claim, take over, release, mark processed | at-least-once delivery, crashes between claim and mark |
| Recurring subscriptions (`services/SubscriptionService.ts`) | `subscriptions` rows, `last_event_at`, `companies.current_subscription_id`, sales in `payments` | subscribe, confirm, state webhook, cycle credit, sweep, daily reconcile, cancel, admin cancel, change plan | every handler reads PayPal first and writes later; retired rows come back to life; a partial unique index allows one live row |
| Company access (`utils/entitlement.ts`, `repositories/CompanyRepository.ts`, `services/Admin*Service.ts`) | dates of trial, paid time and comp, the ban, and two derived columns | ban, unban, comp, extend trial, start trial, extend / subtract paid time, hourly projection | handlers read the company without a lock; the rules exist twice, in TypeScript and in SQL |
| Expired-data purge (`services/ExpiredDataPurgeService.ts`) | `data_purged_at`, customer data | list the due companies, re-check each under its lock, erase | irreversible, and its list is old |
| Sessions (`services/AuthService.ts`, `services/TokenService.ts`, `middleware/auth.ts`) | refresh tokens, the age of the password, revocations in Redis | login, rotate, logout, change and reset password, check an access token, nightly clean-up | rotation races reuse detection and password changes; three stores are asked one after the other |
| Registration (`utils/registrationFlow.ts`, `services/AuthService.ts`, `EmailChangeService.ts`, `TrialIdentityService.ts`) | users, one-time links, hashed identifiers | register, verify, resend, reset, change address, claim and release identifiers | one trial per identity over all companies; links in old mailboxes |
| Unverified-signup cleanup (`repositories/UnverifiedSignupRepository.ts`) | the same rows | list, lock, re-check, delete | races the verification and a payment |
| Account deletion (`services/AccountDeletionService.ts`) | `deletion_requested_at`, `anonymized_at` | request, call off, purge after the grace period | PayPal must be told; the list is old |
| QR intake and voids (`services/QrService.ts`, `CompanyService.ts`) | customers, purchases, totals | submit, void, erase | two advisory locks, running totals |
| Lucky draw (`services/LuckyDrawService.ts`, `repositories/LuckyDrawRepository.ts`) | draws, free and bought spins of overlapping periods | spin, buy spins, comp, extend, refund, ban | spins are counted per period while periods move |
| Notices and e-mail (`cron/subscriptionStatus.cron.ts`, `queues/email.queue.ts`, `workers/email.worker.ts`) | notice markers, BullMQ jobs | claim, enqueue, send, retry, hand back | once, over a database and a queue |
| Cron locks and shutdown (`cron/runTracker.ts`, `repositories/AdvisoryLockRepository.ts`, `server.ts`) | session advisory locks, runs in flight | run exclusively, lock, unlock, drain, close | several instances during a restart; a lock lives on one connection |
| Plan catalogue and currency (`services/PlanService.ts`, `SettingsService.ts`) | plans, versions, the popular badge, the platform's currency | create, edit in place or as a new version, hide, show, switch the currency | a price with history is never changed, while checkouts go on |
| Plan changes (`SubscriptionService.changePlan`, `creditCycle`, `scripts/sync-paypal-plans.ts`) | the plan in our row, at PayPal, and of the last cycle | change, sync, match a sale to a plan | three copies of one fact, and a price that may be edited |
| SMTP health (`services/SystemStatusService.ts`, `SmtpHealthStore.ts`, `cron/smtpCanary.cron.ts`) | the last outcome in Redis, a cached check | send, record, canary, check | outcomes recorded out of order, time-outs, a shared lock key |
| Admin onboarding, PayPal client, reports, HTTP layer, address rules | – | – | reads, wiring and I/O |

How they interact. A plan order's capture and a recurring sale both end in
`extendSubscription` on the company; a reversal takes the same window off. The webhooks of
orders' completed captures bypass the ledger (they are idempotent by row status), all others go
through it and then into `PaypalWebhookService.dispatch`, which calls the reversal handler or
`SubscriptionService`. The access columns are read by the QR form and the dashboard through
`computeEntitlement`, are projected hourly by SQL, and the retention clock of the purge runs from
them. A ban calls `cancelForAdmin` inside its own transaction and ends the owner's sessions; a
verification starts the trial that the lucky draw and the notices then follow; a void or an erasure
takes entries out of the draw. All crons go through `runExclusive` and an advisory lock, and all
mail through one queue and `sendMail`, which records the outcome the status page shows.

The properties that make them correct: a buyer who is charged gets the time, once, or is refunded;
one who is not charged gets none; a webhook that is acknowledged has been acted on; one company is
billed by one subscription, and a charge buys one period; a subscription that ended is not shown
active for ever; access given is not lost to a stale write; the derived columns say what the dates
say; data is erased after the promised period, never before it; a login is in one pair of hands; a
password change ends what was opened with the old one; nobody gets a second free trial or loses an
account that is in use; totals are sums; no spin is drawn that was not granted; a notice goes out,
once; a job runs in one place at a time; what a customer was charged is what the books say.

The hazards that matter most, each at its line and with the properties that would catch it, are
listed under `hazards` in `PROJECT.json`.

## Modules

```
OrderPayments <- MCOrderPayments, OrderPaymentsProofs     Subscriptions <- MCSubscriptions
EventHandling <- WebhookLedger <- MCWebhookLedger, WebhookLedgerProofs
CompanyAccess <- MCCompanyAccess, CompanyAccessProofs

Intake        <- MCAccounts   <- AccountsProofs
Registration  <- MCOperations <- OperationsProofs
SessionFamilies <- Sessions <- SessionsProofs
PlanChanges <- PlansProofs
Crons <- CronsProofs

MCAccounts     -> Sessions, AccessTokens, Plans
MCOperations   -> LuckyDraw, Notices, PlanChanges, Subscriptions, SmtpHealth, Crons
SessionsProofs -> AccessTokens                     CronsProofs -> Notices, SmtpHealth
PlansProofs    -> Plans, Subscriptions, LuckyDraw
AccountsProofs -> SessionsProofs, PlansProofs      OperationsProofs -> PlansProofs, CronsProofs
```

(`<-` is extended by, `->` instantiates.) The `MC` modules hold the constant functions and the
symmetry sets of the instances; the `Proofs` modules hold the theorems, some about a second or third
module, which they instantiate with variables of its own. `AccountsProofs` and `OperationsProofs` also
have the theorems about what the two composed runs check, and instantiate the other proof modules with
the runs' constants. Operators marked `Mutant:` are plausible slips of the code (a dropped
guard, a missing reset); `PROJECT.json` names, for each checked property, one that breaks it.

`MCAccounts` extends `Intake`, `MCOperations` extends `Registration`, and both instantiate several
other modules beside. These share no state, so a product of them would only multiply the states;
instead the variable `focus` names the module a behaviour is about, and the others' variables stay
as they are (`AnyInit`, `AnyNext`). Every property is still checked over all behaviours of its
module's instance, and where one instance cannot be both wide and deep, two instances of the same
module with different constants have a focus each. For `Registration` the two are restrictions of
its `Next`: `Single`, where one account is ever used and everything may happen to it, and `Pair`,
where two accounts that share identities do nothing but register, verify and be cleaned up.

### OrderPayments

One company, its one-time orders and spin add-ons, PayPal's view of each order, and every path that
settles a row. `capturePayment` is split where the code awaits: the claim (`ClaimForCapture`, one
conditional UPDATE), the add-on check (`RefuseClosedAddon`/`CallPaypal`), PayPal acting
(`PaypalCaptures`), and the four endings (`CaptureCompleted`, `CaptureNotCompleted`,
`ReleaseCaptureClaim`, and `RequestLost` for a timeout, a 5xx, a crash). `FinalizeCapture` is the
shared transaction under the row lock, with `extendSubscription` inside it. The reconcile run is
split between PayPal's answer (`ReconcileAsk`) and the write (`ReconcileApply`), because anything
may settle the row in between. `HandleReversal` is the reversal transaction together with the
ledger's mark, since each event is dispatched once (`WebhookLedger` shows how nearly).
`handleWebhook`'s COMPLETED branch is not in the ledger, so `WebhookCompleted` can happen again
and again.

Time is counted in ticks of at least `RECONCILE_AFTER_MINUTES` (15), so "claimed in an earlier
tick" is "stuck". A tick waits for the requests under way, because a request makes one HTTP call
with a 15-second timeout. `grants` and `takebacks` are history variables. Amounts, currencies and
the receipt e-mail are left out.

### EventHandling and WebhookLedger

`EventHandling` is what the ledger promises: an event is in one worker's hands at a time, may be
put back, and is never taken again once handled. `WebhookLedger` is the ledger as coded: `claim`
(insert, or take over a claim that is older than five minutes and not processed), dispatch,
`markProcessed`, and `release` on a throw, each of which can fail or be cut off by a crash. It
refines `EventHandling` (`OneHandling == Ledger!Spec`, an INSTANCE with `held` and `handled`), where
`handled` are the processed rows. The five minutes are one step, `FiveMinutes`, that waits for the
requests at work ("five minutes is far longer than any dispatch takes",
`repositories/PaypalWebhookEventRepository.ts`). `hasty` remembers the events delivered twice within
five minutes, for which alone an acknowledgement may come too early.

### Subscriptions

One company's recurring subscriptions. A worker is a request, a webhook handler or a cron run; what
it read from PayPal stays in `worker[w].remote` while the world moves on. `applyRemoteState` is one
transaction with six outcomes: an old event ignored, an abandoned approval expired, a duplicate
found, the unique index refusing the write, or the row, `last_event_at` and
`current_subscription_id` written. The cancellation of a duplicate at PayPal comes after the
commit, as in the code. `creditCycle` inserts the sale's row first, and its unique index is what
makes a sale count once. PayPal's behaviour (approvals, failed charges, suspension and
re-activation, the buyer cancelling there, 404 and 422 on cancel) is modelled from how the code
uses it and marked external.

Of time only "the paid expiry lies ahead" and the order of PayPal's events are kept. `PaidTimeEnds`
may happen whenever it likes, `RECONCILE_LOOKBACK_MS` is taken to cover the sales of the instance,
and the three hours after which an approval is abandoned only say that its subscribe request is
over. Which plan a subscription is on is left to `PlanChanges`.

### PlanChanges

One live subscription with a plan in its row (`stored`), one at PayPal (`atPaypal`), the plan of its
last credited cycle and, for each plan, a price in its row (`price`) and a price that PayPal charges
(`remote`), which never changes. `changePlan` is cut around the call to PayPal; the buyer may approve
the change or not; `applyRemoteState` writes the plan PayPal names (`SyncPlan`); `creditCycle` reads
PayPal's plan, looks for a plan with the amount that was paid under the subscription's lock
(`findCyclePlan`, with its order of preference), and flags a mismatch or inserts the cycle. Beside
them an admin edits the catalogue and `scripts/sync-paypal-plans.ts` creates the missing PayPal
plans, which may die between PayPal and the row and be run again. The states of the subscription are
those of `Subscriptions` and not repeated; hiding plans and the script's `--reset` are left out.

### CompanyAccess

The access columns of one company. `computeEntitlement` and the two CASEs of
`SUBSCRIPTION_STATUS_RECONCILE_SQL` are separate definitions, translated arm by arm. Every admin
handler and the verification link is a read and a commit: `worker[w].read` is the company as it was
read, and what is projected into `subscription_status`/`is_active` is computed from that copy,
while the date columns are written by relative SQL (`GREATEST(COALESCE(..)) + days`). The hourly
projection reads a snapshot and writes later, re-checking that the row still differs. The purge is
split between the list and the check under the lock. `lostAt` is history.

A trial's identity claim over other companies is one flag, `claimed`: some identifier of the
company has been used; `Registration` has the claims themselves.

### Sessions, SessionFamilies, AccessTokens

`SessionFamilies` is what rotation promises: a login is in the hands of at most one refresh token,
each token is handed out once, an ended login never comes back. `Sessions` has the rows: login,
rotation, logout, password change and reset, the ban that ends all sessions, and the nightly
clean-up. A request is cut after its reads and while its UPDATE waits for a row lock; under READ
COMMITTED the UPDATE then re-checks its WHERE, so `Wins` decides at that moment. Reuse is found in a
transaction that is rolled back, and `ReuseRevoke` is a transaction of its own. `Families` is the
refinement mapping: a login's holders are its live rows. `late` marks a session whose login or
rotation was under way while the password was changed, which the code cannot end.

`AccessTokens` has the signed tokens and the three look-ups of the middleware: the deny-list in Redis
(which may be down, when the check fails open), the user with the password's age, and the company.
The clock counts half-seconds while tokens state whole seconds, which is where the one-second margin
of `password_changed_at` comes from.

### Registration

Accounts with their verification, reset and e-mail-change links, the identity claims of the free
trials and the clean-up. A link is kept with the mailbox it went to. `confirmEmailVerification` is
cut after each statement that may wait: the user's row, each identity in turn (an INSERT that waits
for another transaction's uncommitted claim), and the commit. The clean-up lists, locks, re-checks
and deletes one account after the other.

### Intake

One company's customers, purchases and running totals. A submission is cut after it has read the
company, after the checks under its two advisory locks, and at the write whose foreign key waits for
a closing account's row lock. Voids lock the purchase, erasures the company. The request for
deletion, its calling-off, and the purge's list and turn are here too, since what they erase is what
a submission writes.

### LuckyDraw

The periods of one company (paid window, comp, trial), the free and the bought spins of each, and the
draw, which reads its pools under the company's lock and then picks and inserts. `granted` remembers
the most spins a pool has had, because a refund or an edit may take spins back after they were used.
`setComp` reads the company before it waits for the row, so a comp may begin over a running one, and an
adjustment may bring back one that has just ended.

### Notices

The claim in the database, the queue, the worker and the hand-back of a notice that was given up, with
a crash possible between any two. A deadline is a day, and a job's id is its kind and deadline. A job
fails when an attempt throws or, whatever attempts are left, when its worker dies with it twice
(BullMQ's stalled-job limit, `Stalled`). `unclear` counts how often the mail server took a mail and the
answer was lost, so `NoticedOnce` says how many times a mail may go out: once more than that.

### Plans

Edits in place and by version, hiding, showing, the badge, the currency switch, and checkouts, which
read a plan and store their payment later. An admin's transaction is cut between its reads, with the
locks it takes, and its commit.

### SmtpHealth

A server that works, refuses or hangs; senders, the canary with its time-out, the record in Redis and
the page's cached check, which reads the record first and the login afterwards.

### Crons

Several instances, each job's run on its own pinned connection, the advisory locks, and a shutdown
that drains requests, jobs and the worker before it closes the pool; a job's connection may die under
it, an instance may exit at any moment and start again.

## What each run checks

The runs marked * have `CHECK_DEADLOCK FALSE`: their clock and inputs are bounded, so the model
stops when the bounds are used up, where the program would wait for more input. All other runs
check for deadlock too.

| Run | Question | Instance |
|---|---|---|
| `payments_any`* | `OneCaptureCall`, `CapturedMeansPaid`, `RetryOnlyUnpaid` with everything PayPal may do | a plan order and an add-on, 2 requests, 3 ticks, PENDING captures, full and partial refunds, batch of 2 |
| `payments_settled`* | `FailedMeansUnpaid`, `GrantBalance`, `AccessWithinPaid`; with every webhook lost, `StuckIsSettled` and `PaidIsGranted` | two plan orders stacking on one expiry, 2 requests, 3 ticks, refunds and chargebacks, captures answered at once, batch of 1 |
| `payments_double_apply`* | counterexample to `NoDoubleApply` | two plan orders, PENDING captures |
| `ledger` | the refinement `OneHandling`; `ProcessedTookEffect`, `AckedIsHandled`, `EventuallyApplied` | 2 events, 3 requests, 3 faults, retries at any time |
| `subs_crons` | with no webhook at all: `EndIsShown`, `SlotIsFreed`, `CurrentFollows` | a company that has had a subscription (past due, suspended, or ended) and may take a second one, 2 handlers, 1 sale, a change or two at PayPal |
| `subs_webhooks` | with retried webhooks and no cron: `BilledOnce`, `SalesSettled` | 2 subscriptions, 1 sale, one failed call or crash, a ban, no suspension |
| `subs_banned_billed` | counterexample to `BannedIsNotBilled` | a ban while an approval is open |
| `access_kept`* | `MirrorAgrees`, `AccessKept` | 2 concurrent requests (a ban and its lifting, a comp given and ended, a verification) beside 2 payments and their refunds, 2 days |
| `access_live`* | `RetentionKept`, `StatusCatchesUp` | 2 requests, a renewal, an admin's grant, 5 days, retention of 1 |
| `access_erased_early`* | counterexample to `RetentionKept` | a comp ended after a trial ran out |
| `accounts`* | the refinement `OneSession`, `OldPasswordOut` | 3 refresh tokens, 2 requests, one password change; one access token of two seconds and one request under the half-second clock |
| | `TotalsAgree`, `CooldownKept`, `ClosedOnRequest` | 3 purchases, 2 vehicles and 2 invoices of one mobile, 2 requests, a deletion |
| | `HistoryKept`, `BillingPage` | 3 plan rows, 2 prices, 2 currencies, 2 admins, one checkout |
| `operations`* | `OneTrialPerIdentity`, `RemovedWasAbandoned`, `LinksFollowEmail` | two signups that share a phone number or a hashed address, 2 requests; and one signup with resets, address changes, payments and admins |
| | `SpinsWithinBudget` | 2 customers, at most one spin per grant, 2 draws, all periods |
| | `NoticeKept`, `NoticedOnce` | one kind of notice tried twice; one with a report beside it; a trial's and a plan's notice; over 2 days, a mail taken without saying so at most twice in the first, else once |
| | `CreditedAsCharged` | 2 plans and 2 prices with 2 handlers of one sale, and with 2 sales handled one by one |
| | `CreditedOnce` | 2 subscriptions of which one is active, 1 sale, 2 handlers, a suspension, one failed call or crash |
| | `RefusalIsShown` | one sender beside the canary, a cache of 2 ticks, an hour of one tick |
| | `OneRun` | 2 instances with two jobs that share a lock key, and with a job that has one beside a job that has none |

`AllTyped` is an invariant of `accounts` and `operations`: the `TypeOK` of the module in focus.
`TypeOK` is proved for every module.

**Why these bounds.** The races here are between two parties over one row, so two requests (or
handlers), two rows and one cron run reach every order of two concurrent steps; a third ledger
request is there for a takeover while two others hold events, a third token for a rotation of a
rotated token, a third plan row for a successor beside another plan, a third purchase for a void
beside two submissions. Two stacked orders are enough for one window to be taken from under another.
Three ticks let a row be claimed, become stuck and be settled in the last, and a batch of one makes
the second stuck row wait for the first. `subs_crons` starts in the middle of three histories
(`Returning`), which puts failures, suspensions, re-activations and a second subscription within two
changes at PayPal. In `CompanyAccess` five days with windows of one and two days and a retention of one day hold a trial, a
lapse, a renewal and a purge. Two attempts of a job are the first and the last. `MayGrant` and
`MayTakeBack` leave out the actions for which a property is not claimed: an admin's trial extension
beside a verification may shorten what was given, which `AccessKept` is checked without, and ending a
comp or refunding moves the retention clock, which is the finding of `access_erased_early`.

Symmetry is declared where values are interchangeable and nothing but safety is checked
(`access_kept`, `accounts`, `operations`).

**Fairness and why the code gives it.**
- `OrderPayments!FairSpec`: the clock passes (SF on `Tick`: a buyer retrying a refused card for ever
  does not stop it), a request ends (`RequestLost`, the HTTP timeout), the cron starts
  (`*/10 * * * *`) and PayPal's order API answers infinitely often for each row it is asked about,
  with the run not dying each time before it writes (SF on `ReconcileAsk`, `ReconcileApply`).
  Nothing is assumed of webhooks.
- `WebhookLedger!FairSpec`: handlers run, five minutes pass, and PayPal retries what it has no 2xx
  for (SF on `Claim`/`Duplicate`, its documented behaviour and the reason for the 5xx answers). A
  bounded number of faults is the assumption that outages end.
- `Subscriptions!CronsRun`: handlers run, the hourly cron retires ended cancellations, and each row
  is reconciled (`20 3 * * *`) and swept again and again. `WebhookSpec`: PayPal retries its webhooks
  until they are answered 2xx; no cron is assumed, not even the hourly one.
- `CompanyAccess!CronSpec`: the hourly projection and the nightly purge keep running.

The other modules state safety only. `RefusalIsShown` bounds a delay with a counter of ticks instead.

**What the newer modules assume.**
- `Notices`: fewer than a thousand mails finish while a notice's job matters (`removeOnComplete`
  keeps a thousand, for a day), Redis keeps its data over a restart, and a tick of the cron ends
  before the next midnight.
- `LuckyDraw`: a plan bought while another runs, which opens a second paid window later, is left out,
  and so is a comp whose key an admin's stale write brings back after a second comp has begun.
- `SmtpHealth`: a send, a check and the reconcile each end within a tick; the crons run at their minutes
  and reach the database.
- `Crons`: closing the pool ends its sessions, so their locks are released; the pool has a connection
  for every job; the worker's close waits for its jobs, as BullMQ documents.
- `AccessTokens`: both clocks are the same one.

A `violation` run states what a comment or a document of the repository says and shows the code
doing otherwise; the counterexample is the TLC trace of that run.

## What is proved

Machine-checked by TLAPS, for every value of the constants allowed by the named ASSUMEs and the
hypotheses in the last column (any number of orders, requests, events, tokens, accounts, instances;
any window lengths and bounds). "`None` apart" is that the model value `None` is not also a row, a
customer or the like: in the code it is SQL's NULL.

| Theorem | Says | Besides the ASSUMEs it needs |
|---|---|---|
| `OrderPaymentsProofs!TypeCorrect` | `TypeOK` | – |
| `OrderPaymentsProofs!CaptureExclusive` | `OneCaptureCall` | – |
| `OrderPaymentsProofs!NothingForFree` | `CapturedMeansPaid` | – |
| `OrderPaymentsProofs!RetriesAreFree` | `RetryOnlyUnpaid` | – |
| `OrderPaymentsProofs!GrantedOnce` | `GrantBalance` | captures answered at once |
| `OrderPaymentsProofs!PaidTimeOnly` | `AccessWithinPaid` | captures answered at once |
| `OrderPaymentsProofs!FailedUnpaid` | `FailedMeansUnpaid` | captures answered at once |
| `OrderPaymentsProofs!MoneyStaysInReach` | what PayPal holds is on a captured row, or on one the cron finds from the next tick on | captures answered at once |
| `WebhookLedgerProofs!ProcessedIsEffective` | `ProcessedTookEffect` | – |
| `WebhookLedgerProofs!TypeCorrect` | `TypeOK` | – |
| `WebhookLedgerProofs!AcknowledgedIsHandled` | `AckedIsHandled` | – |
| `WebhookLedgerProofs!LedgerImplements` | the refinement `OneHandling` | – |
| `CompanyAccessProofs!Mirror`, `MirrorCorrect` | SQL and TypeScript agree on every company and moment, so in every state (`MirrorAgrees`) | – |
| `CompanyAccessProofs!TypeCorrect` | `TypeOK` | – |
| `CompanyAccessProofs!AccessIsKept` | `AccessKept` | admins extend no trial |
| `CompanyAccessProofs!RetentionIsKept` | `RetentionKept` | no comp ended, nothing refunded |
| `SessionsProofs!TypeCorrect` | `TypeOK` | – |
| `SessionsProofs!RotationImplements` | the refinement `OneSession` of `SessionFamilies` | – |
| `SessionsProofs!OldPasswordIsOut` | `OldPasswordOut` | – |
| `SessionsProofs!BearerTypeCorrect` | `AccessTokens!TypeOK` | `None` apart; a token lives a whole number of seconds, that is an even number of half-second ticks |
| `SessionsProofs!AccessEndsForGood` | `AccessEnds` | the same |
| `AccountsProofs!TypeCorrect` | `TypeOK` | `None` apart, finitely many purchases |
| `AccountsProofs!TotalsAlwaysAgree` | `TotalsAgree` | the same |
| `AccountsProofs!CooldownIsKept` | `CooldownKept` | the same |
| `AccountsProofs!ClosedIsAsked` | `ClosedOnRequest` | the same |
| `OperationsProofs!TypeCorrect` | `TypeOK` | `None` apart |
| `OperationsProofs!TrialIsOnce` | `OneTrialPerIdentity` | the same |
| `OperationsProofs!OnlyAbandonedRemoved` | `RemovedWasAbandoned` | the same |
| `OperationsProofs!LinksStayWithEmail` | `LinksFollowEmail` | the same |
| `PlansProofs!DrawTypeCorrect` | `LuckyDraw!TypeOK` | `None` apart, `MaxSpins` a natural number |
| `PlansProofs!BudgetIsKept` | `SpinsWithinBudget` | the same |
| `CronsProofs!TypeCorrect` | `TypeOK` | `None` apart |
| `CronsProofs!OneRunAtATime` | `OneRun` | the same |
| `CronsProofs!NoticesTyped` | `Notices!TypeOK` | at least one attempt and one day |
| `CronsProofs!NoticesAreKept` | `NoticeKept` | the same |
| `CronsProofs!NoticesGoOnce` | `NoticedOnce` | the same; no kind of mail is both a notice and a report |
| `CronsProofs!SmtpTyped` | `SmtpHealth!TypeOK` | `None` apart, `Hour` and `TTL` at least one tick |
| `CronsProofs!RefusalShows` | `RefusalIsShown` | the same |
| `PlansProofs!TypeCorrect` | `TypeOK` | `None` apart |
| `PlansProofs!CreditedToItsPlan` | `CreditedAsCharged` | the same |
| `PlansProofs!CatalogueTyped` | `Plans!TypeOK` | `None` apart, `USD` a currency |
| `PlansProofs!HistoryIsKept` | `HistoryKept` | the same |
| `PlansProofs!BillingPageKept` | `BillingPage`, invariant and action property | the same |
| `PlansProofs!BillingTyped` | `Subscriptions!TypeOK` | – |
| `PlansProofs!SaleCountsOnce` | `CreditedOnce` | – |
| `PlansProofs!NoChargeDropped` | an acknowledged charge has extended the expiry or is flagged | – |
| `PlansProofs!CancelledIsNotBilled` | a row that says cancelled, or about to end, is cancelled at PayPal | `NoSub` apart |
| `PlansProofs!DuplicateIsKnown` | of two subscriptions active at PayPal one row says expired or suspended | the same |

And about the behaviours of the composed runs, whose constants are those of the run where the `MC`
modules fix them and any where they are declared:

| Theorem | Says that every behaviour of the run has | Needs |
|---|---|---|
| `AccountsProofs!LoginHasOneHolder` | `OneSession` | – |
| `AccountsProofs!OldPasswordIsUseless` | `OldPasswordOut`, of sessions and of access tokens | `None` is not a number |
| `AccountsProofs!PlanHistoryKept` | `HistoryKept` | `Apart` |
| `AccountsProofs!BillingPageSells` | `BillingPage` | `Apart` |
| `AccountsProofs!CounterInRun` | `TotalsAgree`, `CooldownKept`, `ClosedOnRequest` | `Apart` |
| `AccountsProofs!AllModulesTyped` | `AllTyped` | `Apart` |
| `OperationsProofs!PoolsLast` | `SpinsWithinBudget` | `Distinct` |
| `OperationsProofs!NoticesStand` | `NoticeKept` | `Distinct` |
| `OperationsProofs!NoticesGoOnceEach` | `NoticedOnce` | `Distinct` |
| `OperationsProofs!SalesFindTheirPlan` | `CreditedAsCharged` | `Distinct` |
| `OperationsProofs!SalesCountOnce` | `CreditedOnce` | `Distinct` |
| `OperationsProofs!RefusalIsSeen` | `RefusalIsShown` | `Distinct` |
| `OperationsProofs!JobsRunOnce` | `OneRun` | `Distinct` |
| `OperationsProofs!SignupsInRun` | `OneTrialPerIdentity`, `RemovedWasAbandoned`, `LinksFollowEmail` | `None` apart |
| `OperationsProofs!AllModulesTyped` | `AllTyped` | `Distinct` |

`Apart` and `Distinct` say that the model value `None` is not one of the other values; `Apart` also that
the purchases are finitely many, `Distinct` that a report is not one of the notices. TLC evaluates both to
TRUE on the constants of the runs.

The arguments:

- **OrderPayments.** None of the safety properties is inductive. `Typed` adds to `TypeOK` that a
  request past its claim names an order and a captured plan order has its window. `Exclusive` says
  why two requests never meet: a request past its claim holds a row that left `pending` in this
  very tick, so it is not stuck yet, so the cron has not failed it, so it has not been handed back;
  the tick waiting for requests is what the argument rests on. `Settled` lists everything that can
  claim an order was captured (the row, a notification, an answer under way, the cron's decision)
  and says that each is right; paid orders stay paid (`PaidStays`), so it is inductive and gives
  `CapturedMeansPaid`. `Declined` says that while a refusal is on its way nobody else can capture the
  order. `Instant` says that without PENDING captures an answer other than COMPLETED is a decline
  for good, so no captured row is overwritten by `failed`; from it follow `GrantBalance` and, with
  `Watched` (nobody captures what the cron looks at or what is failed), `FailedMeansUnpaid`. For
  `AccessWithinPaid` every step is shown to grant one window, take one back or leave all alone
  (`GrantsMove`), and a granted window to have the length bought (`Windows`), so the expiry and the
  number of captured orders move together. `Returned` says that a row is closed as refunded only when
  PayPal gave the money back; with `Watched` and the failed rows being unpaid this leaves a buyer whose
  money PayPal has only two rows, captured or stuck (`MoneyStaysInReach`), which the reconcile run lists.
- **WebhookLedger.** `Claimed`: a request at work has the only open claim on its event, made in the
  last five minutes. Then every step of the ledger is a step of `EventHandling` or a stutter:
  a claim is `Take`, a mark is `Finish`, a release or a crash is `PutBack`. `Answered` says that a
  claim that cannot be taken over yet was delivered in the last five minutes, so a delivery that
  finds it is a hasty one, and every other acknowledgement follows a mark.
- **CompanyAccess.** `Mirror` is a case analysis over the arms. `Confirming` says that at most one
  verification stands between its read and its write and that the trial it saw missing is still
  missing, so a trial start never replaces a running trial. `Ended` says that the dates the purge
  counts from are never before the moment access was lost.
- **Sessions.** `Owned`: a row's lock is one request's, and only on a live row, so when an UPDATE
  gets its lock and re-checks its WHERE, at most one rotation of a token wins; hence a login has one
  live token, and every step maps to `Open`, `Renew` or `End` of `SessionFamilies` or a stutter.
  `Ousted` carries the generation of the password through the requests: whoever works with an older
  one was under way during the change, and the rows a change does not end were not there when its
  UPDATE took its snapshot.
- **Intake.** `Claims` (a void has a live purchase to itself) makes the decrement exact; `Cooling`
  ties the cooldown to the lock on the mobile number (a checked submission has it alone, and finds
  no recent entry), so the count that is compared and the row that is inserted are one step apart
  for everybody else; `Closing` says that what a closed account still holds, or still gets, was under
  way when it closed. `Totals` counts with `Cardinality`, which is why the purchases must be finite.
- **Registration.** `Working` follows a verification that holds its user's row: what it has inserted
  and what it still has to insert are together the identifiers of the account, and the cleanup is not
  at the same account. `Claiming`: nobody else has inserted the same identity, and an identity that is
  free has had no trial. `Cleaning`: the account under the cleanup's lock is in no admin's hands.
  `Mailing`: links are written with the address of the row, or by a request marked as late.
- **LuckyDraw.** `Reserved`: the spin between its check and its insert is the only one under way and
  has been granted; `Covered`: `granted` never lags behind what a period has.
- **Crons.** `HolderWorks` and `WorkerHolds` say that locks and runs match both ways, as long as the
  pool is open; `Drained` says what each phase of a shutdown has waited for.
- **Notices.** `Announced`: for each marker somebody is left to send the notice, or has (it was
  sent, is claimed, is queued, is being handed back, or was lost in one of the named ways). `Mailed`:
  a mail that went out more often than it was taken without saying so did so once, and leaves a finished
  job behind, or its deadline has moved on or passed, so no later claim can queue it again.
- **SmtpHealth.** `Steady`: once the server has refused for a tick, nothing but a refusal is on its way
  to the record. `Awaited`: while the refusal is not recorded, a canary is out, its turn is still to come,
  or it gave way to the reconcile once; the four cases bound the ticks by two hours. `Reported` adds
  the age of what the page keeps.
- **AccessTokens.** `Guarded`: Redis remembers a token logged out until it has expired (`Known`), and what
  a request met when it arrived (a change of password, a ban, a logout) still holds when it is asked
  about it (`Shown`). Times are truncated to seconds, which is why a lifetime is a whole number of them.
- **PlanChanges.** `Charged`: a sale has the plan that PayPal charges until one of the two moves on, a
  credited one has its plan's price, a request that is about to insert knows the plan of its sale unless
  the sale is odd, and every plan subscribed to has a price at PayPal.
- **Plans.** `Kept`: two edits are never at one plan (its row is locked), an edit that found no payment
  commits before one is stored in time, a plan with a successor is archived and has only one, and plans
  of another currency than the platform's were there before the switch.
- **Subscriptions.** `Billed` are the types with `NothingDropped`: a sale that was charged has its notice
  still waiting, is counted exactly once, or is flagged. It holds in the middle of the histories the
  runs start from as well. `NoChargeDropped` is what is left of it when the
  notice is gone; that it comes to that is `SalesSettled`, by fairness. `Ceased`: whoever is about to
  write that a row is cancelled has seen PayPal say so or has done it, and CANCELLED is final there
  (`Final`), so no answer that was read earlier can make it untrue; for that a subscription must be made
  by one request only (`Creating`), and what is charged must have been made (`Known`). With the unique
  index (`OneLive`) a second active subscription can only have an expired or suspended row.
- **The composed runs.** The variables of the modules are disjoint and a step moves one module at most, so
  a behaviour of `accounts` is at once a behaviour of each of its modules, the others' steps being
  stutters (`RunIsEach`). In `operations` several instances share their variables, so it is a behaviour of
  the module in focus, which stays in focus. `SameSessions`, `SameDraw` and their like state that a
  module instantiated by the run and the same one instantiated by the proofs have the same steps.

Only model-checked: everything under fairness (`StuckIsSettled`, `PaidIsGranted`,
`EventuallyApplied`, `EndIsShown`, `SlotIsFreed`, `CurrentFollows`, `BilledOnce`, `SalesSettled`,
`StatusCatchesUp`), since liveness and ENABLED are beyond the proof system. Every other property of a
passing run is proved.

## Known divergences

Three disagreements between the code and what it says of itself have a run of their own (see
`findings` in `PROJECT.json`): a capture applied twice (`payments_double_apply`), a banned company
billed after all (`subs_banned_billed`), and data erased without its retention period
(`access_erased_early`).

While modelling, these others were met. The models contain the behaviour; the properties are stated
so as not to claim what the code does not do, and the bounds or flags named here are where they stop.

Payments:
- **A PENDING capture is closed as failed** (`services/PaymentService.ts:343`). Any answer other than
  COMPLETED is "safe to mark failed", also an eCheck under review. When it clears, only the webhook
  can still grant it: the cron looks at `capturing` rows. `FailedMeansUnpaid` and `PaidIsGranted` are
  checked with `PendingAnswers = FALSE`.
- **COMPLETED handled after the refund** (`services/PaymentService.ts:383`). `finalizeCapture` skips
  only `captured`, so a late COMPLETED delivery turns a `refunded` row into a captured one and grants
  its days again. `GrantBalance` still holds: the row says captured.
- **A failed row is revived** (`services/PaymentService.ts:332-334` says the webhook "would skip a row
  we had marked failed"; line 383 does not).
- **A reversal of an elapsed window shortens a later one** (`services/PaypalWebhookService.ts:344`).
  The window's full length comes off the current expiry, also when the window is over and the
  expiry is another order's.
- **A partial refund before the capture is recorded closes the row as failed**
  (`utils/paymentReconcile.ts:48-50`), though part of the money was kept.
- **A partial refund's record is overwritten** (`repositories/PaymentRepository.ts:236`): the
  finalizing write replaces `paypal_response` and with it the `reversals` entry handled before it.
- **Rows decided `wait` keep their place in the batch** (`repositories/PaymentRepository.ts:274`).
  Their `updated_at` does not move, so enough of them hide the rows behind them.

Ledger:
- **A retry within five minutes of a crash is acknowledged although nothing was done**
  (`services/PaypalWebhookService.ts:89`): the orphaned claim cannot be taken over yet, and the
  answer is 200. `AckedIsHandled` excepts the events delivered twice within five minutes (`hasty`).

Subscriptions:
- **A stale ACTIVE overwrites `pending_cancel`** (`services/SubscriptionService.ts:252`). Only PayPal's
  CANCELLED is outranked by it; a handler that read ACTIVE before the customer cancelled writes
  `active` back. The next reconcile corrects it (`EndIsShown`).
- **A suspended subscription charged or re-activated after the company subscribed again**
  (`services/SubscriptionService.ts:28`). `suspended` is neither live nor retired, so it is not taken
  for a duplicate: the unique index refuses the write and the webhook is answered 5xx for ever.
  `BilledOnce` and `SalesSettled` are checked with `MaySuspend = FALSE`.
- **A lost renewal of an expired or suspended row is not reconciled**
  (`repositories/SubscriptionRepository.ts:142`): the daily list has three statuses.
- **A sale credited before is audited as "NOT credited"** (`services/SubscriptionService.ts:377`) when it
  is reported again after its row was retired and another is live: the duplicate check stands before
  the sale's unique index.

Access:
- **A ban is undone in the columns by a stale verification** (`services/AuthService.ts:591`). The
  company is read without a lock; a ban in between leaves `is_active` true until the next hourly
  projection. Access itself follows `deactivated_at` and is not affected.
- **A trial starts beside a payment captured during the verification**
  (`services/AuthService.ts:594`): "never to someone who has already paid" is checked on the old copy.
- **A second lapse is never purged** (`repositories/ExpiredDataPurgeRepository.ts:54`): `data_purged_at`
  is set once and not cleared when the company returns. That a lapsed company's data is erased in the
  end is therefore not claimed by a property.

- **The purge does not look at the grace period again** (`services/AccountDeletionService.ts:111`). Under
  the lock it checks that a deletion is requested. A request that was called off and made again while
  the list was worked through is purged at once. Nor does it cancel anything at PayPal, although the
  comment at lines 54-55 leaves that to it when the cancellation of the request failed.
- **A submission under way outlives the purge** (`services/QrService.ts:118`): it read the company before
  it was closed, waits for the purge's row lock, and inserts a customer into the closed account.
- **A purged company that returns and lapses again** keeps its new data (see above).

Accounts:
- **A reset verifies a signup without its trial** (`services/AuthService.ts:686`).
  `confirmPasswordReset` marks the address verified; only the verification link starts the trial
  (`services/EmailChangeService.ts:151-156` looks after this case, the reset does not), and
  the link opened afterwards finds the address verified and starts nothing.
- **A link requested while the address changes goes to the old mailbox**: the request read the user
  before the change committed. `LinksFollowEmail` excepts what was requested before.
- **A token that expires during its request passes the logout check** (`middleware/auth.ts`): the
  deny-list entry lives no longer than the token.
- **A token of the same second as a password change stays valid**, by the margin of one second; and a
  logout without Redis leaves the access token valid for the rest of its life.

Catalogue and plan changes:
- **Showing a plan reads it unlocked** (`services/PlanService.ts:380-384`). A concurrent edit archives
  it and makes a successor; the archived row becomes active again beside it.
- **A price edited in place keeps its PayPal plan.** `carriesHistory` looks at payments, not at
  subscriptions approved but not charged yet, so PayPal goes on charging the old price while
  `entities/Plan.ts` says that a plan is "never repriced in place"; their sales are flagged as mismatches.
- **A hidden plan of the old currency can be shown after the switch**: the switch is refused while
  a plan sells, hiding makes it possible, showing does not compare currencies.
- **"A mismatch here means NO plan this subscription could be on costs what was charged"** (the comment
  in `creditCycle`) is not so when the plan changed before the first sale was handled, when sales
  are handled out of order, or when PayPal could not be read. `CreditedAsCharged` says what holds.
- **A replayed sale may be audited as "NOT credited"** after the plan moved on, though it was.
- **The sync script run again after a crash gets the original PayPal plan**, because its request id is
  keyed by our plan's id, with the price of that time (`scripts/sync-paypal-plans.ts`).
- **Versions cannot share a PayPal plan**: `uq_plans_paypal_plan_id` forbids what comments expect.

Operations:
- **A notice can be lost between two calls of the worker** (`workers/email.worker.ts:299-300`). On the
  last failure it hands the claim back and then removes the job; a cron tick between the two claims
  the notice again and finds the job still there, so nothing is queued.
- **A notice whose worker dies twice is not handed back** (`workers/email.worker.ts:331`). BullMQ fails
  such a job with attempts left, and the listener hands back only what has used up its attempts, although
  the claim is meant to be handed back "after delivery has finally failed" (line 279). `Stalled` counts
  the notice as lost.
- **The canary and the daily subscription reconcile share an advisory lock key**
  (`cron/smtpCanary.cron.ts:30`, `cron/paymentReconcile.cron.ts:16`), contrary to what is said there, so
  a canary may be skipped and a refusal shown within two hours, not one. `RefusalIsShown` has this bound.
- **The canary's time-out record may overwrite the real outcome**, and a refusal in unknown words is
  taken for a fault of the recipient.

## Not modelled

- Onboarding by an admin, the company list and bulk e-mail: the result of onboarding, a company with a
  comp, is an initial state of `CompanyAccess`; a bulk mail is a send like any other.
- The PayPal client: its retries and errors are the answers PayPal's actions may give.
- The HTTP layer (routes, validation, rate limits, bot protection): which inputs reach a service is
  the guard of its action. The authentication middleware is in `AccessTokens`.
- Reports, exports, invoices, payment history and metrics: read-only queries and formatting.
- The rules of what a deliverable e-mail address is: string rules without state.
- Of modelled parts: sale disputes, which only write audit rows; settings other than the currency; the
  checks of the system status other than SMTP; hidden plans and the script's `--reset` in `PlanChanges`.

## Plan

1. *Done*: all modules listed above with their runs, and the proofs of every safety property, of both
   refinements, of what the two composed runs check, and of the safety halves of `SalesSettled`,
   `PaidIsGranted` and `BilledOnce`.
2. Safety lemmas for the other liveness properties: that a webhook of a duplicate is acknowledged only
   when PayPal has cancelled it (`BilledOnce`), and that a stuck row is reached within a number of
   batches (`StuckIsSettled`).
3. Onboarding by an admin, if it comes to share more state with the rest than it does now.

The modules are parameterised by their sets of rows and workers, have one action per transaction or
awaited call, and use no RECURSIVE operator, so that their invariants can be proved.

## Running

```
tlc -workers 2 -config payments_any.cfg MCOrderPayments
tlapm OrderPaymentsProofs.tla
```

Every run ends within about three and a half minutes on two cores. `PROJECT.json` lists the runs with
their module and configuration, the mutants, the lines of the code each definition stands for, the
findings, the hazards and the theorems.
