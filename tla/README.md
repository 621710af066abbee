# Sitelayer: verification of the money paths

Sitelayer is a construction operations platform: takeoff and estimates, crews
and labor time, equipment rental, and synchronization of all of it with
QuickBooks Online. One PostgreSQL database is shared by an HTTP API
(`apps/api`), any number of worker replicas (`apps/worker`) and a web client.
The workflows are pure reducers (`packages/workflows`) that both the API and the
worker call; the queue is a table, `mutation_outbox`, which the worker drains
with the functions of `packages/queue`.

This directory models the parts of that system in which an interleaving, a
crash, a stale screen or a lost answer could cost somebody money: rental billing
and labor payroll on their way to QuickBooks, labor time from the tap on a phone
through its review to payroll, the clock by which a rental is billed, estimates
sent to customers, the QuickBooks connection that every push goes through, and
the two mechanisms under all of them, the outbox and the workflow dispatcher. TLC checks
the models on small instances; TLAPS proves every safety property the passing
runs check, for instances of any size.

## Reading guide

| module | what it is |
| --- | --- |
| `RentalBilling` | the reducer of a rental billing run, shared by the next two modules |
| `BillingRun` | abstract: what rental billing promises the office |
| `RentalBillingPush` | the saga that keeps that promise: API, outbox, worker replicas, QuickBooks, event log |
| `RentalBillingPushProofs` | its inductive invariant, its safety theorems and the refinement of `BillingRun` |
| `LaborPayroll` | the reducer of a labor payroll run |
| `LaborPayrollPush` | its saga: automatic posting, one QuickBooks activity per entry and kind, edits meanwhile |
| `LaborPayrollPushProofs` | its inductive invariant and five safety theorems |
| `TimeReview` | the reducer of a time review run |
| `LaborLock` | review runs, lock and unlock rows, and the replicas that apply them |
| `PayrollEnrolment` | `LaborLock` composed with what consumes its locks |
| `PayrollEnrolmentProofs` | the inductive invariants of reopened and of approved runs, three theorems about the locks; the enrolment's inductive invariant and three theorems |
| `ClockServer` | the time clock's API |
| `OfflineClock` | a worker's browser that taps, queues and replays against `ClockServer` |
| `RentalClock` | one rental from delivery to close: billing, queueing, pushing |
| `RentalClockProofs` | its inductive invariants and its safety theorems, for any number of billers |
| `OutboxDrain` | `mutation_outbox` from request to prune, and a replica's heartbeat |
| `OutboxDrainProofs` | its inductive invariants and three safety theorems |
| `WorkflowTables` | seventeen reducers as transition tables |
| `WorkflowDispatch` | one row of any of them, its screens, the dispatcher and the event log |
| `EstimateShares` | a project's signed links: the office, the customer, the lifecycle, the e-mail drain |
| `EstimateSharesProofs` | inductive invariants of links, mails and attempts; five safety theorems |
| `QboConnection` | a company's connection row: tokens refreshed inside pushes, reconnection, settings, syncs |
| `QboConnectionProofs` | its inductive invariant and four theorems |
| `WebProofs` | the two machines of the browser: `WorkflowDispatch` for any tables and for those of the registry, four theorems; `OfflineClock` with `ClockServer`, its inductive invariant and its theorems |
| `MC*` | definitions that give the modules' constants a value for TLC |

`RentalBillingPush` EXTENDS `RentalBilling` and instantiates `BillingRun` with a
refinement mapping; `LaborPayrollPush` EXTENDS `LaborPayroll`; `LaborLock`
EXTENDS `TimeReview`; `PayrollEnrolment` EXTENDS `LaborLock` and runs its
next-state relation interleaved with its own; `OfflineClock` EXTENDS
`ClockServer`, whose actions it gives a caller; `MCWorkflowDispatch` gives
`WorkflowDispatch` the tables of `WorkflowTables`, and `EstimateShares` takes the
project lifecycle from the same tables. Each `<run>.cfg` is one model-checking
run of the MC module, or the module, it goes with.

## Inventory of the system

State is PostgreSQL tables unless another place is named. "Lease" is the claim
pattern common to every drain: `update mutation_outbox set status='processing',
next_attempt_at=now()+5min, attempt_count+1 where status in
('pending','processing') and next_attempt_at<=now() ... for update skip locked`.

| part | state | operations | what is hard |
| --- | --- | --- | --- |
| **Rental billing saga** (`workflows/rental-billing.ts`, `pushers/rental-billing-invoice.ts`, `routes/rental-billing-state.ts`) | `rental_billing_runs`, its outbox row, `workflow_event_log`; QuickBooks' invoices | six office events; claim, push, commit, two recovery transactions | the push happens between an unlocked read and a locked write; answers get lost; two replicas may push the same run; the failure path is not atomic |
| **Time review and labor locks** (`workflows/time-review.ts`, `routes/time-review-runs.ts`, `pushers/lock-labor-entries.ts`) | `time_review_runs`, `labor_entries.review_run_id/review_locked_at`, one outbox row per decision | draft, insert, approve, reject, reopen; lock, unlock, back-off, park | rows of one review are applied in any order; READ COMMITTED snapshots of overlapping UPDATEs; two reviews of one entry |
| **Payroll enrolment** (`labor-payroll-push.ts`, `routes/labor-payroll-runs.ts`) | `labor_payroll_runs`, `labor_entries.payroll_run_id` | the worker's bridge, the office's own creation | entries are read without a lock and written later |
| **Rental billing clock** (`domain/index.ts`, `queue/rentals.ts`, `runners/rental-invoice*.ts`, `pushers/rental-cadence-invoice.ts`, `routes/rentals.ts`) | `rentals`, `material_bills`, outbox rows per `state_version`; QuickBooks' invoices | return, close, transfer, clear return, delete; bill (worker or user); queue, claim, push, commit | the period is computed from a stale read; dates fall on boundaries; the status is written past the reducer |
| **Outbox drain and pruning** (`queue/index.ts`, `queue-drain.ts`, `queue-prune.ts`, `mutation-tx.ts`, `routes/qbo.ts`) | `mutation_outbox`, `sync_events` | upsert, re-arm, dead-letter sweep, dedicated claim, generic apply, quarantine, prune | re-armed rows that carry an old `applied_at`, a high `attempt_count` or an attempt still under way |
| **QuickBooks pull** (`pushers/qbo-pull.ts`) | imported accounts and customers | request, claim, pull, record | long calls under a five-minute lease |
| **Workflow dispatch and screens** (`workflow-dispatch.ts`, `mutation-tx.ts`, `machines/headless-workflow.ts`) | a workflow's row, `workflow_event_log`; the screen's machine | load, choose, dispatch, conflict, reload; events without a version | stale views, late and lost answers |
| **Workflow reducers** (`workflows/*.ts`) | one snapshot each | about 20 state machines | offered events that are not legal, dead ends |
| **Labor payroll push** (`labor-payroll.ts`, `labor-payroll-push.ts`, `labor-payroll-auto-post.ts`, `routes/labor-payroll-runs.ts`) | `labor_payroll_runs`, its outbox row, `labor_entries`; QuickBooks' time activities | office events, automatic approve and post, batch of requests, commit, recovery | a batch half posted; entries edited meanwhile; the office and the automatic post at once |
| **Time clock and web offline queue** (`routes/clock.ts`, `lib/api/clock.ts`, `lib/offline/*.ts`) | `clock_events`, `labor_entries`; IndexedDB, the Web Lock | clock in, clock out, void; tap, queue, replay, back off | endpoints that are not idempotent, retries after lost answers, two tabs, order |
| **Estimate shares** (`routes/estimate-shares*.ts`, `estimate-share.ts`, `runners/estimate-share-email.ts`, `agent-drain.ts`, `project-lifecycle.ts`) | `estimate_share_links`, `projects.lifecycle_state`, outbox rows; the provider's mails | create, revoke, expire, answer, lifecycle events; claim, read, send, commit | the customer and the office act at once; the mail leaves inside a transaction that may fail |
| Estimate push | its runs and outbox rows | as the rental billing saga | several QuickBooks calls per run, a reaper |
| **QuickBooks connection and tokens** (`qbo-token-refresh.ts`, `routes/qbo.ts`, `qbo-integration-connection.ts`, `qbo-sync-run.ts`) | `integration_connections`, `qbo_sync_runs`; Intuit's grants and refresh tokens | read, lock, refresh, call, commit or roll back; connect, save, stamp; mark, start, end a sync | two replicas rotate one token; a rotated token is in an open transaction; five writers of one status column |
| Circuit breaker, lanes (`circuit-breaker.ts`, `qbo-circuit.ts`, `lane-control.ts`) | process memory; lane rows | open, half open, close; pause, resume | an open circuit burns attempts; a keeper against an operator |
| Audit escrow | keys, anchors | create a key, anchor | two replicas create or anchor at once |
| Notifications and e-mail | `notifications` | claim, send, back off | at-least-once sends inside a transaction |
| Agent feed and work dispatch | work items with leases | claim, renew, sweep, reconcile | leases against an external dispatcher |
| Other drains (crew schedule, damage charges, debug bundles, alerts) | outbox rows | claim and one insert or alert | as the outbox drain |
| Worker process (`worker.ts`) | none | a heartbeat runs the lanes one after another per company | crash between lanes |
| Form machines, other routes, takeoff and capture pipelines, formula evaluator, scenario, configuration, schema, deployment | - | - | not concurrent, or numeric, or presentation |

How they meet: the API writes a workflow's row, its log entry and an outbox row
in one transaction; a worker replica claims the outbox row in a transaction of
its own, does the external work, and writes the outcome through the same reducer
under the workflow row's lock. Nothing else passes between the two. Replicas
share nothing but the database.

What makes each modelled part correct:

- *Saga*: a posted run has exactly one QuickBooks invoice and shows its id; an
  unposted one shows none; the log replays to the row; a run never waits for a
  row the queue has finished with; a request is eventually answered or visible
  to operators.
- *Locks*: a reopened review keeps no entry locked and an approved one has locked
  all it covers, each but for the causes the code leaves open; every decision's row
  comes to an end.
- *Enrolment*: entries' stamps and payroll runs' lists agree and never change.
- *Rental clock*: no day is skipped, none is billed twice but by billings that read
  the same rental, QuickBooks holds nothing that was not billed, a returned rental
  is closed in the end.
- *Outbox*: a row is applied only for work done; a request that gets no attempt
  has a cause one can name; whatever is queued comes to rest.
- *Dispatch*: the log has an entry for every version and replays to the row where
  only the reducer moves it; an event applies to what its user saw; what is offered
  is legal; no click is dropped in silence.
- *Payroll push*: nobody is paid twice, a posted run has paid all it covers, the
  auto-posted badge is true, a requested post is answered or visible.
- *Time clock*: no tap is dropped in silence, none is recorded twice without a
  lost answer, every clock-out of a shift that is to be paid is paid or its failure
  was seen, the queue drains.
- *Estimate shares*: the project shows what the customer answered and overlooks
  no answer; an applied row was mailed; no more mails than attempts.
- *QuickBooks connection*: the refresh token stored is the one Intuit takes; no
  token is replaced twice; "syncing" has a sync behind it.

`PROJECT.json` lists every part with its sources and status, every hazard at its
line with the properties that cover it, and the lines each definition models.

## The models and the code

### Rental billing saga: `RentalBilling`, `RentalBillingPush`, `BillingRun`

`RentalBilling` is the reducer: a snapshot is `state`, `state_version` and
`qbo_invoice_id`; `Legal` is the union of the `assert...Transition` guards and
`Reduce` the returned snapshot. Timestamps, actors and error texts are left out.

| variable | code |
| --- | --- |
| `run[r]` | the `rental_billing_runs` row |
| `log[r]` | the run's `workflow_event_log` rows, in insertion order |
| `outbox[r]` | the one row with key `rental_billing_run:post:<r>`; `due` is `next_attempt_at <= now()` |
| `invoices` | what QuickBooks holds, with the `requestid` of the request that made it |
| `worker[w]` | how far replica `w` is in its tick: rows claimed, the row at work, the id its push returned |

Every transaction is one action, except that the per-row work transaction reads
the run unlocked, calls QuickBooks while it is open and only then locks the run,
so the read (`ReadRun`), the call (`PushAccepted`, `PushThrows`) and the locked
write (`CommitSuccess`, `CommitFails`) are apart. `HumanEvent` is the route's
transaction: reduce, persist, log, and for POST_REQUESTED the upsert of the
outbox row. RETRY_POST takes a run from failed back to approved and enqueues
nothing. A request with a stale version is answered 409 and is a stutter step.
`RecordFailure` and `MarkFailed` are the two recovery transactions; each may be
lost. `Crash` loses what a replica had in memory; an open transaction rolls
back, claimed rows stay leased. `LeaseExpires` may happen while the replica is
alive: the fetch to QuickBooks has no timeout and a batch is worked row by row.
`SweepDeadLetters` runs before the drain and is best effort (`SweepFails`).

Worth knowing: the "already pushed" branch of the handler cannot be taken, as a
posting run never has an invoice id (`PostedIsInvoiced`); it is modelled because
the code has it. QuickBooks' own behaviour (one invoice per requestid) is taken
from the comment and the call in `qbo-invoice-push.ts`. The ledger rows
`event:<version>` that the route also writes belong to the generic drain and are
not modelled; neither is the deletion of a run, which no code performs.

`BillingRun` is the same reducer with no queue, worker or log: the office
decides, QuickBooks books an invoice for a run only once its post has been
requested, and a run succeeds only when it is booked. The mapping
takes `requested` from the log and `booked` from `invoices`.

### Time review and labor locks: `TimeReview`, `LaborLock`

| variable | code |
| --- | --- |
| `run[r]` | a `time_review_runs` row; `absent` and `drafted` are before its insert |
| `owner[e]` | `labor_entries.review_run_id`, set and cleared together with `review_locked_at` |
| `deleted` | the entries whose `deleted_at` is set |
| `row[r, v]` | the outbox row of the decision that made version `v` |
| `worker[w]` | the batch with the attempt count each claim returned, the row at work, the entries its UPDATE chose |
| `raced`, `late`, `skipped` | history: runs whose unlock began over an uncommitted lock of theirs; runs unlocked while they were approved again; locks that found an entry held by another run |

A review is created in two transactions (`DraftRun`, `InsertRun`): entries read,
then the run inserted. `Decide` is the event route, `DeleteEntry` the office's
deletion of a labor entry, which asks neither for its lock nor for its payroll run. A lock or unlock is one
UPDATE under READ COMMITTED: `StartStatement` takes the statement's snapshot and
evaluates its WHERE clause, EXISTS included; `CommitRow` writes the rows which
still satisfy the conditions on the entry. PostgreSQL re-checks only those after
waiting for a row another transaction changed, never the EXISTS. `RowFails`
backs a row off or parks it by the attempt count of its claim. A `begin` that
fails leaves the handler with the rest of its batch claimed and is `Crash`.

### Payroll enrolment: `PayrollEnrolment`

Adds `payroll` (each period's run and the entries it lists; the unique key makes
the period name the run), `stamp` (`labor_entries.payroll_run_id`) and `enrol`
(where each bridge and office user is). Candidates are listed, then each is
enrolled in a transaction that reads the entries (`ReadCovered`; for the office
`ReadEligible`) and later inserts and stamps (`CommitEnrolment`). Deleted entries
are not read, so a review all of whose entries were deleted since is enrolled as a
payroll run of none; the office's own creation refuses that. A conflict on
the period makes the bridge skip and the office's request fail. The limit of ten
candidates per tick and their order are abstracted to any order. Payroll runs
are never deleted, and voiding one does not release its entries.

### Rental billing clock: `RentalClock`

| variable | code |
| --- | --- |
| `today` | the day, UTC |
| `rental` | the `rentals` row; `through` is `last_invoiced_through`, a null being the day before delivery |
| `billed[d]` | how many `material_bills` cover day `d` |
| `row[v]` | the `post_rental_invoice` row with key `rental:invoice_push:<id>:<v>` and its payload's period |
| `actor[a]` | a replica or an office user: the rental it read, the rows it claimed, the row at work |
| `invoices` | what QuickBooks holds |
| `disputed` | history: days that a billing found billed by another, which came between its read and its write |

`Start` to `NextInvoice` are `calculateRentalInvoice`, branch by branch.
`Fetch`/`Bill` is the worker's lane, `FetchByHand`/`BillByHand` the `/invoice`
route: both read the rental without a lock and later write period, clock and
status computed from what they read. `Queue` is `enqueueCadencePush` with the
upsert of `recordLedger`; it reads the current `state_version` and decides on
the rental as billed. `Claim` to `MarkFailed` are the cadence push drain. The
lanes of a replica run one after the other (`worker.ts`), so a replica is in one
of them at a time. `INVOICE_QUEUED` and `INVOICE_POSTED` are applied in one
transaction, which is why no `invoiced_pending` state appears. Attempts are not
counted; `Retire` lets the sweep take any live row.

Left out: edits of the delivery date, rate, cadence and project; the rental a
transfer creates; rentals without a project or rate (their periods have no
bill). Rentals share no row, so one is enough.

### Outbox drain: `OutboxDrain`

| variable | code |
| --- | --- |
| `row[k]` | the `mutation_outbox` row under idempotency key `k`; `due` is `next_attempt_at <= now()`, `applied_at` is null, recent or older than the retention window, `id` counts the rows inserted under the key |
| `worker[w]` | where replica `w` is in its heartbeat; the row it pulls for and whether that row was asked for again meanwhile; whether the count after the sweep found work |
| `asked`, `late`, `pulled` | history: keys requested and not attempted since; keys given an outcome by an older attempt; rows whose pull committed |

A key is of one of three kinds: generic (`GENERIC_APPLY_MUTATION_TYPES`, nothing
to do but apply), a job (here `pull_qbo_reference`, claimed by `processQboPull`)
or a stranger that nobody handles. `Request` is `recordMutationOutbox` for the
first and last kind and the upsert of `POST /api/integrations/qbo/pull` for jobs.
A heartbeat is `SweepDeadLetters`, the pull (`ClaimPull` to `MarkFailed`),
`DrainGeneric` (quarantine and apply of `processQueue`) and `Prune`. Outcomes are
written by row id, so a row that was pruned and inserted again does not take one.

### Workflow dispatch: `WorkflowTables`, `WorkflowDispatch`

`WorkflowTables` holds, for seventeen workflows, where each event is legal and
where it leads (the reducer), what `nextEvents` offers, the terminal states and
the events that reach the row without a client's version. Two workflows also have
handlers that write the state past the reducer, with neither version nor log entry
(`aside`): billing writes `rentals.status` (`queue/rentals.ts:98-167`), `PATCH
/api/projects/:id` the status that a project's closeout reads (`projects.ts:522-590`).
And the notification worker rebuilds every snapshot as pending before it reduces, and
may raise several events of the row in one transaction (`drains`,
`queue/notifications.ts`).

| variable | code |
| --- | --- |
| `workflow` | which of them the row belongs to |
| `row`, `log` | the row's state and version; its `workflow_event_log` rows |
| `screen[s]` | the machine of `headless-workflow.ts`: where it is, the snapshot shown, whether an error is |
| `requests`, `answers` | posted events under way, responses under way |

`Dispatch` is `dispatchWorkflowEvent` in the order of its checks; a second log row
for one version is a 409 that rolls back. `Unasked` is an event of the worker or
of an endpoint that takes no version; `Drain` one claimed notification; `WriteAside` a
state written past the reducer; `Promptly` a user of some other screen. A
conflict sends the machine to read the row again, still submitting.

### Labor payroll push: `LaborPayroll`, `LaborPayrollPush`

| variable | code |
| --- | --- |
| `run`, `row` | the `labor_payroll_runs` row; its outbox row |
| `hours`, `split` | the entries' hours (0 once deleted); whether `ot_service_item_code` is set |
| `books` | the time activities QuickBooks holds, by requestid |
| `worker[w]` | where replica `w` is, the activities it has yet to post, the ids it got |

A heartbeat sweeps, lets the weekly automatic post list and move the run
(`ListGenerated` to `AutoPost`: each listed without a lock, then locked and looked
at again), and drains the row. `ReadBatch` reads run, setting and entries without
a lock; each `PostActivity` is one request; `CommitSuccess` locks the run and
commits with the row; `RecordFailure` and `MarkFailed` are transactions of their
own that may be lost. `EditEntry` and `SetOvertimeItem` are the routes that never
ask whether a run is being posted; `touched` remembers what they changed under a
batch. The requestid of an activity folds run, entry and kind into a 32-bit hash next
to eight characters of each id; different triples are taken to give different ids.

### Time clock: `ClockServer`, `OfflineClock`

| variable | code |
| --- | --- |
| `events`, `entries` | the worker's `clock_events` by `occurred_at`; the labor entries drafted from them |
| `thread[s]` | the request thread `s` handles |
| `taps` | what the worker tapped, in order |
| `queue` | the rows in IndexedDB, with attempts and back-off |
| `live[d]`, `replay[d]`, `lock` | per tab the live call and the replay; who holds the Web Lock |

`Tap` is `liveOrQueueClockIn/Out`: a live call, and a queued row when no response
comes at all. `StartReplay` to `EndReplay` are `replayOfflineQueue`: the list is
read once, resting rows are skipped, 2xx and 4xx remove a row, everything else
defers it and the replay goes on. On the server a clock-out is an unlocked read
and two transactions (`FindOpenIn`, `ClockOut`, `DraftEntry`), and `Breaks` may
come between any two. The second drafts a labor entry only of a shift at a project, by
a known worker, of more than no and less than 24 hours (`clock.ts:578-583`): whether a
shift is one is chosen with the event, which remembers it (`drafts`).

### Estimate shares: `EstimateShares`

| variable | code |
| --- | --- |
| `link[s]`, `row[s]` | an `estimate_share_links` row; its `send_estimate_share` outbox row |
| `project` | `projects.lifecycle_state` |
| `worker[w]`, `mailed[s]` | where replica `w` is in `drainAgentMutations`; mails the provider took |
| `before`, `deal` | history: links answered before the project was sent; the link whose answer moved it |

`Create`, `Revoke`, `Answer` and `StaffEvent` are one transaction each, under the
locks of link and project; `MaybeApply` is `maybeApplyLifecycleEvent`, which drops
an event the lifecycle does not take. The drain reads the link without a lock
(`ReadShare`), sends inside the row's transaction (`SendEmail`) and marks the row
(`CommitRow`) or, in a transaction of its own that may be lost, its failure.

### QuickBooks connection: `QboConnection`

| variable | code |
| --- | --- |
| `conn` | the committed `integration_connections` row: its status and tokens, `fresh` while `access_token_expires_at` is beyond the safety margin |
| `lock` | the worker transaction that holds the row's `FOR UPDATE` lock |
| `worker[w]` | where replica `w` is in its push or pull: the tokens it read first, those it saw under the lock or wrote since, the status it wrote, the token of its call |
| `issued`, `latest` | Intuit's side: access tokens issued, each grant's latest refresh token |
| `callback[c]`, `sync[s]` | the tokens an OAuth callback was given; how far a `POST /sync` is |
| `lost`, `by` | history: grants whose latest refresh token was rolled back or never arrived; the sync that marked the row last |

A push reads the row unlocked (`ReadConnection`), locks it when the token has
expired or was refused (`LockConnection`, which checks again), asks Intuit
(`RefreshAnswered`, `RefreshRefused`, `RefreshLost`) and calls QuickBooks
(`CallAnswered`, `CallUnauthorized`); a batch starts over for each call with the
tokens it read first (`NextCall`). What it wrote is seen by others at `Commit`
only. `Rollback` is any throw, a commit that fails or the death of the worker.
The callback exchanges its code and then stores the tokens (`Exchange`,
`Connect`); `SaveSettings` is the upsert of `POST /api/integrations/qbo`, which
replaces tokens but not their expiry; `DrainStamps` the heartbeat; `MarkSyncing`
to `FailSync` the inline sync, whose mark, run and end are three transactions.
Access tokens are numbered, refresh tokens are a grant and a serial number.

## What the runs check

| run | module | instance | shows |
| --- | --- | --- | --- |
| `push_retries` | `MCRentalBillingPush` | 1 run, 2 replicas, batches of 1, retry cap 4, up to version 8 | `PostedIsInvoiced`, `OneInvoicePerRun`, `LogIsHistory`; `KeepsPromise`: the saga implements `BillingRun`; under `FairSpec`, `PostingIsAnswered` |
| `push_orphan` | same | as `push_retries` | `VoidedHasNoInvoice` is violated |
| `lock_reopen` | `MCLaborLock` | 1 review, 1 entry, 2 replicas, batches of 2, 2 attempts, cap 3, up to version 3 | `ReopenedRunHoldsNoLock` and, under `FairLockSpec`, `RowsSettle` |
| `enrol_books` | `MCPayrollEnrolment` | 2 reviews with an entry in common, 2 overlapping periods, 2 entries one of which the office may delete, a replica, a bridge and a clerk, up to version 3 | `StampsMatchLists`, `ApprovedRunHoldsItsLocks` |
| `clock_shared` | `RentalClock` | 1 replica and 1 clerk billing, 4 days, cadence 2, a planned return, a transfer, up to version 2 | `EachDayBilledOnce`, `NoDayMissed`, `InvoicedDaysAreBilled` and, under `FairSpec`, `ReturnedIsClosed` |
| `clock_invoices` | same | 1 replica, 5 days, cadence 1, a planned return | `PushedPeriodsAreInvoiced` is violated |
| `payroll_push` | `MCLaborPayrollPush` | 1 run of 2 entries (10 and 8 hours), 2 replicas, cap 2, up to version 5, 1 edit | `NothingOverpaid`, `PostedPaysEveryEntry`, `AutoPostedWasAutoApproved` and, under `FairSpec`, `PostingIsAnswered` |
| `offline_replay` | `MCOfflineClock` | 2 tabs, 2 requests at once, 2 taps, 1 void, 3 faults, back-off from the first attempt | `ClockTypeOK`, `TapsAreKept`, `CopiesAreExplained`, `OutsArePaid`, `OvertakenWereDeferred` and, under `FairClockSpec`, `QueueDrains` |
| `outbox_drain` | `OutboxDrain` | a key of each kind, 2 replicas, 2 requests, cap 2, 1 fault | `TypeOK`, `AppliedWasWorked`, `LossesAreExplained` and, under `FairSpec`, `RequestsSettle` |
| `workflow_events` | `MCWorkflowDispatch` | each of 17 workflows, 1 screen followed step by step among others, 2 clicks, up to version 6, states written past a reducer up to version 3 | `LogReplays`, `ActedOnWhatWasShown`, `OffersFit` and, under `FairSpec`, `ClicksAreAnswered` |
| `share_deals` | `EstimateShares` | 2 links, one of them mailed while the project was a draft, 2 replicas, batches of 1, 2 attempts, 1 fault | `TypeOK`, `AppliedWasMailed`, `MailsAreAttempts`, `AnswersReachTheProject`, `ProjectShowsTheAnswer` |
| `qbo_tokens` | `MCQboConnection` | 2 replicas, 2 consents, a callback, 2 syncs, 3 access tokens | `TokensAreCurrent`, `RefreshesAreNeeded`, `SyncingIsExplained` |

Every property of a passing run has a mutant of the code in `PROJECT.json` (a
dropped guard, a key of the wrong version, a row that is not claimed again after
its lease ...) under which the same run finds it violated.

### The bounds and why they suffice

- *Runs, reviews, rentals, links.* A billing run shares no row with another but
  through a replica's batch, whose rows are worked each in a transaction of its
  own: one run meets every race on a run. Two reviews of one entry are needed,
  and enough, for a lock that is skipped or released; two links of one project
  for answers that compete. Rentals share nothing. A payroll batch needs two
  entries to stop half way, and one of them overtime to stop within an entry.
- *Replicas.* The races are between a holder of an expired lease and its
  successor, between two statements over the same entries, or between two that need
  the same token, so two. `enrol_books` has one replica that locks, beside a bridge
  and a clerk that read what it locks; `clock_shared` has one, beside a clerk that
  bills at the same time: what two replicas do there is proved for any number.
  Replicas, syncs and consents are interchangeable in `qbo_tokens`, which uses that
  symmetry; it is sound as that run checks no liveness.
- *Versions.* `MaxVersion` stops users. Version 8 of a billing run leaves room
  for request, cancel, request, fail, retry and request again, so that an
  outcome of the first attempt can meet the third; version 3 of a review is
  approve and reopen, a lock row and an unlock row; a second approval, whose lock a
  late unlock can undo (`late`), needs version 4 and is covered by the proof, which
  holds for every `MaxVersion`; version 5 of a payroll run is approve, request, fail
  and request again; version 6 of a workflow reaches every state of every table
  and leaves the longest of them a cycle. `MaxAside` says up to which version
  the state may be written past the reducer: at three, any state of the two workflows
  may be overwritten by any other, repeatedly, and three more events follow.
- *Entries.* `Deletable` names the entries the office may delete: one in
  `enrol_books`, which is all that a period of one entry lists.
- *Attempts.* The caps 2 to 4 stand for `MUTATION_MAX_RETRIES` = 10 and for
  limits of 5; only reaching the cap matters, and counts saturate there, except
  in `OutboxDrain` and `EstimateShares`, where the bound on attempts past the cap
  is itself a property (in `TypeOK`).
- *Faults.* `MaxFaults` bounds what fails where a history variable counts it;
  three in `offline_replay` are a lost answer, a reload and a failure of the
  retry. In the sagas crashes and failures are not bounded.
- *Tokens.* Three access tokens are a consent, a refresh and a reconnection or a
  second refresh: what one replica rotates meets what the other read before.
  Two syncs let one's end overwrite the other's mark.
- *Taps and clicks.* Two taps are a clock-in and its clock-out, or two taps of a
  kind; two clicks let the answer to the first meet the second.
- *Days.* Four days with a cadence of two hold a full period, a period capped at
  the present day, one ended by a return inside it, and a return before the next
  period starts; a billing by hand may come between any read of the worker and its
  write. `clock_invoices` needs a fifth day and a cadence of one for its two pushes.
  `MaxBilled` saturates a counter of which only zero, one and more are told apart.
- *Deadlock.* `offline_replay` and `workflow_events` turn the check off: when the
  bounded taps or clicks are used up and answered, nothing need happen any more.
  In all others a replica can always tick.

### Fairness

- `push_retries` (`FairSpec`): the replicas keep ticking, as the heartbeat is a
  timer and the supervisor restarts a dead process (weak fairness of a replica's
  next step); a replica does not die at every tick before it has claimed, and
  not every sweep fails (strong fairness of `Claim` and `SweepDeadLetters`);
  time passes (weak fairness of `LeaseExpires`). Nothing is assumed of users, of
  QuickBooks, or of crashes and lost transactions during work: a run may be
  crashed on at every attempt, and it is the retry cap that then answers it.
- `lock_reopen` (`FairLockSpec`) and `payroll_push` (`FairSpec`): the same, of
  their drains.
- `clock_shared` (`FairSpec`): days pass, the worker ticks, and not every billing
  transaction fails (strong fairness of `Bill`). Pushes may fail for ever.
- `outbox_drain` (`FairSpec`): heartbeats go on, leases run out, and a lane is not
  paused for ever, so a claim that stays possible is made (strong fairness of
  `ClaimPull`). Marks may be lost every time.
- `offline_replay` (`FairClockSpec`): handlers return or break, a tab that is open goes
  on, its heartbeat starts a replay, back-off windows pass. Failures of the
  network stop, being bounded by `MaxFaults`.
- `workflow_events` (`FairSpec`): the browser settles every fetch, one way or the
  other (weak fairness of `ScreenStep`). The server need not answer.
- `share_deals`, `enrol_books` and `qbo_tokens` claim no liveness.

## What is proved

`tlapm` proves the following for every set of runs, entries, replicas, screens
and links and every value of the caps, from the assumptions stated in the
modules alone: the caps are positive, sentinels are not ids, kinds of keys are
disjoint, dates are days, hours are positive, replicas are finitely many
(`NoInvoiceAssumption`,
`PushAssumption`, `PayrollAssumption`, `LockAssumption`, `NobodyIsNoClaim`,
`EnrolmentAssumption`, `ClockAssumption`, `KindsAreDisjoint`,
`BoundsAreNaturals`, `ServerBounds`, `BoundsAssumption`, `ShareAssumption`,
`ConnectionAssumption`, and `TablesAssumption`: what is written past a reducer is one
of its states). Two theorems say more than that in their hypothesis:
`ShareTypeCorrect` (the retry cap is no lower than the attempts after which a failure
parks a row, without which it is false) and `RegistryOffersFit` (the tables are those
of the repository's reducers).

**Rental billing saga** (`RentalBillingPushProofs`). `TypeCorrect`,
`PostedRunsAreInvoiced`, `RunsAreInvoicedOnce`, `LogReplays`,
`PostingRunsAreQueued`, `SagaKeepsPromise`. None of the properties is inductive.
`SafetyInv` adds what they rest on: what a replica holds in its hands is good
whatever has become of the run meanwhile (a replica that has pushed holds an
invoice QuickBooks has for the row at work; every row it claimed was requested),
every invoice carries its run's id as requestid, and the log, read from its first
entry, determines the row. The proof that a step keeps it has one lemma per
action; events of users and of workers share the lemmas `HistoryStep` and
`RequestedStep` about appending to the log. The refinement then maps a push that
reaches QuickBooks to `Book` (or a stutter when the invoice exists), the two
locked writes to `Succeed` and `Fail` or a stutter when the run has moved on, and
all queue steps to stutters.

**Rental clock** (`RentalClockProofs`). `ClockTypeCorrect`, `NoDayIsMissed`,
`InvoicedDaysWereBilled`, `UndisputedDaysBilledOnce`. A billing
writes what it computed from a rental read earlier, and a push invoices the
payload its claim returned, so none of these is inductive. `ClockInv` says that
every rental anybody has read is covered by bills, `PushInv` that every payload in
a row, in a batch or at work was billed. `BillsKept` (no step takes a bill back)
carries both over other actors' steps; `InvoiceCovers` is the arithmetic: a period
begins the day after the last one ends and is billed whole. `UndisputedDaysBilledOnce`
is for any number of replicas and clerks. A billing that finds the rental billed
further than it read puts the days between into `disputed`; it may also set the clock
back, and whoever still holds a rental read before that is then ahead of the row. The
invariant says that it is ahead by disputed days only (`AheadIsDisputed`,
`InvoiceAhead`), so that every other day a period bills was not billed yet
(`InvoiceOnce`).

**Outbox** (`OutboxDrainProofs`). `AppliedRowsWereWorked`, `OnlyExplainedLosses`,
`TypeCorrect`. The inductive invariant adds that a replica at work works on a job
(`WorksOnJobs`) and that work begun since the last request answers that request
(`FreshWorkIsAnswered`): it is what lets a late outcome be told from a timely
one. `TypeOK` bounds the attempts of a row past the cap: only a replica that swept
before the row reached the cap can still claim it, so a row's attempts and the
replicas that have swept and not yet claimed are counted together: one claim each
for every request, and one more for every failure recorded late.

**Dispatch** (`WebProofs`). `Typing`, `TheLogReplays`,
`ChoicesApplyToWhatWasShown`, for any tables, not the seventeen of the run alone.
An event can be applied long after it was chosen, so the invariant says that what
a screen shows, an answer carries and a request saw is the row as it was at that
version (`ScreensShowThePast`, `AnswersHoldThePast`, `RequestsSawThePast`), and
the log tells what the row was at each version (`History`). These speak of states where
nobody writes the state past the reducer, and of versions in every table: that the log
has one entry for every version but the last holds of all of them. One lemma, `LogExtends`, carries the logs of a reduced event
and of a worker's chain alike. `RegistryOffersFit` is
about the tables: each of the seventeen offers only what its reducer accepts, and
leaves no state that is not terminal without a way out. The invariant adds that a
request which is not stale holds an event its own snapshot offered, and names the
states in which a transaction may leave a row (`Rests`): a worker's chain of events
passes through others.

**Labor payroll push** (`LaborPayrollPushProofs`). `PostedRunsPayEveryEntry`,
`NobodyIsOverpaid`, `TheBadgeIsTrue`, `PostingRunsAreQueued`, `PayrollTypeCorrect`.
A replica posts hours it read long before, and the run may be failed, requested
again or worked by another replica meanwhile. The invariant says of an entry nobody touched under a batch that what
QuickBooks holds of it is due to it (`BooksFit`), of any entry that an activity's
requestid names its entry and kind, and that each activity due to it
is, for a replica in the middle of a batch, still to be posted or in hand with
QuickBooks holding it (`Fits`). Edits keep it because an entry somebody holds a
whole batch of has been read (`ReadWhenPushed`), so an edit takes it out of what
the invariant speaks of. What is paid of an entry is then the sum over some of the
at most two parts due to it, which is no more than was worked.
`PostingRunsAreQueued` is the safety that `PostingIsAnswered` rests on: a posting run
has a row that is not applied, because a commit that applies the row settles a run
that is still posting in the same transaction.

**Labor locks** (`PayrollEnrolmentProofs`). `LockTypeCorrect`;
`ReopenedRunsRelease` and `ApprovedRunsHoldTheirLocks`, for any number of replicas and
any reviews that overlap in any way. A statement writes, long after it chose its
entries, what it saw then, and the rows of one review are applied in any order, so
neither is inductive. For reopened runs the invariant says that while a run that is no
longer approved holds an entry, or a lock of it has chosen one, an unlock row of it is
still to be applied, and that an unlock under way has chosen every entry its run holds:
only a lock that was uncommitted when that unlock began can make it miss one, and that
is what `raced` records. For approved runs it says that while an entry the run covers
is not locked by it, and no lock of it was seen to skip it, a lock row of the run's
last approval is still to be applied, and that a lock under way has chosen each such
entry that no other run held; an unlock may take an entry back only by committing
after the run was approved again, which is what `late` records.

**Enrolment** (`PayrollEnrolmentProofs`). `StampsAndListsAgree`, `BooksAreFinal`,
`EnrolmentTypeCorrect`. The invariant adds to types and agreement that whoever is
about to insert a payroll run knows its period (`ReadersHavePeriods`); the steps of the locks below keep their types by
`LockTypeNext` and touch nothing else.

**Estimate shares** (`EstimateSharesProofs`). `NoAnswerIsOverlooked` and
`TheProjectShowsTheAnswer` from the invariant `Sale` (a project moved by an answer
knows the link that moved it, and an answer never changes); `AppliedRowsWereMailed`
from `Drain`, which says that a replica past its send has mailed the row it holds
or found its link dead, whatever other replicas did to the row. `AttemptsBoundMails`
counts, for each row, the mails and the replicas that hold it and may still send
one: together they are no more than its attempts (`MailsAndHolders`).
`ShareTypeCorrect` counts the replicas that have swept as the outbox does, and the
faults: a failure recorded by id may re-queue a row that the cap had retired, each
time for one attempt more. It asks that the cap be no lower than the attempts
after which a failure parks a row, as 10 and 5 are; with `MUTATION_MAX_RETRIES`
set below 5 the attempts past the cap grow with the failures instead.

**QuickBooks connection** (`QboConnectionProofs`). `TokensStayCurrent`,
`RefreshesAreNecessary`, `SyncingHasACause`, `ConnectionTypeCorrect`. The row's
lock carries the argument, but the lock is let go at the end of a push only, and
the push may hold tokens that nobody else sees. The invariant says that whoever
is refreshing, has written the row or repeats a refused call holds the lock
(`Holding`) and sees the row's grant and tokens or has written Intuit's latest
(`SeesTheRow`), and that tokens on their way from a callback are of a grant
nobody has stored (`CallbacksAreNew`). `OthersUndisturbed` is the lemma that a
step of one replica leaves this of every other.

**Time clock** (`WebProofs`). `ClockTypesHold`, `NoTapIsDropped`,
`CopiesAreUnsure`, `ClockOutsArePaid`, `OnlyTriedRowsAreOvertaken`, for any number of
tabs, taps, failures, voids and threads of the API, and `NoTabWaitsInVain`. None is inductive, and they
share one invariant, `ClockIInv`. A tab works on a tap that is not queued yet and
no other tab works on (`LiveTaps`); the tab that replays is the one that holds the
lock (`Replays`), and the rows it still has to do are as it read them
(`TodoIsQueued`), which holds because nobody but the replay writes a row's
attempts; a thread's caller waits for that very call (`Callers`). On this rests
the count that explains copies (`CopiesCount`): for each tap, the events it has,
the threads that may still insert one and the chance that it is sent again are no
more than one and the calls of it whose outcome is unknown. A lost call turns a
wait into a chance and is paid for by becoming unsure, a row that is sent gives up
its chance (`SendTakesTheChance`), an insert takes its thread's place
(`InsertCount`). A clock-out's labor entry is drafted in a second transaction, so
`Shifts` follows a clock-out from the read of the open clock-in to its entry. A row
that is overtaken was tried or came after the list was read (`Overtaken`).
`NoTabWaitsInVain` is the safety that `QueueDrains` rests on: a tab that waits has a
thread that handles its call or holds its answer (`WaitersAreServed`), and the Web
Lock is held only by a tab that replays (`LockIsInUse`).

**Model-checked only.** The liveness properties (`PostingIsAnswered` of both sagas,
`RowsSettle`, `ReturnedIsClosed`, `QueueDrains`, `RequestsSettle`,
`ClicksAreAnswered`), which are out of the prover's reach. Every other property of
a passing run is stated by a theorem.

## Where code and comments disagree

Shown by a run (quoted in `PROJECT.json`):

- `push_orphan`: cancel a post whose push is in flight, then void the run; the
  push completes, the locked write finds the run not posting and leaves it alone.
  QuickBooks holds an invoice of a void run. `workflows/rental-billing.ts:39-41`
  says CANCEL_POST exists so that this cannot happen.
- `clock_invoices`: *the second invoice of a rental is the first one.* The cadence
  push repeats its requestid (`qbo-rental-cadence-push.ts:127`), so QuickBooks answers
  the push of a second period with the invoice of the first, and the row is applied.
  The same file says at 7-8 that the push "invoices a single already-billed rental
  period", and `rental-invoice.ts:64-65` versions the row so that consecutive ticks
  "don't collapse into one".

Met while modelling; unless noted the models contain the behaviour, and no run is
about it.

Labor locks, enrolment and rental clock:

- *A lock is lost by a late unlock.* Approve, reopen, approve; the first unlock
  row backs off and is applied after the second lock row: the run is approved and
  its entries are unlocked for good (`lock-labor-entries.ts:179`).
  `time-review.ts:19` and :26 say that approval locks the entries and reopening
  unlocks them. `ApprovedRunHoldsItsLocks` excepts just these runs (`late`).
- *An entry is enrolled twice.* Two bridges enrol overlapping periods; both lists
  hold the shared entry though only one stamps it, and the push goes by the
  lists (`labor-payroll-push.ts:913`, against 823-824). `StampsMatchLists` is
  therefore stated so that a list may hold an entry stamped by another run.
- *The cadence is kept once.* After its first full period a rental is due on the
  day after it, and each later period is the one day since
  (`domain/index.ts:1121`, against 985-987).
- *A re-arm is swallowed.* `markOutboxRowFailedFresh` parks its row by id
  (`queue/index.ts:721`), also when a newer request has re-armed it since: the
  request of a user waits on a parked row. Its comment (701-703) says a re-armed
  row runs again. `PostingIsAnswered` counts a parked row as visible.
- *A failed push is not retried.* It is parked; `qbo-invoice-push.ts:19-21` says
  "the outbox row is retried on the next worker tick".
- *Two replicas strand a lock.* A lock statement that took its snapshot before
  the reopening commits after the unlock statement took its own; the EXISTS is not
  re-checked. `lock-labor-entries.ts:29-32` says that the lock then "matches zero rows
  regardless of which row commits first". `ReopenedRunHoldsNoLock` holds of any number
  of replicas and excepts the runs an unlock of which began over such an uncommitted
  lock (`raced`), and no others.
- *A lock that was skipped is never taken.* An entry another review holds is
  skipped, and when that review lets go nobody locks it
  (`ApprovedRunHoldsItsLocks` excepts entries so `skipped`).
- *A payroll run of nothing.* The bridge enrols a review whose entries were all
  deleted since as a run that lists none; the office's own creation refuses one.
- *The second project of a week is not enrolled.* The candidate query leaves out
  every review of a period that has a payroll run (`labor-payroll-push.ts:876`);
  the description at 816-818 picks up every approved, locked review.
- *A reopened review is enrolled* when its reopening comes between the candidate
  query and the enrolment and its unlock row is still queued.
- *Recovery is two transactions* (`rental-billing-invoice.ts:336`), while its
  header says a row's work is one (20-21).
- *Two billers bill a day twice.* The replica and the office, or two replicas,
  compute from the same stale rental (`rentals.ts:82`). `EachDayBilledOnce` holds of
  any number of billers and excepts the days that a billing found billed by another
  since its read (`disputed`), and no others.
- *A closed rental opens again*: a billing read before the close writes its own
  next status, and `/invoice` accepts a closed rental. `rental.ts:39` calls
  closed terminal. As the status is written past the reducer, the event log of
  such a rental does not replay (RETURN twice).
- *A period is replaced before it is invoiced.* The outbox key holds
  `state_version`, which only a finished push advances; while a push is pending
  or has failed, the next period's payload replaces it. `rental-invoice.ts:63-65`
  says consecutive ticks do not collapse. No property is about it: `InvoicedDaysAreBilled`
  is the other direction.
- *The last period of a returned rental is never invoiced*: the billing that
  bills it closes the rental, and only a returned one is queued or pushed.
- *A return ahead closes early*: billed twice on one day with its return date
  still ahead, a rental is closed by an empty period, the days to come unbilled
  (one biller never does this: a rental is due again only the next day).
- *The clock may be set to the past*: the branch for a period that has not begun
  always answers the last day of the first cadence, whatever was billed since.

Outbox:

- *A re-arm keeps the past.* `qbo.ts:917-924` resets neither `attempt_count` nor
  `applied_at`: after ten requests one is retired at the cap without an attempt, a
  re-armed row can be pruned while pending, and a late outcome settles the newer
  request. `LossesAreExplained` names these causes and rules out others.
- *The cap is exceeded* by a request between a replica's sweep and its claim, and
  a sweep retires a row while its last attempt is in flight.
- `routes/ai-insights.ts:240` and :304 insert rows without the table's required
  entity columns (not modelled).

Labor payroll push:

- The header's point 2, "Locks the labor_payroll_run row, refuses if state !=
  'posting'" (`labor-payroll-push.ts:13`), is not what the handler does: it reads
  without a lock, and a run that is not posting is pushed all the same; only the
  final write asks.
- Lines 467-470 say that concurrent edits land on the freshest data; on a retry
  QuickBooks answers by requestid with what was posted first. An edit, or a change
  of the overtime item, under a batch can thus pay more hours than are recorded;
  `NothingOverpaid` exempts the hours of entries so changed; that QuickBooks holds one
  activity at most of each entry and kind it claims of them too.
- `labor-payroll-push.ts:405-408` says that "a partial batch will produce duplicates on
  QBO's side until an admin reconciles". It does not (`NothingOverpaid`): each activity
  is posted under a requestid of its own that is the same on every retry, as 364-373
  and the call itself have it. The same comment speaks of a retry after a back-off of
  15 minutes; a failed batch's row is parked until somebody requests the post again.
- `labor-payroll.ts:23` says the workflow mirrors rental billing "EXACTLY", but it
  has no CANCEL_POST: a posting run whose row is parked has no event to leave by.
- After a failure and RETRY_POST the automatic post posts a run again by itself.

Time clock and offline queue:

- `offline/queue.ts:6-8` promises replay in order; a deferred row is overtaken, so a
  clock-out may reach the API before its clock-in, be refused with 409 and be
  dropped. Live taps do not wait for queued ones either.
- 401 and 403 answers remove a row for good: an expired session loses taps (their
  refusal is shown, `TapsAreKept`).
- A clock-in is not idempotent: one whose answer was lost is recorded twice
  (`CopiesAreExplained`).
- A clock-out and its labor entry are two transactions, and voiding an event leaves
  the entry. A shift without a project or a known worker, or of 24 hours or more, is
  answered as any other and gets none (`clock.ts:578-583`): `OutsArePaid` claims a
  labor entry of the other shifts only (`drafts`). Nor does it speak of a clock-out
  that is refused for good: that one is no event, and `TapsAreKept` says that its
  refusal reached the app.
- `README.md:82` of the repository says localStorage; the queue is in IndexedDB.

Dispatch and reducers:

- POST_REQUESTED is legal from failed in the payroll run but not offered; a failed
  `qbo_sync_run` worker leaves `syncing`, where nothing is offered to the user.
- The machine's snapshot is null after a conflict whose reload fails.
- Three logs need not replay. Billing writes a rental's status and `PATCH
  /api/projects/:id` a project's past the reducer, with neither version nor log entry
  (`rentals.ts:98-167`, `projects.ts:522-590`); the notification worker reduces from a
  snapshot that is always pending (`notifications.ts`, `snapshotFromRow`).
  `LogReplays` claims of these three that every version has its entry, of the other
  fourteen that the log replays to the row; `ActedOnWhatWasShown` and the offers of
  `OffersFit` leave out rental and project closeout.
- Not modelled: POST closeout computes a closeout state without `post_mortem_acknowledged_at`
  (`projects.ts:863`); an asset deployment does not offer COMPLETE_RETURN where it
  is legal.

Estimate shares:

- An accepted share can be revoked, because the answer never touches `status`;
  `workflows/estimate-share.ts:139` speaks of invalidation "from any non-terminal
  state".
- A revoke between the drain's read and its send mails a dead link; the header of
  `estimate-share-email.ts` says it must not.
- A late failure of an old attempt sets an applied row back to pending, and the
  customer is mailed again (`MailsAreAttempts` counts it).
- An answer on a link of a project that is still a draft is dropped by the
  lifecycle.

QuickBooks connection:

- *The mark "auth_error" is never seen.* `qbo-token-refresh.ts:164-170` and
  :312-318 write it and throw, and every caller rolls the transaction back;
  lines 18-20 say the row is marked so that a human reconnects.
- *A rotated refresh token is lost with its push.* Intuit's new token is written
  in the push's transaction; if QuickBooks then refuses the invoice, or the commit
  fails, the row keeps the replaced one, and once Intuit refuses it the office
  must reconnect. `TokensAreCurrent` excepts just these grants (`lost`).
- *A batch never keeps its new token.* Each call of a payroll batch begins with
  the tokens read first (`labor-payroll-push.ts:514-515` says that one 401
  "refreshes once and continues"); the later ones find the replacement under the
  lock, so no second refresh is made (`RefreshesAreNeeded`).
- *The status is anybody's.* A heartbeat that applied any generic row, a refresh
  or another sync's success turns "syncing", "error" and a dead connection's
  status into "connected"; `routes/qbo.ts:449-451` and :867-869 say that the run
  and the flag can never disagree.
- *A sync that dies leaves "syncing"*, which every push and pull refuses, until a
  heartbeat or another writer stamps the row.
- Saved settings replace tokens and keep the old expiry (`SaveSettings`).
- A sync run that the office retries is worked by nobody: `qbo-sync-run.ts:346-351`
  speaks of a worker drain that re-attempts the sync, but `run_qbo_sync` is a
  generic type, which the heartbeat marks applied (the run is in `WorkflowTables`,
  the type's kind in `OutboxDrain`).

Circuit breaker and lanes (not modelled): the breaker is opened under
`qbo:<companyId>` and read as `qbo`, so the deferral of pushes never happens; the
lane keeper's backlog limits override an operator's pause.

## What is not modelled

`PROJECT.json` gives the reason per part. Three groups:

- *Concurrent, and left for the plan below*: the estimate push, the circuit
  breaker and lane control, audit escrow, notifications and
  their e-mail, the agent feed with its leases, and the remaining drains (crew
  schedule, damage charges, debug bundles, alerts), whose claim is the one of
  `OutboxDrain` or `EstimateShares` and whose work is one insert or one alert.
  A modelled push takes an open circuit as a push that throws.
- *Computations without concurrent state*: takeoff, capture, geometry, estimate
  arithmetic, the formula evaluator. They are numbers and shapes, outside what a
  model checker reaches; the one computation the money paths hang on, the rental
  period, is in `RentalClock`.
- *No state of the running system, or state of one row and one user*: screens
  beyond the workflow machine, routes that read or edit a row, authentication,
  configuration, seed data, deployment.

Of the parts marked `partly`: `sync_events` and metrics (outbox); imported accounts
and customers, the webhook (QuickBooks pull); realm checks, an explicit status and
`expected_version` of the settings, the dry run, what the office does to a sync
run (QuickBooks connection); edits of a rental's
delivery date, rate, cadence and project (rental clock); the post window and the
routes of companies and entries that no run depends on (payroll push); the other
kinds of queued items, which take the same path (offline queue); versioned updates
of plain rows and the idempotency middleware (dispatch); views, notices and lists
(estimate shares); the payload columns of reducers outside the sagas.

## Plan

Next modules, in order:

1. `EstimatePush`: the saga's shape with several QuickBooks calls per run and a
   reaper of its own; refines the promise of `BillingRun`. Bounds as
   `push_retries`.
2. `CircuitBreaker`: closed, open, half open per company and process, composed with
   `RentalBillingPush`: what an open circuit does to attempts, and the key it is
   read under.
3. Lane control: the lane keeper against an operator's pause.
4. Notifications, audit escrow and the agent feed's leases, as far as their claims
   differ from `OutboxDrain`.

Next theorems: the safety that the remaining liveness properties rest on (a row at
work is leased or due, a returned rental has a bill or a clock that is due, a
clicked event has a request in flight); then the theorems of the next modules.
