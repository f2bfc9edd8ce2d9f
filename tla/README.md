# Sitesync: a TLA+ model with checked properties and proofs

Sitesync (`cmd/server`, `internal/`) runs the deployment of field equipment: an
order is provisioned by a five-step saga, engineers' work records are
backfilled in sync batches and adjudicated, trials are escalated when nobody
accepts them, and finance bills what the records say. One server process keeps
everything in one SQLite file. This directory models that program in TLA+,
model-checks the models with TLC and proves the most important theorems with
TLAPS.

## Inventory

| component | code | state | operations | interacts with | model |
|---|---|---|---|---|---|
| provisioning saga | `service/deployment_service.go`, `store/deployment_repo.go` | `deployment_orders` (status, version, trial_id, responsibility), `deployment_steps` | Provision, Compensate | creates the trial, the first inspection and the first bill; compensation cancels the inspection, unbinds devices, voids the bill | `ProvisioningSaga`, `SagaContract` |
| status tables | `domain/status.go` | none | Assert...Transition | consulted by every service | `StateMachines` |
| start-up recovery | `scheduler/recoverer.go`, `cmd/server/main.go` | none of its own | Recover, once, before the scheduler and the listener | reclaims leases, calls Provision | `ProvisioningSaga`, `SyncBatches`, `ServerLifecycle` |
| sync batches | `service/sync_service.go`, `store/sync_repo.go`, `scheduler/poller.go`, `store/audit_failure_repo.go` | `sync_batches` (status, lease, retry count), `permanent_failures` | Backfill, ProcessBatch, poller tick, RequeueFailure | resolves operation records | `SyncBatches` |
| operation records | `store/operation_repo.go`, `service/adjudication_service.go`, `service/reconciliation_service.go`, `service/sync_service.go` | `operation_records`, `adjudications`, `manual_verifications`, `customer_work_hours` | resolve, Adjudicate, CorrectRecord, RevokeRecord, ManualVerify | written by sync, read by billing and the feed | `RecordLifecycle`, `RecordContract` |
| change feed | `store.nextChangeVersion`, `ListRecordChanges`, `UpsertBackfill`, `opsctl rebuild-index` | a counter, one version per record, one cursor per order | Backfill, PullChanges, rebuild-index | fed by Backfill; the tool is a process of its own | `ChangeFeed` |
| trial escalation | `service/trial_service.go`, `scheduler/escalator.go` | `trial_periods`, the order's responsibility | CheckDeadlines, Escalate, Accept, Convert | scheduler tick and HTTP; writes the order row the saga also writes | `TrialEscalation` |
| billing | `service/reconciliation_service.go`, `store/reconciliation_repo.go` | `reconciliation_bills` | GenerateBill, IssueBill, the saga's step and its compensation | sums records; shares the bill of period 1 with the saga | `Billing` |
| reconcile engine | `reconcile/engine.go`, `ComputeDiff` | none: a pure function | Diff | fed by a walk over the records | `DiffEngine`, `PagedScans` |
| paging, windows, time text | `domain/query.go`, `store/scan.go`, `service/query_service.go`, `window/policy.go` | none; what a client or a walk remembers | listings, walks over all pages | every read | `PagedScans`, `Billing` (time text) |
| server and scheduler lifecycle | `cmd/server/main.go`, `scheduler/scheduler.go`, `httpapi/server.go`, `httpapi/health.go` | running flag, goroutines, listener, store handle | Start, Stop, Run, Shutdown, readyz | owns everything above | `ServerLifecycle` |
| registries, configuration, logging, operator reports | `service/registry_service.go`, `config/`, `cmd/opsctl` ... | tables with unique keys | CRUD, reports | | not modelled |

The hard behaviours come from one design choice: almost every service operation
is a *sequence* of separate SQL statements, each guarded by a row version or a
status. Requests, the scheduler's ticks, an operator's tool and shutdown
interleave between them; an error in one of them is often logged and ignored.
`PROJECT.json` lists each hazard at its line.

What makes each component correct:

* saga: effects commit with their step, once; a step has one executor; an order
  reported complete is complete; an aborted order is reversed; an interrupted
  order does not stay in provisioning.
* sync batches: a completed batch has no pending record; two pollers do not work
  on one batch; stored batches end completed or dead-lettered.
* records: withdrawal is final, a ruling or a review is never undone, and
  neither rests on hours that have changed since they were read.
* change feed: a client that follows the versions misses no record.
* trials: an escalated trial's responsibility is handed over; it is escalated
  once; its outcome and its rent are final.
* billing: a record is counted in one period; totals do not go back; what is
  issued is what was shown.
* paging: a walk errs by no more rows than moved; a client sees each row once.
* lifecycle: recovery is alone; the store outlives its users; the process ends.

## Plan

Done, in this order: the saga, sync batches, trials, records, the change feed,
billing, paging with the diff engine, and the lifecycle of the server, each with
its proofs. What could still be added:

1. `CreateOrder` as an action, so that several orders come and go in one model;
   today each module is about the rows of one order, which is all that its
   statements touch.
2. `SyncBatches` composed with `RecordLifecycle` over the same record rows. Each
   has the other's writes as an environment (`CorrectRecord`, `ReviewRecord`; the
   poller's `ResolveRecords`), so a composition would add states rather than
   behaviours.

Every safety property of the passing runs is now a theorem as well; the liveness
properties are model-checked (see "Only model-checked").

## Modules

| module | role |
|---|---|
| `StateMachines` | the status enumerations, the transition tables and `AssertTransition` |
| `SagaContract` | abstract specification: a status that follows the table and a ledger whose entries go open, committed, reversed |
| `ProvisioningSaga`, `...Proofs`, `MC...` | the saga, one action per SQL statement or transaction; its theorems; its instances |
| `SyncBatches`, `...Proofs`, `MC...` | backfill, the poller, leases, retries and dead letters |
| `TrialEscalation`, `...Proofs`, `MC...` | the escalator, acceptance and conversion of one trial |
| `RecordContract` | abstract specification of one record: how it stands, what was decided, whether it was ruled on |
| `RecordLifecycle`, `...Proofs`, `MC...` | the poller's verdicts, reviews, rulings, corrections and revocations |
| `ChangeFeed`, `...Proofs`, `MC...` | versions, cursors, pulls and `rebuild-index` |
| `Billing`, `...Proofs`, `MC...` | bills, their periods and their totals |
| `DiffEngine` | the comparison of two lists of hours, as operators |
| `PagedScans`, `...Proofs`, `MC...` | listings, walks over all pages and `ComputeDiff` |
| `ServerLifecycle`, `...Proofs`, `MC...` | main, the loops, the listener, requests and readiness |

Two modules are abstract specifications with a refinement: every behaviour of
`ProvisioningSaga` implements `SagaContract` (`ImplementsContract`), and every
record of `RecordLifecycle` implements `RecordContract` (`KeepsContract`, one
instance per record). Both refinements are checked and proved.

### ProvisioningSaga and the code

`max_open_conns` is 1 and SQLite serialises writers, so one statement outside a
transaction, or one `InTx` block, is one action. What a goroutine holds in
local variables between two statements is `call[a]`: the order's status and
version it read, the step list (`seen`), the loop index (`at`) and the version of
the step it claimed (`held`). `pc` is the next statement.

* `GetOrder`, `ClaimOrder`, `ReloadOrder`, `ListSteps`: the head of `Provision`.
  `ClaimOrder` is the versioned `UpdateStatus`.
* `MarkProcessing`: the loop head. Committed steps in the *listed* rows are
  skipped; the claim checks status and version of the *current* row; a conflict
  moves to the next step, as the `continue` in the code does. The `UPDATE` and
  the `SELECT` after it are one action, because no other statement can change
  a step in `processing` at that version.
* `ExecStep`: `execStep` with `MarkDone`, in one transaction. `ExecFails` is its
  rollback. `MarkFailed`, `BumpRetry`, `RegetOrder`, `PendRetry` are the four
  statements of the failure path, in order.
* `FreshOrder`, `Activate`: the end of `Provision`, with its audit entry.
* `CompGetOrder` ... `AbortOrder`: `Compensate` in the same way. It tolerates
  conflicts in its last two writes, as the code does.
* `ProvisionErrors`, `ClaimErrors`, `CompensateErrors`: the database refuses a
  statement that is not in a transaction; each path does what the code does with
  that error, which is often to go on.
* `Abandon`: a request's context is cancelled (client gone, or shutdown: the
  server's `BaseContext` is the process context). `Restart`: the process dies and
  `Recover` runs before anything else.
* `UpdateResponsibility`, `Finance`: versioned writes of other services on the
  order and bill rows.

### SyncBatches and the code

The rows are `batch` (one per `sync_batches` row, in the order of creation),
`record` (one per client sequence of one order) and `failure`. What a poller's
goroutine holds is `poll[p]`: the batches it has listed and not yet taken
(`todo`) with the retry counts of the list (`counts`), the batch it is at (`at`),
the version `AcquireLease` returned (`held`) and the records it listed (`seen`).
`lease_until` is abstracted to `live` or `expired`, `next_retry_at` to `waiting`
or `due`.

* `CheckOrder`, `StoreBatch`: `Backfill`, whose check of the order is outside the
  transaction. Sequences already stored keep their rows.
* `Reclaim`, `ListPending`, `ListRetryDue`, `EndTick`: `tick`. A page holds the
  newest pending batches; `Takes` is the order of the loop.
* `AcquireLease`, `ReadLease`: the two statements of `AcquireLease`. They are
  two actions because another poller's late `BumpBatchRetry` can come between.
* `ListRecords`, `ResolveRecords` or `ResolveFails`, `CompleteBatch`: the rest
  of `ProcessBatch`. The resolving transaction gives every pending record of the
  list some verdict, each guarded as the code's `UPDATE` is, or rolls back.
  Which verdict depends on the record's age and the customer's hours, which the
  model leaves open.
* `ReleaseLease`, `BumpBatchRetry`, `MarkBatchPermanent`, `RecordFailure`: the
  failure path through `ProcessBatch` and `processOne`.
* `StatementFails`: a statement on its own fails; each case goes where the code
  goes with that error. `Restart`: a process dies and another starts.
* `LeaseExpires`, `RetryFallsDue`: time passes. A lease that expires while its
  poller works spends the `slow` budget.
* `CorrectRecord`, `ReviewRecord`: the other writers of a record's status.

`Pollers` may be more than one although a process has one: while a process is
replaced the old and the new one overlap, and the repository tests the lease for
that case (`concurrency_test.go:45`, several goroutines race for it).

### TrialEscalation and the code

The state is one `trial_periods` row (`trial`), what matters of its order
(`order`: responsible role, handling mode, version), whether the deadline has
passed (`late`), and what each goroutine holds: the trial it has read (`saw`) and
the version of the order it has read. The module begins where the saga's third
step has committed the trial; the saga's later writes are `OrderMoves`.

* `ListPastDeadline`, `MarkOverdue`, `Reread`: the loop of `CheckDeadlines` for
  this trial. Its trials are independent, so one is enough.
* `EscalateGetTrial`, `EscalateGetOrder`, `Claim`, `Transfer`: `Escalate`, which
  reads the trial again and reads the order *before* it claims the trial.
  `Transfer` only logs a version conflict, and the escalation counts.
* `Accept`, `SetAccepted`: the check and the guarded write of `Accept`. The table
  lets an escalated trial be accepted; the statuses in the `UPDATE` do not.
* `Convert`, `ConvertClaim`, `ConvertGetOrder`, `Rent`: `Convert`, which claims the
  trial and then reads and writes the order, dropping the error.
* `StatementFails`, `Crash`: an error or the end of a goroutine between any two
  statements. Both leave what was written.

There may be two escalators for the same reason as two pollers;
`concurrency_test.go:207` asks for exactly one escalation across concurrent checks.

### RecordLifecycle and the code

The rows are `record`, `manual` (a record's verification) and `ruling` (its
adjudication), `reported` the customer's hours and `late` whether the window for
the record has closed. Hours are small numbers, 0 for none.

* `ListRecords`, `ResolveRecords`, `ResolveFails`: `ProcessBatch`. The list is
  read before the transaction; `Verdict` is `resolveRecord`, evaluated in the
  transaction on the listed row, and the transaction commits only if every
  versioned update matches (`Unmoved`).
* `StartReview`, `GetManual`, `ReviewManual`, `ApplyReview`: `ManualVerify`, whose
  two writes are two statements.
* `StartRuling`, `GetWorkHour`, `CreateAdjudication`: `Adjudicate`; the ruling and
  the status are one transaction (`Rulable` is what its update asks for).
* `StartCorrection`, `CorrectHours`, `StartRevocation`, `RevokeRecord`: the two
  operations of the reconciliation service.
* `CallFails`, `Crash`: a statement fails or the process dies; what was written
  stays.

### ChangeFeed and the code

`version` numbers the stored records (0 before), `counter` is the row
`nextChangeVersion` bumps, `cursor` an order's `sync_state`. The client keeps
`since`; `got` is what it was sent.

* `Backfill`: one transaction that numbers the new records in any order of the
  batch (`Numbers`) and sets the order's cursor to the last of them.
* `PullChanges`: `Pages` are the possible results of the query, of which there is
  more than one only if two versions are equal; the client goes on from
  `next_version`.
* `ReadMax`, `SetCounter`, `RefreshCursors`, `InsertCursors`: the four statements of
  `rebuild-index`, which runs in another process; `RebuildStops` between any two.

### Billing and the code

`bill` has one row per period; `counted` says, for each record, in which revision
(its hours, as set so many times) the total includes it, so that totals can be
compared without adding. An instant is a second and the digits of its fraction;
`TextBefore` compares them as SQLite compares the stored text, in which `"...05Z"`
comes after `"...05.5Z"`.

* `GetBillByOrderPeriod`, `CreateBill`, `SumAcceptedHours`, `UpdateBillTotals`: the
  four statements of `GenerateBill`. The last is refused when the version moved.
* `GetBillByID`, `IssueBill`: `IssueBill`. `GetBillToVoid`, `VoidBill`,
  `StepGenerateBill`: what the saga does to the bill of period 1.
* `Settle`, `CorrectRecord`, `RevokeRecord`: what `RecordLifecycle` does, reduced to
  what a sum sees of it.

### PagedScans, DiffEngine and the code

`row` is the listing by position; `kind` chooses the reader: a client of a plain
listing, the walk of `ListStaleManuals`, or the walk of `ComputeDiff`. A page is two
statements, `Count` and `List`, and rows may `Enter`, `Leave` or change between them.
`steady` and `moves` are history variables: the rows to be taken all along, and how
many came or left.

* `Ask`: a request with `Page.Normalize`. `LastPage`: when the loop ends.
* `AnswerPage`, `AnswerStale`, `AnswerDiff`: what is returned, with `nextPage`.
* `DiffEngine!Diff` is `Engine.Diff`: `aggregate` per device and day, kinds, deltas,
  summary. Hours are decimals with any number of digits and any sign; finitely many of
  them are integers in a fine enough unit, of which `Scale` make 0.0001 hours. `Round4`
  is `decimal.Round(4)` in that unit, halves away from zero. Only the total of the
  summary is rounded, once and after the last slot (`engine.go:150`).

### ServerLifecycle and the code

`main` is where `main()` is, `loop` what the poller's and the escalator's goroutines do,
`request` what each handler does; `store`, `listener`, `started` and `cancelled`
are what they share. Deferred calls run in reverse order (`Stop`, then `Drained`,
which closes the store), and a fatal error skips them (`Fatal`). `DBPing`, `Ready`
and `SchemaVersion` are the checks of `readyz`, which other steps may separate. The
answer is settled with the last check; writing it is not a step of its own, so
`ReadyMeansRunning` is about the moment of that check.

## Runs

The type invariants (`TypeOK`) and `CountedInPeriod` are not in the runs: they are
proved for every value of the constants, which says more than a small instance.

### Provisioning saga

`Callers` are HTTP requests; `Budget` bounds how often each kind of environment
event happens. Budgets run out, so runs stop and deadlock is not checked.

| run | instance | shows |
|---|---|---|
| `saga_restart` | 1 caller, 3 calls, 2 faults, 1 handover, 1 abandoned call, 2 crashes | provisioning is complete and in order as long as no call is cut short; an aborted order is reversed and audited as such; the recovery pass ends with the order out of provisioning (liveness) |
| `saga_concurrent` | 2 callers, 2 calls, 1 each of fault, outage, crash, finance, handover | one executor per step, atomic effects, refinement of `SagaContract` |
| `saga_crash_skips` | 1 caller, 2 calls, 1 crash | counterexample: an order activated with a step still processing |

Why these bounds are enough to be interesting: five steps are the real number;
two calls are what a race needs; two faults make a step fail, be retried and
fail again; two crashes interrupt the recovery itself. The passing runs fire
every action.

Scope of the positive results. `UninterruptedIsComplete` and `StepsCommitInOrder`
exclude executions in which a crash or a cancelled request cut a call short,
because `saga_crash_skips` shows what that does to them. `AbortedMeansReversed`
holds for one call at a time, because two break it (see "Where code and
words part").
`AuditedAbortIsFinal` excludes executions in which another service wrote the order's
responsibility: such a write between Compensate's last read and its last write
is a conflict that counts as "already done", and the order is audited as aborted
while it stays compensating. None of these is checked with failing statements
(`outage`), because a swallowed `MarkProcessing` or `UnbindAllDevices` error skips
work. Under these conditions all four are theorems (see "Proofs"). An order a crash
leaves in `compensating` is not picked up by `Recover`, so no property claims it.

Fairness: weak fairness of `Advance(a)`, a started call that can take a step
takes one. Goroutines are scheduled by the Go runtime and `busy_timeout` bounds
every statement; a crash or a cancelled context ends a call, and both are bounded
by the budget. No client is assumed to retry.

### Sync batches

Deadlock is checked in all of them: the ticker never stops.

| run | instance | shows |
|---|---|---|
| `sync_deployed` | 1 poller, 2 batches, 2 records, 3 retries, pages of 1; 2 backfills, 1 each of reviewer, fault, crash, slow | liveness: every stored batch ends completed or dead-lettered |
| `sync_overlap` | 2 pollers, 1 batch, 2 records, 2 retries; 1 each of backfill, reviewer, failing statement, slow | completed batches are complete, records follow their table, the lease excludes until one expires at work, dead letters are listed |

Bounds: two pollers are what a race for a lease needs; two records let one of a
batch change while the other does not; a page of 1 with two batches makes the
newer one overtake the older; two retries let a batch fail, be taken again and
become a dead letter.
`sync_overlap` has one batch because pollers only meet on a batch.

Scope of the positive results. `LeaseIsExclusive` speaks of executions in which no
lease has expired under a working poller: once one has, two do work on one batch,
and what then still holds is the rest of the run. `DeadLetterIsListed` is checked
without crashes and with one failing statement, which is spent before a batch runs
out of its retries, since a crash or an error between `MarkBatchPermanent` and
`RecordFailure` leaves a dead letter that no operator can requeue; the theorem
`DeadLettersAreListed` shows that nothing else does. `BatchesSettle`
is checked without failing statements, because a batch they leave `failed` stays
so; a fault in the resolving transaction, which is far more than one statement, is
in. It says nothing of batches beyond a page for ever overtaken by newer ones:
backfills are bounded.

Fairness: weak fairness of each poller's `Tick`, of `LeaseExpires` and of
`RetryFallsDue`: the ticker fires until the process stops, and time passes. No
engineer, reviewer or operator is assumed to do anything.

### Trials

`Budget` bounds the saga's writes of the order, failing statements and crashes.
Once a trial has ended nothing happens, so deadlock is not checked.

| run | instance | shows |
|---|---|---|
| `trial_race` | 2 escalators, 2 clients; 2 writes of the order, 1 fault, 2 crashes | one escalation is counted; outcome and rent are final; an undisturbed escalation hands the order over, also when a conversion races with it; a late trial ends accepted, escalated or converted (liveness) |

Bounds: two escalators are what a double escalation needs, two clients let an
acceptance and a conversion race with them and each other, and two crashes let a
tick die after `MarkOverdue` and the next one die as well.

Scope of the positive results. `UndisturbedTransfer` excludes executions with
a write of the order by the saga, a failed statement or a crash, because each of them
loses the handover (see "Where code and words part"). A conversion may race with
the escalation there: a trial that is visible as escalated can be converted before
`Transfer` is written, `Rent` then competes with `Transfer` for the order's version,
and one of them may be refused. The property is about escalated and converted trials
alike: once neither is under way (`HandingOver`) the customer manager is responsible.
What the race may lose is the handling mode: `Rent` drops its conflict as `Transfer`
does, so a converted trial's order can stay on `urge_acceptance`, and no property
claims otherwise.

Fairness: weak fairness of each escalator's `Tick`, as for the pollers. No client
is assumed to accept or convert.

### Records

Budgets run out, so deadlock is not checked.

| run | instance | shows |
|---|---|---|
| `record_reviews` | 2 records, 2 overlapping requests of any kind, hours 1 and 2; 1 each of correction, report, failing call, crash | every record keeps its contract; rulings and statuses agree; decisions hold; rulings and acceptances rest on current hours; an undisturbed review is applied |
| `record_review_lost` | 1 record, 1 request, 1 correction | counterexample: the review is stored and the record stays held |

Bounds: two requests are what a race needs, two records make a batch of which one
record moves while the transaction must roll back both, two values of hours make a
match and a mismatch. `UndisturbedReview` is the part of `ReviewIsApplied` that
holds: no correction, failure or crash.

### Change feed

| run | instance | shows |
|---|---|---|
| `change_feed` | 2 orders of 2 records, pages of 1 or 2 whatever is asked for, `rebuild-index` twice, 1 backfill between its counter statements | versions distinct, nothing passed, cursors exact, everything pulled in the end (liveness) |

Bounds: two records in one batch let a page end between them, two orders let one
cursor be right while the other is not, and two rebuilds let a second repair what
a first one left half done. All but `CursorsExact` hold as long as no record is stored between
`SELECT MAX` and the counter's `UPDATE`. Fairness: weak fairness of `PullChanges`:
the property is about a client that goes on pulling. Once everything is pulled and
rebuilt nothing happens, so deadlock is not checked.

### Billing

| run | instance | shows |
|---|---|---|
| `billing` | 1 record, 2 periods of a second, 2 calls at a time and 3 in all, seconds 0 and 1 with and without a half, 1 correction | counted once, totals move forward, bills issued as shown, the table is followed |

Bounds: the periods can adjoin and the record lies on, before or behind each
boundary, with and without a fraction, the cases in which text order and time order differ.
Records do not interact in a sum, so one is enough; three calls let a sum
wait while another call overtakes it. `CountedOnce` is about periods that adjoin or lie
apart by the second; overlapping periods do count a record twice.

### Paging and diff

| run | instance | shows |
|---|---|---|
| `paged_scans` | 4 rows in 2 slots, hours 0 and 3 with a `Scale` of 2, pages of 1 and 2; 2 rows come, 2 leave, 1 changes | no review taken twice, a walk errs by its moves at most, an undisturbed client sees all, the diff balances and its total is rounded once |

Bounds: four rows and a page of two make totals below, at and above a multiple of the
page; `MaxPageSize` 2 stands for 200; asked sizes 0 and 3 are clamped both ways.
Hours of 0 make a slot that is present without hours; 3 with a `Scale` of 2 is 0.00015
hours, a half in the last place, so that single deltas and their sum round differently,
above and below zero. A client stops, so deadlock is not
checked.

### Server lifecycle

| run | instance | shows |
|---|---|---|
| `server_lifecycle` | both loops, 2 requests | recovery alone, the store closed last, readiness only while the loops run, the process ends (liveness) |

Nothing is bounded but the requests in flight. Fairness: weak fairness of `main`,
of the listener's goroutine and of the end of a tick (statements have a
`busy_timeout`), and strong fairness of a loop's exit: while ticks keep the ticker
ready, `select` picks among ready cases at random. Handlers need not end:
`ShutdownReturns` is `shutdown_timeout`.

## Proofs

### Provisioning saga

`ProvisioningSagaProofs` proves, for every finite or infinite set of callers and
every budget:

* `TypeCorrect`: `Spec => []TypeOK`;
* `StepsAreExclusive`: `Spec => []StepExecutedByOne`;
* `EffectsAreAtomic`: `Spec => []EffectsAtomic`;
* `SagaImplementsContract`: `Spec => ImplementsContract`.

Assumptions: `RecovererAssumption` (the recovery pass is not an HTTP request) and
`BudgetAssumption` (budgets are natural numbers). None of the properties is
inductive. The invariant `IInv` adds what the code relies on without saying so:

* `SnapshotsHold`: a step's version identifies its content, so a captured row
  whose version is current is current. This is why optimistic locking works: every
  write of a step bumps its version.
* `ClaimsHold`: between its claim and its outcome a call owns the step at the
  version it holds, so two calls cannot hold the same step.
* `StatusKnown`: what a position in the code says about the order's status. No
  table row leads back to `draft`, and `compensating` is left only for `aborted`
  or, as the table would allow, `pending_retry`; the latter needs a call that read
  `compensating` first, and none does.

Each action has a step; `SnapshotsNext`, `ClaimsNext`, `StatusNext` and
`EffectsNext` prove the conjuncts separately, from lemmas about the few ways a row
can change. The refinement maps each action to `Move`, `Commit`, `Reverse`,
`CancelInspection` or a stuttering step.

Four properties do not hold for every execution, and their theorems say for which
they do. The hypotheses are formulas over the execution, so callers and budgets stay
arbitrary: `Alone`, no two calls are in progress at a time, and `NoOutage`, no
statement on its own has failed (transactions may, and their errors are handled).

* `AbortReverses`: `Spec /\ []Alone /\ []NoOutage => []AbortedMeansReversed`;
* `AbortIsFinal`: the same for `AuditedAbortIsFinal`;
* `CompleteWhenAudited`: the same for `UninterruptedIsComplete`;
* `CommitsAreOrdered`: the same for `StepsCommitInOrder`.

`OneClientIsAlone` shows that one client that waits for its answers satisfies `Alone`,
with restarts and their recovery pass, and `OneClientIsSafe` puts the five together:
with one caller and no outage, all four properties hold of every execution, for
any number of calls, faults, handovers, cancelled requests and crashes. These are the
conditions of `saga_restart` without its bounds. That they are needed is the matter of
"Where code and words part".

The invariants behind them:

* `SerialInv` (`SerialHolds`): a call that runs alone holds the order's row, so it
  knows whether the order is being reversed; the part of its list it has not worked
  off is current; compensation goes down the list and leaves no done step behind it.
  Without `Alone` the list goes stale; without `NoOutage` a dropped error of
  `MarkProcessing` or `UnbindAllDevices` skips a step.
* `OrderInv` (`OrderHolds`), as long as no call was cut short: a call resumes at the first
  step that is not committed, and every step in `processing` is held by the call in
  progress. The last part is what a crash breaks, and with it the order of steps.
* `WithinBudget` (`BudgetHolds`): budgets only fall, so an event that has not happened
  yet has not happened before.

Only model-checked: liveness, which the prover does not reach.

### Sync batches

`SyncBatchesProofs` proves, for every set of pollers and records, any number of
batches and every budget:

* `TypeCorrect`: `Spec => []TypeOK`;
* `CompletedHasNoPending`: `Spec => []CompletedIsComplete`;
* `TableIsFollowed`: `Spec => RecordsFollowTable`;
* `LeaseExcludes`: `Spec => []LeaseIsExclusive`, with any number of crashes and
  failing statements.

Assumptions: `NBatches`, `MaxRetries`, `PageSize` and the budgets are natural
numbers. The lemmas `...Fields` say what each action does to the rows;
`PollStep`, `BatchStep` and `RecordStep` say what *any* step does to one poller,
batch or record, and the invariants follow from those three alone.

`Inv` is the inductive invariant for completeness and the table:

* `SeenHolds`: what a poller resolves is no older than its list, and a record at
  the listed version is as listed. This is why `SetConflict` and `SetManual` are
  right without looking at the status. It also says that no record joins a batch
  after its list was read, which holds because `Backfill` stores records only in
  a batch it creates.
* `FinishHolds`: a poller about to complete its batch left no record pending;
  nobody makes a record pending again.
* `Exists`: a poller only goes to batches that exist.

`LeaseInv`, for exclusion: a poller at work has a live lease at the version it
holds, or its batch is `failed` or `permanent_failure`, which nothing leaves, so
nobody else can lease it. The second case is real: a poller that is late with
`BumpBatchRetry` can mark another one's batch failed.

`DeadLettersAreListed` is `Spec /\ [][\A p \in Pollers : ~LetterLost(p)]_vars =>
[]DeadLetterIsListed`. `LetterLost(p)` is a step in which the process dies between
`MarkBatchPermanent` and `RecordFailure`, or the second of them fails. With any number
of other crashes and failing statements nothing else loses a dead letter: a batch only
becomes one by a poller that goes on to write its row, no other poller's step takes it
off that course, and a requeue marks the row instead of removing it.

Only model-checked: the liveness of batches.

### Trials

`TrialEscalationProofs` proves, for every set of escalators and clients (disjoint:
`ActorsAssumption`) and every budget of natural numbers (`BudgetAssumption`):

* `TypeCorrect`: `Spec => []TypeOK`;
* `EscalationIsCountedOnce`: `Spec => []EscalatedOnce`;
* `OutcomeStays`: `Spec => OutcomeIsFinal`;
* `RentStaysFinal`: `Spec => RentIsFinal`;
* `UndisturbedIsTransferred`: `Spec => []UndisturbedTransfer`.

`Effects` reduces every step to one of a few moves of the trial and the order; three
invariants follow from it.

* `SawInv`: an actor about to mark, claim or convert has read the status that its
  write asks for. With the versioned write this gives `TrialMoves`: a trial's status
  only moves along five edges, so stale reads do no harm.
* `OnceInv`: whoever is about to transfer has closed the trial, is the only one and
  nothing has been counted before; a closed trial cannot be claimed again.
* `RentInv`: the order is rented only after the trial is converted, and an escalator
  that still has to transfer by then holds an older version of the order, because it
  read the order before it claimed the trial. The order of these two statements is
  what can lose the handover, and it is also what makes the rent safe.
* `HandInv`, for `UndisturbedIsTransferred`: as long as the saga does not write the
  order and nothing fails or crashes, whoever is about to claim the trial holds the
  order's current version, and as long as the customer manager is not responsible, so
  does whoever is about to transfer or to rent: the first of the two is not refused.

Only model-checked: the liveness of trials.

### Records

`RecordLifecycleProofs`, for any records and calls, hours and budgets:
`TypeCorrect`, `ContractKept` (the refinement of `RecordContract`), `RulingsMatch`,
`DecisionsHold`, `RulingsCurrent` and `AcceptedCurrent`.

`Effects` reduces every step to one of seven moves of each record's rows (`Effect`).
The inductive `Inv` adds `ListInv` and `CallInv`, that whoever holds the current version of
a row holds the current row; `ManualInv`, that a verification is written at most twice; and
`LinkInv`, which statuses go with which decision. The contract needs all of them:
without `ListInv` a poller could resolve a record that was revoked meanwhile.

`UndisturbedReviews` proves `Spec => []UndisturbedReview` with `QueueInv`: a correction
in progress has been paid for from the budget (`PaidInv`), so as long as the budget is
whole none is; a record that was seen held never becomes pending again (`QueueSeen`); and
a call that saw a record held, if it still is, holds its current row (`QueueCurrent`),
because whatever else changes the version also takes the record out of the queue.

### Change feed

`ChangeFeedProofs`, for any orders, any finite set of sequences, any page sizes and
any number of rebuilds: `TypeCorrect`, `NoVersionTwice`, `NoRecordPassed`,
`CursorsStayExact`. Assumption: `SequencesAssumption`, since a batch is finite.
`CounterInv` is the strengthening: the counter is ahead of every record, and so is
what the tool is about to write, as long as nobody disturbed it. `SinceInv` says that
a client's position is that of a record; with distinct versions a page then cannot
end between two records of the same version.

### Billing

`BillingProofs`, for any records, periods, calls, instants (fractions of any length) and
budgets: `TypeCorrect`, `CountsInPeriod`, `CountsOnce`, `TotalsNeverGoBack`,
`IssuesWhatWasShown`, `BillsFollowTheTable`. `RowInv` says what a bill counts happened in
its period; `ReadInv` that the row of a version never changes; `SumInv` that a
sum about to be written at the current version is no older than what it replaces.
`CountsOnce` rests on the text order being asymmetric, whether or not it agrees with
time.

### Paging and server

`PagedScansProofs`, for any number of rows and changes, any page sizes and any hours:

* `NoReviewTwice`: the rows in front of an offset only become fewer, since reviews are
  listed oldest first and new ones come last.
* `WalksErrByMoves`: `Spec => []WalkErrsByMoves`. The lemmas on `Rank` say what LIMIT and
  OFFSET return (`PageSize`: a page is as full as the rows allow, because n rows have
  the ranks 0 to n - 1) and how a row that comes or leaves shifts the others.
  `ErrInv` counts the rows the walk has passed by (`Missed`) and those it has met or
  will meet again (`Again`): no page adds to either, and each row that comes or leaves
  adds one to at most one of them, the row on the edge of the next page. The total of a
  page that is counted before it is read may be too small by the rows that come in
  between; `Missed` and the rows beyond that total share the same allowance.
* `ClientsSeeAll`: `Spec => []ClientSeesAll`. `ClientInv`: while nothing moves, the
  client has been given exactly the rows whose rank is below its next offset. For the
  pages cut out of a walk this uses `WalksErrByMoves` with no moves: the walk then took
  exactly the stale reviews.
* `TotalOfSides`: whatever the inputs of a diff, the deltas of its pairs add up to the
  customer's hours less the system's, and its total is that sum rounded once (`Rounds`,
  from `RoundNear`): a multiple of `Scale` at most half of `Scale` away, for any `Scale`
  (`ScaleAssumption`) and any integers, which are the decimals in some unit.
  The sums are folds of the community modules; `SubsetInduction`
  stands in for induction over data: of the sets that lack a property there would be one
  of least cardinality (`LeastNumber`, from the library's `WFMin` over the naturals), and
  the property follows for it from its smaller subsets. `SumsExist` shows that the
  fold's recursive function exists, `SumAdd` that the element taken last does not
  matter, `SumGroups` that a set may be summed up group by group, which is what
  `aggregate` does.
* `DiffsBalance`: `Spec => []DiffBalances`. `DiffInv`: the answer is the diff of what the
  walk took and what was reported; `TotalOfSides` gives its sum and its total, `DiffOfSides` its pairs.

`ServerLifecycleProofs` proves `TypeCorrect`, `RecoversAlone`, `StoreClosedLast` and
`ReadyIsTrue` for any loops and requests from one inductive invariant, `InOrder`: which
parts of the process exist where `main` is, and that whatever has been cancelled was
cancelled after a signal.

### Only model-checked

Every liveness property (`InterruptedOrderResolved`, `BatchesSettle`,
`LateTrialSettles`, `EverythingPulled`, `ProcessEnds`): fairness is stated with ENABLED,
which the prover does not reach.

## Where code and words part

Two runs end in a counterexample to a sentence of the repository, and
`PROJECT.json` has them as findings: `saga_crash_skips` and `record_review_lost`.
The models show more of the kind, which no run is kept for:

* Compensate racing Provision leaves an aborted order with a step done after its
  list was read (`deployment_service.go:244`, `:261`).
* `BumpBatchRetry` runs after `ReleaseLease` has put the batch back to pending, so the
  retry it promises is not scheduled and the count does not grow (`poller.go:77`,
  `sync_repo.go:101`).
* A batch that did become `failed` is listed as due, but `AcquireLease` asks for
  pending, so it is never processed again (`poller.go:18`, `sync_repo.go:58`).
* `RequeueFailure` clears the failure and leaves the batch `permanent_failure`
  (`audit_failure_repo.go:109`).
* `Escalate` only logs a conflict on the order, so the trial is escalated while the field
  engineer stays responsible (`trial_service.go:40`, `:67`).
* `ListStaleManuals` scans in full "so the classification is exact"
  (`query_service.go:74`); a review decided during the walk shifts the pages and
  hides another one. `WalkErrsByMoves` is what holds.
* `ComputeDiff` says customer rows outside the period are ignored; those of the day of
  `to` are taken whole, while records are taken before `to` only
  (`reconciliation_service.go:179`, `:224`). The model's period has whole days.
* `GenerateBill` writes new totals to an issued or a voided bill, and a period opened
  early overlaps the one before.
* `rebuild-index` beside a running server can set the counter back to a version that was
  given out meanwhile; the next record then shares it.
* A pull does not show a change of status, as the version stays.

## Not modelled

* Registries (`service/registry_service.go`): single inserts and reads under unique keys.
* Configuration, logging, error wrapping, middleware, JSON: no state of the system.
* Migrations, pragmas, file handling of the store: I/O.
* SQLite's floating-point sum in `SumAcceptedHours`: the hours of `Billing` and
  `RecordLifecycle` are small integers. The decimals of the diff are modelled (`DiffEngine`).
* `opsctl verify`, `diagnose` and `export` are reports; `verify` compares lease times with
  `datetime('now')`, a text of another format. `import` loads rows once.
* `next_retry_at` as a number: the shifted delay of `BumpBatchRetry` wraps for
  large counts, and the check for a result that is not positive catches it.
