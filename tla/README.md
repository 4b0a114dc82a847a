# A TLA+ verification project for QuickHack

QuickHack is an ERP for a shop that buys, inspects, stores and sells used phones
through a sales channel (Coupang) and ships them with a carrier (Logen). It is a
Next.js server with PostgreSQL (`quickhack_server`), a client and a desktop shell,
an Android scanner, an HTTPS gateway and a server console (`tools`). All of the
logic that has to survive concurrency and failure is in the server: jobs that run
under leases, writes to systems that cannot take part in a transaction, and
stock whose every movement is booked.

This directory models that logic in TLA+, checks it with TLC on small instances
and proves its most important invariants with TLAPS for every instance.

    tlc -config MCWorkers.cfg MCWorkers           # one run
    tlapm Workers_proofs.tla                      # one module of proofs

Paths below are relative to the repository's root.

## 1. Inventory

"S" is `quickhack_server`. The last column says where a component stands:
**M** modelled, **P** partly, **-** not modelled.

| component | state | operations | |
|---|---|---|---|
| Worker jobs and leases (`S/workers/worker-jobs.ts`, `lease-guard.ts`) | one row of `server_worker_jobs` per job: status, lease token, claim generation, run token, `locked_until`, attempts, schedule | register, claim now / claim due, heartbeat, progress, execute, finalize as success or failure, change the schedule | M |
| Schedules and registry (`S/workers/schedule.ts`, `registry.ts`) | none (functions, constants) | compute the next run | P |
| Worker manager and graceful shutdown (`S/workers/manager.ts`, `shutdown-runtime.ts`, `S/admin/server-shutdown-service.ts`, `tools/quickhack-shutdown-coordinator.mjs`) | process memory: timers, tick flags, active executions, the shutdown's operation; the console's operation | start, tick, wake, recover, begin shutdown, drain, finalize, terminate, force | M |
| HTTPS gateway and console (`tools/`) | connections, child processes | proxy, drain, supervise | P |
| Sales channel writes (`S/sales-channel/write/`) | `sales_channel_write_requests`, `_targets`, `_attempts` | submit, begin, dispatch, call, settle, verify, finalize locally, recheck, decide, recover | M |
| Write circuit breaker (same service) | `sales_channel_write_controls` | check, count, pause, reset, resume | M |
| Coupang write adapter and contracts (`S/sales-channel/coupang/write-*.ts`, `api-client.ts`) | none | sign, call, parse, classify | P |
| Integration commands, inbox, projections (`S/integration/`) | commands, attempts, evidence, projection jobs | register, claim, dispatch, finalize, recover, project | P |
| Inventory quantity ledger (`S/inventory/inventory-quantity-ledger-service.ts`) | balance per SKU and status, movements, the device's status, SKU and revision | transition, reclassify, create, remove | P |
| Inventory management, corrections, audits | clients of the ledger | correct, compare | - |
| Inspection and PG issuance (`S/inspection/`) | reservations of PG numbers, devices | reserve, consume by a save, abandon, expire, make a device by hand | P |
| Inbound and purchase (`S/inbound/`) | batches, items and their workflow states | claim a state, confirm a purchase | - |
| Order matching, rematch, manual match (`S/sales-channel/coupang/order-*.ts`, `manual-order-match-*.ts`) | order work items, allocations, mapping revisions | reconcile, allocate, acknowledge, rematch, match by hand, expire, print | P |
| Coupang synchronisation (`S/sales-channel/coupang/sync-service.ts`, `api-call-log-service.ts`, `read-sync-recovery-service.ts`, `S/sales-channel/projection-revision-service.ts`) | the reconciliation's cursor, the clock of revisions, the log of API calls, the stored orders | compute a window, read a page, store it, move the cursor, recover an interrupted call | P |
| Inventory verification and repair | cycles, findings, repairs | compare, repair | - |
| Shipments and package groups (`S/shipment/`) | package groups, their members, print batches | freeze, hold, release, depart, complete, print | P |
| Carrier invoices (`S/shipment/carrier-integration/`) | issue batches, carrier shipments, replacement works, registration works | issue, retry, recover, replace, confirm, cancel, resume, register | P |
| Carrier tracking (`S/shipment/carrier-integration/logen/tracking-sync-service.ts`, `delivery-status-projection-service.ts`) | evidences, projection jobs, shipment and device status | drain, poll, project, fail | P |
| Returns (`S/returns/`) | return actions, conflicts | act, finalize a channel write | - |
| Supplies, mobile packing check | stocks with revisions, scans | change, complete | - |
| Authentication, QHKEY, personal data, statistics, notifications, backups, HTTP API and user interfaces | see `PROJECT.json` | | - |

### How they interact

* Everything in the server runs in Node processes, each of them one event loop:
  in a process a step runs from one `await` to the next. Processes meet in the
  database. A transaction that matters either locks its row (`FOR UPDATE`), or
  updates it with a `WHERE` clause that repeats what it has read and fails when
  no row is updated (compare and set).
* The worker manager's timers call `runDueWorkerJobs`, which claims jobs and runs
  their code. Requests of users run the same jobs by hand. The console stops the
  manager through the backend's internal API and waits for its drain.
* Jobs and requests call the services. A write to the channel is called between
  two transactions; so are an invoice and a tracking call (through integration
  commands). A write is told whether the worker's lease still holds
  (`workerStillOwnsRequest`), which ties `SalesChannelWrite` to `WorkerJobs`.
* What the channel or the carrier answered is projected into orders, shipments
  and devices; devices move through statuses with the ledger's balances.

### What is hard

1. *Leases*: an execution whose lease has lapsed is alive and acts late
   (heartbeats, finalizations, a claim in flight).
2. *The call between two transactions*: nobody knows what reached the other
   system when a process dies, a commit is not acknowledged or an answer is lost.
3. *Compare and set over long stretches*: what was read before an await is acted
   on after it, by executors, recoveries and persons who overtake each other.
4. *Shutdown*: a drain looks at lists in memory while startups, wake-ups and
   claims are between two awaits.
5. *Idempotency*: effects that are tried again after a lost acknowledgement must
   happen once.

`PROJECT.json` lists the places ("hazards"), each at its line, with the
properties that cover it, or why none does.

### What makes each component correct

* Jobs: at most one execution can record a result; a closed run is never executed
  again; retries are bounded; a schedule is never lost; an abandoned run is found.
* Shutdown: nothing new starts, nobody uses the database after its disconnect,
  the drain ends.
* Channel writes: at most one call per submission; a result is never presumed;
  nothing is stranded; a local finalization happens once; an attempt that ended
  is history.
* Circuit: paused exactly at the limit; a pause holds; nothing is resumed unseen.
* Integration commands: one dispatch per claim, an ambiguous outcome is never
  presumed, a projection's handler takes effect once.
* Ledger: the balance of a SKU and status is the number of its devices, whatever
  interleaves; a movement is booked once.
* PG issuance: a number is never given to two devices; a consumed reservation
  stays consumed.
* Matching: an allocation is for the offer its line has, the automatic match never
  exceeds a line's quantity, what was acknowledged was acknowledged at the channel,
  and a device that is reserved has an order.
* Invoices: an issue is tried again only if no number was given; a group has one
  replacement under way, and a number the channel knows is not given up.
* Tracking: a delivered parcel takes its device and its group with it; the device
  says what the shipment says; an evidence is projected in the end.
* Reads: the window leaves no order behind; a page never overwrites a reading that
  was asked for later; a call is recorded for what became of it.

## 2. Plan

In this order, the most important first. 1 to 11 are done.

| | module | about | abstract specification | theorems |
|---|---|---|---|---|
| 1 | `WorkerJobs` (+ `FencedLease`) | leases | refines `FencedLease` | all safety properties, the refinement |
| 2 | `ServerShutdown` | graceful stop | | all safety properties |
| 3 | `SalesChannelWrite` | durable writes | | all safety properties |
| 4 | `WriteCircuit` | circuit breaker | | all safety properties |
| 5 | `PgReservation` | PG numbers | | all safety properties |
| 6 | `InventoryLedger` (+ `InventoryRules`) | transitions with balances | the number of devices per SKU and status | all safety properties |
| 7 | `OrderMatching` | allocation under changes | | all safety properties |
| 8 | `DeliveryTracking` | evidences, projections, group, shipment and device | | all safety properties |
| 9 | `CarrierIssue`, `InvoiceReplacement` | issue and replacement of invoices | `InvoiceReplacement` refines `CarrierIssue` | all safety properties, the refinement |
| 10 | `IntegrationCommand` | commands, expiry recovery | | all safety properties |
| 11 | `OrderReconciliation`, `ChannelPages` | windows and cursor; pages, revisions, recovery of interrupted reads | | all safety properties |
| 12 | a composition of 1 and 3 | `held` of `SalesChannelWrite` driven by the row of `WorkerJobs` | | |
| 13 | `InvoiceReplacement` with several shipment boxes in a group | one write per box, the switch with the last of them | | |

Modules are written to be proved about: parameters are CONSTANTS with a named
assumption where a proof needs one, an operation is one action, state is flat
variables (a record only where one execution's fields change together), and no
module declares a RECURSIVE operator.

## 3. The modules

### WorkerJobs: one job, its executions, several processes

| model | code |
|---|---|
| `status`, `token`, `gen`, `run`, `expiry`, `attempts`, `enabled`, `nextRun` | the row of `server_worker_jobs` |
| `exec[e]` | the locals of one `executeWorkerJob`, with its lease's `lost` error |
| `shutdown[p]` | the flag of `shutdown-runtime.ts` in process p |
| `outcome`, `failures`, `closed` | history of the claims, for the properties |
| `ClaimNow`, `ClaimDue` | `acquireWorkerLock`, `acquireNextDueWorkerLock` |
| `Heartbeat`, `HeartbeatUnreachable`, `AssertActive` | `createWorkerLease` |
| `Begin` .. `FinalizeFailureError` | `executeWorkerJob` from its claim to its end |
| `UpdateSchedule` | `updateWorkerSchedule` |
| `BeginShutdown`, `Restart` | the process's shutdown and its death |

A lease token is a fresh UUID of one claim, so the claim's generation stands for
it. Time is abstract: a lease is live or lapsed, a next run is later or due, and
`LeaseLapses` and `NextRunComesDue` may happen at any moment. That allows more
than real clocks do, among other things a lease that lapses immediately.
A commit that is not acknowledged is the disjunct of `FinalizeSuccess` that
closes the row and enters the failure path. `ClaimNow` has no guard against the
shutdown: a run by hand looks at it before the awaits that lead to its claim, so
any number of requests may claim the row after it has begun, and find out at
`Begin`. How the drain meets such a claim is the matter of `ServerShutdown`.

`FencedLease` is what such a lease promises: generations are granted one after
the other, a generation is finished by its holder or voided by the next grant,
once. `WorkerJobs!ImplementsLease` is the refinement, with the row's RUNNING
generation as the holder.

### ServerShutdown: the graceful stop of one process

| model | code |
|---|---|
| `requested` | `shutdown-runtime.ts` |
| `starting`, `started`, `waking` | `WorkerManagerState`: the pending startup, the interval timers, the immediate tick |
| `pc[a]` | where a lane's tick, or a request that runs a job by hand, awaits |
| `drain` | `waitForWorkerManagerToDrain` as the finalization awaits it |
| `phase`, `console` | the operation of `server-shutdown-service.ts`, of the coordinator |
| `Registered`, `activeWorkers` | `registerActiveWorker`, from its call to its unregister |

A step runs from one await to the next, so whatever the code does without an
await is one action (for instance registering an execution, looking at the
shutdown and calling the worker). A call of the coordinator that fails may have
been served (`QuiesceBackend` may leave the console blocked).
The gateway's own drain is accepted and not awaited by the code either.

### SalesChannelWrite: one durable write, from submission to finalization

| model | code |
|---|---|
| `status`, `active`, `heartbeat`, `stale` | the request's row: status, active review attempt and its heartbeat, the age of `updated_at` |
| `ext[t]`, `loc[t]` | external and local result of each target |
| `last`, `kind`, `state`, `sent` | the attempts' rows |
| `pc`, `own`, `ids` | where an executor stands, the attempt it works for, the targets it noted |
| `held` | `workerStillOwnsRequest` |
| `Submit` .. `SettleVerification` | `createWriteRequest`, `requestSalesChannelWrite` |
| `Finalize`, `FinalizationFails` | local finalization by the executor or by a reviewer |
| `ClaimFinalization` .. `Annotate` | `sales-channel-write-review-service.ts`, `-review-ownership.ts` |
| `Recover` | `recoverInterruptedSalesChannelWrites` |

Decisions:

* A transaction is one action: it locks the request's row, or compares its status
  and attempt. One that rolls back, an executor that dies and one that finds its
  claim gone are the same step, `GivesUp`. A commit that is not acknowledged is
  its step followed by `GivesUp`; where the code looks the commit up and goes on
  (`recoverCommitted...`), it is the step.
* The channel's answer, the verifying read and the person's decision are
  arbitrary among the results the code distinguishes.
* Each target is a target group of its own; `PerItem` says whether a partial
  answer names each target's result.
* Left out as unreachable for the seven supported request types: the disposition
  REVIEW_REQUIRED of an answer, and a partial answer that cannot be attributed.
  The evidence, the integration command that mirrors the request, and the
  snapshot's contents are abstracted.
* `GoesStale` is excluded from the dispatch to the end of the call: the call has
  `AbortSignal.timeout` (`api-client.ts:346`) and the signature its own timeouts,
  both far below the fifteen minutes of the recovery. Everywhere else an executor
  may be overtaken at any step. A write that the channel applies after the call
  was given up is not modelled (the channel is external).

### WriteCircuit: the breaker of one endpoint

The row (`revision`, `paused`, `count`), the writes that check it, call and count
afterwards (`circuitPc`), and persons who look and resume. `fresh` and `overrun`
are history.

### PgReservation: numbers issued to the rows of an upload

| model | code |
|---|---|
| `status`, `pgNo`, `expired` | the rows of `inspection_pg_reservations` |
| `devices` | the PG numbers of the committed devices |
| `pc`, `rec`, `num`, `late`, `tries` | a transaction of several statements: where it stands and its locals |
| `keys`, `rows` | its advisory locks ("device-inbound") and its row locks, held to its end |
| `Reserve` .. `Insert` | `reserveInspectionPg` |
| `Save` .. `SaveRecord` | `saveInspectionRecord` |
| `CreateByHand` | `createManualInventoryRecord` |
| `Abandon`, `Expire` | `abandonInspectionPg`, `expireInspectionPgReservations` |

Other transactions commit between the statements of a session; what a session
read without a lock (`Look`) may be stale when it acts. The table's CHECK
constraint and unique index are part of the model: the replay of an expired
request updates a row that it has read without a lock, and only
`ck_inspection_pg_reservations_lifecycle` keeps that update from overwriting a
consumption. A deadlock, an exhausted draw and a lost connection are `Fails`.
Left out: conflicts of a request's digest or kind with its row (they change
nothing), the deletion of devices, and what a save writes beside the device and
the reservation.

### InventoryLedger: balances that follow the devices

| model | code |
|---|---|
| `stat`, `rev` | the device's row in `inventory`: its status, and its id and revision as one number |
| `sku` | the device's `inventory_sku_id` |
| `balance` | `inventory_quantity_balances` |
| `booked` | the operation keys whose movements are recorded |
| `ledgerPc`, `work` | a transaction around one operation: where it stands, its locals and its locks |
| `Allowed`, `LocksDevice` | the transition policies, and which of their callers lock the device |
| `Transition` .. `Update` | `transitionInventoryStatusWithLedger` |
| `Reclassify`, `Classify` | `reclassifyInventorySkuWithLedger` |
| `Create`, `Remove` | a device made by hand or purchased, and one that is deleted |
| `MoveOut`, `Commit` | `applyQuantityDelta` for the OUT and the IN movement, and the commit |
| `Relocate` | any other write of the row that raises its revision |

What a transaction has written is seen by the others at its commit; until then
its locks (the device's advisory lock, the row, the balance it has taken from, its
operation key) hold them off, and a lock that is waited for is a guard. The
callers differ: reservations, invoice confirmations and the delivery sync do not
lock the device, so a transition may find its row changed since it was read, and
the update's WHERE clause on id, status and revision has to notice. Left out: more
than one operation in a transaction; the sorted advisory locks on balances, which
only prevent deadlocks; the first SKU of a device; and the comparison of a repeated
operation's contents with the recorded ones.

### OrderMatching: devices for the lines of one shipment

| model | code |
|---|---|
| `chan`, `raw` | the order's status at the channel, and as it was last read |
| `mapping`, `line` | the product's default offer; the work item of each line with its quantity and offer |
| `alloc`, `inv`, `moved` | the active allocation of each device, its status, the ledger's operation keys |
| `req` | the status of the shipment's write to INSTRUCT |
| `reset` | the work items that a rematch has reset and that its own run is still to load |
| `ReconcileRead`, `ReconcileWrite` | the reconciliation of changed work items: read, then rewrite |
| `Load` .. `Finalize` | the worker's cycle over one line: load, claim a device, allocate, record the line's status |
| `Look` .. `Localize` | the acknowledgement: `markShipmentsApiAckedAndReserveInventory`, the channel write and its local finalization |
| `Acquire` .. `GiveUp` | a manual match: intent lease, snapshot, execution |
| `Rematch` | `resetEligibleOrders`, at the beginning of the run that loads the lines again |
| `Expire`, `Sync`, `MapOffer`, `ConfirmPrint`, `Correct` | the other transactions that change the same rows |

A run whose worker lease was lost goes on beside its successor, so two matchers
are two runs of one worker. The allocation is two steps because it holds the row
of its line between them; a manual match is because it acts on a snapshot that is
older than its locks. Everything else that locks what it reads is one action.
`Load` has two ways to a line: an automatic run takes the lines that are UNMATCHED
or PARTIAL of orders that still are to be delivered, and the run that a rematch
starts takes the lines it has reset by their ids, whatever the order's status is
by then, and also if they have failed or are exceeded meanwhile. Until it has
loaded them (`Idle`) this run reconciles and recovers nothing.
Left out: lines with several shipments, how the candidate is chosen among the
fitting ones, address checks, and the write request's own states.

What the model made visible beside the findings: two manual matches of devices
with different SKUs can take one line beyond its quantity (`AutomaticWithinQuantity`
states that only a manual match can); a line that is FAILED or EXCEEDED is not
tried again but by the run of a rematch; a printed line whose quantity is raised,
or whose device is put on hold, makes the finalization throw in each cycle; and
an allocation whose operation key was used before leaves its device SELLABLE.

### IntegrationCommand: one command to a provider

The row (`cmdStatus`, `owner`, `leased`), its attempts (`cmdAttempts`) and evidences;
executors (`cmdPc`) that claim, mark the dispatch, call and record;
`RecoverCommand` is `recoverExpiredIntegrationCommands`. A claim's token and
generation are told apart by its executor, because an executor has one claim at a
time. The execution part has no production caller in this commit; the sales
channel's writes register commands and mirror their outcome. The projection jobs
of the same directory are part of `DeliveryTracking`, their only client.

### DeliveryTracking: from the carrier's answer to the device

| model | code |
|---|---|
| `events` | the carrier's scans of each invoice, in their order |
| `jobs` | `integration_projection_jobs` with the evidence they carry |
| `shipment`, `booked` | `carrier_shipments`, and the operation keys of the transitions an evidence has made |
| `group`, `current`, `member`, `device` | the package group, its current invoice, its member and the device's status |
| `ousted`, `trackPc`, `work` | the executions of the tracking worker |
| `ClaimNext`, `Poll`, `Answer`, `Record`, `PollFails`, `ClaimOwn` | `processLogenShipmentTracking`: its drain, the candidates of its poll, the carrier's answer, the evidence that is recorded of it, and the claim of the poll's own job |
| `Apply`, `Refuse` | the handler's transaction (`projectDeliveryStatus`) with the job's success, and its refusal |
| `Hold`, `Switch`, `Release`, `ReturnBefore`, `ReturnAfter`, `ChannelStatus` | what the replacement of invoices, the returns and the order sync do to the group meanwhile |

An execution is ousted when its worker's lease has lapsed; it goes on until it
looks at the lease. A poll is three steps: its candidates may have been replaced,
scanned again or projected by another execution before its evidence is recorded,
and the lease may be lost between the look at it and the record. A group has one
device. Two things are stated as they are: an
older evidence that is projected after a newer one moves shipment and device back
(`reordered` is the exception in `DeviceFollowsShipment`), and an evidence that is
refused stops the drain, so that nothing is polled any more until it is accepted
(`Halted` is the exception in `ProjectedUnlessHalted`).

### CarrierIssue and InvoiceReplacement: a tracking number, and another one

| model | code |
|---|---|
| `batch`, `attempt`, `dispatched`, `outdated` | the issue batch of each request key |
| `invoice`, `revision`, `current`, `group` | the carrier shipments, the group's current one and its status |
| `reqPc`, `plan`, `answer` | where a request stands, and its locals |
| `Prepare`, `MarkDispatched`, `Call`, `Store`, `StoreFails` | `carrier-invoice-issue-service.ts` between its transactions |
| `Recover` | `carrier-invoice-issue-recovery-service.ts` |
| `work`, `stage`, `old`, `token`, `stale`, `candidate`, `updated` | the row of `carrier_invoice_replacement_works` |
| `write`, `caller` | what the work sees of its channel write |
| `register`, `printed` | the registration work and the label of each shipment |
| `Start`, `Confirm`, `Resume`, `ClaimCancel`, `Cancel` | the requests of `coupang-invoice-replacement-service.ts` |
| `Continue` .. `FinalizeFails` | the execution under the token, from the allocation to the switch |
| `Project` | `carrier-invoice-replacement-projection-service.ts` |
| `RegisterSubmit` .. `PrintLabel` | the registration worker and the label's confirmation |

A replacement work, its batch and its candidate shipment have one request key and
one name here. `CarrierIssue` is also an abstract specification: its last section
says what the issues count on in the rest of the system, and
`InvoiceReplacement!IssuesAsSpecified` shows that the replacement, with its
channel write and the registration, does nothing else to the group, the batches and
the shipments.

The channel is told by one write per work. The code sends one per shipment box of
the group and switches the invoice with the last that is completed; one that finds
the others incomplete leaves the work as it is (`allConfirmed`). The model is that of
a group with one box.

Observations that are not findings, because no text of the repository says
otherwise: a logging failure, or a broken answer, of the allocation's call counts
as certain failure, so that a retry is given a second number (`misread` is the
exception in `RetryIsSafe`); that one work at a time is open for a group rests on
the number of held groups alone; a cancel that fails at WAITING_MANUAL leaves a
work that can only be canceled again; a replacement that begins while the
registration worker has SUBMITTED the old invoice treats it as unregistered, and
the worker's answer is then refused (REGISTRATION_TARGET_CHANGED); the candidate
of a work that was canceled after its allocation is picked up by
`discoverMissingLogenRegistrationWorks`, whose enqueueing throws
LOGEN_REGISTRATION_ITEM_UNAVAILABLE, and with it stops the registration of the
shipments behind it.

### OrderReconciliation and ChannelPages: reading the orders of the channel

| model | code |
|---|---|
| `cursor` | the rows of `channel_sync_cursors` that the reconciliation reads: its own of the status ACCEPT, and an older version's |
| `read`, `readPc` | the locals of `syncCoupangOrderReconciliation` and where it stands |
| `created`, `stage` | when an order was made, and its status at the channel |
| `stored` | the orders with a row in `coupang_order_raw` |
| `PlanRead`, `OpenCursor` | the window from the cursor and the clock, and the first cursor |
| `ReadPage`, `ReadLastPage`, `MarkSuccess`, `EndsEarly` | `syncOrdersheetStatuses`, `markSyncSuccess`, any error |
| `clock` | `sales_channel_projection_clocks` |
| `logs` | `coupang_api_call_log` |
| `raw` | the row of an order: its status and the revision it was read under |
| `BeginPage` .. `EndPage`, `FailRead` | one page in `syncOrdersheetStatuses` and `upsertOrderRawSnapshot` |
| `FindInterrupted`, `RecoverInterrupted` | `recoverInterruptedCoupangReadSyncs` |

The reads are two modules because their questions are apart: which orders a run
asks for, and what becomes of an answer. In `OrderReconciliation` a page is one
step, up to its storing: an order once stored stays stored, and a run moves the
cursor after its own pages only, so a page that is stored later than it was asked
for, or by a run that is overtaken meanwhile, changes nothing that
`CoveredIsStored` sees. Where a page ends is arbitrary, because the channel has
other orders too. In `ChannelPages` the statuses of orders only grow, which makes
them the age of a reading. Left out, because they are elsewhere: what a page does to
work items (`OrderMatching!Sync`, `Expire`) and to deliveries
(`DeliveryTracking!ChannelStatus`). The other workers that read orders use the same
pages; they have no cursor that anybody reads.

What the models made visible: revisions order the reservations, not the answers. Of
two pages under way, the one reserved later may be answered earlier, and then an
older status stays until the next read; `NotOlderThanRead` states what does hold,
that no page undoes what was true when another one was asked for. And before
anything is covered, a failed first run may have been the only one whose window
held an order of the day before (`since`).

## 4. Runs

| run | what it shows | states |
|---|---|---|
| `workers` | a job with two executions in two processes, 4 claims, 2 attempts: all safety properties and the refinement of `FencedLease`; two executions that read windows for four units of two days, with one failure; two that read a page each, with two failures | 1.9 million |
| `liveness` | `ServerShutdown` with two lanes and two requests (safety, and the drain ends); one job with two executions in one process (an abandoned run is claimed again); one write (an interrupted one is recovered); one tracking worker (an evidence is projected) | 195 000 |
| `server_shutdown_termination` | finding 1 (violation) | |
| `writes` | a channel write with two executors, two targets, 6 attempts; a circuit with three writes, two persons, 8 revisions; a command with two executors, 3 attempts; the tracking of a group with two invoices by two executions: their safety properties | 1.9 million |
| `sales_channel_write_repeat` | finding 2 (violation) | |
| `stock` | two upload rows and two numbers; two devices, two SKUs and five operations; a first issue and a replacement with 2 retries and 2 failures: the safety properties of `PgReservation`, `InventoryLedger` and `CarrierIssue` | 870 000 |
| `pg_reservation_by_hand` | finding 3 (violation) | |
| `order_matching` | one line, two devices of two SKUs, two offers, two runs of the worker and two changes by others: the safety properties; the runs, the offers and the devices with their SKUs are interchangeable | 0.6 million |
| `order_matching_leak`, `order_matching_write` | findings 4 and 5 (violations) | |
| `invoice_replacement` | a first invoice, two replacements, two requests, one failure: the safety properties, and the refinement of `CarrierIssue` | 811 000 |
| `invoice_replacement_stuck` | finding 6 (violation) | |

Every property of a passing run has a mutant: a plausible slip in the code,
written next to the definition it changes ("Mutant of ..."), under which the
property fails.

*Composite runs.* `MCWorkers`, `MCLiveness`, `MCWrites` and `MCStock` put modules
that share nothing side by side, by EXTENDS where their safety is checked, so that
a property has the name under which it is proved, and by INSTANCE where only
liveness is. Their initial state chooses the part that moves (`moving`) and the
others stand still, so the states are the sum, not the product, of the
parts', and each part is checked as it would be alone. Names of model values are
shared between parts (`e1` is an executor of a write, of a command and of the
tracking), so that one symmetry serves all of them; two states of one part that
differ by a permutation are alike for that part, and the parts that stand still
are in an initial state that the permutation leaves alone.

*What the runs leave to the proofs.* The type invariants of the modules that have
proofs, and TimersStayOff, EndingIsFinal, ConsumedIsFinal, StepsAllowed,
OneOpenAttempt, EndedAttemptIsFinal and StoredAsGiven, are proved for every instance
and not run again.

*Bounds.* `MaxClaims`: four claims hold a takeover of a lapsed run, its retry, the
last failure and a new run (`max_attempts` is 2 there), so every way in which one
claim is followed by another occurs, with an old execution alive. `MaxAttempt` of
a write: six attempts hold a submission, its verification, a recheck that
expires, a decision, a finalization and a repeated finalization; or three
submissions. Two targets give every status that depends on several targets. Three
writes and a limit of three make a pause with writes under way; eight revisions
make two pauses. Two transactions are the parties to every lock of
`PgReservation`; a third party (expiry, abandonment, a device made by hand) is
always there as a transaction of one statement. Two rows compete for each of two
numbers, and two draws let the first one fail. Two transactions also suffice for
`InventoryLedger`, whose properties are about one device or one balance; the second
device lets a balance hold more than one. Its five operation keys make a
reservation that does not lock its device meet a hold, a correction and a release
that do, and two revisions let a row be read, written and read again. Two lanes
suffice because a lane only meets the others in "all lanes are idle"; two requests
because the last one to end wakes the drain. Three attempts of a command hold a
claim that is recovered before its dispatch, one that is abandoned and one that is
recovered after it. In `OrderMatching` two devices with a quantity of two make a
line that is filled by halves by two runs, and `MaxChange` = 2 lets a change be
made and taken back, or two changes meet, between any two steps of the runs. In
`DeliveryTracking` two events of an invoice, or one of each of two, are in two
jobs; one fault (`MaxFaults`) is a crash, a lapsed claim or a takeover at any step.
In `InvoiceReplacement` two works make one that is canceled or completed and its
successor, and two requests are one owner of a token and one that is overtaken;
the retries of an issue (`MaxRetries`) are in `stock`.
In `OrderReconciliation` the property is about one order at a time, and the others
only decide where pages end; four units of two days hold a standstill that takes
two windows to catch up with, two statuses are the one that is left and the one
that is entered behind the reader's back, and one mishap is a run that fails or one
that is overtaken and goes on. In `ChannelPages` two pages (`MaxPages`) overtake
each other between any two steps, an order has a status before, between and after
their reservations, and two mishaps are a reader that is ousted and one that dies.

*Deadlock* is checked in `workers`, `liveness` and `stock`. There the parts
that may really rest (a write whose request is completed, a tracking without
events, invoices that are done, readers at their bounds) have a disjunct of their
own that lets them rest;
a shutdown, a job, the numbers and the ledger never come to a standstill, which
for the ledger means that no two transactions wait for each other's locks. In the
other runs a completed request really has nothing left to do, and the bounds on
attempts and changes stop the rest.

*Fairness* is a hypothesis of each liveness property (`Fairness => ...`).
`WorkerJobs`: time passes (leases lapse, next runs come due), the worker's code
ends, each weakly fair; the manager's tick tries the due claims every interval and
the row is claimable again and again, so `ClaimDue` is strongly fair. Failures,
restarts, operators and manual runs owe nothing.
`ServerShutdown`: awaited work ends and the poll's timer fires.
`SalesChannelWrite`: time passes, worker runs end, and the manager calls the
recovery with every tick; no executor and no person is assumed to act.
`DeliveryTracking`: the schedule starts the worker again and again and its steps
follow each other, and a claim that is not finished lapses; the carrier, the
channel and persons owe nothing.

## 5. Proofs

TLAPS proves, for every value of the constants that satisfies the modules' named
assumptions:

* `Workers_proofs`, of `WorkerJobs`: TypeOK, SingleOwner, ClosedRunNeverRepeats,
  RetryBudget, NextRunTracksSchedule, EndingIsFinal and the refinement of
  `FencedLease`.
  *Argument.* The inductive invariant ties every execution to the row: an active
  execution's generation is at most `gen`; two active executions have different
  generations; whoever carries the current generation carries the row's run token
  as well; the generations above `gen` are open, and those below are not, except
  the one that is running; a token is the generation or 0. From these, owning the
  row means having claimed last. The retry budget needs the count of the run's
  failures to stay below the row's attempts; a claim that gives its attempt back
  has recorded no failure.
* `Workers_proofs`, of `ChannelPages`: NotOlderThanRead, StoredIsRecorded.
  *Argument.* A page brings statuses that are at least those of the time at which
  its revision was reserved, and of two revisions the later one was reserved when no
  order was younger (`AgeInv`). The status that the stored row has to answer for is no
  newer than what any page with a higher revision found at its beginning
  (`FloorInv`), so a page that passes the comparison of revisions cannot bring less.
* `Workers_proofs`, of `OrderReconciliation`: CoveredIsStored.
  *Argument.* More is true of what is covered than the property says: up to the
  cursor, an order is missing only if it is of the last day and has left the first
  status (`Covered`). A window begins a day before what was covered, and ends at most
  a day behind it (`WindowsArePast`), so its first day holds every order that may be
  missing. A run asks for the later statuses first; until it comes to the first one,
  an order of that day is stored or still ahead of it, in its page or in a status it
  has yet to ask for (`ReadSoFar`), and at the first status only those that leave it
  escape. At the end the run has what `Covered` says of the window's end (`ReadAll`),
  whatever the cursor has become meanwhile. Before the first success nothing is
  covered (`FromNothing`).
* `ServerShutdown_proofs`: TypeOK, TimersStayOff, LanesQuietAfterDrain,
  NothingStartsAfterRequest. *Argument.* The drain has only been asked for after
  the request, and once requested no startup, tick or wake-up can make a quiet
  manager busy again: what the drain has seen quiet stays quiet.
* `SalesChannelWrite_proofs`: TypeOK, OneOpenAttempt, CalledOnce, NotAppliedWasSeen,
  NothingStranded, FinalizedOnce, EndedAttemptIsFinal. *Argument.* At most one attempt
  is open, and the request's status, or the active claim, speaks of it; an attempt
  is one executor's. An executor between its dispatch and its answer owns the open
  attempt, and the row is not stale meanwhile, so no recovery comes between. With
  that, nothing has been called as long as the open attempt is not marked as sent,
  or its caller is still before the call. The targets have a result exactly when the
  write has one, only what succeeded at the channel is finalized, and the count of
  finalizations is one exactly when the local result is SUCCEEDED.
* `ProviderCalls_proofs`, of `WriteCircuit`: CircuitTypeOK, PausedAtLimit,
  OneOverrunEach, ResumedAsSeen. *Argument.* A slot that has overrun the pause stands
  behind its call until the next resume, and a paused endpoint lets no check pass; a
  person whose revision is the row's has no fresh failure.
* `ProviderCalls_proofs`, of `IntegrationCommand`: CommandTypeOK, SentOnce,
  EvidenceTells. *Argument.* The command's status tells the dispatch status of its
  latest attempt, and the earlier attempts are over. At most one executor is between
  its claim's check and its answer, and it has the latest attempt; one that has lost
  its claim finds another owner and retires.
* `ProviderCalls_proofs`, of `DeliveryTracking`: TrackingTypeOK,
  DeviceFollowsShipment. *Argument.* Only the current invoice of a group is
  projected, a spare one is ALLOCATED until it is current, and a group is not FROZEN
  once its invoice was scanned (`CurrentInv`). The hard case is an evidence whose
  operation key was used before, so that the ledger moves nothing: its event has
  then moved the device, hence is not above the newest projected event
  (`NewestInv`). If it is below, the invoice counts as reordered; if it is the
  newest, the shipment says so already, and the device followed it then. A delivery
  whose key was used is not taken back by anything (`DeliveryInv`), so it needs no
  exception. Every event has a key because the events of one invoice are bounded
  with those of all (`ScansOfEach`). What an execution knows of the carrier's answer
  was scanned, however long ago (`WorkInv`), and so is what it records of it.
* `PgReservation_proofs`: TypeOK, KeptForItsRow, SavedOnce, ConsumedIsFinal.
  *Argument.* A lock has one holder. A transaction that is drawing, or past the
  check of its save, holds its number's lock, so nobody reserves a number that a
  save has found free; the reservation a save has locked stays as the save found
  it. A reservation that was saved for is CONSUMED, and no update leaves that
  state, so nothing is saved for twice. That nobody needs to lock the row for
  ConsumedIsFinal follows from the CHECK constraint.
* `InventoryLedger_proofs`: LedgerTypeOK, BalancesMatch, MovedOnce, StepsAllowed,
  SkuSettled. *Argument.* A transaction that is about to book a movement takes its
  device from where the device stands (`MoveInv`). That survives the others'
  commits because two transactions never move one device: a transition that has
  updated the row holds it, a reclassification holds the device, and the one
  cannot meet the other, because every policy that starts in a status in which
  the SKU may change locks the device (`EditableLocks`, `OneMover`). A reading
  that is older than the row has an older revision (`ReadInv`); the only commit
  that leaves the revision as it is changes a SKU, and whoever could rely on the
  reading then holds the device's lock (`CommitOthers`). A commit moves one device
  out of one set and into another, which the cardinalities follow.
* `OrderMatching_proofs`: TypeOK, AllocatedUnderOffer, AckedWasInstructed,
  LeakedByAcknowledgement, AutomaticWithinQuantity. *Argument.* A matcher that has
  claimed a device holds the row of its line, alone, and the line lacks a device
  (`ClaimInv`), so its allocation keeps the quantity; the counts are cardinalities
  of the sets of devices, to which one is added. What is no longer ACCEPT in the
  stored order is not at the channel either, and whoever goes to acknowledge has
  seen that (`InstructInv`). Every step but the reservation that acts on what an
  acknowledgement read before leaves a device without an allocation only in a status
  other than RESERVED and PACKING.
* `InvoiceReplacement_proofs`, of `CarrierIssue`: RetryIsSafe, StoredAsGiven.
  *Argument.* An attempt is the work of one request: whoever is between the dispatch
  and the storing has the batch's attempt. The dispatch is committed before the call,
  so a batch that says it was not dispatched has no number; the recovery decides by
  that column, and a number that was given leaves the batch at ALLOCATED or
  REVIEW_REQUIRED, unless its answer was misread. This invariant (`IssueInv`) looks
  at nothing that a request does outside the issue, so the replacement takes it over.
* `InvoiceReplacement_proofs`, of `InvoiceReplacement`: ReplacementTypeOK,
  HeldByOneWork, ToldIsKept, OldIsHandled, NumbersAccountedFor, CurrentMovesForward,
  and the refinement IssuesAsSpecified. *Argument.* The candidate is the point of no
  return: before a work has one nobody tells the channel, and from then on nobody
  cancels it (`StageInv` says which columns go with which stage). The group is held
  exactly while one work is open (`HoldInv`), so a request that asks for another one
  finds the group held. A request that has the token of a work is the only one that
  moves it between its allocation and its switch, and one that was overtaken no longer
  has the token (`OwnerInv`); a request that prepared an issue goes by what its batch
  still expects (`ExpectInv`). A new shipment has the highest revision
  (`HighestInv`), which is why the current invoice moves forward. The refinement maps
  a request that is elsewhere in its work to an idle one: each of the steps of the
  issue is the step of the same name there, and every other one changes what that
  module's last section allows, or nothing of it.

The assumptions are about the constants only (`WorkerJobsAssumption` and its like, next
to the CONSTANTS): nobody is no executor, bounds are numbers, the answers are among
those the code tells apart, devices and invoices are finitely many, an invoice is of
one group. TLC evaluates them in the runs.

Every safety property that a run checks is proved, and so are the two refinements.
Only model-checked are the liveness properties (DrainEnds, AbandonedRunIsRetaken,
InterruptedIsRecovered, ProjectedUnlessHalted): their fairness and its ENABLED are
out of reach here, as is the induction over the steps to an end that they would need.
The violations of section 6 are counterexamples of TLC. No module computes by
recursion over data.

## 6. Findings

1. *A run by hand escapes the drain.* The message of `scheduleServerTermination`
   (`server-shutdown-service.ts:196`) says that termination is only allowed after
   worker drain. A run by hand whose claim is in flight when the shutdown is
   requested is in no list the drain looks at; it is registered after the drain
   has resolved. Its worker's code is not called (that part is
   `NothingStartsAfterRequest`), but its row stays RUNNING.
2. *A broken-off answer is taken for a refusal.* `README.en.md:185` wants a GET
   before a write is repeated after a disconnection. An answer whose body breaks
   off rejects with a message that `isAmbiguousWriteFailure` does not recognise;
   all targets become NOT_APPLIED and the request can be repeated.
   `NotAppliedWasSeen` states that this is the only way to presume a result.
3. *A reserved number can be taken by hand.* A save without the row's reservation
   refuses a reserved number (`PG_RESERVED_FOR_INSPECTION_ROW`,
   `inspection-save-service.ts:574`), and a reservation is only made where there
   is no device. `createManualInventoryRecord` takes the same advisory lock but
   looks at devices alone (`inventory-management-service.ts:672`), so the row's
   save is later merged into a device that was made by hand.
4. *A device is reserved for nobody.* `markShipmentsApiAckedAndReserveInventory`
   reads the active allocations without a lock (`order-matching-service.ts:317`)
   and reserves the devices it read after its UPDATE has waited for a rematch or a
   manual release. `inventory-consistency-audit-service.ts:293` calls the result
   an inconsistency. `LeakedByAcknowledgement` states that nothing else leads
   there.
5. *A manual match during a write.* `manual-order-match-service.ts:230` and `:435`
   look for PROCESSING and UNKNOWN requests, which do not exist any more; a request
   that is SENDING or to be reviewed does not stop the match, although the reason
   it would have given says that a write is in progress.
6. *An interrupted confirmation cannot be resumed.* A process that dies between
   the claim and the confirmation of a replacement
   (`coupang-invoice-replacement-service.ts:1364`, `:1377`) leaves a token that
   neither confirm nor cancel takes over and that resume refuses, while the next
   action shown is RESUME_INTERRUPTED. The package group stays on hold.

## 7. Not modelled

* *Code without a protocol of its own*: parsing, wording, cryptography, user
  interfaces, the desktop shell, the scanner, packaging, mock servers, generated
  code; derived data that the next run computes again (statistics,
  notifications); programs around files and `pg_dump` (backups).
* *Clients of what is modelled*: inventory corrections and audits, inbound and
  purchase, returns, supplies and packing checks. What they do to devices is
  policies of `InventoryLedger`, and what they tell the channel is
  `SalesChannelWrite`; their own rows are claimed by one compare-and-set inside
  the transaction that has the effect, so there is no step at which another
  party could come between.
* *The rest of the channel's reads*: the pages of returns, exchanges and withdrawals,
  with windows of their own, and the verification and repair of quantities, cycles
  that read and compare again.
* *Local finalizations left to persons*: the automatic recovery of local
  finalizations looks at requests without an active attempt
  (`order-matching-service.ts:1125`); one whose finalizer died while it was bound
  waits for a person's claim, which is in `SalesChannelWrite` and which nothing
  forces to happen.
* *Accounts, TOTP, QHKEY*: throttles and one-time codes under row locks, and
  replacements of files on a removable drive; the code's properties there are
  mostly cryptographic.

In the modules above: the calendar of schedules, progress figures, logs, result
snapshots and evidence rows that nothing reads back, and the lists that reviewers
read; of the carrier's side, batches of several groups, the reissue of a frozen
group's invoice, the reconciliation works that unclassified answers open, and the
spooling of labels; of an answer's parsing, everything but the class it is
assigned to. The database is taken to be what PostgreSQL promises: a row lock is
held to the end of its transaction, and an UPDATE's WHERE clause is evaluated on
the latest committed row.
