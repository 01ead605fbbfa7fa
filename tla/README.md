# Verification of the website studio's server

TLA+ models of the concurrent and failure-prone parts of this repository, the
TLC configurations that check small instances of them, and TLAPS proofs of their
main properties. Paths are relative to the repository root.

    tlc -config WorkQueueSafety.cfg MCWorkQueue.tla    # one run
    tlapm WorkQueueGuarantees.tla                      # the proofs of a module

## Inventory

The program is a website studio: a React editor, a Node server with SQLite
databases, child processes that generate, run and probe sites, and the published
sites themselves, which take orders and bookings.

| component | state | operations | what is hard |
|---|---|---|---|
| Work queue (`server/workQueue.ts`) | `work_items`, limits, pool policy; per process the map of controllers | enqueue, claim, renew, complete, fail, cancel, retry, close | several processes on one table, leases, crashes, late handlers |
| Resource leases (`server/workQueue.ts`) | `resource_leases` | acquire, assert, renew, release | shared/exclusive conflicts across processes, expiry |
| Worker processes (`server/workerClient.ts`, `*Worker.ts`) | child process, pending request, timers | request, lifecycle messages, stop | late messages after an abort, kill and exit |
| Generation and release activation (`server/operationsService.ts`) | studio db, site db (active release, pause flag), running sites | enqueue, run, promote, reconcile, restore, freeze | several databases without a common transaction, crash between them |
| Project command sync (`server/projectCommands.ts`, `server/store.ts`, `src/infrastructure/projectJournal.ts`, `src/editor/useStudio.ts`) | project revisions, receipts, browser journal | edit, send, acknowledge, merge, restore | lost replies, several tabs and authors, replays |
| System delivery (`server/systemDelivery.ts`) | outbox in the studio db, inbox in each site db | enqueue, claim, apply, mark | crash between two databases, reordering, duplicate delivery |
| Orders and payments (`server/platform/business.ts`) | orders, inventory, provider events, commands, ledger | create, checkout, event, refund, cancel, reconcile | provider answers late, twice, out of order |
| Bookings and waitlist (`server/expansion/bookings.ts`) | slots, bookings, offers, reviews | book, offer, accept, expire, change capacity | shared capacity of bookings and expiring offers |
| Usage reservations (`server/expansion/usage.ts`) | reservations, observations, limits | reserve, commit, release, expire, observe | late commits after expiry |
| Recovery evidence (`server/advancement/reconciliation.ts`) | reconciliation rows | create, verify, assertRetry | a proof is about one outcome, the id lives on |
| Connections, billing, content, reviews, workflows, deployment, retention, backups, accounts | rows in one database each | many | mostly single statements; see `PROJECT.json` |
| Editor, runtime UI, generator, domain rules | none shared | rendering and pure functions | not concurrent |

How they interact: HTTP handlers and timers of `server/index.ts` call the
services; services enqueue work items; the queue's handler runs generation,
publication, workflows and bookings jobs, most of them in child processes that
prove their right to write by the token of a work lease or a resource lease;
publications reach the site databases through the outbox; sites take payments and
bookings in their own database and process.

Properties that make the components correct:
 * work queue: at most one execution of an item may act for it, results come from
   the latest attempt, limits hold, cancelled and unconfirmed work is not run again,
   everything queued ends, a closed process is idle;
 * leases: no two live conflicting holders, a lost lease never comes back;
 * release activation: the site database, the studio database and the running site
   agree on the release once nothing is in progress, and some release stays writable;
 * command sync: acknowledged edits are neither lost nor applied twice;
 * delivery: the target shows the newest publication it received, each event applied
   at most once, and every event is delivered or reported;
 * orders: inventory is conserved, refunds stay within the payment, provider state wins;
 * bookings: confirmed and offered places stay within capacity;
 * usage: reserved plus committed stays within the limit, except for late commits.

## Modules

| module | models | status |
|---|---|---|
| `WorkQueue` | the queue: rows, coordinators, executions | complete |
| `MCWorkQueue` | small instances of it for TLC | complete |
| `WorkQueueProofs` | its types and row invariants, proved | complete |
| `WorkQueueGuarantees` | its fencing and its limits, proved on top of those | complete |
| `PublicationRegister` | what delivery promises: the content shown as a register of publications | complete |
| `SystemDelivery` | outbox, claims, inbox and acknowledgement for one site database | complete |
| `MCSystemDelivery` | small instances of it for TLC | complete |
| `SystemDeliveryProofs` | its invariant, and that it implements the register, proved | complete |
| `Orders`, `MCOrders` | orders, payments, refunds and the hold after a restore | all but editing of products, usage and fulfilment |
| `OrdersProofs` | its invariant and every property its run checks, proved | complete |
| `Bookings`, `MCBookings` | bookings, waiting list, reviewed and unreviewed changes | complete |
| `FiniteSums` | sums over finite sets, for the proofs about `Bookings`; least and greatest numbers, for those about `ProjectSync` | complete |
| `BookingsProofs` | its invariant and every property its run checks, proved | complete |
| `ReleaseActivation`, `MCReleaseActivation` | generation, promotion, rollback, reconciliation of releases | the exclusive lease and the two databases |
| `ReleaseProofs` | its invariant and every property its passing run checks, proved | complete |
| `ProjectSync`, `MCProjectSync` | the document between an editor and the studio | one tab of one device |
| `ProjectSyncProofs` | its invariant, and every property its run checks but the liveness one, proved | complete |

### WorkQueue

One step of the model is one database transaction or one synchronous stretch of
JavaScript; `node:sqlite` is synchronous and `BEGIN IMMEDIATE` serializes writers.

State. `status`, `attempts`, `token`, `cancelRequested`, `result` are the columns of
`work_items`; `limits` is `work_organization_limits`, `pools` the body of
`system_worker_policy`. `lease`, `nextAt` and `deadline` are the time left until
`lease_until`, `next_at` and the deadline of `system_work_details`; every comparison
with `now()` becomes a comparison with 0, and `Tick` lets one unit pass, for all
processes alike (they share a machine and its clock). `execs` is the set of calls of
`processOne` between claim and settlement, `ctl[w]` the map `running` of coordinator
w, `wstate[w]` the life of its process. `result[i]` keeps the number of the attempt
that wrote it, `0` for none.

Actions.

| code | action |
|---|---|
| `enqueue` | `Enqueue` (a repeated key changes nothing) |
| `claim` from the timer of `start` | `ClaimNothing`, `Start`: reclaim of lapsed rows, deadline sweep and choice are one transaction |
| heartbeat interval: `assertCurrent`, `renew` | `Heartbeat` |
| handler resolves, `complete` | `Complete`, also when the row was lost meanwhile |
| handler rejects, `fail` | `HandlerFails`; codes are grouped as temporary, unconfirmed and fatal |
| abort wins the race | `AbortSettles`, before anything else of that process (`Quiet`) |
| deadline timer wins the race | `BudgetEnds` |
| `complete` or `fail` throws | `SettleLost`: only the finally block runs |
| `cancel`, `retry`, `limits`, `configurePolicy` | `Cancel`, `Retry`, `SetLimits`, `ConfigurePolicy` |
| `close`, shutdown in `server/index.ts` | `Close`, `Drained`, `Exit` |
| process dies, is started again | `Crash`, `Restart` |

`Heartbeat` is an action without fairness: an event loop that is blocked, or a
process that is suspended, simply does not take it while `Tick` goes on.
`SetLimits` stands for a public operation that only tests call at this commit.

Abstracted: scopes, payloads, fingerprints and actors; the order among startable
rows; phases, whose time budget ends an execution the way a fatal failure does;
trace spans and metrics. `Token` is finite: a claim needs a token no row and no
execution holds, which bounds the number of executions alive at once. The
instances give one token per execution that can matter: the current and a stale one.

Fairness (`FairSpec`): time passes; the 250 ms timer of an up coordinator polls;
a draining process finishes or is killed (hard stop after 30 s,
`server/index.ts:452`) and is started again by its supervisor; the timers of
`processOne` that settle an aborted or overdue execution fire. Handlers, heartbeats
and operators get none.

### SystemDelivery

A publication reaches a site through two SQLite databases that share no transaction.
The content service appends an event to the outbox of the studio database, in the
transaction that publishes (`event` in `server/advancement/content.ts`); the 5 s timer
of every coordinator runs `deliverOne`, which claims an event, applies it to the site
database and acknowledges it. The model has one site and one kind of event, the only
kind the code delivers; event n is publication n.

State. `published` is `publication_sequence`; `status`, `attempts`, `nextAt`, `lease`,
`holder` and `created` are columns of `system_event_outbox`; `inbox` and `applied` are
the rows of `system_event_inbox` and those among them with `applied = 1`; `shown` is the
publication in `project:cms`. `job[c]` says which event the `deliverOne` of coordinator c
holds and how far it is. The name of the coordinator stands for the random token: a
coordinator runs one `deliverOne` at a time and each claim overwrites the token.
`created` only orders the events; publications of the same millisecond have equal ones,
and then the random id decides, so `Claim` may take either.

| code | action |
|---|---|
| `event` of the content service, `enqueueSystemEvent` | `Publish` |
| `claim` | `ClaimNothing`, `Claim`, each with the reclaim of lapsed rows |
| `authorize`, `target`, `assertWritable`, the check of the claim | `Check`, or `Refuse` and `CheckFails` with the catch block |
| transaction on the site database | `Apply` |
| acknowledgement | `Mark`, without effect once the claim lapsed |
| a statement throws; the process dies, or the catch block throws | `Throw`; `Vanish` |
| `pauseProjectWrites`, `backup`, `restore` | `Pause`, `Backup`, `Restore` |

Between any two of these actions is a place where another process, a lapse or a crash may
come in. `Restore` is one step because `restore` holds the exclusive data lease, for
which every coordinator must have let go of the site database; what happens when such a
lease is lost belongs to `ResourceLeases` and `ReleaseActivation`. `attempts` stops at
`MaxAttempts`, as it is only compared with it.

Left out: payloads and fingerprints (an id has one payload), `syncCms` (projects
without any publication), and the serving process, which reads `project:cms` on
request.

### Orders

One product, of which every order takes one piece; the site database, the processes
that serve it, and the provider of payments.

State. `row` is `platform_orders` (`bound` says whether the order has a provider, `seq`
is `provider_sequence` plus one), `command` the status of `platform_payment_commands`,
`seen` the rows of `platform_payment_events`, `ledger` the sums of the financial entries.
`held`, `mark`, `retained` and `lost` are what the restore report keeps; `backup` is the
site database a restore will put back. `call[p]` is the request process p serves and
what it has read for it. `charge`, `reports`, `sent` and `executed` are the provider, modelled from
how the code uses it.

| code | action |
|---|---|
| `createOrder`, `cancelOrder` | `CreateOrder`, `CancelOrder`, one transaction each |
| `checkout` | `CheckoutRead`, `CheckoutWrite`: two processes may come between the read and the update |
| `applyPaymentEvent` from the webhook | `Webhook` |
| `refundOrder` | `RefundRead`, `RefundAdmit` or `RefundAgain`, `RefundDone` after the answer |
| `reconcile` | `ReconcileAsk`, `Answers` (the provider), `Bind`, `ReconcileApply`, `Confirm` |
| a request that dies anywhere | `CallDies` |
| `compareOperationalData`, `persistReconciliation` | `Backup`, `Restore` |
| provider | `Opens`, `Settles`, `Executes`, `RefundsByItself`, `Answers` |

A repeated report, an older one, one with a status the code refuses and one below the
watermark of a restore each take their own branch of `Apply`.

### Bookings

One resource with its slots, each on a day of its own and ahead of now.

State. `resource`, `rule`, `capacity`, `holiday` and `booking` are rows; `entry[s][g]` is a
row of the waiting list, `lapsed` while it still says offered but its ten minutes are
over, `accepted` also standing for the booking that came of it. `review` is a reviewed
change with the snapshot it was made on; `draft[p]` what process p has checked outside a
transaction and is about to write.

| code | action |
|---|---|
| `createBooking`, `cancelBooking` | `CreateBooking`, `CancelBooking` |
| `join`, `accept`, `cancel` | `Join`, `Accept`, `Leave` |
| expiry of an offer, the offer job | `Lapse`, `Offer` |
| `previewChange`, `applyChange` | `Preview`, `ApplyChange`; `Discard` when it is never applied |
| `saveSlot`, `materialize`, `saveRule`, `saveResource`, `saveHoliday` | a `Check` and a `Write` each |

The offer job is enqueued by an operator (`server/expansion/service.ts:343`), so nothing
promises that a waiting guest is ever asked: there is no liveness property to state.

### ReleaseActivation

Two coordinators of the studio over its database, the site database of one environment
and the lease of `ResourceLeases`; every write to either database is a step.

`OwnKey` says which kind of environment it is. An environment with a data key of its own
keeps its active release under `environment:release:<key>`. The default one
(`expansion/organizations.ts:58`) has the id of the project for its key and keeps it in
`project_runtime`, which makes two differences. `siteFile`, whenever it finds the active release not
ready, takes the newest ready export of the whole project for it
(`operationsService.ts:102`), whatever became of the promotion that made it and whichever environment
it was made for (`FallsBack`). And where the code puts back "no release" it writes a
null to `environment:release:<project>`, which `activeRelease` (line 73) does not read in this
environment: the active release stays (`PutBack`).

State. `job` (with the export of the same id), `older` (which exports are older: the order of
`created_at`), `promotion`, `previous`, `serving` are in the studio database, `generation`
is the holder of the exclusive lease (`dead`, a process that crashed and whose lease has not
run out; `elsewhere`, an operation for another environment of the project, which takes the same
lease), `active` and `paused` are in the site database.
`op[c]` is the operation coordinator c has in hand, with the statement it is at; `mail` the
`before-data-snapshot` messages on their way from a worker; `foreign` the releases other
environments have in hand. The other variables
only remember: `served` (a ready release has served), `overrun` (an operation outlived its
lease), `torn` (a release the studio still serves was taken for replaced), `stacked` (a
promotion was made over one that was not over), `late` (a message was handled after its run
had ended), `stray` (releases a fallback, or a null nobody reads, has left serving), `borrowed` (a
fallback took an export that was still in the hands of an operation).

| code | actions |
|---|---|
| `run` | `GenerateStart`, `WorkerPauses`, `Lifecycle`, `Finish`, `Activate`, `Switch` |
| its catch block | `GenerateFails`, `RestoreSite`, `RestoreStudio` |
| `withScopeFreeze` | `FreezeStart`, `FreezeFails`, `FreezeOpen`, `Thaw` |
| `promoteRelease` | `PromoteStart`, `PromotePrepare`, `PromoteProbe`, `PromoteSite`, `PromoteStudio`, `PromoteExport`, `PromoteRecord`, `PromoteDone`; `PromoteFails`, `UndoSite`, `UndoStudio`, `UndoFails`, `PromoteCaught`, `RollbackWork`, `RollbackDone`, `PromoteFailed` |
| `recoverInterrupted`, `recoverPromotions` | `RecoverJob`, `RecoverPromotion` |
| `reconcilePromotion` | `ReconcileStart`, `ReconcileSite`, `ReconcileStudio`, `ReconcileRecord`, `ReconcileDone`, `WorkFails` |
| `siteFile` of any request | `Open`; of an operation, inside `FreezeOpen`, `PromoteProbe` and `PromoteDone` |
| `run` and `promoteRelease` with another data key | `ElsewhereStart`, `ElsewhereExport`, `ElsewhereReleases`, `ElsewhereEnds`, `ElsewhereFails` |
| lease runs out, process dies, the lease of a dead one runs out | `Lapse`, `Crash`, `Expire` |

Abstracted: shared leases of running sites (a freeze that finds the data in use is
`FreezeFails`), renewal, the stages of the generator, restart and stop of sites. Each
release is generated or promoted once, no two exports have the same `created_at`, and an export
of another environment may also fail after it was ready, or become ready late, whoever has the
lease by then. From opening the site database to closing it, `siteFile` has no await and is
one step here: a statement of another process between its reads and its writes is left out. So is
its adoption of the data file of an older kind of export (lines 88 to 95), which happens before
the site database exists.

### ProjectSync

The editor of one device in one tab, its IndexedDB, and the studio. A document is its
revision, one field (`page`), one record of a collection (`item`) and who stamped its time.
What the editor and the others write are numbers of their own, so that every property
can tell whose work it is.

State. `server`, `raw`, `receipts` are the studio's (`raw` is the record as it was last saved
with the document: the content service edits the record on the side, under the same
revision); `late` holds requests whose sender is gone. `localDoc`, `storedBase`, `journal`
are the three stores of IndexedDB. `present`, `base`, `conflict`, `ready`, `dirty` are state and
refs of `useStudio`; `waiting`, `job` and `answer` are the head of `remoteSyncQueue`, the
synchronisation under way and its answer. Five variables only remember: `shown` (what the user
has had before his eyes), `drifted` (records that became a base without being shown),
`dropped` (pages he gave up: overwritten, decided against in a review, or on the screen when
the tab was closed and not the document on the device), `behind` (pages written under a
revision below a base or not above a snapshot under way) and `served` (every document the
studio has had).

| code | action |
|---|---|
| `/commands`, `PUT /api/projects`: `saveCommand`, `writeProject`, `reconcileContentWrite` | `ServeRequest`, `ServeLate` |
| other editors: `save`, the content service | `OtherSaves`, `OtherEditsItem` |
| `apply`, `undo`, `redo` | `Edit` |
| automatic save, `retrySave` | `Autosave`, `RetrySave` |
| `offline`, `online` | `GoOffline`, `GoOnline` |
| `syncProject`, between its awaits | `SyncStart`, `SyncSend`, `SyncConfirmed`, `SyncRebases`, `SyncStores`, `SyncAdopts`; `SyncRefused` on 409, `SyncFails` otherwise |
| `reviewSync`, `applySync`, `mergeProjects` | `ReviewAgain`, `ReviewApply` |
| closing, and the effect that opens the library | `Close`, `Load`, `Resume`, `ResumeFails`, `OpenOnline`, `OpenOffline` |

The confirmation of a command and the superseding of the older ones are one step, and so
are the statements of `Resume` for one command: a crash between them leaves a command
that is asked about once more, and the answer is the same. `dirty` is the effect that starts
the timer of the automatic save: it runs again whenever the document or `ready` changes.

The automatic saves are chained on each other (`autosave.current`) and on nothing else, so one
of them may store its document while a synchronisation begun by `retrySave` or by the listener of
the connection is under way, and the other way round; `by` says who began one. A request can
fail while the browser calls itself online, also at the opening (`ResumeFails`,
`OpenOffline`). Undo and redo bring back any page, and any state of the record, that the user has
had before his eyes; a record of his own making is left out, as one number for each page he types
is enough to tell whose work is whose. `remoteSyncQueue` holds one snapshot besides the
synchronisation under way: the code has no such limit, but every snapshot behind the first finds
the base its predecessor left, as the one that waits does.

## Runs

| run | instance | shows |
|---|---|---|
| `queue_safety` | 2 coordinators, 2 items (one manual), 2 tokens, 1 close or crash; lease 1 tick, deadline 2, back-off 1 | types, row rules, fencing, claim limits under every interleaving |
| `queue_capacity` | 1 coordinator with 1 slot, 3 items, waiting limit 1, deadline 3 | running rows, backlog and attempts stay bounded |
| `queue_liveness` | 1 coordinator, 2 items, 1 close or crash, `FairSpec` | every queued item ends |
| `queue_drain` | 1 coordinator, 2 items | fails: `close()` resolves with an execution alive |
| `queue_schedule` | start due in 3 ticks, deadline in 2 | fails: the item is failed before it is due |
| `delivery` | 2 coordinators, 2 publications, 2 attempts, 1 fault, 1 restore; claim and delay 1 tick; `FairSpec` | the register is implemented, nothing is marked delivered that did not arrive, every publication ends |
| `delivery_restore` | 1 coordinator, 2 publications, 1 restore | fails: a delivered publication is gone after a restore |
| `orders` | 1 order of amount 2, 1 process, 2 refund commands, 3 reports, 2 restores | stock, ledger and order agree with the provider, one refund at a time, the hold after a restore |
| `bookings` | 1 slot, 2 waiting guests, 1 direct booking, 1 process, up to 2 seats | no overbooking, waiting guests can be served, promised slots take place |
| `releases` | the default environment: 2 coordinators, 2 releases, 2 crashes or lost leases | records of promotions are true, a ready release keeps serving, the pause covers the snapshot and ends |
| `release_retained` | an environment with its own key: 2 coordinators, 2 releases, no fault | fails: a failed promotion stays the active release of the studio |
| `project_sync` | 2 edits, 1 save and 1 record edit of others, 2 commands, 1 fault (closing, lost message, disconnection, or a repeated save) | what is typed is kept and gets to the device, the work of others is replaced only by who has seen it |

Bounds. A lease of one tick is enough for every order of expiry, renewal, claim and
late settlement, since all of them can happen on both sides of a tick. Two attempts
for the retryable item and one for the manual one reach both sides of
`attempts >= max_attempts`; the deadline of three ticks in `queue_capacity` leaves time for
both of them to lapse. Two coordinators are the least that can fence each other;
the third item of `queue_capacity` keeps the slot contended while one lapses and one
waits. `MaxStops` bounds closes and crashes together.

In `delivery` two publications are the least that can arrive in the wrong order, and two
coordinators the least that can hold them at the same time; each may lapse on either
side of each of its steps. One fault reaches every point of `deliverOne`, and two
attempts both sides of `attempts >= 10`. The fairness: time passes, the timer polls,
and `deliverOne` goes on once it has begun. Publishing, pausing and its end, backups,
restores and faults get none. `EventuallySettled` has an explicit way out, `[]<>Overrun`:
`claim` gives a lapsed row back without a look at its attempts, so deliveries that outlive
their claim again and again can take an event from each other for ever. Without overruns
ten attempts end it, also while the site stays paused; such a publication is then `failed`
for good, since nothing queues it again.

In `orders` one process is enough for two of them to meet: creating, cancelling and
webhooks are steps of no process, so they already come between the read and the write of
the one that is followed. Amount 2 makes a partial refund possible, the third report one
after it; with two restores a hold may be overtaken by a second one. In `bookings` two
guests compete for seats while a third books directly; a second process multiplies the
states beyond the budget of a run and would only add a race of `saveHoliday` with
`saveSlot`, which `raced` excepts anyway (with one process it comes of `saveResource`). In
`releases` two coordinators are the least that can overtake each other and two releases
the least where one is to be kept; a release id is never used twice, and neither an id nor
a coordinator has a special part, hence the symmetry. The second fault lets a promotion that was
undone and never recorded be followed by another one that stops half-way, which is what it
takes for `siteFile` to fall back to a release recorded as failed. The constraint `Promised` ends
an execution where an operation has outlived its lease: `overrun` stays, and every property but
the type invariant and `WritesResume` has it for a condition, while the latter asks for no fault. During the work the
properties were also checked with a key of its own (two releases, one fault, 3.3 million
states), with three releases and one fault (13 million) and without the constraint (5.8
million); the proofs are of both kinds of environment. In `project_sync` the second edit is
made while the first is under way, and one fault reaches every statement of a
synchronisation; the journal holds two commands, so an older one can be superseded. The
timer of the automatic save and the promise queue of `useStudio` are fair, and a request is
answered or given up (`api.ts:35`, `api.ts:107`); the user, the other editors and the faults are
not. `StoredInTheEnd` lets go of runs that end with a full journal, a bound of the model.
Deadlock is not checked in these runs: all four systems may stop, when no guest, visitor,
editor or operator does anything and the bounds are used up.

### What the properties except

`orders`: a checkout writes `checkout_pending` over a status it has read before
(`business.ts:75`); if another process closed or settled the order in between, the
inventory and the report are off. `clobbered` names such orders. A second restore
replaces the report of the first (`persistReconciliation`, `reconciliation.ts:28`), and the
hold of an order not yet reconciled with it, although `docs/expansion-backend.md:91` wants
unresolved orders held; `forgotten` names them. `CancelledIsUnpaid` ends with the first
restore, as `cancelOrder` does not ask for the hold. What holds of a refund command is
that there is one at a time. That a `verified` one was executed does not hold: any newer
report of a refund, also one made at the provider by hand, verifies it; and a refund
the provider declines stays pending and blocks the next ones.

`bookings`: `saveResource` (a new name) writes the capacity it read before, and may undo a
reviewed change written meanwhile; `raced` says so. `saveSlot` and `materialize` read the
capacity of the resource outside their transaction, so a slot may be larger than its
resource; no property says otherwise. A guest whose offer has expired gets his old entry back
from `join` and cannot wait again.

`releases`: `late` is the message of a worker that arrives when its run has already
failed: `generateInWorker` (`workerClient.ts:53`) keeps its listener, the handler pauses the
site again and only the next opening lifts it. A first generation that fails after
`activate` leaves its failed release in the studio, as there is none to go back to; hence
`served`. A promotion made over an unresolved one keeps that one as the release to go back
to (`TakenUp`). The code only refuses it for the same request key
(`operationsService.ts:156`); with a new key two promotions can be stacked, and `stacked`
names such runs: if both crash, the reconciliation of the upper one finds that the one before
it was never ready, and leaves no release serving although an older one is ready. That takes
three releases and two crashes, more than the run has; the proof of `LastGoodServes` asked
for the exception.

Two more are of the default environment only; with its own key both properties hold without
them. `stray`: `siteFile` falls back to the newest ready export without a look at its
promotion, so the following can happen. A promotion q has made its export ready, its last
statement throws, it is undone and its process dies; reconciliation finds the release before
it active and records q as failed, but the export stays ready and is the newest. Now another
promotion has the studio's pointer on its own unready release, and an opening comes in, or it
dies there: `siteFile` makes q the active release, recorded as failed. The same fallback can take a
release of another environment. `PromotionsAreTrue` says that a failed release serves in no
other way than this, or by a null that nobody reads. `borrowed`: the export the fallback takes may still
be in the hands of an operation, here or for another environment, that makes it failed afterwards;
`LastGoodServes` ends there, until then, and after every other fallback, a ready release serves.
In the same way a promotion that succeeds may not serve in the end: if another process opens the
database after `PromoteStudio` and before `PromoteExport`, the fallback has replaced it, and its
record is ready all the same. No property says that a promotion recorded as ready serves.

`project_sync`: another editor's edit of a record keeps the revision of the document. If the
record becomes the base without ever being shown (`SyncAdopts` when the user has typed on,
`OpenOnline` with an own document of the same revision, or a crash behind `rememberSyncBase`
and then an opening without the server, which takes the stored base), the next command carries the old
record as a change of its own. The server takes it: `normalizeProjectWrite` numbers it as the
next content revision, so the test for `CONTENT_CONFLICT` (`content.ts:2028`) cannot see that it
is old, although the comment at `content.ts:1943` says that unchanged fields cannot overwrite
concurrent record edits. `drifted` names these records, and the whole document sent by PUT
carries its record along in the same way. `TypedKept` ends where the user gives a page up:
overwrites it, decides against it in a review, or closes the tab before it was stored, of
which the browser warns. It also ends for pages written `behind`, and the proof asked for
that: the editor tells the later of two documents by the revision alone, and there are three
ways to type under a revision that is not new. (a) The editor is opened online,
`rememberSyncBase` stores the server's newer document as base, and the tab is closed before
the device has it too; opened again without the server, it shows the older document, and
what is typed there, saved or not, has a revision below the base. At the next opening with the
server that document equals the base, so there is no conflict, and the higher revision wins
in `merged`: the offline edits disappear from the screen and from the stored document. (b) The
same happens when the server takes a command late whose snapshot is newer than the document
on the device. (c) `queueCommand` gives back an existing command for the same changes, and the
server answers it with the revision its older snapshot asked for (`projectCommands.ts:64`), which
takes the revision of the editor back; a page typed next can be taken for the one sent before
and replaced. TLC finds them in larger instances ((a) needs two saves of others and three
faults), the run has one of each; the theorem covers any number. `StoredInTheEnd` leaves one state out: what is typed while the
canonical document is being stored (`useStudio.ts:248`) carries the revision of the document
just stored when the server has moved it by one, so the automatic save refuses it as changed
in another tab (`library.ts:99`) and does not try again before the next edit. Seen on the way:
an editor opened without the server stays unready, and what is typed there is sent only on
retry, on `online` or after reloading; an answer that is lost makes the next edit a conflict
with the user's own change; a crash between `rememberSyncBase` and `persistProject` does the
same.

### What the failing runs show

`queue_drain`: the map of controllers is keyed by item id. If the lease of an item
runs out without renewal and the same coordinator claims it again, the second
`running.set` replaces the first execution's controller. `close()` then aborts only the
second execution, whose finally block empties the map, and the wait of `close()` ends
while the first handler goes on, against stores that are about to be closed. Its late
result is still fenced (`ResultOfLatestAttempt` holds in `queue_safety`).

`queue_schedule`: scheduled publications are enqueued with `notBefore` and without a
deadline, and `enqueue` sets the deadline to now plus `maxDurationMs`, ten minutes by
default. The sweep in `claim` fails waiting rows past their deadline whether or not they
are due. A publication scheduled further ahead is never attempted, and since `retry`
leaves the deadline alone, retrying it fails again.

`delivery_restore`: `restore` puts back the site database as it was, with the inbox and
`project:cms`. It reconciles orders, payments and bookings with what it replaced, but
the outbox of the studio database still calls the later publications delivered, and
`claim` never looks at such rows again. The site shows the older content until somebody
publishes anew; the next publication carries everything.

`release_retained` (an environment with a data key of its own): a promotion fails after both databases name the new release. Its catch
block restores the site database and then the studio's; if the second write throws, the
outer catch starts a rollback, which finds the site on the old release and returns, and
the promotion is recorded as failed, "existing data and release retained". The studio
keeps the failed release as the active one of the environment; reconciliation looks at the
site's pointer as well and refuses records that are failed.

## Proofs

`WorkQueueProofs` proves, for any number of items, organizations, coordinators and
tokens and any limits, from the three assumptions in `WorkQueue` (constants are sets
and functions of the right kind; limits and times are natural numbers, caps positive):

 * `InvHolds`: `Spec => []Inv`, where `Inv` is `TypeOK` and `RowInv`;
 * `TypeCorrect`, `AttemptsCorrect`, `ManualCorrect`, `CancelCorrect`: the checked
   invariants of the same names.

None of the row properties is inductive by itself. That a manual item is held depends
on waiting rows having no attempts, which depends on retry resetting the counter and on
absent rows having none; that a retried row carries no token depends on only running
rows having one. `RowInv` is the conjunction of these facts about one row. The proof
has one lemma per action; `OneRow` reduces each to the row the action touches, and
`SweepFacts` says what the reclaim and the deadline sweep of `claim` make of a row.

`WorkQueueGuarantees` builds on `Inv`:

 * fencing, `FenceHolds`, `ResultsCorrect`, `SingleExecution`. Neither property is
   inductive: that a late `complete` cannot write needs the token it holds to be off
   the table or on the row of its own, latest attempt. `TokenInv` says so: no two
   executions share a token, and an execution whose token a row carries is one of that
   row and of its counted attempt. `NothingNew` and `OnlyAborts` settle every step that
   gives out no token; `FenceStart`, `FenceComplete` and `FenceFail` are the others.
 * limits, `RunningCorrect`, `ClaimsCorrect`, `BacklogCorrect`. `StepShape` sorts the
   steps into calm ones (nothing starts, nothing is admitted), a start and an
   admission. Claim counts only rows with a lease left; `SweptRunningLives` shows that
   after its own sweep those are all the running rows, which is why the bounds count
   rows of dead workers too. `BacklogCorrect` needs `RunningBounded` of the next state.

`SystemDeliveryProofs` proves, for any number of publications, coordinators, attempts,
faults and restores, from `DeliveryAssumption`:

 * `DeliveryTypeCorrect`, `DeliveredCorrect`: the checked invariants;
 * `DeliveryImplementsRegister`: `Spec => RegisterSpec`, with the backup's content as the
   register's `saved`.

The inductive invariant `DeliveryInv` adds what ties the two databases together: a job
past the site's commit has its event in the inbox (so a late acknowledgement marks
nothing that did not arrive), the newest publication applied is the one shown (so the
comparison with the inbox is a comparison with the site), neither the site nor its
backup holds anything that was not published, and a row exists exactly for what was.
A restore breaks the first part for the jobs it overtakes, which is why that part, like
`DeliveredIsShown`, ends with the first restore, while the register goes on through it.
`InvJob` and `InvRow` settle the steps that only move a job or rewrite the row of one;
`ApplyFacts` says what the transaction on the site does, for the invariant and for the
refinement.

`OrdersProofs` proves every invariant of the `orders` run for any number of orders,
processes, commands, reports and restores, any stock and any amount, from
`OrdersAssumption` (finitely many orders; natural numbers, the amount positive):
`OrdersTypeCorrect`, `OrdersConserveInventory`, `OrdersLedger`, `OrdersReported`,
`OrdersSingleOutstanding`, `OrdersHeldUntilCaughtUp`, `OrdersCancelledUnpaid`. All but the
first follow from `OrdersInvariant`. What the run checks says nothing of three places a
later step takes its state from, so `Inv` adds them:

 * the backup. `DbInv`, `CommandInv` and `StockInv` take a database as parameter and hold
   of the current one and of the backup, so that a restore exchanges one for the other;
 * the request in flight. An order it has read is still there, its answer is a report the
   provider sent, and a reconciliation that is about to confirm has brought the row to all
   that is known (`RequestInv`);
 * the mark of the restore. What was known of an order is in its row or not above its mark
   (`HoldInv`), which is why a report at or above the mark makes up for what was lost, and
   why a second restore, which moves the mark, needs `forgotten`.

That no refund is outstanding twice rests on commands being sent before they have a
status, also in the backup; that a cancelled order is unpaid rests on the provider having
been asked only for orders that are bound (`UnpaidInv`). There is one lemma per part and
step (`DbApply`, `HoldConfirm`, `StockMoves`, ...); `Still` collects the steps that leave
the orders alone, and `ApplyFacts` says what a report that is applied does.

`ReleaseProofs` proves every property of the passing run of releases for any number of
coordinators, releases, crashes and lost leases, and for both kinds of environment (`OwnKey` is
any BOOLEAN), from `ReleaseAssumption`:
`ReleasesTypeCorrect`, `ReleasesPromotionsTrue`, `ReleasesLastGood`, `ReleasesSnapshotFrozen`,
`ReleasesWritesResume`, all from `ReleasesInvariant`. Two databases without a common
transaction agree only by way of the operation that is writing them, so the invariant says of
every operation, statement by statement, what it has in hand:

 * the lease and the pause. `LeaseInv`: while none was lost, whoever needs the lease has it;
   `FrozenInv`: a generation with its lease keeps its snapshot paused; `PauseInv`: a pause has an
   operation, or a message, that is going to end it. `SnapshotFrozen` and `WritesResume` follow;
 * who made what. `FreshInv`: nothing names a release without a job; `OpInv`: where an operation
   stands tells what became of its release; `OwnInv`, `UniqueInv`: one operation per release, while
   no lease is outlived; `PrevInv`: only a promotion has a release to go back to; `ForeignInv`: nobody
   here has a release of another environment in hand, or serves one that was not borrowed;
 * what the records say. `RecInv`: ready means exported, and what a reconciliation puts back is
   its own release, the one before, or none; `FailedInv`: a release recorded as failed
   does not serve, nor will any operation put it back, unless it is `stray` or taken up.
   `PromotionsAreTrue` follows;
 * what serves. `StackInv`: promotions come one at a time; `HealInv`: work under a freeze finds
   the site at what the studio serves; `ServeInv`: what serves, and what is put back, is a ready
   release or an unresolved one over a ready one, and no operation that could still fail its
   release has had it taken by a fallback. `LastGoodServes` follows. `KeyInv`: with its own key
   an environment has neither `stray` nor `borrowed`, so the two theorems have no such exception there.

Each part has a "move", an action that sums up what a step may do to the variables of that
part; the steps are shown to be such moves, and the part to survive them.

`FiniteSums` is about `SumFunctionOnSet` of the community modules: that a sum is a number, what
one changed summand does to it, sums of unions and of subsets. The sum is a fold, a CHOOSE of a
table, and that there is such a table needs induction. The induction theorems of the library
take an operator and cannot be used, but their consequence "a set of subsets of a finite set
has a minimal member" is first-order (`Minimal`, `LeastNumber`), so each of these facts is
proved by a minimal counterexample.

`BookingsProofs` proves every property of the `bookings` run for any number of slots, guests,
bookings, processes and seats, from `BookingsAssumption` (finitely many of each, one seat at least):
`BookingsTypeCorrect`, `BookingsNoOverbooking`, `BookingsWaitersFit`, `BookingsPromisesKept`.
Three things are added to them. `SeatsInv` says `NoOverbooking` of all slots, also of those that
do not exist, so that one that is made begins with all its seats free.
`ReviewInv` says that a review that is kept has no conflict with the snapshot it was made on;
`applyChange` compares that snapshot with the state it writes to, and does not look at
conflicts again. And the sums: `CreateBooking`, `Accept` and `Lapse` change one summand, the
offer job adds a set of guests whose seats fit.

`ProjectSyncProofs` proves every property of the `project_sync` run but the liveness one, for
any number of edits, saves of others, edits of records, commands and faults, from
`ProjectSyncAssumption` and `NoneAssumption`: `TypesHold`, `ConfirmedCommandsAreTaken`,
`RevisionsNamePages`, `TypedPagesAreKept`, `NothingUnseenIsOverwritten`. The invariant, checked by
TLC on two instances of up to five million states before it was proved, has eleven parts:

 * types, sharper than `TypeOK`: no record is newer than the last edit of it (`TypeInv`), so
   what is written next differs from all there is;
 * what belongs together in the editor: what an open tab has and a closed one has not
   (`EditorInv`), the job with its command and base (`JobInv`);
 * the way of a command: it makes the page of its snapshot (`CommandInv`), late requests say
   what the journal says (`LateInv`), receipts are of the page of the snapshot and at most one
   revision after it (`ReceiptInv`), a good answer is the receipt (`ConfirmedInv`). Without these
   three nothing could be said of a command that is taken when its sender is gone;
 * what a base is: a document the studio has had (`ServedInv`), shown to the user or about to be
   (`SeenInv`), the record shown or drifted (`ItemInv`). `NothingUnseenIsOverwritten` follows, since the
   studio takes nothing made on another base than its current document;
 * where a typed page is: with the server, given up, `behind`, or in the document of the user
   (`KeptInv`). For that to go on, nothing under way that is not older than this document, no
   base, snapshot, command or canonical document, may be of another page (`KeptFor`).

`StudioMove`, `HistoryMove`, `JournalMove`, `LateMove`, `BaseMove` and `SnapMove` say once what any step
does to one group of variables; most parts are shown from them and not from the actions.

Left to TLC: both `EventuallySettled` and `StoredInTheEnd` (liveness under fairness), and the
failing runs, whose properties are false.

## Plan

Done: the six systems above; every safety property and action property their passing runs
check is proved. In this order:

 1. the register of releases: what `ReleaseActivation` promises the visitors of a site as an
    abstract specification, and the refinement;
 2. `ProjectSync` with a second tab of the device, and the rest of its liveness: an
    edit that has reached the device (`StoredInTheEnd`) is taken by the server or under review;
 3. `Usage`, `WorkRecovery` (evidence and retry of unknown work), `ClaimOrder` (the
    scheduling order against starvation), merge of nested documents as a pure algorithm.

## Not modelled

The components marked `not_modelled` in `PROJECT.json`, each with its reason there. Of the
modelled ones: shared leases, renewal and the leases of artifacts and backups; the
stages of the generator and the integrity of its output; editing of products, usage and
fulfilment of orders; several tabs, withdrawn permission, import and creation of projects,
and a change of account in the editor.
