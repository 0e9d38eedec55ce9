# TLA+ models of the pick-up point service

The repository (`src/hw-1`) is a Go service of a pick-up point: it takes orders
from couriers, hands them out, takes returns, and gives orders nobody fetched
back to the courier. This directory holds its TLA+ specifications, the TLC
configurations that check them and the TLAPS proofs about them.

## 1. Inventory

| Part | State | Operations |
|---|---|---|
| Order storage, `internal/storage/filestorage.go` | none of its own; one transaction per call | `AddOrder`, `GetOrder`, `UpdateOrderStatus`, `DeleteOrder`, `AddReturn`, `IssueOrders`, `AcceptReturns`, three lists |
| Order cache, `internal/cache/order_cache.go` | map of active orders, RWMutex | `LoadInitialData`, `Get`, `Set`, `Delete` |
| Repositories, `internal/repository/postgresql` | tables `orders`, `order_history`, `returns`, `outbox_tasks`, `users` | one SQL statement each; history and returns cascade with their order |
| HTTP and gRPC handlers, `internal/server`, `internal/grpcserver` | none | validate, call the storage, report; the DELETE handlers also read the order and judge it |
| Outbox publisher, `internal/kafka` | batch of fetched tasks, wait group, shutdown signal | `Run`, `processBatch`, `processSingleTask`, `Shutdown` |
| Lifecycle, `cmd/main.go` | errgroup, signal context | loads the cache, starts publisher and two servers, shuts them down |
| Packaging rules, `storage/packager.go` | none | weight limits and price adjustments |
| Users, metrics, logger, consumer | tables, counters, output | authentication, counting, printing |

**How they interact.** A handler runs in a goroutine of its own and calls the
storage. The storage opens a transaction at READ COMMITTED, takes row locks with
`SELECT ... FOR UPDATE` (or the `INSERT` or `DELETE` itself), writes order,
history, return and an audit task, commits in a deferred function, and after the
commit, outside every lock, updates the cache. `GetOrder` reads the cache first
and fills it from the table. The publisher polls the audit tasks written in those
transactions, marks a batch PROCESSING in one transaction, sends task by task
and records each result in an update of its own.

**What is hard.** Requests race for a row, for rows in crosswise order, and for
the cache after their locks are gone. Decisions of the DELETE handlers are made on
a copy. A commit may fail, or succeed without the caller learning of it. The
publisher may die between a send and its record, may be cancelled at any point,
and may share its table with a second one. `PROJECT.json` lists each of these
hazards with its line and the properties that guard it.

**What makes each part correct.**

- Storage: every commit is one legal, atomic change; row, history, returns and
  audit agree; hand-overs keep their time limits; a reported change was made;
  every request is answered.
- Cache: it shows no row that is not in the table, unless a request was overtaken
  between its commit and its write to the cache.
- Publisher: no task is delivered twice, DONE tasks were delivered, attempts are
  bounded, a waiting task is settled, shutdown completes.
- Handlers: the courier gets expired, never handed-out orders only; whoever is
  blamed in an answer is to blame; a refused request has changed nothing; the
  results of a batch and the counters agree with the tables; lists and pages miss
  nothing.
- Packaging: no stored weight is at the limit of its container or beyond; wrapper and
  price fit the enum and the INTEGER column.
- Lifecycle: an accepted request is answered before the process ends, and it ends.

## 2. Modules

| Module | Role |
|---|---|
| `OrderStore` | storage, cache, transactions, the deciding parts of the handlers |
| `OrderLedger` | what the storage promises: a ledger with atomic steps, no transactions, locks or cache |
| `OrderRaces` | `OrderStore` observed: where requests are overtaken while they hold no lock |
| `OrderStoreProofs`, `OrderLedgerProofs`, `OrderAuditProofs`, `OrderRacesProofs` | theorems about `OrderStore`: its invariants, that it implements `OrderLedger`, what holds of its audit log, and that cache, courier and answers err by races only |
| `OutboxPublisher` | outbox tasks, publishers, cancellation, shutdown, crash, restart |
| `Delivery` | what the outbox promises: a task is delivered once or lost for good |
| `OutboxPublisherProofs`, `OutboxDeliveryProofs` | theorems about `OutboxPublisher`, and that it implements `Delivery` |
| `Lifecycle` | errgroup, two servers, their stoppers, publisher, requests in flight, exit |
| `LifecycleProofs` | theorems about `Lifecycle` |
| `Packaging` | packagers and their decorator, as operators |
| `StorageCalls` | each call of the storage as the set of its outcomes; the lists; uses `Packaging` |
| `Frontend` | every HTTP and gRPC handler over `StorageCalls`; counters, a client that pages |
| `FrontendProofs` | theorems about `Frontend` and the calls it makes |
| `MCOrderStore`, `MCOrderRaces`, `MCOutboxPublisher`, `MCLifecycle`, `MCFrontend` | values of the constants for TLC |

### OrderStore

State: `orders`, `history`, `returns`, `audit` are the committed tables, keyed by
order; `lock` the row locks; `cache` the map of `OrderCache`; per client, `pc` is
the call it makes next, `tx` the variables of its request and `writes` what its
open transaction has done. `now` is the clock. `served` bounds a run and
`answered` counts, per order, the changes callers were told are done.

A step is one call that can block, fail or be seen by others: a first statement
under the row lock (`InsertOrder`, `ChangeStatus`, `DeleteRow`, `ReturnOrder`,
`BulkItem`), the inserts that follow (`Record`), the commit (`Commit`,
`CommitFails`, `CommitAckLost`), each call of the cache (`CacheHit`, `CacheMiss`,
`FillCache`, `UpdateCache`) and the read of the table (`GetByID`). Statements
after the first one of a transaction touch only rows it has locked or inserts;
no other client can see them before the commit, so they are one step.
`MayIssue`, `MayReturn`, `Returnable` and `SameStatus` are the conditions of the
code, in its terms. HTTP and gRPC differ only in wording here and are one `Start`.

Data that no condition reads is left out: price, weight, wrapper, creation
time, and every field of the audit payload but action and statuses. `AuditOf`
keeps what `createAuditPayload` really does: it looks for key `status`, which only
`AddOrder` passes, so the new status of every other task is empty.

Postgres is external and modelled from how it is used: row locks to the end of
the transaction, `SELECT ... FOR UPDATE` and `DELETE` that see no uncommitted
insert and wait for nobody on a missing row, a duplicate `INSERT` that waits for the
transaction holding the id, cascades, and an aborted victim in a lock cycle.

### OrderRaces

Three things go wrong between requests, and the runs `stale_cache`, `courier_race` and
`lost_commit` show them: a cache update arrives late, a DELETE acts on what it read
before, the error of a commit is lost. `OrderRaces` says that nothing else does. It adds
history variables to `OrderStore` and changes none of its steps:

- `overtaken[c]`: orders whose committed row changed while `c` went by the row that it
  had read or committed (`Relies`: it is about to write the cache, or to delete), or that
  `c` took from the cache when the cache was out of date.
- `stale`: orders whose row in the cache was written by an overtaken request, or whose
  commit lost its acknowledgement; the next write that is not overtaken, and a restart,
  take it away.
- `unkept`: per order, how often the error of a failed commit was lost.

`CacheErrsOnlyByRace` says that the cache differs from the table only for these reasons,
`CourierErrsOnlyByRace` that an order is taken against the rule only by an
overtaken DELETE or one that read an outdated row, `AnswersErrOnlyByCommit` that callers
are told of no more changes than the outbox has, but one for each lost error, and none
by a bulk operation.

### OutboxPublisher

State: per task its columns `status` and `attempts`, the row lock, how often the
broker got it (`sent`) and `behind`, a record of who waited when it failed last;
per publisher `pc`, its fetched `batch` with the attempts as they were read, how
many rows its transaction has updated, whether its context is done, the wait group
`wg`, and whether its shutdown timed out. Tasks are numbers in the order of
their `updated_at`: nothing in the schema changes that column after the insert. Tasks
may be inserted in any order, as transactions commit in any order.

`Fetch`, `Mark`, `CommitMarks`, `MarkFails` are `processBatch` up to its commit,
`LookAtContext` the `select` at the head of its loop, `SendMessage`, `SendFails`,
`RecordDone`, `RecordFailed`, `RecordFails` are `processSingleTask`. `Cancel`,
`BeginShutdown`, `EndShutdown` follow a signal through `Run` and `Shutdown`,
`Crash` and `Restart` are the process. The publisher calls its producer through the interface
`Producer`, whose sends may fail (fault `"send"`): a send that returns an error has
delivered nothing. The console producer in use fails only when the context is done, so
with it alone the retries, and the scenario of `retry_order`, need another producer.

`Fate` maps a task to `Delivery`: pending while it may be fetched or a publisher
still carries it towards a send, delivered once the broker has it, lost when it
is in PROCESSING and nobody carries it any more.

### Lifecycle

State: where each goroutine of the errgroup is (`publisher`, `grpc`, `http`), the
group's context, whether `http.Server.Shutdown` was called, and what became of
each request. `waited` and `age` count ticks of the publisher's 30 second wait and
of the serving of an HTTP request; a tick passes only when no goroutine can run.
`SpawnStopper`, `Run` and `ListenAndServe` are the steps of the HTTP goroutine between
which a signal, or a gRPC port in use, may come; `Shutdown` before `Run` has assigned
`s.server` panics. The stopper of `main` and `handleShutdown` make the same call, the
second of them without effect, and are one action. `GracefulStop` waits for its
RPCs; nobody waits for the HTTP ones.

`MaxServe` stands for the 10 seconds of `WriteTimeout`, which is not a limit of the
handler but of its answer: a request whose handler runs longer is counted as
answered, since the server has nothing more to write for it.

### Packaging, StorageCalls, Frontend

`OrderStore` shows that every call is one atomic change of the tables, so here a
call is one step: `StorageCalls` gives, for the tables as they are, the set of its
outcomes (tables, error, failure met, rows or results). `Frontend` picks a request,
runs the handler's checks in their order and translates an outcome into a
code. The answer is taken (`Receive`) before the next request.

`db` holds the columns that a handler, a list or a limit looks at, including price,
weight, wrapper and creation time; history, audit and cache are in `OrderStore`.
`done` records what gRPC requests have really changed, `reader` a client that asks
for page after page, `faults` the kinds of failure so far: a failing statement
(`"statement"`), one in the middle of a batch (`"item"`), a failing commit of one
order or of a batch (`"commit"`, `"batch"`), a batch commit whose acknowledgement
is lost (`"ack"`). The error of a failed commit is lost in all
six writing calls; the bulk ones clear `Success` of results that share their array
with the returned slice, so there the caller does learn it.

HTTP and gRPC differ, and the model with them: HTTP answers 500 for a PUT to an
unknown order and 404 for a GET that fails at the database, refuses a page or limit
that gRPC replaces by a default, keeps only the last result of an id listed twice, and
counts nothing. No storage error contains "already exists", so `AlreadyExists` is
never sent. Which users `ValidateUser` lets through is part of the request.

`Packaging` compares weights as the code does, by asking whether a weight is at least the
limit (`AtLeast`). A `float32` may be `NaN`, of which that is false: over gRPC, whose
encoding has NaN (JSON has not), such an order is accepted for any container, and column
`REAL` stores it. `StoredOrdersAreSound` therefore says that no stored weight is at or
beyond the limit, and leaves NaN out by name. A price outside `INTEGER` on either side is
refused by the table.

An argument that is empty or not there is `Missing`; Go's `nil` error is `"nil"`. Nobody
checks that the recipient of a new order is there, so a row may have `Missing` for one
(`OrderRow`); and PUT writes any status it gets, so a row's status is one that the storage
knows or one that some request brings (`Statuses`). The loop over the ids of a bulk request
is a function of the number of items done (`Process`).

## 3. Runs

| Run | Question | Bounds |
|---|---|---|
| `store_races` | Do cache, courier and answers go wrong in no other way than by an overtaken request, a lost acknowledgement or a lost error, whatever fails? | 2 clients, 1 order, 4 requests of 9 kinds, clock 0..2, all faults |
| `store_concurrent` | Do row, history, returns and audit agree, and are hand-overs in time, whatever two clients do? | 2 clients, 1 order, 2 users, 5 requests of 8 kinds, clock 0..2, failed statements, lost acknowledgements, restarts |
| `store_bulk` | Is each commit one atomic ledger step, and is every request answered in spite of lock cycles? | 2 clients, 2 orders locked in both orders, 4 requests of 7 kinds, failed statements and commits |
| `outbox_faults` | Is a task delivered once or lost for good with one publisher, whatever fails when? | 3 tasks, batches of 2, 2 attempts, all faults |
| `outbox_pair` | What is left of that with two publishers on one table, and does every waiting task come to an end, also one behind a full batch of failing ones? | 2 tasks, batches of 1, 2 attempts, failing sends, crashes |
| `frontend` | Do answers, results, counters, lists and pages agree with the tables? | 35 requests of both doors, 2 orders, 2 users, 5 changes, 1 failure at any call, clock 0..1, an `int` of 4 bits |
| `lifecycle` | Is every accepted request answered, and does the process end? | 2 HTTP requests, 2 RPCs, serving up to 2 ticks, a wait of 6 |

Five runs show where the code does not do what it, its comments or its tests
say; each checks that one property, and TLC's shortest counterexample is the
scenario:

| Run | What happens |
|---|---|
| `stale_cache` | create commits, PUT commits and updates the cache, create updates the cache: the old row stays |
| `courier_race` | DELETE reads a received, expired order; the order is issued; DELETE removes it |
| `lost_commit` | the commit of `AddOrder` fails; the caller gets 201 |
| `retry_order` | no trigger moves `updated_at`: a failed task is retried before the one that waited |
| `publisher_shutdown` | `Run` waits for itself in `Shutdown` and times out |

**Why the bounds are enough.** An order's whole life (created, issued, returned,
deleted, created again) takes five requests; a race needs two clients and one
row; a lock cycle needs two of each. A clock of three ticks with a window and
storage time of one or two puts each instant before, at and after each limit. A
batch smaller than the backlog and two attempts make a task wait, be retried and
give up: three tasks and batches of two in `outbox_faults`, two tasks and batches of one in
`outbox_pair`, where the second publisher multiplies the states. Two orders make the first page of the returns full, a second one not, and a
tie of their times; an `int` of 4 bits wraps within the pages asked for; five
changes are the life of one order with one more of the other. Two requests per
server let one end and the other hang on when the shutdown begins, and a wait of
6 ticks is, as in the code, three times the longest serving. `MaxTime` and `MaxRequests` bound `OrderStore`; `OutboxPublisher` is
finite by its number of tasks and attempts. `Done` lets a bounded run end;
no run switches deadlock checking off. `Lifecycle` ends in `Ended`, which
stutters for good; `Frontend` ends when its answers are taken. Symmetry over
clients is used in runs without liveness only.

**Fairness.** `OrderStore!Fairness` is weak fairness of `Proceed(c)` and
`DeadlockAbort(c)` for every client: a goroutine that can go on does, and Postgres
breaks lock cycles. Sending requests, ticking and failing are not fair. A
client blocked by a lock need not be treated fairly beyond this: with a bounded number of
requests every lock is released for good. `OutboxPublisher!FairSpec`
is weak fairness of `Work(p)`: the poll timer ticks and calls return; that a send
succeeds is not assumed. `Lifecycle!Fairness` is weak fairness of `Proceed` (what the
scheduler and the clock do) and of each `Answer(r)`: a handler returns; no signal and no
request has to come.

**What the properties do not say.** `CacheErrsOnlyByRace`, `CourierErrsOnlyByRace` and
`AnswersErrOnlyByCommit` do not say that the cache, the courier and the answers are
right: the code does not make them so, as three violation runs show of
`CacheIsCurrentWhenIdle`, `CourierTakesOnlyExpired` and `AnsweredIsRecorded`. They say what
it takes to go wrong. A restart whose `LoadInitialData` fails leaves the cache empty,
which is not stale. `AtMostOnce` holds for one publisher, which is what `main` starts. Tasks
left PROCESSING by a crash, a cancellation or a failed update are never fetched
again: `TasksSettle` exempts them, and `ImplementsDelivery` says that they are lost for
good. `AcceptedIsAnswered` rests on the publisher's wait for itself (the finding of
`publisher_shutdown`): if that wait ended at once, as its message promises, HTTP
requests would be cut off, which is the mutant `SeesRunReturn` of that property.
`CountersTellTable` and `ItemsTellTable` name the failures after which counters and
results are wrong, each of them a line in the list of hazards: after a
statement that fails in the middle of a gRPC batch the items before it are counted,
though they are rolled back. `BlamesRightly` lets a handler answer Internal for a price or an offset that is no
number for Postgres.
`HandoversInTime` speaks of the times that are stamped: bulk requests read the
clock before they wait for locks.

Each property is tested by a mutant, a definition such as `IgnoresLocks` or
`StampsEachItem` beside the one it varies, under which TLC finds it violated.

## 4. Proofs

`OrderStoreProofs` proves, for every set of clients, orders, users and requests
and every bound:

- `TypeCorrect`: `Spec => []TypeOK`. `TypeOK` includes `Shaped`, what
  the variables of a request hold at each of its calls, without which the
  type of an applied effect cannot be shown.
- `PendingWritesAreCurrent`: `Spec => []PendingIsCurrent`. An uncommitted effect on a
  row is legal on the committed row and protected by its lock. The argument is
  lock ownership: whoever changes a committed row holds its lock, so no other
  client has an effect pending on it.
- `HistoryFollowsRow` and `HistoryNeverRepeats`: from the above, a commit appends the
  status of its new row, which differs from the old one, to a history that ended in
  the old one. The two are inductive together (`HistoryInv`) with `PendingIsCurrent`.

`OrderLedgerProofs` proves `StorageImplementsLedger`: `Spec => ImplementsLedger`, for any
number of clients and any faults. `Commit` and `CommitAckLost` map to `Book`, a commit
without effects and every other step to a stutter, `Tick` to `Tick`. That an effect is
legal on the row it meets is `PendingIsCurrent`. What else the ledger asks (one order, or
one batch of one action for one user, stamped no later than now) is `Staged`, proved
inductive: each effect is what the operation of its request makes (`Made`), and outside
the bulk requests there is at most one.

`OrderRacesProofs` proves, for any clients, orders, requests and faults, that a run of
`OrderRaces` is one of `OrderStore` (`ObservedRunsAreRuns`), so that every theorem about
`OrderStore` holds of it, and then

- `CacheErrsByRace` and `CourierErrsByRace`: `CacheErrsOnlyByRace` and
  `CourierErrsOnlyByRace`. The inductive invariant says that a request that relies on a row
  without being overtaken has the committed one, and that the cache has it when no
  request is about to write it and none was overtaken. A commit disturbs this for
  others only by changing the row, which `Overtakes` records; and it changes the row only
  under the lock.
- `AnswersErrByCommit`: `AnswersErrOnlyByCommit`. What requests that have committed and not yet
  answered will report is counted together with what was reported: both are never more than
  the tasks in the log and the lost errors.

No theorem about the storage assumes a number of clients or a commit that does not fail.

`OutboxPublisherProofs` proves, for any tasks, batch size, retry limit and faults:

- `TypeCorrect`, with the fact that a batch is empty exactly when its publisher idles
  or stops.
- `DoneIsDelivered` and `AttemptsStayBounded`, for any number of publishers. The
  strengthening is about the fetched copies: their attempts are below the limit, and the
  head of a batch was delivered when its publisher is about to write DONE.
- `SentAtMostOnce` and `RetriesAreUnsent`, for one publisher. The inductive invariant
  adds that the tasks of a batch are distinct, that the rows of a batch being dealt with
  are PROCESSING from its current task on, and that no task from the current one on
  has been sent (except the head, just after its send).

`OutboxDeliveryProofs` proves `DeliveredOrLost`: with one publisher
`Spec => ImplementsDelivery`. Each step of the publisher is mapped to `Submit`,
`Deliver`, `Lose` of the tasks it gives up, or a stutter, under the invariant above.

`LifecycleProofs` proves `LifecycleTypes` and, for any sets of requests and any waits with
`MaxServe < PublisherWait`, `NoneCutOff`: `Spec => []AcceptedIsAnswered`. An HTTP
request is served only since before the listener closed, the publisher returns only
after its whole wait, and no request being served is younger than that wait: so
when the group is done none is left. The inductive invariant joins these facts.

`OrderAuditProofs` proves the rest of the safety of `OrderStore`, for any clients, orders,
users and bounds:

- `AuditIsHistory`, `GoodsMoveInTime` and `ReturnsMatchAudit`: `Spec => []` of
  `AuditTellsHistory`, `HandoversInTime` and `ReturnsAreAudited`. The tables change only at a
  commit, and a commit is a step of `OrderLedger`; so the inductive invariant `AuditInv`
  speaks of the tables alone, and is shown of the few actions of the ledger instead of
  every step of the storage. It says that the trail of a log (its entries from the last
  creation on) and the history pair off one by one, that the last entry of the history
  has the time of the row when it is not its creation, and that there is one return, of the
  recipient, for every task that tells of one. Lemmas say what an appended task does
  to the trail and to the places in it.

`FrontendProofs` proves all safety properties of `Frontend`, for any requests, ids, users,
tables, batch lengths, failures and width of an `int`: `TypeCorrect`, `StoredSound`,
`CountersTell`, `BlamedRightly`, `CollectableListed`, `RefusalsChangeNothing`, `ItemsTold` and
`ReadersMissNothing`. It goes in three layers:

- What a call of the storage may do (`Ends`, `Writes`, `Batch` and the lemmas named after
  the calls): the tables stay `Tidy`, an error leaves them alone, and a batch reports
  what it did. The loop of a batch keeps `Going`: after `i` items, the rows touched are the
  rows reported good, as many of each, and for `accept` as many ids are spent. The
  library's induction theorems cannot be instantiated here, so the lemma takes the first
  `i` for which it would fail (`LeastOf`), which is neither 0 nor the successor of a good one.
- What a handler makes of it: one lemma per operation says that each request is `Served`,
  that is, answered by a `Reply` whose code, counters, list, page and results are right
  of the tables before and after.
- What a reply keeps: `FrontInv`, inductive, of which the properties of states follow;
  the two properties of steps follow from `Served`. `CollectableIsListed` needs
  more than it says: the list on its way *equals* the set of the orders that wait,
  `ListTold`.

`ReadersMissNothing` has a hypothesis, `OffsetsFit`: the offset of any page that a client with
this page size asks for fits in an `int`; over HTTP nothing in the code ensures it, and
beyond it the offset wraps. (The requests of `frontend` fulfil it for the reader's limit.)
Its invariant `Paged` says that a lone row the reader has not met yet comes
after the pages it has read: at least as many rows are later than it as those pages
hold. A new return is stamped no earlier than any that is there, so it can only add
to them.

The assumptions are the named ones in `OrderStore`, `OutboxPublisher`, `Lifecycle` and
`Frontend`: finite sets, typed requests, a `None` apart from everything else, limits in
`Nat`, a page size and a width of an `int` above 0, `MaxServe < PublisherWait`. TLC evaluates
them in every run. The theorems for one publisher assume `OnePublisher` in their statements, as
`ReadersMissNothing` assumes `OffsetsFit`.

Only model-checked: liveness (`RequestsAreAnswered`, `TasksSettle`, `ProcessEnds`), which
needs `ENABLED` of the fair actions. Every safety property and every refinement that a
passing run checks is also proved.

## 5. Plan

Done: storage, outbox and lifecycle, both doors, lists and packaging, each with its
safety theorems. Next, in this order:

1. Prove what ties the two views of the storage together: that the outcomes of
   `StorageCalls`, which take a call for one step, are the steps of `OrderLedger`, which
   `OrderStore` implements, on the columns both have. Until then the claim rests on the
   reading of both.
2. State what `TasksSettle` needs short of liveness: a measure that every step of a
   publisher lowers while a task waits, as an invariant and an action property.

## 6. Not modelled

- What `ValidateUser` and `InitAdmin` do with passwords: they share no state with
  orders, and which user is let through is an input of `Frontend`.
- `OperationErrorsTotal`, the gauge of the cache and the log: nothing reads them.
- The consumer (`cmd/consumer`), which prints what it reads and which no producer in use
  feeds; `internal/server/audit*.go`, types without a caller; the repository methods
  without a transaction, which have no caller either; mocks; the code that protoc
  generates from `order_service.proto` (2321 of the 5451 lines of the program).
- An order without a name: no handler checks the id of a create request, and the row
  it makes can only be reached by the bulk calls.
- Entries of the history in the answers of `Frontend`: an unknown order has an empty
  list, which is what the handlers make of it; the entries are in `OrderStore`.
- Pool limits, serialisation formats and the wording of answers.
- AddReturn's check and stamp of the time are one step: nothing between them can block.
