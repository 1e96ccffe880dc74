# Formal models of goncordia

TLA+ models of the goncordia job engine, translated from the Go sources in
`src/`, with TLC instances and TLAPS proofs. `PROJECT.json` maps every
definition to the lines it models and lists runs, mutants, findings, hazards
and theorems.

## The system

| Part | Source | State | Operations |
|---|---|---|---|
| Driver contract, memory driver | `driver/driver.go`, `driver/memory/memory.go` | job rows, queues, leader rows, schedule cursors | insert, fetch, mark started, heartbeat, set state, rescue, cancel, delete, reschedule, pause, resume, elect, resign, cursor create/advance |
| Client, admission | `client.go`, `admission.go` | none of their own | enqueue (batch, in a transaction), cancel; depth check before insert |
| Worker pool | `worker.go` | pending slots, pipeline tails, keyed semaphores, rate gates, local rate states, wait group | start, subscribe, fetch and dispatch, acquire, start handler, report, yield, heartbeat, rescue, update policy, stop, shutdown |
| Global rate limits | `driver/rate_limit.go` | a schedule cursor per key | read, compute, compare-and-swap |
| Cron scheduler | `cron.go`, `core/schedule.go` | leader lease, cursor per entry | tick: elect, scan, enqueue, advance |
| Maintenance | `maintenance.go`, `driver/pagination.go` | none of its own | prune by pages, bulk retry/cancel/delete, dead-letter replay |
| Job model | `core/` | registry | upcasting, retry delays |
| Backends | `driver/{pgxv5,stdlib,bun,gorm,mongodb,redis,cassandra,dynamodb,firestore,clickhouse}` | the same tables in other stores | the same operations, with other atomicity |
| Admin, telemetry, clocks, test support | `admin/`, `otel/`, `telemetry.go`, `clock/`, `gontest/`, `driver/drivertest/` | none | admin issues store operations; the rest observes |

Pools, clients, operators and schedulers interact through the store alone.
A claim is fenced by `(WorkerID, AttemptNum)`: the store ignores reports that do
not carry the row's pair. Leases renewed by heartbeats tell live claims from
dead ones; `JobRescueStuck` gives the dead ones back. Inside a pool, goroutines
interact through channels used as semaphores, a chain of `done` channels per
pipeline, and maps under mutexes.

What is hard to test: late reports of rescued claims; waits abandoned half way
through a series of acquisitions; shutdown at every point of start-up, waiting
and handling; retry loops with values read before the loop; operator actions
between a listing and the action on what was listed; crashes between two
writes; leases that expire in the middle of a tick or a handler. The hazards in
`PROJECT.json` give the lines.

## Modules

| Module | Models |
|---|---|
| `JobStore` | the job table and queues of `memory.go`; each operation holds the driver's mutex and is one step |
| `ClaimProtocol` | pools, clients and operators on one `JobStore` |
| `JobOwnership` | the promise of `ClaimProtocol`: a job has one owner, an outcome is recorded by the owner and once, attempts are charged for a reason |
| `ClaimProofs` | theorems about `ClaimProtocol`: types, fencing, the accounting of attempts, unique keys, healthy claims, the refinement of `JobOwnership` |
| `WorkerPool` | `fetchAndDispatch` and the goroutine of each claimed row |
| `PoolLifecycle` | `Start`, `runWithNotifications`, `runMainLoop`, `Stop`, `Shutdown` and the wait group |
| `PoolStepProofs`, `PoolProofs` | theorems about `WorkerPool` (the invariant and the goroutines' steps, then the fetch loop and the results) and about `PoolLifecycle` |
| `LocalRateLimits` | `reserveLocalRateLimits`, its rollback, `waitForRatePermit` |
| `RateLimitCursor`, `RateProofs` | `AcquireRateLimit`, `acquireFixedWindow`; theorems about them |
| `CronSchedule`, `CronProofs` | durable periodic jobs; theorems about them |
| `DistributedPipeline`, `TurnProofs` | `acquireDistributedPipeline` over the elections of four drivers; theorems about it |
| `BackendBase` | the tables and threads all drivers share, and the changes of a row the contract asks for |
| `RowStatements` | the conditional single-statement changes several drivers make |
| `MemoryStore`, `PgxStore`, `StdlibStore`, `MongoStore`, `FirestoreStore`, `DynamoStore`, `RedisStore`, `CassandraStore`, `ClickHouseStore` | the job and queue operations of one driver each, in the requests its calls make |
| `Backends` | pools, clients, a rescue loop and an operator over any one of the nine stores, and what the contract promises them |
| `Maintenance`, `MaintenanceProofs` | `Prune`, bulk actions, `DeadLetterReplay`; theorems about `Prune` |
| `MC*` | instances for TLC |

How state and actions correspond to the code:

- **Time.** `JobStore` keeps instants relative to now and `Elapse` ages them, so
  the clock needs no bound; `Horizon` is the age after which instants are not
  told apart. The other modules have a clock bounded by `MaxTime` or keep the
  time left of a lease.
- **Goroutines.** A goroutine of a pool is one of its pending slots. Each
  blocking operation (channel send, select, store call) is a step; code between
  two of them is part of the step before. Deferred calls of `WorkerPool` are a
  stack that `Release` unwinds.
- **Disturbances.** Crashes, stalls, lost answers, failed calls, cancelled
  contexts and operator actions draw on one bound, `MaxFaults`
  (`MaxActions` in `Maintenance`, `budget` in `Backends`), and may happen
  wherever the code can meet them.
- **History.** `replayed` and `rescues` (`ClaimProtocol`), `inserted` and
  `deleted` (`CronSchedule`), `permits` and `rewound` (`RateLimitCursor`),
  `starts` (`LocalRateLimits`), `broken` and `updates` (`WorkerPool`), `owed`
  (`Maintenance`), `misled` (`DistributedPipeline`), `hist` and `raced`
  (`Backends`) only record what properties speak of; `deleted` also keeps an
  occurrence's job from being deleted twice.
- **Configuration.** What a process chooses once and the properties compare is a
  variable that `Init` sets to any value and no step changes: the mode of a
  limit (`RateLimitCursor`), the catch-up policy (`CronSchedule`), the driver of
  the pools (`DistributedPipeline`), the driver, the kind of unique key, the
  threads, whether the workers are of one pool with one WorkerID, and the bounds
  (`setup` of `Backends`).
- **DynamoDB's instants.** They are stored and compared as RFC3339Nano text.
  The clock of `DynamoStore` counts half seconds, and `Text` gives their order as
  text, in which `.5Z` is before `Z`. Its reads are eventually consistent: the
  read of a settling call may see the item as it was before the claim
  (`settleGetStale`), that of a fetch a queue as it was before the pause; an
  index that does not show a job yet is a fetch that does not happen.
- **Calls of several requests.** A driver's call that makes several requests
  keeps what it has read in `calls` and is resumed by one action per request;
  between two of them any other thread may act, and the call may end for good
  (`Fail`: the request fails or the process dies). Where the code ignores the
  error of a request it goes on instead (`FailUnseen`), and where it takes an
  error for an empty result it acts on that (`StoppedUnlessReadFails`). A request
  that fails has changed nothing. The report of an outcome may fail as a whole
  (`setStateFails`). A transaction, a script, a lightweight transaction or one
  SQL statement is one step. An election
  (`leaderAttemptElect`) is two accesses, between which the process may pause.
- **Abstraction.** In `ClaimProtocol` everything between claim and start is one
  waiting phase; `WorkerPool` opens that phase and leaves the store out, and
  takes any permit delay; `LocalRateLimits` and `RateLimitCursor` are the permit.
  The loss of a pipeline's lease is a disturbance there, after which the goroutine
  yields; `DistributedPipeline` says when it happens.
  Handlers return any outcome. `Backends` has one queue, one priority and a fetch
  limit of 1 (what the pool asks for). In it a fetch that loses its candidate
  returns nothing and is called again; the pause flag is read in one step with
  the query that follows it, except in MongoDB and Redis; the deletion of a stale
  entry of Cassandra's running lookup is one step with the read before it;
  DynamoDB's rescheduling is one step because only one operator deletes.
  Leases that expire at this very instant count as expired in every driver;
  the strict comparisons of Cassandra differ from that at one instant.
  Payloads, tags, error texts, observers and telemetry are left out.

## Runs

Passing runs; each property has a mutant that breaks it.

| Run | Checks | Instance |
|---|---|---|
| `MCClaims` | one owner per job, healthy claims kept, attempts accounted for, retry budget; implements `JobOwnership`; every job settles | one job, two pools with one WorkerID, timeout 2, heartbeat 1, two disturbances |
| `MCPool` | limits, pipeline chain, no leaked entries, shutdown drains | three jobs, two slots, two queues with pipeline, key, kind and rate rules, one disturbance or policy update |
| `MCLifecycle` | shutdown means drained, and ends | two listeners, two pending slots, three jobs |
| `MCRates` | global limits in both modes: permits per period and per window, the arrival time advances, attempts end; local limits: smooth rule across rate gates, window per gate | two pools, limit 2 in 5, burst 2, seven instants; or four goroutines behind two gates, four instants |
| `MCCron` | all catch-up policies: once per occurrence, none skipped, the cursor never moves back, every occurrence is enqueued | two instances, three occurrences, two values of `StartAt`, two faults, one deletion |
| `MCTurns` | one live handler, the pipeline advances | four drivers, three claims in two pools, lease 3, two faults |
| `MCPrune` | a pass deletes all it owes | three jobs, pages of one, two actions |
| `MCBackends` | per driver: claims kept, outcomes neither dropped nor stored for a claim taken away, cancellations honoured, due times, lookups, unique keys, start marks | one job with two workers of one pool or of two (heartbeats with one worker where calls are long), two instants, three half seconds for DynamoDB; or two or three jobs with one key and two clients; up to three operator calls, rescues, yields or failures |

The bounds are the smallest at which the cases that matter occur: two pools let
a late report meet a newer claim, and two disturbances let a stall and a yield
or a restart meet; a lease of two heartbeats has a beat that may be missed;
three jobs put a waiter between two others in a chain; pages of one put a page
boundary between any two jobs; a limit of 2 in 5 has an interval that the
division truncates, and its clock passes into a second window; one job and two
workers let two calls on a row overlap, and three jobs let a key be released,
taken again and released by a late call; one of three occurrences can be
deleted, so that both cases of `OncePerOccurrence` occur.
Runs whose system may rest (all jobs done, pool stopped, clock at its bound) do
not check for deadlock; the claim protocol and cron runs do.

Violation runs show where the program does not do what its documentation says.

| Run | The documentation | What happens |
|---|---|---|
| `MCDrain` | active jobs renew their leases while the pool drains | not when the context of `Start` was cancelled |
| `MCPipeline` | jobs of a pipeline run sequentially in a pool | a waiter that gives up frees the job behind it |
| `MCWindowErased` | rate limits bound handler starts | a rollback erases the count of others |
| `MCDoubleClaim` | a fetch claims atomically | over database/sql two workers claim one job: the claiming `UPDATE` compares no state, and the locks of the `SELECT` are gone |

### Where a property makes an exception

Some properties exclude a case in which the modelled code does otherwise than
its documentation says. The models contain the behaviour; the properties say
what holds around it.

- `UniqueKeys` speaks of inserts and not of `JobReschedule`, which makes a
  finished job active again beside a newer one with its key
  (`driver/driver.go:164`: the key "globally prevents duplicate active jobs").
- `LimitsHold` bounds the pool, a kind, the holders of each key semaphore and the
  waiters of a rate gate at all times. It compares the claims of a queue and the
  handlers of a key value with the policy only until a policy is replaced: an
  existing key semaphore keeps the capacity it was created with, so that a lower
  limit may be exceeded until its last user leaves (`worker.go:470`: "for future
  claims and starts"). It allows one waiter per rate gate, and a queue has a gate
  per value of its rate keys (`README.md:523`: "at most one execution slot per
  rate-limited queue").
- `WindowBound` of `RateLimitCursor` leaves out windows that a caller with an
  old clock set back (`worker.go:1110`: "never exceeds it").
- `OncePerOccurrence` leaves out occurrences whose job was deleted: the key goes
  with the row (`README.md:770`: "a permanent uniqueness key").
- No property says that only the holder of the lease enqueues (`README.md:776`):
  a tick outlives its lease, and `OncePerOccurrence` does not depend on it. Nor
  does a later `StartAt` move an existing cursor (`cron.go:273`: "move StartAt
  forward").
- `OneLiveHandler` says nothing of claim order across pools (`README.md:574`):
  they poll for the lease. It leaves out handlers in `misled`: Redis ignores what
  `EXPIRE` did, and Cassandra what its conditional extension did, so a renewal
  whose lease ran out inside the call is confirmed (`driver/driver.go:63`:
  "exactly one winner", of an acquisition).
- `PruneComplete` says what a pass must delete. A job that was replayed after it
  was listed is deleted too (`maintenance.go:62`), and of two concurrent replays
  both reschedule (`maintenance.go:171`).

In `Backends` the exceptions are windows of single drivers, named in each
property; everything outside them is checked for all nine. Most speak of jobs in
`Disturbed`: two calls on the job have overlapped, or a request of one has failed
half way. A hazard whose outcome is such a window is not caught by the property:
the note of the hazard says so. No property says that a paused queue hands out
nothing: of the nine drivers only memory keeps to it.

| Driver | Window |
|---|---|
| memory | none but rescheduling a finished job beside the next holder of its key, as in all drivers |
| pgx | the fetch does not look at the pause flag (`README.md:37`) |
| stdlib | as pgx; the claiming `UPDATE` overrides a claim, a cancellation or a later `run_at` written since the `SELECT` |
| MongoDB | a cancellation whose update matches nothing is reported as done; a failed read of the queue is a queue that is not paused |
| Firestore | a claim returns the attempt of the queried row, which may be behind the stored one, so that its outcome is refused, and does not look at `run_at` again; as MongoDB for pauses |
| DynamoDB | an outcome is refused, and dropped by the pool, when the worker's own heartbeat moved the version in between or the item was read stale; a job may be claimed early within its second; deletions of a reservation do not compare its job |
| Cassandra | as DynamoDB for heartbeats and reservations; calls that end between two tables, or delete an entry late, leave a job unlisted; a rescheduled job is not listed at its new time; an entry whose deletion failed, unseen, lists a retry before it is due; an insertion that could not be undone keeps its row without its key |
| Redis | cancel and reschedule write back the document they read, over a claim made since, and reschedule with it an attempt number that is given out again; a reservation is deleted without comparing its job, and its deletion by a cancellation may fail unseen; a call that ends half way leaves a job unlisted |
| ClickHouse | versions are inserted without a condition, and uniqueness is a query before the insert; failed reads are empty ones |

## Fairness

Weak fairness of the loops the code runs on tickers (fetch, heartbeat, rescue,
cron tick, lease polling and renewal), of goroutines that are not blocked, of
handlers (they return) and of time. `EveryJobSettles` also assumes what a deployment
provides: stopped pools are replaced and paused queues resumed.
`EveryOccurrenceEnqueued` assumes that some instance stays up. No rate permit is
owed: in `WorkerPool` only queues without rate rules must start. Faults and
operators owe nothing. The violation runs check invariants and need no fairness.

## Proofs

TLAPS checks the following for every value of the constants that satisfies the
named assumption of the module. A proof has the same shape throughout: lemmas
about the operators, an invariant with a lemma per action that preserves it, and
a last temporal step.

**`ClaimProofs`**: any number of jobs, pools, slots, queues and keys, any
timeouts, retry limits and fault bounds (`StoreAssumption`, `PoolAssumption`).
`PoolAssumption` has one fact the code does not enforce: pools that share a
WorkerID have the same `StuckJobTimeout`. `HealthyKept` depends on it, and it is
the deployment's to provide.

- `TypeCorrect`: `Spec => []TypeOK`. The store operations have a lemma each.
- `TokensDistinct`: `Spec => []DistinctTokens`, the strengthening of fencing.
  `SingleOwner` is not inductive: a yield lowers the row's attempt number, and
  a later claim takes that number again. `DistinctTokens` says that the claims
  held on a job have different attempt numbers, none above the row's, and that
  ids are not reused. A yield that is accepted is the row's own claim, the
  highest, so the number it gives back is held by nobody else.
- `Fencing`: `Spec => []SingleOwner`, from the two above: two owners would both
  match the row's attempt number.
- `AttemptsCharged`: `Spec => []AttemptsAccounted`, and `RetriesBounded`:
  `Spec => []RetryBudget`, from the invariant `Books`. `RetryBudget` is not
  inductive: a failure adds an error, and only a job that is still active with
  budget left may fail. `Books` adds this, for each row, to the equation of
  `AttemptsAccounted`, and that ids not yet used have no rescues.
- `KeysUnique`: `Spec => []UniqueKeys`. Every step but an insertion satisfies
  `KeysKept` (no row appears, a row keeps its key, and a finished row becomes
  active again only by an operator), which preserves it; an insertion looks for
  the key first.
- `HealthyKept`: `Spec => []HealthyClaimKept`. The invariant `LeaseAhead` says of
  a claim whose heartbeats arrive that it owns its row and that the lease ends
  after the next heartbeat. It uses that `newWorkerPool` makes the interval
  shorter than the timeout, and `Fencing`: another goroutine's report cannot
  change the row.
- `OwnershipImplemented`: `Spec => ImplementsOwnership`, the refinement: initial
  states map to initial states and each step of the protocol to one step of
  `JobOwnership` or to none. `Fencing` makes the owner a function of the state
  (`OwnersKnown`).

**`PoolStepProofs`, `PoolProofs`**: any number of slots, jobs, queues, pipelines,
rules and limits, any policies to switch between (`WorkerPoolAssumption`). The
invariant `PoolInv` has three parts. `Counted`: a reference-counted semaphore
has exactly as many references and taken places as there are goroutines that
refer to it and hold it. `StageOK`: where a goroutine is says which deferred
calls it has. `ChainInv`: the goroutines of a pipeline form chains without forks
or cycles that end in the tail, one chain while nobody has left early. None of
the results is inductive by itself, because a release must know that what it
gives back was taken, and by whom.

- `PoolWellFormed`: `Spec => []TypeOK`; the counts never leave their bounds.
- `LimitsKept`: `Spec => []LimitsHold`. The holders of a key semaphore are bounded
  by `Counted` at any time (`SemaphoreLimitHolds`); until an update every entry
  has the capacity of the policy. `ChainsOrdered`: `Spec => []PipelineChain`.
- `NothingLeft`: `Spec => []NothingLeaks`, with `MapInv` (the two maps are
  functions) beside `PoolInv`: an entry that nobody refers to is gone.
- `ShutdownDrained`: the specification of `PoolLifecycle` implies
  `[]ShutdownMeansDrained`, for any number of listeners, slots and jobs
  (`LifecycleAssumption`). The invariant `Drained` says that the waiter exists
  only after `isShuttingDown` is set, so that no job joins the wait group behind
  it; listeners may.

**`RateProofs`**: any number of pools, any limit below the period, any burst
and any delay between clock and swap (`LimiterAssumption`). The invariant is
`RateInv`.

- `CursorWellFormed`: `Spec => []TypeOK`. The count of a window never runs over
  into the next window.
- `PeriodBounded`: `Spec => []PeriodBound`. The strengthening, `ArrivalAhead`,
  counts permits: those read at `t` or later have moved the cursor past `t` by
  an interval each, however late they were written.
- `WindowBounded`: `Spec => []WindowBound`. The strengthening, `WindowCounts`,
  relates the count in the cursor to the permits of its window.
- `ArrivalsAdvance`: `Spec => CursorAdvances`, an action property.

**`MaintenanceProofs`**: any number of jobs, any page size, retention and number
of operators (`MaintenanceAssumption`).

- `TableWellFormed`: `Spec => []TypeOK`.
- `PassDeletesAll`: `Spec => []PruneComplete`. The invariant `PruneInv` says that
  what the pass still owes is expired, and is in the page it works on or follows
  the cursor of a page to come. The lemma behind it is about pages: a row that
  follows a cursor and is not in the page is older than the whole page, and a
  page that is not full leaves no row out.

**`CronProofs`**: any number of instances, any clock bound, lease, scan limit
and fault bound (`CronAssumption`).

- `SkipsNothing`: `Spec => []NothingSkipped`. The invariant `CronInv` adds that
  during a tick the due occurrences follow the expected cursor without gap and
  that those already passed in this tick are inserted; the advance is a
  compare-and-swap on the expected cursor.
- `NeverRewinds`: `Spec => CursorNeverRewinds`, from the same invariant, under
  all three policies.
- `EnqueuedOnce`: `Spec => []OncePerOccurrence`. The invariant `OnceInv` adds
  that an occurrence which was inserted and not deleted has its row, and the row
  blocks the next insert.
- `GroupWellFormed`: `Spec => []TypeOK`, with `GroupInv`: a tick works on no
  occurrence after the time it read.

**`TurnProofs`**: any number of claims and pools, any lease of at least 3, any
of the four drivers and any fault bound (`PipelineAssumption`).

- `LeaseCoversAlways`: `Spec => []LeaseCovers`. The lease row names each live
  handler and outlasts the time the handler counts from the beginning of its
  call. The invariant `Turns` adds only types. Counting from the beginning of
  the call is what makes it inductive: the expiry that is written is computed
  from a clock read then, and another caller's clock is no later than now.
- `TurnsKept`: `Spec => []OneLiveHandler`: two live handlers would both be the
  owner of the one row.
- `ClaimsWellFormed`: `Spec => []TypeOK`. The invariant `ClaimsInv` adds which
  claims have been fetched and what the calls in flight may still write.

Model-checked only:

- all liveness properties, because fairness and `ENABLED` are out of the
  prover's reach;
- the safety properties of `LocalRateLimits` (`PoolLimitsHold`, and its part of
  `RatesTypeOK`): they are not proved; their invariant would have to follow the
  chain of outstanding reservations that may still be rolled back;
- the properties of `Backends`, which say something else of each driver: an
  inductive invariant needs a clause for every request of every driver's calls.

Proved only: `UniqueKeys`, whose driver-level counterpart `KeyExclusive` is
checked.

## Not modelled

- Listings, statistics, migrations and transactions of the caller in the
  drivers: they read, or run before or around the operations that are modelled.
  The advance of a schedule cursor is one conditional write in every driver
  except ClickHouse, which declares `LinearizableCAS` false; `CronSchedule` and
  `RateLimitCursor` speak of the others.
- The precision of stored instants. Cassandra and MongoDB keep milliseconds, and
  the unit of time of `RateLimitCursor` is one the store keeps: a smooth limit
  whose interval is shorter than that is outside the model.
- The listeners of `pgxv5`, `mongodb` and Redis: a notification only hastens a
  poll that happens anyway. `PoolLifecycle` has their goroutines.
- Elections of DynamoDB, Firestore and memory (the shape of pgx: one conditional
  write) and of `stdlib` (the shape of MongoDB); ClickHouse does not declare
  `LinearizableLeases`, and pools refuse distributed pipelines on it.
- Replica lag, other than the stale reads of DynamoDB named above, and the order
  of text instants in its election.
- `QueueDepthAdmission`: documented as inexact (`README.md:557`).
- Retry delays, upcasting chains and codecs of `core/`: pure functions of
  floating-point numbers and payloads.
- Cron entries with an empty ID, whose last run is local to an instance.
- HTTP routing and JSON of `admin`, telemetry, the mock clock, `gontest` and the
  conformance suite: they hold no state of the engine.
