# Verification of the distributed job scheduler

TLA+ specifications of the scheduler's job store, its transactions, workers, API
service, API keys, outbox, rate limiter and worker registry. TLC checks each of
them on small instances; TLAPS proves their safety properties, with one
exception, for every value of their constants. `PROJECT.json` lists the
components, the runs, the source lines behind every definition, the hazards and
the theorems.

## The system

Processes share one PostgreSQL database, one Redis and one Kafka topic.

| part | state | operations that change it | talks to |
|---|---|---|---|
| lifecycle rules (`internal/scheduler`) | none | transition table, retry decision | used by the service and the workers |
| job repository (`internal/job/repository.go`) | tables `jobs`, `job_attempts`, `dead_letter_jobs`, `job_events` | Create, ClaimDueJobs, CompleteExecution, FailExecution, ExtendLease, ReleaseClaim, TransitionJob, RecoverExpiredRunningJobs, RequeueDeadLetter | PostgreSQL |
| worker service (`internal/worker/service.go`) | poll loop, unbuffered channel, slots, one lease renewer per running handler | Run, ProcessJob, renewLease, shutdown | repository, Redis lock, handler |
| Redis lock (`internal/lock`) | key `lock:job:<id>` holding a worker ID, with a TTL | Acquire (SET NX), Extend and Release (owner-checked scripts) | Redis |
| worker registry (`internal/worker/registry.go`) | heartbeat keys with a TTL, set `workers:active` | Heartbeat, ActiveWorkers (which also removes) | Redis |
| job service (`internal/job/service.go`) | requests in progress | create, cancel, pause, resume, retry, requeue | repository |
| outbox (`internal/outbox`) | lease, backoff and publication columns of `job_events` | Claim, MarkPublished, MarkFailed, Replay, the relay loop | PostgreSQL, Kafka |
| Kafka producer (`internal/kafka`) | none | Publish | Kafka |
| rate limiter (`internal/auth/rate_limit.go`) | one token bucket per client | the Lua script and the middleware | Redis |
| API keys and roles (`internal/auth`, `cmd/scheduler-admin`) | table `api_clients`, requests on their way to a handler | CreateClient, RevokeClient, Authenticate, the middleware of `/api/v1` | PostgreSQL, rate limiter |
| HTTP server, metrics, configuration, dashboard | see *Not modelled* | | |

What makes it hard:

- A claim is a lease. Its worker can be slow, dead or cut off while recovery
  hands the job to somebody else, so every later statement of the first worker
  races with the second one. Ownership predicates in SQL are the only defence.
- Claimed jobs wait for a free slot with nobody renewing their lease.
- Every call can fail, or commit and lose its answer.
- Operators move jobs between a service's read and its write.
- Two writers (worker and recovery) keep one retry count and one dead letter.
- Transactions take row locks in different orders and go on after a wait with
  what others have committed meanwhile.
- Keys are revoked while their requests are on the way.
- Relays publish first and mark later, and administrators replay in between.
- Several replicas with different clocks share one token bucket.
- Readers of the registry remove members that may just have beaten again.

`PROJECT.json` lists these as hazards, each at its line and with the properties
that would catch it going wrong.

## Modules

```
Lifecycle
   JobStore ------------- JobStoreProofs
      WorkerService ----- WorkerServiceProofs   (workers + Redis lock)
      JobService -------- JobServiceProofs      (API requests)
      Transactions ------ TransactionCommitProofs,
                          TransactionIsolationProofs, TransactionProofs
Outbox ------------------ OutboxProofs          (relays + Kafka producer)
Access, RateLimiter,
Registry ---------------- ServerProofs          (API keys, middleware, heartbeats)
```

WorkerService, JobService and Transactions extend JobStore, so `StoreSpec` over
the shared variables is their abstract specification. For the workers and the
service they are the store they call; for Transactions they are the committed
rows.

`MC*.tla` give TLC the symmetry sets and the values a `.cfg` cannot write.

Conventions shared by all modules:

- A transaction is one atomic action, which Transactions justifies; one that returns an error has rolled back
  and is a stuttering step, unless the caller's next step depends on the error.
- Each call of a process to PostgreSQL, Redis or Kafka is a step of its own.
  Everything a process does between two calls is part of the step.
- Time is abstract. A lease is `"null"`, `"live"` or `"expired"`; a job is due
  or not. Expiry is a step that can happen at any moment, so every relation
  between time-outs and speeds is covered. Only the rate limiter counts seconds.
- Definitions marked *Variant* are deliberately wrong forms of the definition
  below them: a dropped guard, a forgotten column, an off-by-one. They are part
  of no specification. Putting one in place of the right form makes TLC report
  the property named in `PROJECT.json` ("mutants"), which shows that the
  property depends on that line of the code.

### Lifecycle

The states, the table `transitions`, `DecideFailure` and `NextRetryAt` of
`engine.go`. A delay is a signed integer of `Width` bits that is doubled without
a cap, as `time.Duration` is. A delay that has wrapped to zero or less makes the
job due at once; any other one makes it due some time later. The runs use 3 bits
and a base of 2 units, so that the second retry already overflows; the code has
64 bits and 10^9 units per second, and the proofs leave all of them open.

### JobStore

One variable per column that matters, indexed by job: `status`, `lockedBy`,
`lockedUntil`, `due` (run_at), `retryCount`, `maxRetries`, `source`
(source_dead_letter_id); `attempts[j]`, the attempt rows in insertion order;
`deadLetters[j]`, the requeued_job_id of each dead letter; and `events[j]`, the
event rows of the last transaction that wrote any. There is one action per
transaction, named like the repository method, and `LeaseExpires` and
`BecomesDue` for time.

`ClaimDueJobs(w, S)` and `RecoverExpiredRunningJobs(S)` take any subset of the
matching rows, which is what `LIMIT` and `SKIP LOCKED` can return. Callers are
arbitrary: a claim that was handed out may be finalized or given back at any
later time. The specification is therefore also the abstract specification that
workers and service implement (`StoreSpec` is a property of their runs).

A worker's decision about a failure uses the retry count it read when it
claimed. The attempt number records that copy, so `FailureOf` uses the number.

### Transactions

The same transactions statement by statement, for several sessions. The
variables of JobStore are the committed rows; `lock` says which session has
locked a row; `txn[s]` is the open transaction of a session: its arguments, how
many of its statements (`Statements`, in the code's order) it has run and what
it has written, which `Commit` installs. A single-row UPDATE or SELECT FOR UPDATE (`Update`)
waits for a locked row and evaluates its WHERE clause on the committed row; no
row is a `Conflict`, which rolls back. A selection with SKIP LOCKED (`Select`)
fixes what the following loop writes, since those rows are locked by then. The
closing of a job's RUNNING attempts locks them one by one. Any statement may
fail (`Abort`), which includes PostgreSQL's answer to a deadlock.

Two details are left out. Inserting an event or a dead letter share-locks the
job row through its foreign key: FailExecution then waits for the job one
statement earlier, with the same attempt locked, and a selection may skip the
row, which `Select` allows anyway. And DecideFailure runs on values that the row
locks keep fixed.

### WorkerService

Extends `JobStore` with the Redis lock (`redis`), the poll loop (`poll`,
`backlog`), the slots (`pc`, `claim`) and the renewers. The actions are the
calls of `Run`, `ProcessJob` and `renewLease` in their order: recover, claim,
send; acquire, give back after a miss, execute, finalize, release; extend in
PostgreSQL and then in Redis. `Shutdown` cancels the context, after which calls
with that context fail but the deferred lock release still runs. `Crash` loses
the memory of a process and keeps its leases and keys. A worker ID is drawn per
process, so a stopped worker never returns.

The webhook handler is one of four outcomes: success, a permanent error, a
retryable one, and one with a Retry-After, which replaces the computed delay. A
handler whose context is cancelled may still return any of them: nothing
forces it to notice. A claim in memory is its job and the index of its attempt
row. The branch of `ProcessJob` for a job without an attempt is unreachable,
because every claim inserts one.

### JobService

Extends `JobStore` with tenant, key and hash columns and with handlers that
serve one request each, call by call: insert and, on a conflict, look up;
read, then write; requeue. A request comes in with its first call, since nobody
can tell how long it waited before. A retried request is another handler. Workers appear
as the store's own transactions, with no assumption about their order. Requests
that fail validation change nothing and are left out.

### Outbox

Events are numbered in creation order and `JobOf` gives their jobs. Relays
claim, publish and mark one call at a time. `owed` is a history variable: the
events that Kafka has not stored since their commit or their last replay.
A relay in `Unreliable` may stop, and may take longer than its lease; the others
do neither. `Calm = TRUE` rules out overlapping claims, which skip rows, and
unordered `RETURNING` rows. Both runs use it: the ordering run so that what it
shows does not depend on such accidents, the other one for size. The proofs
cover both values.

### Access

The rows of `api_clients`, the commands of `scheduler-admin` and requests under
`/api/v1`, each a step per call: insert and, for a supplied key that exists,
look up; revoke; authenticate, write last_used_at, ask the rate limiter, compare
the role. A call may take effect although its command reports a failure. A key
stands for its hash. `barred` is a history variable of a request: the clients
whose revocation had been reported when it came. Routes are grouped by the role
they require (read, operate, replay).

### RateLimiter

The Lua script, run atomically with some replica's clock, which is up to `Skew`
ahead of Redis. Tokens are counted in units of 1/`Period`, so all numbers are
integers. The code has `Period` = 60 and `TTL` = 120; `RateAssumption` asks for
`TTL >= Period + Skew`, so the results hold for clocks up to 60 s apart.
`start`, `inWindow` and `passed` are history variables that measure an
arbitrary window. The middleware refuses a request whose script call failed,
although the token may be gone; `Allow` includes that case.

### Registry

Heartbeats (SET and SADD in one MULTI) and `ActiveWorkers` command by command:
SMEMBERS, then GET for each member and SREM for one without a key. `seen` is a
history variable: the workers whose key existed during a reader's call.

## Runs

Run one with `tlc -config <cfg> <module>`. States are distinct states.

| run | module, cfg | bounds | states | result |
|---|---|---|---|---|
| `job_store` | MCJobStore, MCJobStore.cfg | 2 jobs, 2 workers, budgets 0 and 2, 3 attempts | 205,872 | holds |
| `transactions` | MCTransactions, MCTransactions.cfg | 2 sessions, 2 jobs, 1 worker, batch 2, budget 0 (1 for requeued jobs), 2 attempts, cancellations | 170,269 | holds |
| `worker_processes` | MCWorkerService, WorkerProcesses.cfg | 1 job, 2 workers of 1 slot, one may stop, budget 2, 3 attempts, operators cancel, pause and resume | 208,499 | holds |
| `worker_slots` | MCWorkerService, WorkerSlots.cfg | 2 jobs, 1 worker of 2 slots, batch 2, 2 attempts | 375,227 | holds |
| `job_service` | MCJobService, MCJobService.cfg | 3 jobs, 3 requests, 2 tenants, 1 key, 2 hashes, budget 0, 1 worker | 228,898 | holds |
| `access` | MCAccess, MCAccess.cfg | 2 clients, 2 keys, 2 tenants, 3 commands, 1 request | 1,452,663 | holds |
| `outbox` | MCOutbox, MCOutbox.cfg | 2 events of a job, 2 relays, one unreliable, batch 2, 2 replays | 32,867 | holds |
| `rate_limiter` | MCRateLimiter, MCRateLimiter.cfg | capacity 2, period 3, TTL 4, skew 1, 12 seconds | 25,324 | holds |
| `registry` | MCRegistry, MCRegistry.cfg | 2 workers, 2 readers | 50,968 | holds |
| `worker_stuck_attempt` | MCWorkerService, WorkerStuckAttempt.cfg | 1 job, 2 workers | | violated |
| `worker_stale_claim` | MCWorkerService, WorkerStaleClaim.cfg | 1 job, 1 worker of 2 slots | | violated |
| `outbox_order` | MCOutbox, OutboxOrder.cfg | 2 events of a job, 1 reliable relay, 2 partitions | | violated |

### What the passing runs show

- **job_store.** A job has an owner and a lease exactly while it is RUNNING
  (`OwnedWhileRunning`), and then its newest attempt is RUNNING and the owner's
  (`RunningHasAttempt`). Retry counts and attempt numbers stay in the budget
  although two parties write them (`WithinRetryBudget`, `AttemptsWithinBudget`).
  A dead job has one dead letter (`OneDeadLetter`). The newest events of a job
  tell its state (`TimelineAgrees`, with the exception below). Every step follows
  the transition table, and a finished job stays finished (`LegalSteps`). A
  scheduled retry is not due already, unless its exact delay does not fit the
  integer (`BackoffHonoured`): beyond that limit the uncapped doubling wraps and
  the job is retried at once, which the run reaches.
- **transactions.** Whatever statements of other sessions come in between, each
  transaction takes effect as one step of the job store at its commit
  (`ImplementsStore`). FailExecution locks an attempt before its job and every
  other method the job first; sessions can wait for each other for ever, and
  then one of them is in FailExecution (`OnlyFailuresDeadlock`). Locks cover what is written and
  end with their transaction (`LocksMatchWrites`).
- **worker_processes.** While a running handler's Redis key is renewed in time,
  no two slots run the handler of one job (`ExclusiveExecution`), although the
  lease in PostgreSQL may lapse and the job be claimed again at any moment. As
  long as one worker survives, every job comes to an end (`JobsSettle`): it is
  finished, dead-lettered or paused, or has used up the model's attempts,
  after crashes, lost answers, dropped claims and operators' requests. So no job
  stays RUNNING and no waiting job is forgotten.
- **worker_slots.** No attempt is handled twice (`ClaimsAreDisjoint`), and every
  step of the workers is a step of the store (`StoreSpec`). Redis keys may lapse
  at any time here.
- **job_service.** All successful creates under a key agree on one job that has
  the requested content (`IdempotentCreate`); no answer or requeued copy crosses
  tenants (`TenantIsolation`); an acknowledged cancellation is final
  (`CancelHolds`); a dead letter is requeued as one job at most (`RequeuedOnce`)
  and for one client only (`RequeueAnsweredOnce`); the service implements the
  store (`StoreSpec`).
- **outbox.** No event is marked published that Kafka has not stored since its
  commit or last replay (`PublishedWasStored`), and every committed event is
  published for good in the end (`EventuallyPublished`).
- **access.** A request that comes in after a revocation was reported is not
  handled as that client (`RevocationHolds`); one already past authentication
  may be. A handled request has the tenant of its key and a role that suffices
  (`HandledAsClient`). Repeated and concurrent bootstraps with one key are
  answered with its one client (`BootstrapAgrees`), and none of them revives a
  revoked key (`KeysStayDead`).
- **rate_limiter.** Any window passes at most a full bucket plus its refill,
  stretched by the skew (`WindowBound`), and refusals never lock a client out
  (`NeverLockedOut`).
- **registry.** A listed worker had a heartbeat key during the call
  (`ListedWasAlive`); a running worker is in the set again and again
  (`Rediscovered`); a stopped one leaves it for good (`Forgotten`).

Each module has a type invariant as well.

### What the violated runs show

Each states a sentence of the repository's own and shows what the code does.

1. *Stuck attempts.* After a lock miss `ReleaseClaim` returns the job but leaves
   its attempt RUNNING, and success closes only its own attempt. The job ends
   with an attempt that nothing closes. `docs/benchmarks.md` asks for "no stuck
   `RUNNING` attempts after lease recovery".
2. *An outcome for an older claim.* Ownership is compared by worker. A late slot
   can give back the job that another slot of its worker is executing. When the
   worker then claims the job again, the executing slot passes every check and
   commits success for the older claim.
3. *Events out of order.* The LeastBytes balancer ignores the message key, so
   the events of a job are spread over partitions, which have no common order.
   With one partition the same property fails in another way: after a failed
   publication the batch goes on, and a later event of the job is stored first.

Four smaller observations are built into the models. `ReleaseClaim` writes
no event, so `TimelineAgrees` excepts a RETRY_SCHEDULED job whose last event is
job.started. In the situation of item 2 a worker may also write back an older
retry count; the budget properties hold all the same. A reader of the registry
may remove a worker right after its heartbeat, so a live worker can be missing
from the list until its next one; `Rediscovered` is what remains. A
bootstrap with a key that exists is answered with that client, whatever its
tenant and role and even if it is revoked.

`ExclusiveExecution` is checked with one slot per worker. Slots of one worker
share the lock's owner value, so a slot that ends late releases the key its
sibling holds, and the property does not hold with two.

### Bounds

- Two workers and one job contain every race about a lease: an old owner, a new
  owner and recovery. A third attempt lets a claim be lost twice. Jobs interact
  only through batches and requeueing, which `job_store` and `worker_slots`
  cover with two jobs.
- Budget 0 is the boundary where the first failure kills the job. It is
  reachable with `JOB_DEFAULT_MAX_RETRIES=0`. Budget 2 leaves room for a retry
  by the worker and one by recovery.
- `MaxAttempts` is the only bound on a job's history. At the bound a job is no
  longer claimed, which can only end behaviours, and leaves no job RUNNING.
- Three requests are a create, its retry and a competitor, or two operators and
  a job's creation. A second requeue would need a job, its
  copy and a third job, so requeueing is checked here and not in `job_store`.
- In `transactions` two sessions give every pairwise conflict and the circle of
  two; a batch of two jobs lets a claim or a recovery hold several rows. Pausing,
  resuming and retrying have the single statement that cancelling starts with,
  so only the latter is run.
- In `access` three commands are a create, a revocation and a repeated create;
  two keys and clients let them meet or miss. A request reads rows and writes
  only last_used_at, which nothing reads, so one request is enough.
- In `outbox` a second replay can follow the mark of the first.
- In `rate_limiter` TTL = period + skew is the tightest case the assumption
  admits, and 12 seconds let the bucket expire twice.
- Symmetry is used over interchangeable identifiers where the
  run checks only invariants and step properties, never with liveness.
- Deadlock checking is off where the system may really stop: jobs finished,
  events published, requests answered or bounds reached. Registry, Transactions
  (where a circle can always be aborted) and the ordering run check it.

### Fairness

- *Workers.* A worker that never stops keeps polling and the slots of a live
  worker keep working: the loops have no exit but the context, handlers have a
  timeout and every call returns. A lease expires unless a handler keeps renewing
  it, and run_at comes. A job that is expired, or claimable, at poll after poll
  is recovered, or claimed, at some poll (strong fairness); that fails only if
  the database refuses every time, or if jobs of a higher priority keep coming,
  of which the models have finitely many. Finalization need not ever succeed.
  Nothing is assumed of the polling of a worker in `MayStop`.
- *Relays.* A live relay keeps calling; leases and backoffs run out. For a
  reliable relay, claims, publications and marks do not all fail for ever
  (strong fairness), but any single event may fail as long as others succeed.
- *Registry.* A running loop beats, a stopped worker's key expires, somebody
  keeps listing, and not every GET and SREM about a worker fails. Nothing but a
  reader removes members, so `Forgotten` needs that.

## Proofs

`tlapm <module>.tla` checks the proofs of each of the eight `...Proofs` modules
in 3 to 15 minutes. An assumption named below is an ASSUME of the module that
declares the constants; TLC evaluates it in the runs.

**JobStoreProofs**, from `StoreAssumption` (NULL is no job or worker, budgets are
naturals, the bounds positive), for any jobs, workers and budgets:

- `TypeCorrect`: TypeOK is inductive by itself.
- `StepsAreLegal`: the action property LegalSteps. The guards of each
  transaction suffice for it, given the types.
- `TimelineReportsState`: TimelineAgrees, with the addition that a RUNNING job's
  last event is job.started, which a returned claim leaves behind
  (`TimelineInv`).
- `StoreCorrect`: the inductive invariant `StoreInv`. The single properties are
  not inductive. That FailExecution stays in the budget needs the attempt's
  number to be in the budget; that it writes the first dead letter needs the job
  to be RUNNING and so without one; that a claim may append needs the absence of
  an owner; and a fresh row is only fresh if absent jobs have left no trace
  (`AbsentIsBlank`).
- `OwnersRun`, `ClaimsAreConsistent`, `BudgetKept`, `AttemptNumbersBounded`,
  `DeadLettersAreUnique` and `RequeuedAtMostOnce` are its consequences.

The argument goes action by action: a `...Type` lemma and a `...Inv` lemma for
each transaction, on top of lemmas about attempt rows and about clearing locks.

**TransactionCommitProofs**, **TransactionIsolationProofs** and
**TransactionProofs**, from `StoreAssumption` and `TxnAssumption` (NULL is no
session, row version or transaction; operators request operations that exist),
for any number of sessions, jobs and workers:

- `TransactionsCorrect`: the inductive invariant `TxnInv`. A commit is a step of
  the store only if everything that its transaction has read or matched in
  earlier statements still holds. `ReadsHold` says so of each open transaction:
  the versions it has written are those that its UPDATE would write now, the
  WHERE clauses that matched still match, the attempts it closes are still
  RUNNING, and the identifier it has drawn is still unused. `Progress` says which
  rows have been written at each statement, `LocksMatchWrites` and
  `RequeuesApart` that these rows are locked.
- The first module shows that a commit under `TxnInv` is the corresponding step
  of JobStore, for each kind of transaction. The second one shows that what the
  invariant says of one session survives the steps of all others. It collects
  what an open transaction relies on in `Kept`: its own rows are as they were,
  but for leases that expire and jobs that become due, attempts are only
  appended, and its dead letter is not requeued. Commits, single statements
  and time keep it because the rows are locked. The third module goes through
  the statements of the session itself and assembles the theorems.
- `TransactionsImplementStore`: TxnSpec implies StoreSpec. With it all theorems
  about the store hold for the interleaved statements.
- `LocksAreReleased`: LocksMatchWrites.
- `DeadlocksInvolveFailure`: OnlyFailuresDeadlock. It needs the converse of
  LocksMatchWrites, that a session has locked nothing but what it has written
  (`LocksAreWrites`, inductive on top of TxnInv). Somebody who is waited for has
  passed the first statement. Unless it reports a failure, it then waits
  for an attempt of a job it has locked, and only a FailExecution locks such an
  attempt without the job.

**JobServiceProofs**, from `StoreAssumption` and `ServiceAssumption` (NULL is no
tenant, key or hash, a refusal is not a job, and requests ask for what exists):

- `ServiceCorrect`: the inductive invariant `ServiceInv`. `ColumnsInv` ties the
  tenant and key columns to the rows that exist and makes keys unique;
  `HandlersInv` says that a request between two calls has not been answered, and
  that every answer still holds: the job is there, has the request's tenant, and
  is the one created, cancelled or requeued for it.
- `ServiceImplementsStore`: ServiceSpec implies StoreSpec.
- `CreateIsIdempotent`, `TenantsAreIsolated`, `CancelIsFinal`,
  `RequeueIsExclusive` and `ServiceTypeCorrect` are consequences of the
  invariant. That a cancellation is final rests on the store's steps being legal.

**WorkerServiceProofs**, from `StoreAssumption`, `BackoffAssumption` and
`WorkerAssumption`, for any workers, slots and jobs:

- `WorkersImplementStore`: WorkerSpec implies StoreSpec. Each step of a worker,
  a slot or a renewer is a transaction of the store or leaves the store alone.
  Finalizing needs that a busy slot's claim names an attempt that exists, so
  the step lemma rests on the invariant below.
- `WorkerCorrect`: the inductive invariant `WorkerInv`. `ClaimsAreDisjoint` is
  not inductive: `SlotsAndBatches` adds that a slot holds a claim exactly while
  it is busy, and that only a sending loop has a batch. Claims are new because
  their attempt numbers lie behind all rows, and rows are never deleted or given
  to another worker; every other step only drops or moves claims.
- `WorkersHoldDisjointClaims` and `WorkerTypeCorrect` are its consequences.
- `HandlersRunAlone`: ExclusiveExecution, under the hypotheses that a worker has
  one slot and that a Redis key outlives the handler it protects (`RedisTimely`),
  for any number of workers. The invariant is that the key of a job belongs to the worker that
  runs its handler (`KeysAreHeld`). The property does not hold with two slots,
  see above.

**OutboxProofs**, from `OutboxAssumption`, for any relays, events, partitions,
batches and replays, calm or not:

- `OutboxCorrect`: the inductive invariant `OutboxInv`. `PublishedWasStored` is
  not inductive, because it says nothing of a relay about to mark. `LeasedMarkWasStored` says
  that a relay about to mark an event that it has still leased has seen Kafka
  store it since the last replay: a replay clears the lease, and the mark checks
  it. `HandlingHasEvent` says that a relay handling an event has one.
- `PublishedIsStored` and `OutboxTypeCorrect` are its consequences.

**ServerProofs**, three components around the API:

- Registry: `RegistryCorrect`, the invariant that what a reader has collected is
  among the workers seen alive during its call; `ListedWorkersWereAlive` and
  `RegistryTypeCorrect` follow.
- Access, from `AccessAssumption` (NULL is no row, principal, request or
  command): `AccessCorrect`, the inductive invariant `AccessInv`. A key has at
  most one row; a command that has answered names a client with its key, or one
  that is revoked; who was barred when a request came is still revoked, and a
  request past authentication carries the tenant and role of a client that has
  its key and was not barred.
  `RevocationIsPermanent`, `HandlersRunAsClient`, `BootstrapIsRepeatable` and
  `AccessTypeCorrect` follow; `RevokedKeysStayDead` is an action property.
- RateLimiter, from `RateAssumption`: `BucketCorrect`, the inductive invariant
  `RateInv`. The window bound is not inductive, because it says nothing of the
  tokens still in the bucket. `WindowInv` says that what has passed and what is
  left together stay below a full bucket plus the refill up to the bucket's own
  clock. `BucketInv` bounds that clock, and the debt that skewed clocks can
  cause. `RateIsBounded`, `NobodyIsLockedOut` and `BucketTypeCorrect` follow. A
  forgotten bucket is harmless because TTL >= Period + Skew: it would have been
  full by then.

Only model-checked:

- BackoffHonoured. It is about the value of a recursively defined delay and
  powers of two, which needs an induction the provers cannot instantiate.
- Liveness (JobsSettle, EventuallyPublished, Rediscovered, Forgotten): fairness
  and ENABLED are outside the prover.

## Not modelled

- HTTP routing beyond the roles of the routes, CORS, formatting, metrics,
  logging, configuration and connection set-up have no state the properties
  depend on. The dashboard is a client of the API.
- Running without authentication, which is for local development: every request
  then has the system principal.
- The inside of the webhook handler: it is its outcome. URL checks, redirects
  and headers keep no state.
- The repository's read-only listings, and methods without a caller outside
  tests (MarkSucceeded and the like).
- Priorities, which only order a claim's rows: a claim takes any subset.
- The service and the database are taken to share a clock, so a PENDING job is
  due.
