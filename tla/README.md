# Order pipeline: a TLA+ verification project

The repository is a food-order pipeline: an API accepts orders, worker processes
move each order from `placed` to `delivered` by calling a restaurant and a
courier, and Postgres holds the orders, a durable task queue and an audit log.
This directory models the pipeline, checks it with TLC and proves its central
properties with TLAPS.

Paths below are relative to the repository root (`src/`); `backend/` is
`src/backend/`.

## 1. Inventory

| Component | State it keeps | Operations | Correct when |
|---|---|---|---|
| State machine and constants (`backend/common/state_machine.py`, `task_types.py`, `event_types.py`) | none | happy path, terminal test | orders move along the happy path, one step at a time |
| Durable queue (`order_tasks`; `backend/worker/tasks.py`, `backend/api/*_store.py`) | per row: type, target, status, attempts, next run, deadline, lease | claim, release, complete, reschedule, fail, cancel, retry, follow-up | an order that can move has exactly one unfinished row; the retry budget is exact |
| Worker task processing (`backend/worker/tasks.py`) | the claimed task and the pending answer, in memory | four handlers, each prepare, call, outcome | a worker that lost its task writes nothing; no answer is applied to an order that moved |
| Worker process (`backend/worker/main.py`) | idle delay, stop flag | poll loop, start, stop | an exception or a crash loses no task |
| Order store (`backend/api/order_store.py`) | `orders`, `order_events` | create or get, cancel | creation is all or nothing; a cancelled order never moves again |
| Task store (`backend/api/task_store.py`) | none of its own | reopen failed tasks | reopening continues the same stage, or ends as a no-op |
| Downstream simulator (`backend/downstream_sim/app.py`) | kill switches, in memory | five endpoints, set kill switch | an answer depends only on the clock and the time the caller sends |
| Schema (`backend/alembic/versions`) | the tables, the unique indexes, the foreign keys | none | a key or an active task exists once; concurrent statements add up to the transactions they belong to |
| Heartbeat (`backend/worker/heartbeat.py`) | `workers.last_seen_at` | upsert | a live worker is shown active |
| Dashboard read model (`backend/api/dashboard_store.py`) | none | overview, order detail, attention list, latencies | no stalled order is overlooked; what is shown fits together although it is read in pieces |
| Load generator (`backend/loadgen/app.py`) | run flag, counters, producer, in-flight set, semaphore | start, stop, change rate, send | never more than `max_orders`; permits balance; a stop ends, with final counters |
| API routes (`backend/api/app.py`) | none | translation to HTTP | every request is answered |
| Connection pool (`backend/common/db.py`) | the pool | configure, open, close | no connection is lost; the pool outlives the work |
| Frontend (`frontend/src/App.jsx`) | browser state | polling, display | |

**Interaction.** API and workers never call each other: they meet in the three
tables. A worker claims a row (`FOR UPDATE SKIP LOCKED`, 30 s lease), prepares the
call in a second transaction, calls the downstream service with no transaction
open, and writes the result in a third. Cancel and retry write the same rows at
any time in between. The load generator is an ordinary client of the API.

**What is hard.** Everything happens between the transactions: a lease that runs
out while the call is under way, a second worker on the same task, a cancellation
while an answer is on its way, a crash with the row left `running`, an operator
who reopens a task of a cancelled order, timestamps taken before the lock they are
written under. Beside the pipeline: requests that race for one key, a `stop()` that
waits while a `start()` comes in, responses put together from several snapshots.
`PROJECT.json` lists these hazards at their lines.

## 2. Modules

| Module | Models |
|---|---|
| `OrderStates` | the shared constants |
| `OrderLifecycle` | abstract specification: what the pipeline promises about one order |
| `DownstreamSim` | kill switches, and the answer an endpoint gives now |
| `TaskRows` | one `order_tasks` row and every statement that writes it |
| `OrderPipeline` | the tables, the workers, the API calls, the simulator and the clock together |
| `PipelineProperties` | the properties of `OrderPipeline` and its mapping to `OrderLifecycle` |
| `PipelineProgress` | the pipeline without a clock and with fairness, for liveness |
| `ClaimQueue` | the order in which rows are claimed, and what each write does to a row's place |
| `RowLocks` | workers, cancel and operator retry on one order, by statements, row locks and snapshots |
| `IdempotentCreate` | abstract specification: what `POST /orders` promises |
| `OrderIntake` | `POST /orders` by statements, with the connection pool and faults |
| `WorkerProcess` | start, loops, stop and death of a worker process, its heartbeat and pool |
| `LoadGenerator` | the load generator at the level of its suspensions |
| `Dashboard` | the dashboard's queries and requests beside the running `OrderPipeline` |
| `MCOrderPipeline`, `MCOrderIntake`, `MCDashboard` | instances for TLC; the other modules are run as they are |
| `PipelineProofs` | theorems about `OrderPipeline` |
| `TrailProofs` | theorems about the events of `OrderPipeline`, and about `Dashboard`, which reads them |
| `ProgressProofs` | theorems about `PipelineProgress` |
| `RowLocksProofs`, `ClaimQueueProofs`, `IntakeProofs`, `WorkerProcessProofs`, `LoadProofs` | theorems about the module of that name |

`OrderLifecycle` is implemented three times: by `OrderPipeline` (one step per
transaction, with time), by `RowLocks` (one step per statement) and by
`PipelineProgress` (no clock, with fairness). `Dashboard` extends
`PipelineProperties`, so its requests interleave with every step of the pipeline.

### How `OrderPipeline` corresponds to the code

An action is one database transaction or one downstream call; it has the name of
its function without the leading underscore.

- `orders`, `tasks`, `events` are the three tables, per order; tasks are in
  insertion order, events in commit order. `worker[w]` is what the process
  remembers between two transactions; `killed` the simulator's memory; `now` the
  clock. One clock serves all: the deployment is a single Docker host.
- `claim_one_task`, `prepare_*`, `call_*`, `finalize_transition_task` and
  `reschedule_*` are the steps of the four `process_*_task` functions. Each outcome
  action re-reads the task and tests ownership (`owned_task_check_result`) as the
  code does; `skip_after_claim` is the early return when the test fails.
- The terminal and the stale no-op of the code both complete the task; they are
  one branch, `~in_source_state`.
- `run_task_poll_loop_exception` is an exception anywhere after the claim: the
  transaction rolls back, the lease stays. `crash` ends a process; a restart has a
  new worker id, so it is another element of `Workers`.
- `create_or_get_order`, `cancel_order`, `retry_failed_tasks_for_order` are the
  API's writes. A second request with a known key writes nothing and is no step.
- A call may always end in an error (timeout, broken connection, 5xx, malformed
  answer); with the kill switch on it ends in nothing else.

**Time.** `claim_one_task` uses the database's `now()`. All other functions take
their timestamp on entry, before they have a connection or a lock. So an outcome
is dated at any time from the answer to the commit, and an API call at any time up
to `API_LAG` before its commit.

**Why a transaction is one step.** Postgres runs at READ COMMITTED, so this needs
an argument; `RowLocks` is that argument, checked (`row_locks`). A
worker's transaction holds `FOR UPDATE` on its task from its first statement on, and
re-reads the row under that lock; the order it joined was read before, without a lock,
but while the task is running under the worker's name the order changes only through
`cancel_order`, which must get past that task first (`OwnedOrderIsCurrent`).
`cancel_order` holds `FOR UPDATE` on the order from its first statement on; a
finalization that started first is waited for, and its follow-up is visible to the
statement that cancels the tasks. The operator retry writes tasks without locking the
order, but the event it inserts has a foreign key to `orders`, which conflicts with the
lock of a cancellation, so the two cannot overlap in a way that leaves a reopened task
unseen. Hence the optimistic test on `orders.version` in `_finalize_transition_task`
is a second line of defence that these locks never let fire. Cancel and finalize take
their locks in opposite orders; when they meet, Postgres aborts one
(`abort_deadlocked`). An aborted cancel has no effect, an aborted finalization is
`run_task_poll_loop_exception`.

**Left out.** `updated_at` and `completed_at` of tasks (no transition reads them;
`updated_at` only orders the claim, which is `ClaimQueue`; here a claim takes any due
row), `dedupe_key` (a function of order, type and target), texts of errors, references
of restaurants and customers, HTTP bodies. `courier_ref` is kept as "present". Rows
of one operator retry are one event that names the set of reopened tasks.

### How the other modules correspond

- **`PipelineProgress`.** Steps have the names of `OrderPipeline`. Per order there is
  the last task row, the only one that can be active (`StageQueue`). The clock is
  replaced by facts that become true: the row is due, its deadline has passed, its
  lease has run out, the simulator's delay is over.
- **`ClaimQueue`.** `before` is the `ORDER BY` of the claim; each action is a statement
  that writes a row, by what it does to `updated_at`, `next_run_at`, `created_at` and
  the lease. A claim skips any set of locked rows. `overtaken` is a history variable.
- **`RowLocks`.** `tx[t].pc` is the next statement of a transaction. A statement that
  locks chooses its rows in its snapshot (`choose_*`), then waits for each and looks at
  it again. `order_lock`, `key_share` and `task_lock` are the lock modes the code's
  statements take.
- **`OrderIntake`.** `request[r].pc` is the next statement of the request: pool, insert,
  event, task, commit or the lookup after a conflict. An uncommitted row is visible
  only to an insert of the same key, which waits for it. `strip` is the conversion of
  the header: two headers may have one key, a missing or blank one has none.
  `database_error` at the commit may leave the rows written; `crash` takes all requests
  of the process.
- **`WorkerProcess`.** One action between two awaits of `run_worker`,
  `run_heartbeat_loop` and `run_task_poll_loop`. Time is kept as ages, so it has no
  bound; `tick` cannot pass a timer that is due or a thread at its limit.
- **`LoadGenerator`.** Coroutines interleave only where one is suspended, and no section
  under `self._lock` contains an await, so what lies between two suspensions is one
  action. `stop` ends at its first await; `stop_joined` and `stop_drained` are the rest.
- **`Dashboard`.** The queries are set definitions over the tables of `OrderPipeline`.
  `request` is a response under way: one step per statement, each with its own
  snapshot. The order of `lag(..)` is modelled down to the spelling of states, which
  breaks ties of dates.

## 3. Runs

| Run | Instance | Shows |
|---|---|---|
| `pipeline` | 1 order, 2 workers, kill switch on the ready check, 4 ticks, lease of 1 tick, 2 attempts, 1 retry, 1 crash | the properties of the pipeline, in every interleaving of the two workers with cancel, retry, crash and lease expiry |
| `two_orders` | 2 orders, 2 workers, no delays, dashboard requests | responses with commits between their statements |
| `outage` | 1 order, 1 worker, kill switch on the ready check, 3 attempts, 2 retries, API lag of 1, 5 ticks | the budget, the attention list and the latencies over long retry sequences |
| `progress` | 1 order, 2 workers, 2 attempts, 2 faults, 1 retry | open work ends, every order settles |
| `claim_queue` | 2 rows, 5 ticks, delays of 1 and 2, lag of 1, lease of 0, 2 retries | no row hides another |
| `row_locks` | 2 workers, 1 cancel, 1 retry, 1 expired lease, 1 fault | the statements implement the lifecycle, every transaction ends |
| `intake` | 3 requests, 4 headers, 2 keys, 2 bodies, a pool of 2, 2 faults | create requests are atomic and all are answered |
| `worker_process` | the code's intervals (10 and 30 s, 1 to 5 s), writes of up to 3 s, work of up to 2 s, 1 miss in a row | stop, pool and heartbeat |
| `load` | 1 operator and the shutdown, 1 permit, 2 runs with a cap of 2 or none, 2 rates, 1 change | stop, cap, permits, counters and rate, with starts that overlap a stop |
| `retry_window` | 1 worker, a preparation longer than its deadline | violation, finding 1 |
| `timeline` | 1 worker, API lag of 1 | violation, finding 2 |
| `load_stop` | a start while a stop is pending | violation, finding 3 |

Deadlock is checked in `worker_process`. Elsewhere it is off, because the behaviours
end: at the bound of the clock, or when all requests, runs and orders of the instance
are done.

**Why the bounds are enough.** Two workers give every takeover; one tick of lease is
less than the ticks of a behaviour, so leases expire at each phase; 2 attempts give
both the rescheduling and the failing error, 3 also the capped backoff; one tick of
delay gives "not yet" before "done" for each kind of task; with four ticks an order
can be delivered, and cancelled or failed at every stage. Three requests give a winner,
a waiting loser and a bystander, on a pool one connection too small. A deadlock needs
two transactions, and every pair of kinds is there. Two runs and a cap of two give a
producer that outlives its run and a cap that two producers meet; one permit makes the
producer wait for it. Two rows give every overtaking, and the theorem covers the rest.
One miss is what the real intervals tolerate with writes of 3 s (`WorkerAssumption`).
Worker and order ids are only compared where a symmetry set is declared, and no
liveness is checked under one. What `pipeline` checks with one order is proved for any
number of them (section 4).

### Properties

| Property | Says | Proved |
|---|---|---|
| `TypeOK` (one per module; `QueueTypeOK` in `ClaimQueue`) | the state is well formed | yes |
| `StageQueue` | an order that can move has exactly one unfinished task, its last, the one of its state; the earlier ones are completed; a delivered order has nothing left | yes |
| `OwnedCallIsCurrent` | a worker with a call under way that still owns its task works for an order that has not moved | yes |
| `AttemptBudget` | active tasks have attempts left; a failed one used its last or met its deadline | yes |
| `PollInputsPresent` | deadline, begin event and courier of a poll are there | yes |
| `AuditTrail` | the events tell the history of the order, without gap or repetition | yes |
| `StageDelayRespected` | no stage ends sooner than the downstream service needs | yes |
| `LateWorkerWritesNothing` | a worker that lost its task leaves the database alone | yes |
| `Lifecycle`, `UntimedImplementsLifecycle`, `StatementsImplementLifecycle` | the three models implement `OrderLifecycle` | yes |
| `OpenWorkEnds` | work that is pending or running ends, whatever the services answer | no (liveness) |
| `EveryOrderSettles` | a placed order is delivered or cancelled, or has a failed task to show | no (liveness) |
| `BoundedOvertaking` | while a row stands ready, each other row is claimed ahead of it at most once | yes |
| `OwnedOrderIsCurrent` | a worker that locked its task has seen the order as it is until it commits | yes |
| `EveryTransactionEnds` | no transaction waits for ever, lock cycles included | no (liveness) |
| `OneOrderPerKey` | a key has at most one order | yes |
| `WholeOrders` | order, event and first task appear together | yes |
| `PoolBalanced` | every way out of a request gives its connection back once | yes |
| `CreateIfAbsent` | overlapping requests implement `IdempotentCreate` | yes |
| `EveryRequestAnswered` | every request ends with an answer, or its process died | no (liveness) |
| `PoolOutlivesWork` | no thread works in the database without the pool | yes |
| `LiveWorkerIsActive` | a process that runs is inside the dashboard's window | yes |
| `StopEndsProcess` | a signal ends the process | no (liveness) |
| `SlotsAccounted` | each permit is free, with a request or just handed over | yes |
| `CountersAddUp` | attempts are created, reused, failed or under way, and of this run | yes |
| `CapRespected` | a run sends at most `max_orders`, two producers or not | yes |
| `NoStaleSleep` | a producer never sleeps on an interval of an older rate | yes |
| `StopReturnsFinalCounters`, `StopReturns` | a stop returns, and nothing is under way then, unless a start overlapped it | the first; the second is liveness |
| `ClientOutlivesRequests` | the HTTP client is closed after its last use | yes |
| `CappedRunEnds` | a run with `max_orders` ends by itself | no (liveness) |
| `AttentionMissesNobody` | an order that is not listed has a healthy task and moved recently | yes |
| `StageLatencyIsReal` | each latency sample is one real step, and the stages add up | yes, with positive delays |
| `DetailIsCovered`, `OverviewAddsUp` | a response shows no state without the work and events behind it | yes |

Each property of a run has a mutant, a plausible bug in the code it is about, kept
beside the original definition. `NoStaleSleep`, `ClientOutlivesRequests` and the two
about `stop()` fail once a start has been accepted while a stop is pending (finding 3),
which the history variable `overlap` records; the others about the load generator hold
throughout.

### Fairness

- `PipelineProgress`: time passes (a row becomes due, a deadline passes, an abandoned
  lease runs out). A worker that has a task goes on, and its call returns, if only by
  the client's timeout. Claims are strongly fair per order: a worker polls without end,
  and a row that is claimable again and again is not passed over for ever, which is
  `BoundedOvertaking` of `ClaimQueue`. The delay of a command ends, because the
  simulator's does; nothing is assumed of the two polls, whose deadline ends them, and
  nothing of errors. Crashes, exceptions and outlived leases are finitely many, and one
  process survives (Compose restarts a worker).
- `RowLocks`: a session that can run does; the database looks for deadlocks.
- `OrderIntake`: each request has a thread of its own that runs; a wait for the pool
  ends by its timeout.
- `WorkerProcess`: time passes, the two coroutines and the main one run. Nobody has to
  send a signal.
- `LoadGenerator`: the event loop runs what can run, timers fire, a request ends by
  the client's timeout of five seconds. Operators may do nothing.

### Findings

1. `retry_window`: a second operator retry of a poll opens a longer window than
   the first (`backend/api/task_store.py:79` against its comment at 48-49).
2. `timeline`: a cancellation may be dated before the move it follows
   (`backend/api/order_store.py:205` against `backend/api/dashboard_store.py:698`).
3. `load_stop`: a start accepted while `stop()` still waits for its producer lets the
   stopped producer send orders of the new run (`backend/loadgen/app.py:174` against
   the docstring at 162). The cap and the permits hold all the same.

Known differences that need no run: leases are not renewed, although `docs/design.md:321`
says so; a failed task does not fail its order (`docs/design.md:306`, 326;
`docs/courier-slice.md:230` names it as open); the detail view's limit keeps the oldest
events (`backend/api/dashboard_store.py:713`), so that after 45 operator retries the
trail ends before the order's present state.

## 4. Proofs

### The pipeline (`PipelineProofs`)

The theorems hold for every finite or infinite set of orders and workers, all
delays, leases and budgets, under the assumptions `DelayAssumption`,
`TaskRowsAssumption` and `PipelineAssumption` (durations are naturals, at least one
attempt, `NoWorker` and `NoOrder` are no ids).

**Inductive invariant.** `Inv == TypeInv /\ QueueInv /\ OwnedCallIsCurrent`.

- `TypeInv` is `TypeOK` and the fact that an order not yet placed has no tasks.
- `QueueInv` is `StageQueue` order by order, in the two parts a step disturbs
  separately: `Line`, the tasks are the stages in order and all but the last are
  completed, and `Fits`, the length of the line and the status of its last task are
  what the order's state says. It adds that no order is in state `failed`, which no
  code writes.
- `OwnedCallIsCurrent` follows from neither: it relates what a worker remembers to
  the order row. Its proof needs `QueueInv` (a step that moves an order completes or
  cancels the one task somebody can own), and the refinement needs it, since the
  error path of a transition task may give the task up without looking at the order.

**Argument.** `StepKinds` sorts every step into a few kinds: a claim, a quiet step
that changes no table, a step that settles one task, an advance, an API call, a step
of the clock or the simulator. Each kind preserves each conjunct by what it does to one
row or one order; lemmas on `TaskRows` say what each statement does to a row.
`WorkerFates` says the same from the side of a worker: a step moves it, takes its task
away, or spares its task and its order.
`BudgetExact` follows the same kinds with `RowBudget` per row. `LateWorkersAreFenced`
is an action property read off the steps of a worker that fails the ownership test.

**Refinement.** `PipelineImplementsLifecycle` maps each order's queue to `none`,
`open`, `failed` or `done` (`work_of`). With `Inv`, a claim, a rescheduling and a lost
task change nothing abstract; a finalization is `Advance`, or `Discard` for a reopened
task of a cancelled order; the last error and an expired deadline are `GiveUp`; the API
calls are `Place`, `Cancel`, `Reopen`.

### The claim order (`ClaimQueueProofs`)

`NoRowHidden` is `BoundedOvertaking` for any set of rows, delays, lease and lag, from
`QueueAssumption`. It is not inductive: that a row was overtaken once does not say
that it will not be again. The invariant is `QueueInv == QueueTypeOK /\
OvertakerIsLater`: whoever overtook a row carries a later `updated_at` than it, and no
row is dated in the future. So the overtaker stands behind the row in the order of the
claim until one of the two is written anew. That needs each write of an owner to be
dated no earlier than its claim; the API's writes may be dated earlier, but by them a
row enters or leaves the queue.

### The create path (`IntakeProofs`)

For any sets of requests, headers, keys and bodies, any pool and any number of faults,
from `IntakeAssumption`. The invariant is `Shape /\ Pool /\ Asked /\ RowsAreAsked /\
KeysAreHeld /\ OneOrderPerKey /\ WholeOrders`:

- `KeysAreHeld` is what `OneOrderPerKey` needs to be inductive: two open transactions
  never hold one key, an open transaction's key is not in the table yet, and a request
  at its lookup finds its key there.
- `Pool` is `PoolBalanced` and that the requests holding a connection are finitely many,
  so that the set of requests may be infinite.
- `Asked` and `RowsAreAsked` tie a request's phase, its answer and its row together.

`KeysAreUnique`, `OrdersAreWhole` and `PoolIsBalanced` are conjuncts of it.
`IntakeIsIdempotent` is the refinement: statements before the commit change nothing
abstract, the commit is `Create` (also one whose answer was lost), the lookup is `Reuse`
(`KeysAreHeld` excludes its 500), a timeout or an error is `Fail` of one request and the
crash `Fail` of all that were served.

### The audit trail (`TrailProofs`)

`HistoryIsWhole`, `StepsTakeTheirTime` and `PollsHaveInputs` are `AuditTrail`,
`StageDelayRespected` and `PollInputsPresent`, under the assumptions of the pipeline.
They hold together or not at all, from one invariant on top of `Inv`:

- `Trail`: for a placed order the last step of the trail ended in the state of the
  order, the version counts the moves, each move starts where the one before it ended,
  and the k-th transition is the one of stage k and names task k, which is completed.
  As a task is completed once, no two transitions name the same task, so there is one
  transition to each state. And each task but the first has the transition that
  created it.
- `Timely`: while a worker still owns its task, the date its call sends along is that of
  the last step of the trail, and a success was answered only when the service had its
  time since. This is where the trail meets the workers' memory: `StepDate` shows that
  what the prepare functions load is that date, because only one event can match, and
  `WorkerFates` that no step adds to the trail of an order whose task somebody owns,
  except the owner's own and an operator retry, which is no move.
- `Polls`, `Delays` and the courier of an order with five tasks are what remains.

Trails are spoken of by the positions of their moves (`Moves`, `Before`, `Rank`) and not
by filtered copies, so that an append changes them in a way the provers can follow
(`TrailAppend`).

### The dashboard (`TrailProofs`)

For the orders, workers and durations of the pipeline, any thresholds, windows and
limits, from `DashboardAssumption` in addition (the orders are finitely many, since the
overview counts them). All four properties of `Dashboard` are theorems.

- `DetailsAreCovered` and `OverviewsAddUp` are about what a response read in earlier
  snapshots, so neither can be had from the tables as they are at the end. The
  invariant `RequestInv` says of a request under way that what it has read is covered
  by the tables as they are now. It stays so because an order only grows (`OrderGrows`,
  from the step kinds of the trail): it is never unplaced, its moves keep their ranks,
  no task goes away and no completed task is undone. When the statement that reads
  the covering table runs, "covered now" becomes "covered in the response". That is why
  the order of the statements matters, which is what the mutants change.
- The counts of `OverviewsAddUp` are cardinalities. The orders in a state that implies m
  completed tasks give a block of pairs `By(state) \X (1 .. m)`; the blocks are disjoint
  subsets of the tasks, and `TowerSize` adds up their sizes, one block after the other,
  without induction over the orders. `Accounted` keeps the sum as the existence of so
  many tasks, which later steps can only add to.
- `NobodyIsMissed` needs that a task that is pending without an error is due within one
  delay of the schedule (`TasksSoon`). It is an invariant of its own, about the dates
  that `StepKinds` abstracts from, so its proof goes through the actions: a statement
  that leaves a task pending either records an error or adds a delay of the schedule to a
  time that is not in the future, and the clock only grows. `QueueInv` then gives the
  one unfinished task of an order that can move.
- `StagesAreReal` follows from `Inv` and `TrailInv` in each state. The k-th transition
  comes directly after the k-1st (`StageBefore`, by ranks), and `Delays` dates it later
  by what the service needs. If that is never nothing, the dates grow from stage to
  stage, the query's order is the order of the moves, and the samples telescope. The
  theorem assumes `DelaysArePositive`, which the code provides:
  `_read_positive_float_env` in `backend/downstream_sim/app.py:209-221` passes no other
  value and the defaults are positive. Without it two transitions can share a date,
  and the tie is broken by the spelling of their states.

### The untimed pipeline (`ProgressProofs`)

From `ProgressAssumption`, for any orders, workers, budgets and faults. The liveness
runs would mean little if the untimed model were not a lifecycle any more, so it is
shown to implement the same `OrderLifecycle`. `Inv == TypeOK /\ QueueInv /\ WorkerInv`:
`Fits` says of each order that its one row is the task its state calls for, and
`WorkerInv` that a worker which has called and still owns its task works for an order
that has not moved, the untimed `OwnedCallIsCurrent`. The steps are sorted into quiet,
settling and advancing ones of a worker, claims, API calls and facts that come true
with time; a fact changes no status (`FactKeeps`), so it is a stutter of the lifecycle.

### Row locks (`RowLocksProofs`)

For any number of workers, cancel calls and operator retries on one order, from
`LocksAssumption`. `OwnedOrderIsCurrent` is about two reads of a worker and is far from
inductive. `LocksInv` adds: every lock is held by exactly the transaction whose next
statement needs it (`Locks`); the committed rows are a line of work (`Queue`); what an
owner read of the order is the order (`Owners`); a cancellation that holds the order row
has every active task in its list or in its hands (`Sweeps`), which fails without the
foreign-key lock of the retry's event; what a retry has locked is failed (`Reopens`).
`StatementsImplement` is the refinement: reads, waits, deadlocks and rollbacks are
stutters, the commits are the steps of `OrderLifecycle`.

### The worker process (`WorkerProcessProofs`)

From `WorkerAssumption`: `PhaseInv` ties the loops and the pool to the phase of
`run_worker`, and `SeenInv` bounds the age of the heartbeat row by one round per miss
and the part of the round that is over. `LiveWorkersAreCounted` is then arithmetic: the
threshold of the dashboard is at least `MaxMisses + 1` rounds and a write.

### The load generator (`LoadProofs`)

From `LoadAssumption`, for any number of runs, callers, permits and requests.
`SlotsAccounted`, `CountersAddUp` and `CapRespected` hold with overlapping calls too.
They need that a request in flight has a number the counters have reached (`Numbered`),
that later runs have no producer yet (`Unstarted`), and that a suspended producer finds
room under the cap (`RoomWhenSuspended`), which is why the second of two producers does
not exceed it. `NoStaleSleep`, `ClientOutlivesRequests` and `StopReturnsFinalCounters`
are promised only as long as no start overlaps a stop (finding 3); `Solo`, `Fresh` and
`Draining` say, under that condition, that only the current run's producer is alive,
that a new rate is used or announced wherever a producer is, and that a stop that drains
waits for everything in flight.

### Only model-checked

- All liveness: fairness and `ENABLED` are out of the prover's reach. These are
  `OpenWorkEnds`, `EveryOrderSettles`, `EveryTransactionEnds`, `EveryRequestAnswered`,
  `StopEndsProcess`, `StopReturns` and `CappedRunEnds`.

Every safety property that a run checks is a theorem.

## 5. Plan

The plan of this project is done: what sections 2 to 4 list is modelled, checked and, but
for liveness, proved. What would extend it:

1. The claim order and the pipeline in one model, so that strong fairness of claims in
   `PipelineProgress` follows from `BoundedOvertaking` instead of being argued from it.
2. The remaining single-query lists of the dashboard.

### Not modelled

- Frontend: it renders, polls and keeps no state the backend depends on.
- Migrations harness, deployment, reading of environment variables: configuration,
  fixed before the system starts.
- Health routes, probes, throughput and task-health counts, lists of recent orders and
  events: single queries or constants, with no state and no condition to get wrong in
  an interleaving.
- The cancel and retry routes beyond the store functions they call: a translation of
  the result to a status code.
