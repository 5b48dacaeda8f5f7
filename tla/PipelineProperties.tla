--------------------------- MODULE PipelineProperties ---------------------------
(***************************************************************************)
(* What the pipeline must never do, whatever the interleaving of workers,  *)
(* API calls, lease expiries, crashes and downstream failures.             *)
(***************************************************************************)
EXTENDS OrderPipeline

\* STAGES[i] is the state an order is in while its i-th task is the current one.
STAGES == <<"placed", "confirmed", "preparing", "ready", "out_for_delivery">>

Live(o) == orders[o].state \in DOMAIN ORDER_TRANSITIONS

--------------------------------------------------------------------------------
\* The rows have the shape of their tables, and a worker that is at work knows
\* an existing task.
TypeOK ==
  /\ now \in Nat
  /\ killed \in [SIMULATED_SERVICES -> BOOLEAN]
  /\ orders \in [Orders -> OrderRow]
  /\ tasks \in [Orders -> Seq(TaskRow)]
  /\ events \in [Orders -> Seq(EventRow)]
  /\ worker \in [Workers -> WorkerState]
  /\ \A w \in Workers : worker[w].phase \in {"claimed", "calling", "answered"} =>
       worker[w].order \in Orders /\ worker[w].task \in DOMAIN tasks[worker[w].order]

\* No order is stranded and none has two lines of work: an order that can still
\* move has exactly one unfinished task, its last, and that is the task of the
\* state it is in; every earlier task is completed; a delivered order has
\* nothing left to run.  It rests on create_or_get_order and
\* finalize_transition_task writing order and task together, and on the
\* ownership test of every later transaction.
StageQueue ==
  \A o \in Orders :
    LET n == Len(tasks[o]) IN
    /\ n <= Len(STAGES)
    /\ \A i \in 1 .. n :
         /\ handler(tasks[o][i]) # "unsupported"
         /\ spec_of(tasks[o][i]).source_state = STAGES[i]
         /\ i < n => tasks[o][i].status = "completed"
    /\ orders[o].state = Absent => n = 0
    /\ Live(o) => /\ n > 0
                  /\ orders[o].state = STAGES[n]
                  /\ tasks[o][n].status \in {"pending", "running", "failed"}
    /\ orders[o].state = "delivered" =>
         n = Len(STAGES) /\ tasks[o][n].status = "completed"
    /\ orders[o].state = "cancelled" => n > 0

\* A worker whose call is under way or answered, and which still holds its task,
\* is working for an order that has not moved since: no answer is applied to a
\* later state, and a reopened task of a cancelled order never gets as far as a
\* call.  reschedule_transition_task depends on it, for it writes the task
\* without looking at the order.
OwnedCallIsCurrent ==
  \A w \in Workers :
    /\ worker[w].phase \in {"calling", "answered"}
    /\ Task(w).status = "running"
    /\ Task(w).locked_by = w
    => Order(w).state = spec_of(Task(w)).source_state

\* The retry budget is exact: work that can still run has attempts left, a task
\* that failed used its last attempt or ran into its deadline, and no error is
\* counted twice when an expired lease lets two workers run the same task.
AttemptBudget ==
  \A o \in Orders : \A i \in DOMAIN tasks[o] :
    LET row == tasks[o][i] IN
    /\ row.status \in ACTIVE_TASK_STATUSES => row.attempts < MaxAttempts
    /\ row.status = "failed" =>
         \/ row.attempts = MaxAttempts
         \/ row.last_error = "deadline" /\ row.attempts < MaxAttempts

\* What a poll needs was written with the move that created it: the deadline,
\* the event that dates the step and, for the delivery check, the courier.  So
\* the missing-input branches of the two prepare functions are never taken.
PollInputsPresent ==
  \A o \in Orders : \A i \in DOMAIN tasks[o] :
    /\ tasks[o][i].task_type \in POLL_TASK_TYPES => tasks[o][i].deadline_at # NoTime
    /\ tasks[o][i].task_type = "check_ready" => load_ready_check_task_row(o) # {}
    /\ tasks[o][i].task_type = "check_delivery" =>
         load_delivery_check_task_row(o) # {} /\ orders[o].courier_ref

--------------------------------------------------------------------------------
\* The audit trail.

\* Where a trail records that the order reached a state: at its creation and at
\* each of its moves.
Moves(trail) ==
  {i \in DOMAIN trail :
     trail[i].event_type \in {"state_transition", "order_cancelled"}}

Steps(trail) == {1} \union Moves(trail)

\* The step before move j, as a set with one element.
Before(trail, j) == Latest({i \in Steps(trail) : i < j})

reached(trail, i) == IF i = 1 THEN "placed" ELSE trail[i].to_state

\* How many moves there are up to and including move j.
Rank(trail, j) == Cardinality({i \in Moves(trail) : i <= j})

\* The events of an order tell its history without gap or repetition: they
\* begin with its creation, each move starts where the one before it ended, the
\* last one ended in the state the order has now, there are as many as its
\* version says, and the k-th move, if a transition, names the k-th task.
AuditTrail ==
  \A o \in Orders : orders[o].state # Absent =>
    LET trail == events[o] IN
    /\ trail[1].event_type = "order_created"
    /\ orders[o].version = Cardinality(Moves(trail))
    /\ \A i \in Latest(Steps(trail)) : orders[o].state = reached(trail, i)
    /\ \A j \in Moves(trail) :
         /\ \A i \in Before(trail, j) : trail[j].from_state = reached(trail, i)
         /\ trail[j].event_type = "state_transition" =>
              trail[j].task_ids = {Rank(trail, j)}

\* No step is recorded sooner after the previous one than the downstream
\* service needs for it, however often its task was retried, taken over or
\* reopened: the date each call sends along is the right one.
StageDelayRespected ==
  \A o \in Orders :
    LET trail == events[o] IN
    \A j \in Moves(trail) : \A i \in Before(trail, j) : \A t \in trail[j].task_ids :
      trail[j].occurred_at >=
        trail[i].occurred_at + Delay[o][spec_of(tasks[o][t]).service]

--------------------------------------------------------------------------------
\* Steps.

\* A worker that lost its task, to another worker after its lease ran out or to
\* a cancellation, leaves the database as it is, whichever answer it brings.
LateWorkerWritesNothing ==
  [][\A w \in Workers :
       /\ worker[w].phase \in {"claimed", "answered"}
       /\ worker'[w] # worker[w]
       /\ ~(Task(w).status = "running" /\ Task(w).locked_by = w)
       => UNCHANGED db]_vars

\* The pipeline implements the abstract lifecycle: the queue of an order is
\* open when it has an active task, failed when all it has left is failed.
work_of(o) ==
  LET Has(S) == \E i \in DOMAIN tasks[o] : tasks[o][i].status \in S IN
  CASE tasks[o] = <<>>           -> "none"
    [] Has(ACTIVE_TASK_STATUSES) -> "open"
    [] Has({"failed"}) /\ ~Has(ACTIVE_TASK_STATUSES) -> "failed"
    [] OTHER                     -> "done"

Abstract == INSTANCE OrderLifecycle WITH
  state   <- [o \in Orders |-> orders[o].state],
  version <- [o \in Orders |-> orders[o].version],
  courier <- [o \in Orders |-> orders[o].courier_ref],
  work    <- [o \in Orders |-> work_of(o)]

\* Refinement: seen through the order row and the status of its queue, every
\* step of workers, API and operators is a step of OrderLifecycle or none.
Lifecycle == Abstract!Spec

--------------------------------------------------------------------------------
\* What comments of the repository say, and the code does not do.

RetryTimes(o, i) ==
  LET Names(e) == e.event_type = "retry_scheduled" /\ i \in e.task_ids
  IN  Latest(EventTimes(o, Names))

\* task_store.py: an operator retry of a poll task starts "a fresh deadline
\* window based on the original window length".  The window is measured from a
\* created_at that no retry moves, so every retry after the first makes it
\* longer.
RetryKeepsWindow ==
  \A o \in Orders : \A i \in DOMAIN tasks[o] : \A t \in RetryTimes(o, i) :
    tasks[o][i].task_type = "check_ready" =>
      tasks[o][i].deadline_at = t + READY_CHECK_DEADLINE_SECONDS

\* dashboard_store.py: the events of an order, ordered by occurred_at, tell the
\* pipeline history "in the same direction an order moves".  cancel_order dates
\* its event before it waits for the order row, so a transition that commits
\* while it waits has the later date and the cancellation sorts before it.
TimelineFollowsMoves ==
  \A o \in Orders :
    LET trail == events[o] IN
    \A j \in Moves(trail) : \A i \in Before(trail, j) \ {1} :
      trail[i].occurred_at <= trail[j].occurred_at
================================================================================
