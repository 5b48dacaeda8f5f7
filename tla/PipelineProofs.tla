----------------------------- MODULE PipelineProofs -----------------------------
(***************************************************************************)
(* Proofs about OrderPipeline, for every set of orders and workers and     *)
(* every value of the durations and bounds.                                *)
(***************************************************************************)
EXTENDS PipelineProperties, SequenceTheorems, TLAPS

--------------------------------------------------------------------------------
\* Task rows.

\* The backoff after an error is a natural number of seconds
\* (task_retry_delay_seconds).
LEMMA RetryDelayType ==
  ASSUME NEW n PROVE task_retry_delay_seconds(n) \in Nat
  BY TaskRowsAssumption DEF task_retry_delay_seconds

\* Every INSERT and every UPDATE of order_tasks writes a well-formed row.
LEMMA RowType ==
  ASSUME NEW row \in TaskRow, NEW t \in Nat, NEW e \in TASK_ERRORS
  PROVE  /\ \A w \in Workers : claim(row, w, t) \in TaskRow
         /\ release_claimed_task(row, t) \in TaskRow
         /\ complete_claimed_task(row) \in TaskRow
         /\ reschedule_claimed_task(row, t, e) \in TaskRow
         /\ reschedule_poll_task(row, t) \in TaskRow
         /\ fail_claimed_task(row, e) \in TaskRow
         /\ fail_claimed_task_without_attempt_increment(row, e) \in TaskRow
         /\ retry_or_fail_claimed_task(row, t, e) \in TaskRow
         /\ cancel_task(row) \in TaskRow
         /\ retry_failed_task(row, t) \in TaskRow
  <1> USE TaskRowsAssumption DEF TaskRow, ORDER_TASK_STATUSES, TASK_ERRORS, Times, NoTime
  <1>a. row.attempts + 1 \in Nat /\ t + LEASE_SECONDS \in Times
    OBVIOUS
  <1>1. \A w \in Workers : claim(row, w, t) \in TaskRow
    BY <1>a DEF claim
  <1>2. release_claimed_task(row, t) \in TaskRow
    BY DEF release_claimed_task
  <1>3. complete_claimed_task(row) \in TaskRow
    BY DEF complete_claimed_task
  <1>4. \A u \in Nat : reschedule_claimed_task(row, u, e) \in TaskRow
    BY <1>a DEF reschedule_claimed_task
  <1>5. reschedule_poll_task(row, t) \in TaskRow
    BY DEF reschedule_poll_task
  <1>6. fail_claimed_task(row, e) \in TaskRow
    BY <1>a DEF fail_claimed_task
  <1>7. fail_claimed_task_without_attempt_increment(row, e) \in TaskRow
    BY DEF fail_claimed_task_without_attempt_increment
  <1>8. retry_or_fail_claimed_task(row, t, e) \in TaskRow
    <2>1. t + task_retry_delay_seconds(row.attempts) \in Nat
      BY RetryDelayType
    <2> QED BY <1>4, <1>6, <2>1 DEF retry_or_fail_claimed_task
  <1>9. cancel_task(row) \in TaskRow
    BY DEF cancel_task
  <1>10. retry_failed_task(row, t) \in TaskRow
    <2>1. retry_deadline_at(row, t) \in Nat
      BY DEF retry_deadline_at
    <2> QED BY <2>1 DEF retry_failed_task
  <1> QED BY <1>1, <1>2, <1>3, <1>4, <1>5, <1>6, <1>7, <1>8, <1>9, <1>10

--------------------------------------------------------------------------------
\* Sequences of rows.

\* Writing one row of one order leaves every other row, and the number of rows
\* of every order, as it was.
LEMMA WriteRow ==
  ASSUME NEW T \in [Orders -> Seq(TaskRow)], NEW o \in Orders,
         NEW i \in DOMAIN T[o], NEW row \in TaskRow,
         NEW U, U = [T EXCEPT ![o][i] = row]
  PROVE  /\ U \in [Orders -> Seq(TaskRow)]
         /\ \A p \in Orders : Len(U[p]) = Len(T[p]) /\ DOMAIN U[p] = DOMAIN T[p]
         /\ U[o][i] = row
         /\ \A p \in Orders : \A j \in DOMAIN T[p] :
              <<p, j>> # <<o, i>> => U[p][j] = T[p][j]
  <1>1. T[o] \in Seq(TaskRow) /\ i \in 1 .. Len(T[o])
    OBVIOUS
  <1>2. /\ [T[o] EXCEPT ![i] = row] \in Seq(TaskRow)
        /\ Len([T[o] EXCEPT ![i] = row]) = Len(T[o])
    BY <1>1, ExceptSeq
  <1>3. U = [T EXCEPT ![o] = [T[o] EXCEPT ![i] = row]]
    OBVIOUS
  <1> QED BY <1>1, <1>2, <1>3

--------------------------------------------------------------------------------
\* Specs.

\* A claimed task with a handler has one of the five specs; its target is the
\* next state of its source, and the follow-up it names is the task of that
\* state.  Only the last step names none.
LEMMA SpecFacts ==
  ASSUME NEW row, handler(row) # "unsupported"
  PROVE  LET s == spec_of(row) IN
         /\ s.source_state \in DOMAIN ORDER_TRANSITIONS
         /\ s.target_state = ORDER_TRANSITIONS[s.source_state]
         /\ s.target_state \in ORDER_STATES
         /\ s.service \in SIMULATED_SERVICES
         /\ s.next_task_type = "none" <=> s.source_state = "out_for_delivery"
         /\ s.next_task_type # "none" =>
              /\ s.next_task_type \in ORDER_TASK_TYPES
              /\ s.next_target_state \in ORDER_STATES
              /\ \A r : /\ r.task_type = s.next_task_type
                        /\ r.target_state = s.next_target_state
                        => /\ handler(r) # "unsupported"
                           /\ spec_of(r).source_state = s.target_state
         /\ s = COURIER_ASSIGN_SPEC <=> s.source_state = "ready"
  <1> DEFINE s == spec_of(row)
             Known(r) == handler(r) # "unsupported"
  <1>1. \A r : r.task_type = "advance_state" /\ r.target_state = "confirmed"
                => Known(r) /\ spec_of(r) = RESTAURANT_TRANSITION_SPECS["confirmed"]
    BY DEF handler, spec_of
  <1>2. \A r : r.task_type = "advance_state" /\ r.target_state = "preparing"
                => Known(r) /\ spec_of(r) = RESTAURANT_TRANSITION_SPECS["preparing"]
    BY DEF handler, spec_of
  <1>3. \A r : r.task_type = "check_ready" /\ r.target_state = "ready"
                => Known(r) /\ spec_of(r) = READY_FINALIZATION_SPEC
    BY DEF handler, spec_of
  <1>4. \A r : r.task_type = "advance_state" /\ r.target_state = "out_for_delivery"
                => Known(r) /\ spec_of(r) = COURIER_ASSIGN_SPEC
    BY DEF handler, spec_of
  <1>5. \A r : r.task_type = "check_delivery" /\ r.target_state = "delivered"
                => Known(r) /\ spec_of(r) = DELIVERY_FINALIZATION_SPEC
    BY DEF handler, spec_of
  <1>6. \/ row.task_type = "advance_state" /\ row.target_state = "confirmed"
        \/ row.task_type = "advance_state" /\ row.target_state = "preparing"
        \/ row.task_type = "check_ready" /\ row.target_state = "ready"
        \/ row.task_type = "advance_state" /\ row.target_state = "out_for_delivery"
        \/ row.task_type = "check_delivery" /\ row.target_state = "delivered"
    BY DEF handler
  <1>7. \/ s = RESTAURANT_TRANSITION_SPECS["confirmed"]
        \/ s = RESTAURANT_TRANSITION_SPECS["preparing"]
        \/ s = READY_FINALIZATION_SPEC
        \/ s = COURIER_ASSIGN_SPEC
        \/ s = DELIVERY_FINALIZATION_SPEC
    BY <1>1, <1>2, <1>3, <1>4, <1>5, <1>6
  <1> HIDE DEF s, Known
  <1> USE DEF ORDER_TRANSITIONS, ORDER_STATES, ORDER_TASK_TYPES, SIMULATED_SERVICES
  <1>8. /\ s.source_state \in DOMAIN ORDER_TRANSITIONS
        /\ s.target_state = ORDER_TRANSITIONS[s.source_state]
        /\ s.target_state \in ORDER_STATES
        /\ s.service \in SIMULATED_SERVICES
        /\ s.next_task_type = "none" <=> s.source_state = "out_for_delivery"
        /\ s = COURIER_ASSIGN_SPEC <=> s.source_state = "ready"
    BY <1>7 DEF RESTAURANT_TRANSITION_SPECS, READY_FINALIZATION_SPEC,
                COURIER_ASSIGN_SPEC, DELIVERY_FINALIZATION_SPEC
  <1>9. s.next_task_type # "none" =>
          /\ s.next_task_type \in ORDER_TASK_TYPES
          /\ s.next_target_state \in ORDER_STATES
    BY <1>7 DEF RESTAURANT_TRANSITION_SPECS, READY_FINALIZATION_SPEC,
                COURIER_ASSIGN_SPEC, DELIVERY_FINALIZATION_SPEC
  <1>10. ASSUME NEW r, s.next_task_type # "none",
                r.task_type = s.next_task_type, r.target_state = s.next_target_state
         PROVE  Known(r) /\ spec_of(r).source_state = s.target_state
    <2>1. CASE s = RESTAURANT_TRANSITION_SPECS["confirmed"]
      BY <1>2, <1>10, <2>1 DEF RESTAURANT_TRANSITION_SPECS
    <2>2. CASE s = RESTAURANT_TRANSITION_SPECS["preparing"]
      BY <1>3, <1>10, <2>2 DEF RESTAURANT_TRANSITION_SPECS, READY_FINALIZATION_SPEC
    <2>3. CASE s = READY_FINALIZATION_SPEC
      BY <1>4, <1>10, <2>3 DEF READY_FINALIZATION_SPEC, COURIER_ASSIGN_SPEC
    <2>4. CASE s = COURIER_ASSIGN_SPEC
      BY <1>5, <1>10, <2>4 DEF COURIER_ASSIGN_SPEC, DELIVERY_FINALIZATION_SPEC
    <2>5. CASE s = DELIVERY_FINALIZATION_SPEC
      BY <1>10, <2>5 DEF DELIVERY_FINALIZATION_SPEC
    <2> QED BY <1>7, <2>1, <2>2, <2>3, <2>4, <2>5
  <1> QED BY <1>8, <1>9, <1>10 DEF s, Known

--------------------------------------------------------------------------------
\* Type correctness.

TablesOK ==
  /\ now \in Nat
  /\ killed \in [SIMULATED_SERVICES -> BOOLEAN]
  /\ orders \in [Orders -> OrderRow]
  /\ tasks \in [Orders -> Seq(TaskRow)]
  /\ events \in [Orders -> Seq(EventRow)]

Busy == {"claimed", "calling", "answered"}

WorkerOK ==
  /\ worker \in [Workers -> WorkerState]
  /\ \A w \in Workers : worker[w].phase \in Busy =>
       worker[w].order \in Orders /\ worker[w].task \in DOMAIN tasks[worker[w].order]

\* No row of order_tasks is ever deleted.
TasksGrow == \A p \in Orders : DOMAIN tasks[p] \subseteq DOMAIN tasks'[p]

\* A worker's pointer to its task stays valid while it does nothing.
LEMMA WorkerKept ==
  ASSUME WorkerOK, TasksGrow, UNCHANGED worker PROVE WorkerOK'
  BY DEF WorkerOK, TasksGrow, Busy

\* Likewise when one worker finishes its task and forgets it.
LEMMA WorkerFinished ==
  ASSUME WorkerOK, TasksGrow, NEW w \in Workers, Finish(w)
  PROVE  /\ WorkerOK'
         /\ worker' = [worker EXCEPT ![w] = Idle]
         /\ worker'[w] = Idle
         /\ \A v \in Workers : v # w => worker'[v] = worker[v]
  BY DEF WorkerOK, TasksGrow, Busy, Finish, Idle, WorkerState

\* What a worker's transaction writes to its own row keeps the tables typed and
\* touches no other row.
LEMMA WroteTask ==
  ASSUME TablesOK, WorkerOK, NEW w \in Workers, worker[w].phase \in Busy,
         NEW row \in TaskRow, WriteTask(w, row)
  PROVE  /\ tasks' \in [Orders -> Seq(TaskRow)]
         /\ TasksGrow
         /\ \A p \in Orders : Len(tasks'[p]) = Len(tasks[p])
         /\ tasks'[worker[w].order][worker[w].task] = row
         /\ \A p \in Orders : \A j \in DOMAIN tasks[p] :
              <<p, j>> # <<worker[w].order, worker[w].task>> => tasks'[p][j] = tasks[p][j]
  <1>1. /\ worker[w].order \in Orders
        /\ worker[w].task \in DOMAIN tasks[worker[w].order]
    BY DEF WorkerOK
  <1>2. tasks \in [Orders -> Seq(TaskRow)]
    BY DEF TablesOK
  <1>3. tasks' = [tasks EXCEPT ![worker[w].order][worker[w].task] = row]
    BY DEF WriteTask
  <1> QED BY <1>1, <1>2, <1>3, WriteRow DEF TasksGrow

\* A busy worker's task and order are rows of the tables.
LEMMA OwnRow ==
  ASSUME TablesOK, WorkerOK, NEW w \in Workers, worker[w].phase \in Busy
  PROVE  /\ Task(w) \in TaskRow
         /\ Order(w) \in OrderRow
         /\ worker[w].order \in Orders
         /\ worker[w].task \in DOMAIN tasks[worker[w].order]
         /\ worker[w].task \in Nat \ {0}
         /\ worker[w].answered_at \in Nat
  <1>1. /\ worker[w].order \in Orders
        /\ worker[w].task \in DOMAIN tasks[worker[w].order]
        /\ worker[w].answered_at \in Nat
    BY DEF WorkerOK, WorkerState
  <1>2. /\ tasks[worker[w].order] \in Seq(TaskRow)
        /\ orders[worker[w].order] \in OrderRow
    BY <1>1 DEF TablesOK
  <1>3. worker[w].task \in 1 .. Len(tasks[worker[w].order])
    BY <1>1, <1>2
  <1> QED BY <1>1, <1>2, <1>3, ElementOfSeq DEF Task, Order

--------------------------------------------------------------------------------
\* The steps of Next, by what they do to the tables.

\* The retry budget, for one row.
RowBudget(row) ==
  /\ row.status \in ACTIVE_TASK_STATUSES => row.attempts < MaxAttempts
  /\ row.status = "failed" =>
       \/ row.attempts = MaxAttempts
       \/ row.last_error = "deadline" /\ row.attempts < MaxAttempts

\* The row of the same task, with the same deadline, after it was given back to
\* the queue or given up.
Returned(r, row) ==
  /\ row \in TaskRow
  /\ row.task_type = r.task_type /\ row.target_state = r.target_state
  /\ row.deadline_at = r.deadline_at
  /\ row.status \in {"pending", "failed"}
  /\ r.attempts < MaxAttempts => RowBudget(row)

\* Giving a task back, whatever the reason, keeps its identity and its budget
\* (the UPDATEs of the worker's outcome transactions).
LEMMA ReturnedRow ==
  ASSUME NEW r \in TaskRow, NEW t \in Nat, NEW d \in Nat, NEW e \in TASK_ERRORS
  PROVE  /\ Returned(r, release_claimed_task(r, t))
         /\ Returned(r, reschedule_poll_task(r, t))
         /\ Returned(r, retry_or_fail_claimed_task(r, t, e))
         /\ Returned(r, after_not_yet(r, t, d))
  <1> DEFINE Same(row) == /\ row.task_type = r.task_type
                          /\ row.target_state = r.target_state
                          /\ row.deadline_at = r.deadline_at
  <1>0. r.attempts \in Nat /\ MaxAttempts \in Nat /\ r.deadline_at \in Times
    BY TaskRowsAssumption DEF TaskRow
  <1>1. Returned(r, release_claimed_task(r, t))
    <2> DEFINE row == release_claimed_task(r, t)
    <2>1. row \in TaskRow
      BY RowType DEF TASK_ERRORS
    <2>2. Same(row) /\ row.status = "pending" /\ row.attempts = r.attempts
      BY DEF release_claimed_task, TaskRow
    <2> HIDE DEF row
    <2>3. Returned(r, row)
      BY <1>0, <2>1, <2>2 DEF Returned, RowBudget, ACTIVE_TASK_STATUSES
    <2> QED BY <2>3 DEF row
  <1>2. \A u \in Nat : Returned(r, reschedule_poll_task(r, u))
    <2> TAKE u \in Nat
    <2> DEFINE row == reschedule_poll_task(r, u)
    <2>1. row \in TaskRow
      BY RowType DEF TASK_ERRORS
    <2>2. Same(row) /\ row.status = "pending" /\ row.attempts = r.attempts
      BY DEF reschedule_poll_task, TaskRow
    <2> HIDE DEF row
    <2>3. Returned(r, row)
      BY <1>0, <2>1, <2>2 DEF Returned, RowBudget, ACTIVE_TASK_STATUSES
    <2> QED BY <2>3 DEF row
  <1>3. \A f \in TASK_ERRORS : Returned(r, retry_or_fail_claimed_task(r, t, f))
    <2> TAKE f \in TASK_ERRORS
    <2> DEFINE row == retry_or_fail_claimed_task(r, t, f)
    <2>1. row \in TaskRow
      BY RowType
    <2>2. Same(row)
      BY DEF retry_or_fail_claimed_task, fail_claimed_task, reschedule_claimed_task, TaskRow
    <2>3. IF r.attempts + 1 >= MaxAttempts
            THEN row.status = "failed" /\ row.attempts = r.attempts + 1
            ELSE row.status = "pending" /\ row.attempts = r.attempts + 1
      BY DEF retry_or_fail_claimed_task, fail_claimed_task, reschedule_claimed_task, TaskRow
    <2> HIDE DEF row
    <2>4. Returned(r, row)
      BY <1>0, <2>1, <2>2, <2>3 DEF Returned, RowBudget, ACTIVE_TASK_STATUSES
    <2> QED BY <2>4 DEF row
  <1>4. Returned(r, after_not_yet(r, t, d))
    <2>1. CASE r.deadline_at = NoTime
      BY <1>3, <2>1 DEF after_not_yet, TASK_ERRORS
    <2>2. CASE r.deadline_at # NoTime /\ t >= r.deadline_at
      <3>1. fail_claimed_task_without_attempt_increment(r, "deadline") \in TaskRow
        BY RowType DEF TASK_ERRORS
      <3> DEFINE row == fail_claimed_task_without_attempt_increment(r, "deadline")
      <3>2. /\ Same(row) /\ row.status = "failed" /\ row.attempts = r.attempts
            /\ row.last_error = "deadline"
        BY DEF fail_claimed_task_without_attempt_increment, TaskRow
      <3>3. after_not_yet(r, t, d) = row
        BY <2>2 DEF after_not_yet
      <3>4. row \in TaskRow
        BY <3>1
      <3> HIDE DEF row
      <3> QED BY <3>2, <3>3, <3>4 DEF Returned, RowBudget, ACTIVE_TASK_STATUSES
    <2>3. CASE r.deadline_at # NoTime /\ ~(t >= r.deadline_at)
      <3>1. bounded_next_run_at(t, d, r.deadline_at) \in Nat
        BY <1>0, <2>3 DEF bounded_next_run_at, Times, NoTime
      <3> QED BY <1>2, <2>3, <3>1 DEF after_not_yet
    <2> QED BY <2>1, <2>2, <2>3
  <1> QED BY <1>1, <1>2, <1>3, <1>4

\* The dates prepare may send along: what it reads for the handler of the task.
Beginnings(w) ==
  CASE handler(Task(w)) = "ready_check"    -> load_ready_check_task_row(worker[w].order)
    [] handler(Task(w)) = "delivery_check" -> load_delivery_check_task_row(worker[w].order)
    [] OTHER -> load_transition_task_row(worker[w].order, SpecOf(w).source_state)

\* Worker w gets as far as s: a call for an order it has just found in the
\* source state of its task, or the answer to that call, which is a success
\* only when the service has had its time.
Progressed(w, s) ==
  \/ /\ s.phase = "calling"
     /\ handler(Task(w)) # "unsupported"
     /\ in_source_state(w)
     /\ s.source_started_at \in Beginnings(w)
  \/ /\ worker[w].phase = "calling"
     /\ s.phase = "answered"
     /\ s.outcome = "success" =>
          s.answered_at >=
            worker[w].source_started_at + Delay[worker[w].order][SpecOf(w).service]

\* A worker moves on without touching a table.  If it comes out with a call
\* under way or answered, it had one before or has just found the order in the
\* source state of its task.
QuietStep(w) ==
  /\ UNCHANGED <<now, killed, orders, tasks, events>>
  /\ \E s \in WorkerState :
       /\ worker' = [worker EXCEPT ![w] = s]
       /\ \/ s.phase \notin Busy
          \/ /\ worker[w].phase \in Busy
             /\ s.order = worker[w].order /\ s.task = worker[w].task
             /\ worker[w].phase = "calling" \/ in_source_state(w)
             /\ Progressed(w, s)

\* A worker gives its task back, gives it up, or completes it because the order
\* is not where the task expects it.  It gives up only after a call, or after it
\* found the order where the task expects it.
SettleStep(w) ==
  /\ worker[w].phase \in Busy
  /\ owned_task_check_result(w)
  /\ Finish(w)
  /\ UNCHANGED <<now, killed, orders, events>>
  /\ \E row \in TaskRow :
       /\ WriteTask(w, row)
       /\ \/ /\ Returned(Task(w), row)
             /\ row.status = "failed" =>
                  worker[w].phase = "answered" \/ in_source_state(w)
          \/ ~in_source_state(w) /\ row = complete_claimed_task(Task(w))

AdvanceTasks(o, i, spec, at) ==
  tasks' = [tasks EXCEPT ![o] = [insert_followup_task(tasks[o], spec, at) EXCEPT
                                   ![i] = complete_claimed_task(@)]]

\* A worker moves the order, and dates the move no earlier than the answer.
AdvanceStep(w) ==
  /\ worker[w].phase \in Busy
  /\ worker[w].phase = "answered" /\ worker[w].outcome = "success"
  /\ owned_task_check_result(w)
  /\ handler(Task(w)) # "unsupported"
  /\ in_source_state(w)
  /\ Finish(w)
  /\ UNCHANGED <<now, killed>>
  /\ \E at \in Nat :
       LET o == worker[w].order
           i == worker[w].task
           spec == SpecOf(w)
       IN  /\ worker[w].answered_at <= at
           /\ orders' = [orders EXCEPT
                ![o].state = spec.target_state,
                ![o].version = @ + 1,
                ![o].updated_at = at,
                ![o].courier_ref = @ \/ spec = COURIER_ASSIGN_SPEC]
           /\ events' = [events EXCEPT ![o] = Append(@,
                event("state_transition", spec.source_state,
                      spec.target_state, {i}, at))]
           /\ AdvanceTasks(o, i, spec, at)

\* The clock or a kill switch moves, or nothing does.
OutsideStep ==
  /\ UNCHANGED <<orders, tasks, events, worker>>
  /\ now \in Nat => now' \in Nat
  /\ killed \in [SIMULATED_SERVICES -> BOOLEAN] =>
       killed' \in [SIMULATED_SERVICES -> BOOLEAN]

\* The dates prepare may send along are natural numbers.
LEMMA StartedType ==
  ASSUME TablesOK, NEW o \in Orders
  PROVE  /\ \A s : load_transition_task_row(o, s) \subseteq Nat
         /\ load_ready_check_task_row(o) \subseteq Nat
         /\ load_delivery_check_task_row(o) \subseteq Nat
  <1>1. \A i \in DOMAIN events[o] : events[o][i].occurred_at \in Nat
    <2>1. events[o] \in Seq(EventRow)
      BY DEF TablesOK
    <2>2. \A i \in DOMAIN events[o] : events[o][i] \in EventRow
      BY <2>1, ElementOfSeq
    <2> QED BY <2>2 DEF EventRow
  <1>2. orders[o].updated_at \in Nat
    BY DEF TablesOK, OrderRow
  <1> QED BY <1>1, <1>2 DEF load_transition_task_row, load_ready_check_task_row,
          load_delivery_check_task_row, EventTimes, Latest

\* prepare_*: no call, or a task that is given back or completed.
LEMMA PrepareStep ==
  ASSUME TablesOK, WorkerOK, NEW w \in Workers,
         \/ prepare_transition_call(w)
         \/ prepare_ready_check_call(w)
         \/ prepare_delivery_check_call(w)
  PROVE  QuietStep(w) \/ SettleStep(w)
  <1>1. /\ worker[w].phase = "claimed"
        /\ worker[w].phase \in Busy
        /\ owned_task_check_result(w)
        /\ UNCHANGED <<now, killed, orders, events>>
    BY DEF prepare_transition_call, prepare_ready_check_call,
           prepare_delivery_check_call, Busy
  <1>2. Task(w) \in TaskRow /\ worker[w].order \in Orders
    BY <1>1, OwnRow
  <1>3. ASSUME NEW started \in Nat, in_source_state(w), Prepared(w, started),
               started \in Beginnings(w), handler(Task(w)) # "unsupported"
        PROVE  QuietStep(w)
    <2> DEFINE s == [worker[w] EXCEPT !.phase = "calling",
                                      !.source_started_at = started]
    <2>1. worker[w] \in WorkerState
      BY DEF WorkerOK
    <2>2. /\ s \in WorkerState /\ s.order = worker[w].order /\ s.task = worker[w].task
          /\ s.phase = "calling" /\ s.source_started_at = started
      BY <2>1 DEF WorkerState
    <2>3. worker' = [worker EXCEPT ![w] = s]
      BY <1>3 DEF Prepared, WorkerOK
    <2> HIDE DEF s
    <2>4. Progressed(w, s)
      BY <1>3, <2>2 DEF Progressed
    <2> QED BY <1>1, <1>3, <2>2, <2>3, <2>4 DEF QuietStep, Prepared
  <1>4. ASSUME ~in_source_state(w), CompleteNoop(w) PROVE SettleStep(w)
    <2>1. complete_claimed_task(Task(w)) \in TaskRow
      BY <1>2, RowType DEF TASK_ERRORS
    <2> QED BY <1>1, <1>4, <2>1 DEF CompleteNoop, SettleStep
  <1>5. ASSUME in_source_state(w), MissingInput(w) PROVE SettleStep(w)
    <2> DEFINE row == retry_or_fail_claimed_task(Task(w), now, "missing_input")
    <2>1. Returned(Task(w), row)
      BY <1>2, ReturnedRow DEF TablesOK, TASK_ERRORS
    <2>2. row \in TaskRow
      BY <2>1 DEF Returned
    <2> QED BY <1>1, <1>5, <2>1, <2>2 DEF MissingInput, SettleStep
  <1>6. ASSUME release_unsupported_task(w) PROVE SettleStep(w)
    <2> DEFINE row == release_claimed_task(
                        Task(w), now + UNSUPPORTED_TASK_RELEASE_DELAY_SECONDS)
    <2>1. now + UNSUPPORTED_TASK_RELEASE_DELAY_SECONDS \in Nat
      BY TaskRowsAssumption DEF TablesOK
    <2>2. Returned(Task(w), row)
      BY <1>2, <2>1, ReturnedRow DEF TASK_ERRORS
    <2>3. row \in TaskRow
      BY <2>2 DEF Returned
    <2>4. row.status = "pending"
      BY <1>2 DEF release_claimed_task, TaskRow
    <2> QED BY <1>1, <1>6, <2>2, <2>3, <2>4 DEF release_unsupported_task, SettleStep
  <1>7. CASE prepare_transition_call(w)
    BY <1>2, <1>3, <1>4, <1>6, <1>7, StartedType DEF prepare_transition_call, Beginnings
  <1>8. CASE prepare_ready_check_call(w)
    BY <1>2, <1>3, <1>4, <1>5, <1>8, StartedType DEF prepare_ready_check_call, Beginnings
  <1>9. CASE prepare_delivery_check_call(w)
    BY <1>2, <1>3, <1>4, <1>5, <1>9, StartedType DEF prepare_delivery_check_call, Beginnings
  <1> QED BY <1>7, <1>8, <1>9

\* The outcome transactions that leave the order alone.
LEMMA RescheduleStep ==
  ASSUME TablesOK, WorkerOK, NEW w \in Workers,
         \/ reschedule_transition_after_pending(w)
         \/ reschedule_transition_task(w)
         \/ \E H \in {"ready_check", "delivery_check"} :
              \/ RescheduleAfterError(w, H)
              \/ \E interval \in Nat : RescheduleAfterNotYet(w, H, interval)
  PROVE  SettleStep(w)
  <1>1. /\ worker[w].phase \in Busy /\ worker[w].phase = "answered"
        /\ owned_task_check_result(w)
        /\ handler(Task(w)) # "unsupported"
        /\ Finish(w)
        /\ UNCHANGED <<now, killed, orders, events>>
    BY DEF reschedule_transition_after_pending, reschedule_transition_task,
           RescheduleAfterError, RescheduleAfterNotYet, Outcome, Busy
  <1>2. Task(w) \in TaskRow /\ worker[w].answered_at \in Nat /\ now \in Nat
    BY <1>1, OwnRow DEF TablesOK
  <1>3. \A at \in worker[w].answered_at .. now : at \in Nat
    BY <1>2
  <1>4. \A default \in Nat :
          poll_delay_seconds(RETRY_AFTER[SpecOf(w).service], default) \in Nat
    <2>1. SpecOf(w).service \in SIMULATED_SERVICES
      BY <1>1, SpecFacts DEF SpecOf
    <2> QED BY <2>1, DelayAssumption DEF poll_delay_seconds
  <1>5. ASSUME NEW row, WriteTask(w, row), Returned(Task(w), row)
        PROVE  SettleStep(w)
    BY <1>1, <1>5 DEF SettleStep, Returned
  <1>6. ASSUME WriteTask(w, complete_claimed_task(Task(w))), ~in_source_state(w)
        PROVE  SettleStep(w)
    <2>1. complete_claimed_task(Task(w)) \in TaskRow
      BY <1>2, RowType DEF TASK_ERRORS
    <2> QED BY <1>1, <1>6, <2>1 DEF SettleStep
  <1>7. \A at \in Nat : Returned(Task(w),
                          retry_or_fail_claimed_task(Task(w), at, "downstream"))
    BY <1>2, ReturnedRow DEF TASK_ERRORS
  <1>8. CASE reschedule_transition_after_pending(w)
    <2>1. \A at \in Nat : Returned(Task(w), reschedule_poll_task(Task(w),
            at + poll_delay_seconds(RETRY_AFTER[SpecOf(w).service],
                                    TASK_RETRY_DELAY_SECONDS)))
      BY <1>2, <1>4, TaskRowsAssumption, ReturnedRow DEF TASK_ERRORS
    <2> QED BY <1>3, <1>5, <1>6, <1>8, <2>1 DEF reschedule_transition_after_pending
  <1>9. CASE reschedule_transition_task(w)
    BY <1>3, <1>5, <1>7, <1>9 DEF reschedule_transition_task
  <1>10. CASE \E H \in {"ready_check", "delivery_check"} : RescheduleAfterError(w, H)
    BY <1>3, <1>5, <1>6, <1>7, <1>10 DEF RescheduleAfterError
  <1>11. CASE \E H \in {"ready_check", "delivery_check"} : \E interval \in Nat :
                RescheduleAfterNotYet(w, H, interval)
    <2>1. \A at, default \in Nat : Returned(Task(w), after_not_yet(Task(w), at,
            poll_delay_seconds(RETRY_AFTER[SpecOf(w).service], default)))
      BY <1>2, <1>4, ReturnedRow DEF TASK_ERRORS
    <2> QED BY <1>3, <1>5, <1>6, <1>11, <2>1 DEF RescheduleAfterNotYet
  <1> QED BY <1>8, <1>9, <1>10, <1>11

\* finalize_transition_task moves the order or, had it moved before, only
\* completes the task.
LEMMA FinalizeStep ==
  ASSUME TablesOK, WorkerOK, NEW w \in Workers, finalize_transition_task(w)
  PROVE  AdvanceStep(w) \/ SettleStep(w)
  <1>1. /\ worker[w].phase \in Busy
        /\ owned_task_check_result(w)
        /\ handler(Task(w)) # "unsupported"
        /\ Finish(w)
        /\ UNCHANGED <<now, killed>>
    BY DEF finalize_transition_task, Outcome, Busy
  <1>2. complete_claimed_task(Task(w)) \in TaskRow
    BY <1>1, OwnRow, RowType DEF TASK_ERRORS, TablesOK
  <1>3. \A at \in worker[w].answered_at .. now :
          at \in Nat /\ worker[w].answered_at <= at
    BY <1>1, OwnRow DEF TablesOK
  <1>4. CASE in_source_state(w)
    <2>1. worker[w].phase = "answered" /\ worker[w].outcome = "success"
      BY DEF finalize_transition_task, Outcome
    <2> QED BY <1>1, <1>3, <1>4, <2>1
            DEF finalize_transition_task, AdvanceStep, AdvanceTasks
  <1>5. CASE ~in_source_state(w)
    BY <1>1, <1>2, <1>5 DEF finalize_transition_task, SettleStep
  <1> QED BY <1>4, <1>5

\* Calls, skips, exceptions and crashes touch no table.
LEMMA WorkerOnlyStep ==
  ASSUME TablesOK, WorkerOK, NEW w \in Workers,
         \/ skip_after_claim(w)
         \/ /\ worker[w].phase = "calling" /\ Answer(w)
            /\ handler(Task(w)) # "unsupported"
         \/ run_task_poll_loop_exception(w)
         \/ crash(w)
  PROVE  QuietStep(w)
  <1>1. Idle \in WorkerState /\ Idle.phase \notin Busy
    BY DEF Idle, WorkerState, Busy
  <1>2. ASSUME Finish(w), UNCHANGED <<now, killed, orders, tasks, events>>
        PROVE  QuietStep(w)
    BY <1>1, <1>2 DEF Finish, QuietStep
  <1>3. CASE /\ worker[w].phase = "calling" /\ Answer(w)
             /\ handler(Task(w)) # "unsupported"
    <2>1. worker[w] \in WorkerState /\ worker[w].phase \in Busy
      BY <1>3 DEF WorkerOK, Busy
    <2>2. PICK out \in responses(worker[w].order, SpecOf(w).service,
                                 worker[w].source_started_at) :
            worker' = [worker EXCEPT ![w].phase = "answered",
                                     ![w].source_started_at = 0,
                                     ![w].outcome = out, ![w].answered_at = now]
      BY <1>3 DEF Answer
    <2>3. out \in {"error", "success", "pending"} /\ now \in Nat
      BY DEF responses, delayed_status_response, TablesOK
    <2> DEFINE s == [worker[w] EXCEPT !.phase = "answered",
                       !.source_started_at = 0, !.outcome = out, !.answered_at = now]
    <2>4. /\ s \in WorkerState /\ s.order = worker[w].order /\ s.task = worker[w].task
          /\ s.phase = "answered" /\ s.outcome = out /\ s.answered_at = now
      BY <2>1, <2>3 DEF WorkerState
    <2>5. worker' = [worker EXCEPT ![w] = s]
      BY <2>2 DEF WorkerOK
    <2> HIDE DEF s
    <2>6. out = "success" =>
            now >= worker[w].source_started_at + Delay[worker[w].order][SpecOf(w).service]
      BY <2>2 DEF responses, delayed_status_response
    <2>7. Progressed(w, s)
      BY <1>3, <2>4, <2>6 DEF Progressed
    <2> QED BY <1>3, <2>1, <2>4, <2>5, <2>7 DEF Answer, QuietStep
  <1>4. CASE crash(w)
    <2>1. /\ [Idle EXCEPT !.phase = "crashed"] \in WorkerState
          /\ [Idle EXCEPT !.phase = "crashed"].phase \notin Busy
      BY DEF Idle, WorkerState, Busy
    <2> QED BY <1>4, <2>1 DEF crash, QuietStep
  <1> QED BY <1>2, <1>3, <1>4 DEF skip_after_claim, run_task_poll_loop_exception

\* Every step of the specification is of one of these kinds.
LEMMA StepKinds ==
  ASSUME TablesOK, WorkerOK, [Next]_vars
  PROVE  \/ \E w \in Workers : \/ claim_one_task(w)
                               \/ QuietStep(w) \/ SettleStep(w) \/ AdvanceStep(w)
         \/ \E o \in Orders : \/ create_or_get_order(o)
                              \/ cancel_order(o)
                              \/ retry_failed_tasks_for_order(o)
         \/ OutsideStep
  <1>1. ASSUME NEW w \in Workers, process_task(w)
        PROVE  claim_one_task(w) \/ QuietStep(w) \/ SettleStep(w) \/ AdvanceStep(w)
    <2>1. CASE skip_after_claim(w)
      BY <2>1, WorkerOnlyStep
    <2>2. CASE \/ prepare_transition_call(w)
               \/ prepare_ready_check_call(w)
               \/ prepare_delivery_check_call(w)
      BY <2>2, PrepareStep
    <2>3. CASE \/ call_restaurant_transition(w) \/ call_courier_assign(w)
               \/ call_restaurant_ready_check(w) \/ call_courier_delivery_check(w)
      BY <2>3, WorkerOnlyStep
      DEF call_restaurant_transition, call_courier_assign,
          call_restaurant_ready_check, call_courier_delivery_check
    <2>4. CASE finalize_transition_task(w)
      BY <2>4, FinalizeStep
    <2>5. CASE \/ reschedule_transition_after_pending(w)
               \/ reschedule_transition_task(w)
               \/ reschedule_ready_check_after_error(w)
               \/ reschedule_ready_check_after_not_ready(w)
               \/ reschedule_delivery_check_after_error(w)
               \/ reschedule_delivery_check_after_in_transit(w)
      BY <2>5, RescheduleStep, PipelineAssumption
      DEF reschedule_ready_check_after_error, reschedule_ready_check_after_not_ready,
          reschedule_delivery_check_after_error,
          reschedule_delivery_check_after_in_transit
    <2> QED BY <1>1, <2>1, <2>2, <2>3, <2>4, <2>5 DEF process_task
  <1>2. ASSUME NEW w \in Workers, run_task_poll_loop_exception(w) \/ crash(w)
        PROVE  QuietStep(w)
    BY <1>2, WorkerOnlyStep
  <1>3. CASE update_kill_switch
    BY <1>3, DelayAssumption DEF update_kill_switch, set_kill_switch, OutsideStep
  <1>4. CASE tick
    BY <1>4 DEF tick, OutsideStep
  <1>5. CASE UNCHANGED vars
    BY <1>5 DEF vars, OutsideStep
  <1> QED BY <1>1, <1>2, <1>3, <1>4, <1>5 DEF Next

--------------------------------------------------------------------------------

\* A follow-up insert adds one row for the named follow-up, or nothing.
LEMMA FollowupRows ==
  ASSUME NEW rows \in Seq(TaskRow), NEW r, handler(r) # "unsupported",
         NEW at \in Nat
  PROVE  LET spec == spec_of(r)
             ins  == insert_followup_task(rows, spec, at)
         IN  \/ /\ ins = rows
                /\ \/ spec.next_task_type = "none"
                   \/ \E i \in DOMAIN rows :
                        /\ rows[i].status \in ACTIVE_TASK_STATUSES
                        /\ rows[i].task_type = spec.next_task_type
                        /\ rows[i].target_state = spec.next_target_state
             \/ /\ spec.next_task_type # "none"
                /\ \E row \in TaskRow :
                     /\ ins = Append(rows, row)
                     /\ row.task_type = spec.next_task_type
                     /\ row.target_state = spec.next_target_state
                     /\ row.status = "pending" /\ row.attempts = 0
                     /\ row.locked_by = NoWorker
                     /\ row.task_type \in POLL_TASK_TYPES => row.deadline_at # NoTime
  <1> DEFINE spec == spec_of(r)
             schedule == followup_schedule_for_spec(spec, at)
             row == new_task(spec.next_task_type, spec.next_target_state,
                             schedule[1], schedule[2], at)
  <1>1. CASE spec.next_task_type = "none"
    BY <1>1 DEF insert_followup_task
  <1>2. CASE spec.next_task_type # "none"
    <2>1. schedule[1] \in Nat /\ schedule[2] \in Times
      BY PipelineAssumption, SMTT(30) DEF followup_schedule_for_spec, Times, NoTime
    <2>2. /\ spec.next_task_type \in ORDER_TASK_TYPES
          /\ spec.next_target_state \in ORDER_STATES
      BY <1>2, SpecFacts
    <2>6. spec.next_task_type \in POLL_TASK_TYPES => schedule[2] # NoTime
      <3> HIDE DEF spec
      <3> QED BY PipelineAssumption, SMTT(30)
              DEF followup_schedule_for_spec, POLL_TASK_TYPES, NoTime
    <2> HIDE DEF schedule, spec
    <2>3. row \in TaskRow
      BY <2>1, <2>2 DEF new_task, TaskRow, ORDER_TASK_STATUSES, TASK_ERRORS, Times, NoTime
    <2>4. /\ row.task_type = spec.next_task_type
          /\ row.target_state = spec.next_target_state
          /\ row.status = "pending" /\ row.attempts = 0 /\ row.locked_by = NoWorker
          /\ row.deadline_at = schedule[2]
      BY DEF new_task
    <2>5. insert_followup_task(rows, spec, at) =
            IF \E i \in DOMAIN rows : /\ rows[i].status \in ACTIVE_TASK_STATUSES
                                      /\ rows[i].task_type = row.task_type
                                      /\ rows[i].target_state = row.target_state
              THEN rows ELSE Append(rows, row)
      BY <1>2 DEF insert_followup_task, schedule
    <2> HIDE DEF row
    <2> QED BY <1>2, <2>3, <2>4, <2>5, <2>6 DEF spec
  <1> QED BY <1>1, <1>2

\* What moving an order does to order_tasks: the worker's row is completed, at
\* most one row is added, and every other row is as before.
LEMMA AdvanceRows ==
  ASSUME TablesOK, WorkerOK, NEW w \in Workers, AdvanceStep(w)
  PROVE  LET o == worker[w].order
             i == worker[w].task
             n == Len(tasks[o])
             spec == SpecOf(w)
         IN  /\ tasks' \in [Orders -> Seq(TaskRow)]
             /\ TasksGrow
             /\ \A p \in Orders : p # o => tasks'[p] = tasks[p]
             /\ tasks'[o][i] = complete_claimed_task(Task(w))
             /\ \A j \in DOMAIN tasks[o] : j # i => tasks'[o][j] = tasks[o][j]
             /\ \/ /\ Len(tasks'[o]) = n
                   /\ \/ spec.next_task_type = "none"
                      \/ \E j \in DOMAIN tasks[o] :
                           /\ tasks[o][j].status \in ACTIVE_TASK_STATUSES
                           /\ tasks[o][j].task_type = spec.next_task_type
                           /\ tasks[o][j].target_state = spec.next_target_state
                \/ /\ Len(tasks'[o]) = n + 1
                   /\ spec.next_task_type # "none"
                   /\ tasks'[o][n + 1].task_type = spec.next_task_type
                   /\ tasks'[o][n + 1].target_state = spec.next_target_state
                   /\ tasks'[o][n + 1].status = "pending"
                   /\ tasks'[o][n + 1].attempts = 0
                   /\ tasks'[o][n + 1].locked_by = NoWorker
                   /\ tasks'[o][n + 1].task_type \in POLL_TASK_TYPES =>
                        tasks'[o][n + 1].deadline_at # NoTime
  <1> DEFINE o == worker[w].order
             i == worker[w].task
             n == Len(tasks[o])
             spec == SpecOf(w)
             done == complete_claimed_task(Task(w))
  <1>1. /\ o \in Orders /\ i \in DOMAIN tasks[o]
        /\ tasks \in [Orders -> Seq(TaskRow)] /\ tasks[o] \in Seq(TaskRow)
        /\ i \in 1 .. n /\ n \in Nat
    <2>1. worker[w].phase \in Busy /\ tasks \in [Orders -> Seq(TaskRow)]
      BY DEF AdvanceStep, TablesOK
    <2>2. o \in Orders /\ i \in DOMAIN tasks[o]
      BY <2>1, OwnRow
    <2> HIDE DEF o, i
    <2>3. tasks[o] \in Seq(TaskRow)
      BY <2>1, <2>2
    <2> QED BY <2>1, <2>2, <2>3
  <1>2. PICK at \in Nat : AdvanceTasks(o, i, spec, at)
    BY DEF AdvanceStep
  <1> DEFINE ins == insert_followup_task(tasks[o], spec, at)
  <1>3. done \in TaskRow
    BY OwnRow, RowType DEF AdvanceStep, TASK_ERRORS, TablesOK
  <1>4. \/ /\ ins = tasks[o]
           /\ \/ spec.next_task_type = "none"
              \/ \E j \in DOMAIN tasks[o] :
                   /\ tasks[o][j].status \in ACTIVE_TASK_STATUSES
                   /\ tasks[o][j].task_type = spec.next_task_type
                   /\ tasks[o][j].target_state = spec.next_target_state
        \/ /\ spec.next_task_type # "none"
           /\ \E row \in TaskRow :
                /\ ins = Append(tasks[o], row)
                /\ row.task_type = spec.next_task_type
                /\ row.target_state = spec.next_target_state
                /\ row.status = "pending" /\ row.attempts = 0
                /\ row.locked_by = NoWorker
                /\ row.task_type \in POLL_TASK_TYPES => row.deadline_at # NoTime
    <2>1. handler(Task(w)) # "unsupported"
      BY DEF AdvanceStep
    <2>2. tasks[o] \in Seq(TaskRow) /\ at \in Nat
      BY <1>1
    <2> HIDE DEF o
    <2> QED BY <2>1, <2>2, FollowupRows DEF SpecOf
  <1>5. /\ ins \in Seq(TaskRow)
        /\ ins[i] = Task(w)
        /\ i \in 1 .. Len(ins)
        /\ n <= Len(ins)
        /\ \A j \in 1 .. n : ins[j] = tasks[o][j]
    <2> HIDE DEF ins, spec
    <2>1. CASE ins = tasks[o]
      BY <1>1, <2>1 DEF Task
    <2>2. CASE \E row \in TaskRow : ins = Append(tasks[o], row)
      BY <1>1, <2>2, AppendProperties DEF Task
    <2> QED BY <1>4, <2>1, <2>2
  <1>6. tasks'[o] = [ins EXCEPT ![i] = done]
    BY <1>1, <1>2, <1>5 DEF AdvanceTasks
  <1>7. /\ [ins EXCEPT ![i] = done] \in Seq(TaskRow)
        /\ Len([ins EXCEPT ![i] = done]) = Len(ins)
        /\ \A j \in 1 .. Len(ins) :
             [ins EXCEPT ![i] = done][j] = IF j = i THEN done ELSE ins[j]
    <2> HIDE DEF ins, done
    <2> QED BY <1>3, <1>5, ExceptSeq
  <1>8. /\ tasks' \in [Orders -> Seq(TaskRow)]
        /\ \A p \in Orders : p # o => tasks'[p] = tasks[p]
    BY <1>1, <1>2, <1>6, <1>7 DEF AdvanceTasks
  <1>9. /\ tasks'[o][i] = done
        /\ Len(tasks'[o]) = Len(ins)
        /\ \A j \in 1 .. Len(ins) : j # i => tasks'[o][j] = ins[j]
    <2> HIDE DEF ins, done
    <2> QED BY <1>5, <1>6, <1>7
  <1>10. TasksGrow
    <2>1. 1 .. n \subseteq 1 .. Len(tasks'[o])
      <3> HIDE DEF ins
      <3> QED BY <1>1, <1>5, <1>9, LenProperties
    <2>2. DOMAIN tasks[o] = 1 .. n /\ DOMAIN tasks'[o] = 1 .. Len(tasks'[o])
      BY <1>1, <1>8, LenProperties
    <2> QED BY <1>8, <2>1, <2>2 DEF TasksGrow
  <1>11. \A j \in DOMAIN tasks[o] : j # i => tasks'[o][j] = tasks[o][j]
    <2> SUFFICES ASSUME NEW j \in DOMAIN tasks[o], j # i
                 PROVE  tasks'[o][j] = tasks[o][j]
      OBVIOUS
    <2>1. j \in 1 .. n
      BY <1>1, LenProperties
    <2> HIDE DEF ins
    <2>2. Len(ins) \in Nat
      BY <1>5, LenProperties
    <2>3. j \in 1 .. Len(ins)
      BY <1>1, <1>5, <2>1, <2>2
    <2> QED BY <1>5, <1>9, <2>1, <2>3
  <1>12. ins = tasks[o] => Len(tasks'[o]) = n
    BY <1>9
  <1>13. ASSUME NEW row \in TaskRow,
                ins = Append(tasks[o], row),
                spec.next_task_type # "none",
                row.task_type = spec.next_task_type,
                row.target_state = spec.next_target_state,
                row.status = "pending", row.attempts = 0, row.locked_by = NoWorker
         PROVE  /\ Len(tasks'[o]) = n + 1
                /\ tasks'[o][n + 1] = row
    <2> HIDE DEF ins
    <2>1. Len(ins) = n + 1 /\ ins[n + 1] = row
      BY <1>1, <1>13, AppendProperties
    <2> QED BY <1>1, <1>9, <2>1
  <1>14. tasks'[o][i] = complete_claimed_task(Task(w))
    BY <1>9
  <1> HIDE DEF ins
  <1> QED BY <1>4, <1>8, <1>10, <1>11, <1>12, <1>13, <1>14

\* What a claim does to order_tasks.
LEMMA ClaimRows ==
  ASSUME TablesOK, NEW w \in Workers, NEW o \in Orders, NEW i \in DOMAIN tasks[o],
         tasks' = [tasks EXCEPT ![o][i] = claim(@, w, now)]
  PROVE  /\ tasks[o][i] \in TaskRow
         /\ tasks' \in [Orders -> Seq(TaskRow)]
         /\ TasksGrow
         /\ \A p \in Orders : Len(tasks'[p]) = Len(tasks[p])
         /\ tasks'[o][i] = claim(tasks[o][i], w, now)
         /\ \A p \in Orders : \A j \in DOMAIN tasks[p] :
              <<p, j>> # <<o, i>> => tasks'[p][j] = tasks[p][j]
  <1>1. tasks \in [Orders -> Seq(TaskRow)] /\ tasks[o][i] \in TaskRow /\ now \in Nat
    BY ElementOfSeq DEF TablesOK
  <1>2. claim(tasks[o][i], w, now) \in TaskRow
    BY <1>1, RowType DEF TASK_ERRORS
  <1>3. tasks' = [tasks EXCEPT ![o][i] = claim(tasks[o][i], w, now)]
    OBVIOUS
  <1> QED BY <1>1, <1>2, <1>3, WriteRow DEF TasksGrow

\* What a cancellation does to order_tasks.
LEMMA CancelRows ==
  ASSUME TablesOK, NEW o \in Orders,
         tasks' = [tasks EXCEPT ![o] = [i \in DOMAIN @ |-> cancel_task(@[i])]]
  PROVE  /\ tasks' \in [Orders -> Seq(TaskRow)]
         /\ TasksGrow
         /\ \A p \in Orders : Len(tasks'[p]) = Len(tasks[p])
         /\ \A p \in Orders : p # o => tasks'[p] = tasks[p]
         /\ \A i \in DOMAIN tasks[o] : tasks'[o][i] = cancel_task(tasks[o][i])
  <1>1. tasks \in [Orders -> Seq(TaskRow)] /\ tasks[o] \in Seq(TaskRow)
    BY DEF TablesOK
  <1>2. \A i \in DOMAIN tasks[o] : cancel_task(tasks[o][i]) \in TaskRow
    <2>1. \A i \in DOMAIN tasks[o] : tasks[o][i] \in TaskRow
      BY <1>1, ElementOfSeq
    <2> QED BY <2>1, RowType DEF TASK_ERRORS
  <1> DEFINE f == [i \in DOMAIN tasks[o] |-> cancel_task(tasks[o][i])]
  <1>3. f \in Seq(TaskRow) /\ Len(f) = Len(tasks[o]) /\ DOMAIN f = DOMAIN tasks[o]
    BY <1>1, <1>2, LenProperties
  <1>4. tasks' = [tasks EXCEPT ![o] = f]
    OBVIOUS
  <1> QED BY <1>1, <1>3, <1>4 DEF TasksGrow

\* What an operator retry does to order_tasks.
LEMMA RetryRows ==
  ASSUME TablesOK, NEW o \in Orders, NEW at \in Nat,
         NEW failed, failed = {i \in DOMAIN tasks[o] : tasks[o][i].status = "failed"},
         tasks' = [tasks EXCEPT ![o] = [i \in DOMAIN @ |->
            IF i \in failed THEN retry_failed_task(@[i], at) ELSE @[i]]]
  PROVE  /\ tasks' \in [Orders -> Seq(TaskRow)]
         /\ TasksGrow
         /\ \A p \in Orders : Len(tasks'[p]) = Len(tasks[p])
         /\ \A p \in Orders : p # o => tasks'[p] = tasks[p]
         /\ \A i \in DOMAIN tasks[o] : tasks'[o][i] =
              IF i \in failed THEN retry_failed_task(tasks[o][i], at) ELSE tasks[o][i]
  <1>1. tasks \in [Orders -> Seq(TaskRow)] /\ tasks[o] \in Seq(TaskRow)
    BY DEF TablesOK
  <1> DEFINE G(i) == IF i \in failed THEN retry_failed_task(tasks[o][i], at)
                     ELSE tasks[o][i]
  <1>2. \A i \in DOMAIN tasks[o] : G(i) \in TaskRow
    <2>1. \A i \in DOMAIN tasks[o] : tasks[o][i] \in TaskRow
      BY <1>1, ElementOfSeq
    <2> QED BY <2>1, RowType DEF TASK_ERRORS
  <1> DEFINE f == [i \in DOMAIN tasks[o] |-> G(i)]
  <1>3. f \in Seq(TaskRow) /\ Len(f) = Len(tasks[o]) /\ DOMAIN f = DOMAIN tasks[o]
    BY <1>1, <1>2, LenProperties
  <1>4. tasks' = [tasks EXCEPT ![o] = f]
    OBVIOUS
  <1> QED BY <1>1, <1>3, <1>4 DEF TasksGrow

\* An event of the pipeline is a well-formed row of order_events.
LEMMA EventType ==
  ASSUME NEW type \in ORDER_EVENT_TYPES, NEW from \in ORDER_STATES \union {Absent},
         NEW to \in ORDER_STATES \union {Absent},
         NEW ids \in SUBSET (Nat \ {0}), NEW at \in Nat
  PROVE  event(type, from, to, ids, at) \in EventRow
  BY DEF event, EventRow

\* The two halves of the type invariant.
LEMMA TypeHalves == TypeOK <=> TablesOK /\ WorkerOK
  BY DEF TypeOK, TablesOK, WorkerOK, Busy

\* The empty tables and the idle workers of the start are well formed.
LEMMA TypeInit == Init => TypeOK
  <1> SUFFICES ASSUME Init PROVE TypeOK
    OBVIOUS
  <1>1. /\ orders \in [Orders -> OrderRow]
        /\ now \in Nat
        /\ killed \in [SIMULATED_SERVICES -> BOOLEAN]
    BY DEF Init, SimInit, OrderRow
  <1>2. tasks \in [Orders -> Seq(TaskRow)] /\ events \in [Orders -> Seq(EventRow)]
    BY EmptySeq DEF Init
  <1>3. worker \in [Workers -> WorkerState] /\ \A w \in Workers : worker[w] = Idle
    BY DEF Init, Idle, WorkerState
  <1> QED BY <1>1, <1>2, <1>3 DEF TypeOK, Idle

\* Moving an order keeps the tables typed.
LEMMA AdvanceType ==
  ASSUME TablesOK, WorkerOK, NEW w \in Workers, AdvanceStep(w)
  PROVE  TablesOK'
  <1> DEFINE o == worker[w].order
             i == worker[w].task
             spec == SpecOf(w)
  <1>1. o \in Orders /\ i \in Nat \ {0} /\ orders[o] \in OrderRow
    BY OwnRow DEF AdvanceStep, TablesOK
  <1>2. /\ spec.target_state \in ORDER_STATES
        /\ spec.source_state \in ORDER_STATES
    BY SpecFacts DEF AdvanceStep, SpecOf, ORDER_TRANSITIONS, ORDER_STATES
  <1>3. PICK at \in Nat :
          /\ orders' = [orders EXCEPT
                ![o].state = spec.target_state,
                ![o].version = @ + 1,
                ![o].updated_at = at,
                ![o].courier_ref = @ \/ spec = COURIER_ASSIGN_SPEC]
          /\ events' = [events EXCEPT ![o] = Append(@,
                event("state_transition", spec.source_state,
                      spec.target_state, {i}, at))]
    BY DEF AdvanceStep
  <1>4. orders' \in [Orders -> OrderRow]
    <2> HIDE DEF spec, o
    <2>1. orders \in [Orders -> OrderRow]
      BY DEF TablesOK
    <2>2. orders[o].version + 1 \in Nat
          /\ (orders[o].courier_ref \/ spec = COURIER_ASSIGN_SPEC) \in BOOLEAN
      BY <1>1 DEF OrderRow
    <2> QED BY <1>1, <1>2, <1>3, <2>1, <2>2 DEF OrderRow
  <1>5. events' \in [Orders -> Seq(EventRow)]
    <2> DEFINE e == event("state_transition", spec.source_state,
                          spec.target_state, {i}, at)
    <2>1. e \in EventRow
      BY <1>1, <1>2, EventType DEF ORDER_EVENT_TYPES
    <2>2. events \in [Orders -> Seq(EventRow)]
      BY DEF TablesOK
    <2>3. events' = [events EXCEPT ![o] = Append(events[o], e)]
      BY <1>3
    <2> HIDE DEF e, o
    <2> QED BY <1>1, <2>1, <2>2, <2>3, AppendProperties
  <1> QED BY <1>4, <1>5, AdvanceRows DEF AdvanceStep, TablesOK

\* An order that was never placed has no task.  The type invariant needs it:
\* placing an order must not drop a row that some worker points to.
Unplaced == \A o \in Orders : orders[o].state = Absent => tasks[o] = <<>>

\* Placing, cancelling and reopening keep the tables typed.
LEMMA ApiType ==
  ASSUME TablesOK, Unplaced, NEW o \in Orders,
         create_or_get_order(o) \/ cancel_order(o) \/ retry_failed_tasks_for_order(o)
  PROVE  TablesOK' /\ TasksGrow /\ UNCHANGED worker
  <1>0. /\ orders \in [Orders -> OrderRow] /\ orders[o] \in OrderRow
        /\ tasks \in [Orders -> Seq(TaskRow)]
        /\ events \in [Orders -> Seq(EventRow)] /\ events[o] \in Seq(EventRow)
        /\ UNCHANGED <<now, killed, worker>>
    BY DEF TablesOK, create_or_get_order, cancel_order, retry_failed_tasks_for_order
  <1>1. \A at \in ApiStamps : at \in Nat
    BY DEF ApiStamps, TablesOK
  <1>2. ASSUME NEW e \in EventRow, events' = [events EXCEPT ![o] = Append(@, e)]
        PROVE  events' \in [Orders -> Seq(EventRow)]
    BY <1>0, <1>2, AppendProperties
  <1>3. CASE create_or_get_order(o)
    <2>1. PICK at \in ApiStamps :
            /\ orders' = [orders EXCEPT ![o].state = "placed", ![o].updated_at = at]
            /\ events' = [events EXCEPT ![o] =
                 <<event("order_created", Absent, Absent, {}, at)>>]
            /\ tasks' = [tasks EXCEPT ![o] =
                 <<new_task("advance_state", "confirmed", at, NoTime, at)>>]
      BY <1>3 DEF create_or_get_order
    <2>2. orders' \in [Orders -> OrderRow]
      BY <1>0, <1>1, <2>1 DEF OrderRow, ORDER_STATES
    <2> DEFINE e == event("order_created", Absent, Absent, {}, at)
               row == new_task("advance_state", "confirmed", at, NoTime, at)
    <2>3. e \in EventRow
      BY <1>1, EventType DEF ORDER_EVENT_TYPES
    <2>4. row \in TaskRow
      BY <1>1 DEF new_task, TaskRow, ORDER_TASK_STATUSES, TASK_ERRORS, Times, NoTime,
                  ORDER_TASK_TYPES, ORDER_STATES
    <2>5. events' = [events EXCEPT ![o] = <<e>>] /\ tasks' = [tasks EXCEPT ![o] = <<row>>]
      BY <2>1
    <2> HIDE DEF e, row
    <2>6. events' \in [Orders -> Seq(EventRow)] /\ tasks' \in [Orders -> Seq(TaskRow)]
      BY <1>0, <2>3, <2>4, <2>5
    <2>7. TasksGrow
      <3>1. tasks[o] = <<>>
        BY <1>3 DEF create_or_get_order, Unplaced
      <3> QED BY <1>0, <2>5, <3>1 DEF TasksGrow
    <2> QED BY <1>0, <2>2, <2>6, <2>7 DEF TablesOK
  <1>4. CASE cancel_order(o)
    <2>1. PICK at \in ApiStamps :
            /\ orders' = [orders EXCEPT ![o].state = "cancelled",
                                   ![o].version = @ + 1, ![o].updated_at = at]
            /\ tasks' = [tasks EXCEPT ![o] = [i \in DOMAIN @ |-> cancel_task(@[i])]]
            /\ events' = [events EXCEPT ![o] = Append(@,
                 event("order_cancelled", orders[o].state, "cancelled", {}, at))]
      BY <1>4 DEF cancel_order
    <2>2. orders' \in [Orders -> OrderRow]
      <3>1. orders[o].version + 1 \in Nat
        BY <1>0 DEF OrderRow
      <3> QED BY <1>0, <1>1, <2>1, <3>1 DEF OrderRow, ORDER_STATES
    <2>3. event("order_cancelled", orders[o].state, "cancelled", {}, at) \in EventRow
      BY <1>0, <1>1, EventType DEF ORDER_EVENT_TYPES, OrderRow, ORDER_STATES
    <2>4. events' \in [Orders -> Seq(EventRow)]
      BY <1>2, <2>1, <2>3
    <2> QED BY <1>0, <2>1, <2>2, <2>4, CancelRows DEF TablesOK
  <1>5. CASE retry_failed_tasks_for_order(o)
    <2> DEFINE failed == {i \in DOMAIN tasks[o] : tasks[o][i].status = "failed"}
    <2>1. PICK at \in ApiStamps :
            /\ tasks' = [tasks EXCEPT ![o] = [i \in DOMAIN @ |->
                 IF i \in failed THEN retry_failed_task(@[i], at) ELSE @[i]]]
            /\ events' = [events EXCEPT ![o] = Append(@,
                 event("retry_scheduled", Absent, Absent, failed, at))]
      BY <1>5 DEF retry_failed_tasks_for_order
    <2>2. failed \in SUBSET (Nat \ {0})
      <3>1. tasks[o] \in Seq(TaskRow)
        BY <1>0
      <3> QED BY <3>1, LenProperties
    <2>3. event("retry_scheduled", Absent, Absent, failed, at) \in EventRow
      <3> HIDE DEF failed
      <3> QED BY <1>1, <2>2, EventType DEF ORDER_EVENT_TYPES
    <2>4. events' \in [Orders -> Seq(EventRow)]
      BY <1>2, <2>1, <2>3
    <2>5. tasks' \in [Orders -> Seq(TaskRow)] /\ TasksGrow
      BY <1>1, <2>1, RetryRows
    <2>6. UNCHANGED orders
      BY <1>5 DEF retry_failed_tasks_for_order
    <2> QED BY <1>0, <2>4, <2>5, <2>6 DEF TablesOK
  <1> QED BY <1>3, <1>4, <1>5

TypeInv == TablesOK /\ WorkerOK /\ Unplaced

\* A claim keeps the tables typed and points its worker to an existing task.
LEMMA ClaimType ==
  ASSUME TypeInv, NEW w \in Workers, claim_one_task(w)
  PROVE  /\ TablesOK' /\ WorkerOK'
         /\ \A p \in Orders : Len(tasks'[p]) = Len(tasks[p])
  <1>1. /\ worker[w].phase = "idle" /\ worker[w] \in WorkerState
        /\ UNCHANGED <<now, killed, orders, events>>
    BY DEF claim_one_task, TypeInv, WorkerOK
  <1>a. PICK o \in Orders : \E i \in DOMAIN tasks[o] :
          /\ tasks' = [tasks EXCEPT ![o][i] = claim(@, w, now)]
          /\ worker' = [worker EXCEPT ![w].phase = "claimed",
                                      ![w].order = o, ![w].task = i]
    BY DEF claim_one_task
  <1>2. PICK i \in DOMAIN tasks[o] :
          /\ tasks' = [tasks EXCEPT ![o][i] = claim(@, w, now)]
          /\ worker' = [worker EXCEPT ![w].phase = "claimed",
                                      ![w].order = o, ![w].task = i]
    BY <1>a
  <1>3. /\ tasks' \in [Orders -> Seq(TaskRow)] /\ TasksGrow
        /\ \A p \in Orders : Len(tasks'[p]) = Len(tasks[p])
    BY <1>2, ClaimRows DEF TypeInv
  <1>4. i \in Nat
    <2>1. tasks[o] \in Seq(TaskRow)
      BY DEF TypeInv, TablesOK
    <2> QED BY <2>1, LenProperties
  <1> DEFINE s == [worker[w] EXCEPT !.phase = "claimed", !.order = o, !.task = i]
  <1>5. s \in WorkerState /\ s.order = o /\ s.task = i
    BY <1>1, <1>4 DEF WorkerState
  <1>6. worker' = [worker EXCEPT ![w] = s]
    BY <1>2 DEF TypeInv, WorkerOK
  <1> HIDE DEF s
  <1>7. WorkerOK'
    <2>1. i \in DOMAIN tasks'[o] /\ o \in Orders
      BY <1>3 DEF TasksGrow
    <2>2. worker \in [Workers -> WorkerState]
      BY DEF TypeInv, WorkerOK
    <2>3. worker' \in [Workers -> WorkerState] /\ worker'[w] = s
      BY <1>5, <1>6, <2>2
    <2>4. \A v \in Workers : v # w => worker'[v] = worker[v]
      BY <1>6, <2>2
    <2>5. \A v \in Workers : worker'[v].phase \in Busy =>
            worker'[v].order \in Orders /\ worker'[v].task \in DOMAIN tasks'[worker'[v].order]
      BY <1>3, <1>5, <2>1, <2>3, <2>4 DEF TypeInv, WorkerOK, TasksGrow
    <2> QED BY <2>3, <2>5 DEF WorkerOK
  <1> QED BY <1>1, <1>3, <1>7 DEF TypeInv, TablesOK

\* Every step keeps the type invariant and deletes no task.
LEMMA TypeStep ==
  ASSUME TypeInv, [Next]_vars PROVE TypeInv'
  <1>0. TablesOK /\ WorkerOK /\ Unplaced
    BY DEF TypeInv
  <1>1. ASSUME UNCHANGED orders, tasks' \in [Orders -> Seq(TaskRow)],
               \A p \in Orders : Len(tasks'[p]) = Len(tasks[p])
        PROVE  Unplaced'
    <2>1. \A p \in Orders : /\ tasks[p] \in Seq(TaskRow) /\ tasks'[p] \in Seq(TaskRow)
                            /\ Len(tasks'[p]) = Len(tasks[p])
      BY <1>0, <1>1 DEF TablesOK
    <2>2. \A p \in Orders : tasks[p] = <<>> => tasks'[p] = <<>>
      BY <2>1, EmptySeq
    <2> QED BY <1>0, <1>1, <2>2 DEF Unplaced
  <1>2. ASSUME NEW w \in Workers, claim_one_task(w) PROVE TypeInv'
    <2>1. UNCHANGED orders
      BY <1>2 DEF claim_one_task
    <2> QED BY <1>1, <1>2, <2>1, ClaimType DEF TypeInv, TablesOK
  <1>3. ASSUME NEW w \in Workers, QuietStep(w) PROVE TypeInv'
    <2>1. UNCHANGED <<now, killed, orders, tasks, events>>
      BY <1>3 DEF QuietStep
    <2>2. PICK s \in WorkerState :
            /\ worker' = [worker EXCEPT ![w] = s]
            /\ \/ s.phase \notin Busy
               \/ /\ worker[w].phase \in Busy
                  /\ s.order = worker[w].order /\ s.task = worker[w].task
      BY <1>3 DEF QuietStep
    <2>3. WorkerOK'
      BY <1>0, <2>1, <2>2 DEF WorkerOK
    <2> QED BY <1>0, <2>1, <2>3 DEF TypeInv, TablesOK, Unplaced
  <1>4. ASSUME NEW w \in Workers, SettleStep(w) PROVE TypeInv'
    <2>1. PICK row \in TaskRow : WriteTask(w, row)
      BY <1>4 DEF SettleStep
    <2>2. /\ worker[w].phase \in Busy /\ Finish(w)
          /\ UNCHANGED <<now, killed, orders, events>>
      BY <1>4 DEF SettleStep
    <2>3. /\ tasks' \in [Orders -> Seq(TaskRow)] /\ TasksGrow
          /\ \A p \in Orders : Len(tasks'[p]) = Len(tasks[p])
      BY <1>0, <2>1, <2>2, WroteTask
    <2>4. WorkerOK'
      BY <1>0, <2>2, <2>3, WorkerFinished
    <2>5. Unplaced'
      BY <1>1, <2>2, <2>3
    <2> QED BY <1>0, <2>2, <2>3, <2>4, <2>5 DEF TypeInv, TablesOK
  <1>5. ASSUME NEW w \in Workers, AdvanceStep(w) PROVE TypeInv'
    <2> DEFINE o == worker[w].order
    <2>1. TablesOK' /\ TasksGrow /\ \A p \in Orders : p # o => tasks'[p] = tasks[p]
      BY <1>0, <1>5, AdvanceType, AdvanceRows
    <2>2. WorkerOK'
      BY <1>0, <1>5, <2>1, WorkerFinished DEF AdvanceStep
    <2>3. SpecOf(w).target_state # Absent
      BY <1>5, SpecFacts DEF AdvanceStep, SpecOf, ORDER_STATES, Absent
    <2>4. o \in Orders
      BY <1>0, <1>5, OwnRow DEF AdvanceStep
    <2>5. /\ orders'[o].state = SpecOf(w).target_state
          /\ \A p \in Orders : p # o => orders'[p] = orders[p]
      <3>1. PICK at \in Nat : orders' = [orders EXCEPT
                ![o].state = SpecOf(w).target_state,
                ![o].version = @ + 1,
                ![o].updated_at = at,
                ![o].courier_ref = @ \/ SpecOf(w) = COURIER_ASSIGN_SPEC]
        BY <1>5 DEF AdvanceStep
      <3> QED BY <1>0, <2>4, <3>1 DEF TablesOK, OrderRow
    <2>6. Unplaced'
      BY <1>0, <2>1, <2>3, <2>4, <2>5 DEF Unplaced
    <2> QED BY <2>1, <2>2, <2>6 DEF TypeInv
  <1>6. ASSUME NEW o \in Orders, \/ create_or_get_order(o) \/ cancel_order(o)
                                 \/ retry_failed_tasks_for_order(o)
        PROVE  TypeInv'
    <2>1. TablesOK' /\ TasksGrow /\ UNCHANGED worker
      BY <1>0, <1>6, ApiType
    <2>2. WorkerOK'
      BY <1>0, <2>1, WorkerKept
    <2>3. Unplaced'
      <3>1. CASE create_or_get_order(o)
        BY <1>0, <3>1 DEF create_or_get_order, Unplaced, TablesOK, OrderRow, Absent
      <3>2. CASE cancel_order(o)
        BY <1>0, <3>2 DEF cancel_order, Unplaced, TablesOK, OrderRow, Absent
      <3>3. CASE retry_failed_tasks_for_order(o)
        <4>1. PICK at \in ApiStamps : tasks' = [tasks EXCEPT ![o] = [i \in DOMAIN @ |->
                 IF i \in {j \in DOMAIN tasks[o] : tasks[o][j].status = "failed"}
                   THEN retry_failed_task(@[i], at) ELSE @[i]]]
          BY <3>3 DEF retry_failed_tasks_for_order
        <4>2. at \in Nat
          BY <1>0 DEF ApiStamps, TablesOK
        <4>3. /\ tasks' \in [Orders -> Seq(TaskRow)]
              /\ \A p \in Orders : Len(tasks'[p]) = Len(tasks[p])
          BY <1>0, <4>1, <4>2, RetryRows
        <4> QED BY <1>1, <3>3, <4>3 DEF retry_failed_tasks_for_order
      <3> QED BY <1>6, <3>1, <3>2, <3>3
    <2> QED BY <2>1, <2>2, <2>3 DEF TypeInv
  <1>7. CASE OutsideStep
    BY <1>0, <1>7 DEF OutsideStep, TypeInv, TablesOK, WorkerOK, Unplaced
  <1> QED BY <1>0, <1>2, <1>3, <1>4, <1>5, <1>6, <1>7, StepKinds

\* The rows keep the shape of their tables, and a worker at work always points
\* to an existing task, whatever the number of orders and workers.
THEOREM TypeCorrect == Spec => []TypeOK
  <1>1. Init => TypeInv
    BY TypeInit, TypeHalves DEF TypeInv, Unplaced, Init
  <1>2. TypeInv /\ [Next]_vars => TypeInv'
    BY TypeStep
  <1>3. TypeInv => TypeOK
    BY TypeHalves DEF TypeInv
  <1> QED BY <1>1, <1>2, <1>3, PTL DEF Spec

--------------------------------------------------------------------------------
\* The retry budget.

\* AttemptBudget is a statement about each row by itself.
LEMMA BudgetByRow ==
  AttemptBudget <=> \A o \in Orders : \A i \in DOMAIN tasks[o] : RowBudget(tasks[o][i])
  BY DEF AttemptBudget, RowBudget

\* A claim, a completion, a cancellation and an operator retry keep the budget
\* of a row that is within it.
LEMMA RowBudgetKept ==
  ASSUME NEW r \in TaskRow, RowBudget(r), NEW t \in Nat
  PROVE  /\ \A w \in Workers : claimable(r, t) => RowBudget(claim(r, w, t))
         /\ RowBudget(complete_claimed_task(r))
         /\ RowBudget(cancel_task(r))
         /\ RowBudget(retry_failed_task(r, t))
  <1>1. ASSUME NEW w \in Workers, claimable(r, t) PROVE RowBudget(claim(r, w, t))
    <2> DEFINE row == claim(r, w, t)
    <2>1. r.attempts < MaxAttempts
      BY <1>1 DEF claimable, RowBudget, ACTIVE_TASK_STATUSES
    <2>2. row.status = "running" /\ row.attempts = r.attempts
      BY DEF claim, TaskRow
    <2> HIDE DEF row
    <2>3. RowBudget(row)
      BY <2>1, <2>2 DEF RowBudget
    <2> QED BY <2>3 DEF row
  <1>2. RowBudget(complete_claimed_task(r))
    <2>1. complete_claimed_task(r).status = "completed"
      BY DEF complete_claimed_task, TaskRow
    <2> QED BY <2>1 DEF RowBudget, ACTIVE_TASK_STATUSES
  <1>3. RowBudget(cancel_task(r))
    <2>1. cancel_task(r) = r \/ cancel_task(r).status = "cancelled"
      BY DEF cancel_task, TaskRow
    <2> QED BY <2>1 DEF RowBudget, ACTIVE_TASK_STATUSES
  <1>4. RowBudget(retry_failed_task(r, t))
    <2> DEFINE row == retry_failed_task(r, t)
    <2>1. row.status = "pending" /\ row.attempts = 0
      BY DEF retry_failed_task, TaskRow
    <2> HIDE DEF row
    <2>2. RowBudget(row)
      BY <2>1, TaskRowsAssumption DEF RowBudget
    <2> QED BY <2>2 DEF row
  <1> QED BY <1>1, <1>2, <1>3, <1>4

\* Every step keeps every row within its budget.
LEMMA BudgetStep ==
  ASSUME TypeInv, AttemptBudget, [Next]_vars PROVE AttemptBudget'
  <1>0. /\ TablesOK /\ WorkerOK /\ Unplaced
        /\ now \in Nat
        /\ \A o \in Orders : \A i \in DOMAIN tasks[o] :
             tasks[o][i] \in TaskRow /\ RowBudget(tasks[o][i])
    BY BudgetByRow, ElementOfSeq DEF TypeInv, TablesOK
  <1>a. ASSUME \A o \in Orders : \A i \in DOMAIN tasks'[o] : RowBudget(tasks'[o][i])
        PROVE  AttemptBudget'
    BY <1>a DEF AttemptBudget, RowBudget
  <1>b. ASSUME tasks' \in [Orders -> Seq(TaskRow)], TasksGrow,
               \A p \in Orders : Len(tasks'[p]) = Len(tasks[p])
        PROVE  \A p \in Orders : DOMAIN tasks'[p] = DOMAIN tasks[p]
    BY <1>b, LenProperties DEF TypeInv, TablesOK
  <1>1. ASSUME NEW w \in Workers, claim_one_task(w) PROVE AttemptBudget'
    <2>1. PICK o \in Orders : \E i \in DOMAIN tasks[o] :
            /\ claimable(tasks[o][i], now)
            /\ tasks' = [tasks EXCEPT ![o][i] = claim(@, w, now)]
      BY <1>1 DEF claim_one_task
    <2>2. PICK i \in DOMAIN tasks[o] :
            /\ claimable(tasks[o][i], now)
            /\ tasks' = [tasks EXCEPT ![o][i] = claim(@, w, now)]
      BY <2>1
    <2>3. /\ tasks'[o][i] = claim(tasks[o][i], w, now)
          /\ \A p \in Orders : \A j \in DOMAIN tasks[p] :
               <<p, j>> # <<o, i>> => tasks'[p][j] = tasks[p][j]
          /\ \A p \in Orders : DOMAIN tasks'[p] = DOMAIN tasks[p]
      BY <1>0, <1>b, <2>2, ClaimRows
    <2>4. RowBudget(tasks'[o][i])
      BY <1>0, <2>2, <2>3, RowBudgetKept
    <2> QED BY <1>0, <1>a, <2>3, <2>4
  <1>2. ASSUME NEW w \in Workers, SettleStep(w) PROVE AttemptBudget'
    <2>1. PICK row \in TaskRow :
            /\ WriteTask(w, row)
            /\ Returned(Task(w), row) \/ row = complete_claimed_task(Task(w))
      BY <1>2 DEF SettleStep
    <2>2. worker[w].phase \in Busy /\ Task(w).status = "running"
      BY <1>2 DEF SettleStep, owned_task_check_result
    <2>3. /\ Task(w) \in TaskRow
          /\ worker[w].order \in Orders
          /\ worker[w].task \in DOMAIN tasks[worker[w].order]
      BY <1>0, <2>2, OwnRow
    <2>4. RowBudget(Task(w)) /\ Task(w).attempts < MaxAttempts
      BY <1>0, <2>2, <2>3 DEF Task, RowBudget, ACTIVE_TASK_STATUSES
    <2>5. RowBudget(row)
      BY <1>0, <2>1, <2>3, <2>4, RowBudgetKept DEF Returned
    <2>6. /\ tasks'[worker[w].order][worker[w].task] = row
          /\ \A p \in Orders : \A j \in DOMAIN tasks[p] :
               <<p, j>> # <<worker[w].order, worker[w].task>> => tasks'[p][j] = tasks[p][j]
          /\ \A p \in Orders : DOMAIN tasks'[p] = DOMAIN tasks[p]
      BY <1>0, <1>b, <2>1, <2>2, WroteTask
    <2> QED BY <1>0, <1>a, <2>5, <2>6
  <1>3. ASSUME NEW w \in Workers, AdvanceStep(w) PROVE AttemptBudget'
    <2> DEFINE o == worker[w].order
               i == worker[w].task
               n == Len(tasks[o])
    <2>1. /\ o \in Orders /\ i \in DOMAIN tasks[o] /\ Task(w) \in TaskRow
          /\ Task(w) = tasks[o][i]
      BY <1>0, <1>3, OwnRow DEF AdvanceStep, Task
    <2>2. /\ tasks' \in [Orders -> Seq(TaskRow)]
          /\ \A p \in Orders : p # o => tasks'[p] = tasks[p]
          /\ tasks'[o][i] = complete_claimed_task(Task(w))
          /\ \A j \in DOMAIN tasks[o] : j # i => tasks'[o][j] = tasks[o][j]
          /\ \/ Len(tasks'[o]) = n
             \/ /\ Len(tasks'[o]) = n + 1
                /\ tasks'[o][n + 1].status = "pending"
                /\ tasks'[o][n + 1].attempts = 0
      BY <1>0, <1>3, AdvanceRows
    <2>3. RowBudget(tasks'[o][i])
      BY <1>0, <2>1, <2>2, RowBudgetKept
    <2>4. /\ DOMAIN tasks[o] = 1 .. n /\ n \in Nat
          /\ DOMAIN tasks'[o] = 1 .. Len(tasks'[o])
      <3>1. tasks[o] \in Seq(TaskRow) /\ tasks'[o] \in Seq(TaskRow)
        BY <1>0, <2>1, <2>2 DEF TablesOK
      <3> QED BY <3>1, LenProperties
    <2>5. ASSUME NEW j \in DOMAIN tasks'[o] PROVE RowBudget(tasks'[o][j])
      <3> HIDE DEF o, i
      <3>1. CASE j \in DOMAIN tasks[o]
        BY <1>0, <2>1, <2>2, <2>3, <3>1
      <3>2. CASE j \notin DOMAIN tasks[o]
        <4>1. j = n + 1 /\ Len(tasks'[o]) = n + 1
          BY <2>2, <2>4, <2>5, <3>2
        <4>2. tasks'[o][j].status = "pending" /\ tasks'[o][j].attempts = 0
          BY <2>2, <2>4, <4>1
        <4> QED BY <4>2, TaskRowsAssumption DEF RowBudget
      <3> QED BY <3>1, <3>2
    <2> HIDE DEF o, i
    <2> QED BY <1>0, <1>a, <2>2, <2>5
  <1>4. ASSUME NEW o \in Orders, create_or_get_order(o) PROVE AttemptBudget'
    <2>1. PICK at \in ApiStamps : tasks' = [tasks EXCEPT ![o] =
                 <<new_task("advance_state", "confirmed", at, NoTime, at)>>]
      BY <1>4 DEF create_or_get_order
    <2> DEFINE row == new_task("advance_state", "confirmed", at, NoTime, at)
    <2>2. row.status = "pending" /\ row.attempts = 0
      BY DEF new_task
    <2>3. tasks' = [tasks EXCEPT ![o] = <<row>>]
      BY <2>1
    <2> HIDE DEF row
    <2>4. RowBudget(row)
      BY <2>2, TaskRowsAssumption DEF RowBudget
    <2>5. tasks'[o] = <<row>> /\ \A p \in Orders : p # o => tasks'[p] = tasks[p]
      BY <1>0, <2>3 DEF TablesOK
    <2> QED BY <1>0, <1>a, <2>4, <2>5
  <1>5. ASSUME NEW o \in Orders, cancel_order(o) PROVE AttemptBudget'
    <2>1. tasks' = [tasks EXCEPT ![o] = [i \in DOMAIN @ |-> cancel_task(@[i])]]
      BY <1>5 DEF cancel_order
    <2>2. /\ \A p \in Orders : p # o => tasks'[p] = tasks[p]
          /\ \A i \in DOMAIN tasks[o] : tasks'[o][i] = cancel_task(tasks[o][i])
          /\ \A p \in Orders : DOMAIN tasks'[p] = DOMAIN tasks[p]
      BY <1>0, <1>b, <2>1, CancelRows
    <2>3. \A i \in DOMAIN tasks'[o] : RowBudget(tasks'[o][i])
      BY <1>0, <2>2, RowBudgetKept
    <2> QED BY <1>0, <1>a, <2>2, <2>3
  <1>6. ASSUME NEW o \in Orders, retry_failed_tasks_for_order(o) PROVE AttemptBudget'
    <2> DEFINE failed == {i \in DOMAIN tasks[o] : tasks[o][i].status = "failed"}
    <2>1. PICK at \in ApiStamps : tasks' = [tasks EXCEPT ![o] = [i \in DOMAIN @ |->
                 IF i \in failed THEN retry_failed_task(@[i], at) ELSE @[i]]]
      BY <1>6 DEF retry_failed_tasks_for_order
    <2>2. at \in Nat
      BY <1>0 DEF ApiStamps
    <2>3. /\ \A p \in Orders : p # o => tasks'[p] = tasks[p]
          /\ \A i \in DOMAIN tasks[o] : tasks'[o][i] =
               IF i \in failed THEN retry_failed_task(tasks[o][i], at) ELSE tasks[o][i]
          /\ \A p \in Orders : DOMAIN tasks'[p] = DOMAIN tasks[p]
      <3>1. TablesOK /\ failed = {i \in DOMAIN tasks[o] : tasks[o][i].status = "failed"}
        BY <1>0
      <3> HIDE DEF failed
      <3>2. /\ tasks' \in [Orders -> Seq(TaskRow)] /\ TasksGrow
            /\ \A p \in Orders : Len(tasks'[p]) = Len(tasks[p])
            /\ \A p \in Orders : p # o => tasks'[p] = tasks[p]
            /\ \A i \in DOMAIN tasks[o] : tasks'[o][i] =
                 IF i \in failed THEN retry_failed_task(tasks[o][i], at) ELSE tasks[o][i]
        BY <2>1, <2>2, <3>1, RetryRows, Zenon
      <3> QED BY <1>b, <3>2
    <2>4. \A i \in DOMAIN tasks'[o] : RowBudget(tasks'[o][i])
      <3> HIDE DEF failed
      <3> QED BY <1>0, <2>2, <2>3, RowBudgetKept
    <2> QED BY <1>0, <1>a, <2>3, <2>4
  <1>7. ASSUME UNCHANGED tasks PROVE AttemptBudget'
    BY <1>7 DEF AttemptBudget
  <1>8. \A w \in Workers : QuietStep(w) => UNCHANGED tasks
    BY DEF QuietStep
  <1>9. OutsideStep => UNCHANGED tasks
    BY DEF OutsideStep
  <1> QED BY <1>0, <1>1, <1>2, <1>3, <1>4, <1>5, <1>6, <1>7, <1>8, <1>9, StepKinds

\* The retry budget is exact for any number of workers, lease lengths and
\* operator retries: a task that can still run has attempts left, and one that
\* failed used its last or ran into its deadline.
THEOREM BudgetExact == Spec => []AttemptBudget
  <1>1. Init => TypeInv /\ AttemptBudget
    BY TypeInit, TypeHalves DEF TypeInv, Unplaced, Init, AttemptBudget
  <1>2. TypeInv /\ AttemptBudget /\ [Next]_vars => TypeInv' /\ AttemptBudget'
    BY TypeStep, BudgetStep
  <1> QED BY <1>1, <1>2, PTL DEF Spec

--------------------------------------------------------------------------------
\* One line of work per order.

\* The first two conjuncts of StageQueue for one order: the rows it has are the
\* first steps of the pipeline, and all but the last are completed.
Line(rows) ==
  /\ Len(rows) <= 5
  /\ \A i \in 1 .. Len(rows) :
       /\ handler(rows[i]) # "unsupported"
       /\ spec_of(rows[i]).source_state = STAGES[i]
       /\ i < Len(rows) => rows[i].status = "completed"

\* The others: how far along the rows are is what the order's state says.  No
\* order is in state "failed".
Fits(state, rows) ==
  LET n == Len(rows) IN
  /\ state = Absent => n = 0
  /\ state \in DOMAIN ORDER_TRANSITIONS =>
       /\ n > 0
       /\ state = STAGES[n]
       /\ rows[n].status \in {"pending", "running", "failed"}
  /\ state = "delivered" => n = 5 /\ rows[n].status = "completed"
  /\ state = "cancelled" => n > 0
  /\ state # "failed"

QueueInv == \A o \in Orders : Line(tasks[o]) /\ Fits(orders[o].state, tasks[o])

\* The five stages are the happy path.
LEMMA StageFacts ==
  /\ Len(STAGES) = 5
  /\ STAGES[1] = "placed"
  /\ \A n \in 1 .. 5 : /\ STAGES[n] \in DOMAIN ORDER_TRANSITIONS
                       /\ STAGES[n] = "out_for_delivery" <=> n = 5
                       /\ n < 5 => ORDER_TRANSITIONS[STAGES[n]] = STAGES[n + 1]
  /\ \A m, n \in 1 .. 5 : STAGES[m] = STAGES[n] => m = n
  /\ \A s : s \in DOMAIN ORDER_TRANSITIONS => s \in ORDER_STATES
  <1>1. Len(STAGES) = 5 /\ STAGES[1] = "placed"
    BY DEF STAGES
  <1>2. \A n \in 1 .. 5 : n = 1 \/ n = 2 \/ n = 3 \/ n = 4 \/ n = 5
    OBVIOUS
  <1>3. /\ STAGES[1] = "placed" /\ STAGES[2] = "confirmed" /\ STAGES[3] = "preparing"
        /\ STAGES[4] = "ready" /\ STAGES[5] = "out_for_delivery"
    BY DEF STAGES
  <1>4. \A m, n \in 1 .. 5 : STAGES[m] = STAGES[n] => m = n
    BY <1>2, <1>3
  <1>5. /\ ORDER_TRANSITIONS["placed"] = "confirmed"
        /\ ORDER_TRANSITIONS["confirmed"] = "preparing"
        /\ ORDER_TRANSITIONS["preparing"] = "ready"
        /\ ORDER_TRANSITIONS["ready"] = "out_for_delivery"
        /\ DOMAIN ORDER_TRANSITIONS = {"placed", "confirmed", "preparing", "ready",
                                       "out_for_delivery"}
    BY DEF ORDER_TRANSITIONS
  <1>6. \A n \in 1 .. 5 : /\ STAGES[n] \in DOMAIN ORDER_TRANSITIONS
                          /\ STAGES[n] = "out_for_delivery" <=> n = 5
                          /\ n < 5 => ORDER_TRANSITIONS[STAGES[n]] = STAGES[n + 1]
    BY <1>2, <1>3, <1>5
  <1>7. \A s : s \in DOMAIN ORDER_TRANSITIONS => s \in ORDER_STATES
    BY <1>5 DEF ORDER_STATES
  <1> QED BY <1>1, <1>4, <1>6, <1>7

\* QueueInv is the property the runs check, order by order.
LEMMA QueueImplies == QueueInv => StageQueue
  BY StageFacts DEF QueueInv, StageQueue, Line, Fits, Live

\* Which handler runs a task, and with which spec, depends on its type and
\* target only.
LEMMA SameTask ==
  ASSUME NEW r, NEW s, r.task_type = s.task_type, r.target_state = s.target_state
  PROVE  handler(r) = handler(s) /\ spec_of(r) = spec_of(s)
  BY DEF handler, spec_of

\* Only the last row of a line can be anything but completed.
LEMMA UnfinishedIsLast ==
  ASSUME NEW rows \in Seq(TaskRow), Line(rows), NEW i \in DOMAIN rows,
         rows[i].status # "completed"
  PROVE  i = Len(rows) /\ i \in 1 .. 5 /\ Len(rows) \in 1 .. 5
  <1>1. i \in 1 .. Len(rows) /\ Len(rows) \in Nat
    BY LenProperties
  <1>2. Len(rows) <= 5 /\ ~(i < Len(rows))
    BY <1>1 DEF Line
  <1>3. \A a, b : b \in Nat /\ a \in 1 .. b /\ b <= 5 /\ ~(a < b) =>
          a = b /\ a \in 1 .. 5 /\ b \in 1 .. 5
    OBVIOUS
  <1> QED BY <1>1, <1>2, <1>3, Zenon

\* Rewriting the last row of a line without changing which task it is leaves a
\* line.
LEMMA LastRewritten ==
  ASSUME NEW rows \in Seq(TaskRow), Line(rows), NEW rows2 \in Seq(TaskRow),
         Len(rows2) = Len(rows),
         \A i \in DOMAIN rows : i # Len(rows) => rows2[i] = rows[i],
         Len(rows) > 0 => /\ rows2[Len(rows)].task_type = rows[Len(rows)].task_type
                          /\ rows2[Len(rows)].target_state = rows[Len(rows)].target_state
  PROVE  Line(rows2)
  <1>1. Len(rows) \in Nat /\ DOMAIN rows = 1 .. Len(rows)
    BY LenProperties
  <1>2. ASSUME NEW i \in 1 .. Len(rows2)
        PROVE  /\ handler(rows2[i]) # "unsupported"
               /\ spec_of(rows2[i]).source_state = STAGES[i]
               /\ i < Len(rows2) => rows2[i].status = "completed"
    <2>1. CASE i = Len(rows)
      <3>1. handler(rows2[i]) = handler(rows[i]) /\ spec_of(rows2[i]) = spec_of(rows[i])
        BY <1>1, <1>2, <2>1, SameTask
      <3> QED BY <1>1, <1>2, <2>1, <3>1 DEF Line
    <2>2. CASE i # Len(rows)
      BY <1>1, <1>2, <2>2 DEF Line
    <2> QED BY <2>1, <2>2
  <1> QED BY <1>1, <1>2 DEF Line

\* What claim, return, completion, cancellation and operator retry make of a
\* row: the same task with the status that names the statement.
LEMMA RowFate ==
  ASSUME NEW r \in TaskRow, NEW t \in Nat
  PROVE  /\ \A w \in Workers :
              /\ claim(r, w, t).task_type = r.task_type
              /\ claim(r, w, t).target_state = r.target_state
              /\ claim(r, w, t).status = "running"
              /\ claim(r, w, t).locked_by = w
         /\ complete_claimed_task(r).task_type = r.task_type
         /\ complete_claimed_task(r).target_state = r.target_state
         /\ complete_claimed_task(r).status = "completed"
         /\ retry_failed_task(r, t).task_type = r.task_type
         /\ retry_failed_task(r, t).target_state = r.target_state
         /\ retry_failed_task(r, t).status = "pending"
         /\ IF r.status \in ACTIVE_TASK_STATUSES
              THEN /\ cancel_task(r).task_type = r.task_type
                   /\ cancel_task(r).target_state = r.target_state
                   /\ cancel_task(r).status = "cancelled"
              ELSE cancel_task(r) = r
  <1>1. \A w \in Workers : /\ claim(r, w, t).task_type = r.task_type
                           /\ claim(r, w, t).target_state = r.target_state
                           /\ claim(r, w, t).status = "running"
                           /\ claim(r, w, t).locked_by = w
    BY DEF claim, TaskRow
  <1>2. /\ complete_claimed_task(r).task_type = r.task_type
        /\ complete_claimed_task(r).target_state = r.target_state
        /\ complete_claimed_task(r).status = "completed"
    BY DEF complete_claimed_task, TaskRow
  <1>3. /\ retry_failed_task(r, t).task_type = r.task_type
        /\ retry_failed_task(r, t).target_state = r.target_state
        /\ retry_failed_task(r, t).status = "pending"
    BY DEF retry_failed_task, TaskRow
  <1>4. IF r.status \in ACTIVE_TASK_STATUSES
          THEN /\ cancel_task(r).task_type = r.task_type
               /\ cancel_task(r).target_state = r.target_state
               /\ cancel_task(r).status = "cancelled"
          ELSE cancel_task(r) = r
    BY DEF cancel_task, TaskRow
  <1> QED BY <1>1, <1>2, <1>3, <1>4

\* A claim takes the last row of a line, and that row's order has not been
\* delivered.
LEMMA QueueClaim ==
  ASSUME TypeInv, QueueInv, NEW w \in Workers, claim_one_task(w)
  PROVE  QueueInv'
  <1>1. PICK o \in Orders : \E i \in DOMAIN tasks[o] :
          /\ claimable(tasks[o][i], now)
          /\ tasks' = [tasks EXCEPT ![o][i] = claim(@, w, now)]
    BY DEF claim_one_task
  <1>2. PICK i \in DOMAIN tasks[o] :
          /\ claimable(tasks[o][i], now)
          /\ tasks' = [tasks EXCEPT ![o][i] = claim(@, w, now)]
    BY <1>1
  <1>3. /\ tasks[o] \in Seq(TaskRow) /\ now \in Nat /\ UNCHANGED orders
        /\ Line(tasks[o]) /\ Fits(orders[o].state, tasks[o])
    BY DEF TypeInv, TablesOK, QueueInv, claim_one_task
  <1>4. /\ tasks[o][i] \in TaskRow
        /\ tasks' \in [Orders -> Seq(TaskRow)] /\ tasks'[o] \in Seq(TaskRow)
        /\ Len(tasks'[o]) = Len(tasks[o])
        /\ tasks'[o][i] = claim(tasks[o][i], w, now)
        /\ \A p \in Orders : \A j \in DOMAIN tasks[p] :
             <<p, j>> # <<o, i>> => tasks'[p][j] = tasks[p][j]
        /\ \A p \in Orders : Len(tasks'[p]) = Len(tasks[p])
    BY <1>2, ClaimRows DEF TypeInv
  <1>5. tasks[o][i].status \in {"pending", "running"}
    BY <1>2 DEF claimable
  <1>6. i = Len(tasks[o]) /\ i \in 1 .. 5
    BY <1>3, <1>5, UnfinishedIsLast
  <1>7. /\ tasks'[o][i].task_type = tasks[o][i].task_type
        /\ tasks'[o][i].target_state = tasks[o][i].target_state
        /\ tasks'[o][i].status = "running"
    BY <1>3, <1>4, RowFate
  <1>8. Line(tasks'[o])
    BY <1>3, <1>4, <1>6, <1>7, LastRewritten
  <1>9. Fits(orders'[o].state, tasks'[o])
    BY <1>3, <1>4, <1>5, <1>6, <1>7 DEF Fits
  <1>10. \A p \in Orders : p # o => tasks'[p] = tasks[p]
    BY <1>2 DEF TypeInv, TablesOK
  <1> QED BY <1>3, <1>8, <1>9, <1>10 DEF QueueInv

\* A worker that gives its task back or up leaves the line as it is.  It
\* completes a task without moving the order only when the order is not live.
LEMMA QueueSettle ==
  ASSUME TypeInv, QueueInv, NEW w \in Workers, SettleStep(w)
  PROVE  QueueInv'
  <1> DEFINE o == worker[w].order
             i == worker[w].task
  <1>1. PICK row \in TaskRow :
          /\ WriteTask(w, row)
          /\ \/ Returned(Task(w), row)
             \/ ~in_source_state(w) /\ row = complete_claimed_task(Task(w))
    BY DEF SettleStep
  <1>2. /\ worker[w].phase \in Busy /\ Task(w).status = "running"
        /\ UNCHANGED orders
    BY DEF SettleStep, owned_task_check_result
  <1>3. /\ Task(w) \in TaskRow /\ o \in Orders /\ i \in DOMAIN tasks[o]
        /\ Task(w) = tasks[o][i] /\ Order(w) = orders[o]
    BY <1>2, OwnRow DEF TypeInv, Task, Order
  <1>4. /\ tasks[o] \in Seq(TaskRow) /\ now \in Nat
        /\ Line(tasks[o]) /\ Fits(orders[o].state, tasks[o])
    BY <1>3 DEF TypeInv, TablesOK, QueueInv
  <1>5. /\ tasks' \in [Orders -> Seq(TaskRow)]
        /\ \A p \in Orders : Len(tasks'[p]) = Len(tasks[p])
        /\ tasks'[o][i] = row
        /\ \A p \in Orders : \A j \in DOMAIN tasks[p] :
             <<p, j>> # <<o, i>> => tasks'[p][j] = tasks[p][j]
    BY <1>1, <1>2, WroteTask DEF TypeInv
  <1>6. \A p \in Orders : p # o => tasks'[p] = tasks[p]
    BY <1>1, <1>3 DEF WriteTask, TypeInv, TablesOK
  <1>a. SpecOf(w).source_state = spec_of(tasks[o][i]).source_state
    BY <1>3 DEF SpecOf
  <1>b. in_source_state(w) <=> orders[o].state = spec_of(tasks[o][i]).source_state
    BY <1>3, <1>a DEF in_source_state
  <1> HIDE DEF o, i
  <1>7. i = Len(tasks[o]) /\ i \in 1 .. 5
    BY <1>2, <1>3, <1>4, UnfinishedIsLast
  <1>8. /\ row.task_type = tasks[o][i].task_type
        /\ row.target_state = tasks[o][i].target_state
        /\ \/ row.status \in {"pending", "failed"}
           \/ ~in_source_state(w) /\ row.status = "completed"
    BY <1>1, <1>3, <1>4, RowFate DEF Returned
  <1>9. tasks'[o] \in Seq(TaskRow) /\ Len(tasks'[o]) = Len(tasks[o])
    BY <1>3, <1>5
  <1>10. Line(tasks'[o])
    BY <1>3, <1>4, <1>5, <1>7, <1>8, <1>9, LastRewritten
  <1>11. spec_of(tasks[o][i]).source_state = STAGES[i]
    <2>1. i \in 1 .. Len(tasks[o])
      BY <1>3, <1>4, LenProperties
    <2> QED BY <1>4, <2>1, Zenon DEF Line
  <1>12. Fits(orders'[o].state, tasks'[o])
    <2>1. orders[o].state \in DOMAIN ORDER_TRANSITIONS =>
            in_source_state(w)
      BY <1>4, <1>7, <1>11, <1>b DEF Fits
    <2>2. orders[o].state # "delivered"
      BY <1>2, <1>3, <1>4, <1>7 DEF Fits
    <2> QED BY <1>2, <1>4, <1>5, <1>7, <1>8, <1>9, <2>1, <2>2 DEF Fits
  <1> QED BY <1>2, <1>6, <1>10, <1>12 DEF QueueInv

\* Moving an order completes the last row and, unless the order is delivered,
\* adds the row of the next stage: no earlier row can shadow it, because each
\* stage occurs once in a line.
LEMMA QueueAdvance ==
  ASSUME TypeInv, QueueInv, NEW w \in Workers, AdvanceStep(w)
  PROVE  /\ QueueInv'
         /\ worker[w].order \in Orders
         /\ worker[w].task = Len(tasks[worker[w].order])
         /\ orders[worker[w].order].state = STAGES[worker[w].task]
         /\ worker[w].task \in 1 .. 5
         /\ orders'[worker[w].order].state = ORDER_TRANSITIONS[STAGES[worker[w].task]]
         /\ \A p \in Orders : p # worker[w].order =>
              tasks'[p] = tasks[p] /\ orders'[p] = orders[p]
         /\ tasks'[worker[w].order][worker[w].task].status = "completed"
         /\ worker[w].task < 5 => /\ Len(tasks'[worker[w].order]) = worker[w].task + 1
                                  /\ tasks'[worker[w].order][worker[w].task + 1].status
                                       = "pending"
         /\ worker[w].task = 5 => Len(tasks'[worker[w].order]) = worker[w].task
  <1> DEFINE o == worker[w].order
             i == worker[w].task
             n == Len(tasks[o])
             spec == SpecOf(w)
  <1>1. /\ worker[w].phase \in Busy /\ Task(w).status = "running"
        /\ handler(Task(w)) # "unsupported" /\ in_source_state(w)
    BY DEF AdvanceStep, owned_task_check_result
  <1>2. /\ Task(w) \in TaskRow /\ o \in Orders /\ i \in DOMAIN tasks[o]
        /\ Task(w) = tasks[o][i] /\ Order(w) = orders[o] /\ spec = spec_of(tasks[o][i])
    BY <1>1, OwnRow DEF TypeInv, Task, Order, SpecOf
  <1>3. /\ tasks[o] \in Seq(TaskRow) /\ now \in Nat /\ n \in Nat
        /\ DOMAIN tasks[o] = 1 .. n
        /\ Line(tasks[o]) /\ Fits(orders[o].state, tasks[o])
    BY <1>2, LenProperties DEF TypeInv, TablesOK, QueueInv
  <1>4. /\ tasks' \in [Orders -> Seq(TaskRow)]
        /\ \A p \in Orders : p # o => tasks'[p] = tasks[p]
        /\ tasks'[o][i] = complete_claimed_task(Task(w))
        /\ \A j \in DOMAIN tasks[o] : j # i => tasks'[o][j] = tasks[o][j]
        /\ \/ /\ Len(tasks'[o]) = n
              /\ \/ spec.next_task_type = "none"
                 \/ \E j \in DOMAIN tasks[o] :
                      /\ tasks[o][j].status \in ACTIVE_TASK_STATUSES
                      /\ tasks[o][j].task_type = spec.next_task_type
                      /\ tasks[o][j].target_state = spec.next_target_state
           \/ /\ Len(tasks'[o]) = n + 1
              /\ spec.next_task_type # "none"
              /\ tasks'[o][n + 1].task_type = spec.next_task_type
              /\ tasks'[o][n + 1].target_state = spec.next_target_state
              /\ tasks'[o][n + 1].status = "pending"
    BY AdvanceRows DEF TypeInv
  <1>5. /\ orders'[o].state = spec.target_state
        /\ \A p \in Orders : p # o => orders'[p] = orders[p]
    <2>1. PICK at \in Nat : orders' = [orders EXCEPT
              ![o].state = spec.target_state,
              ![o].version = @ + 1,
              ![o].updated_at = at,
              ![o].courier_ref = @ \/ spec = COURIER_ASSIGN_SPEC]
      BY DEF AdvanceStep
    <2> HIDE DEF spec, o
    <2>2. o \in Orders /\ orders \in [Orders -> OrderRow] /\ orders[o] \in OrderRow
      BY <1>2 DEF TypeInv, TablesOK
    <2> QED BY <2>1, <2>2 DEF OrderRow
  <1>6. spec.source_state = orders[o].state
    BY <1>1, <1>2 DEF in_source_state
  <1>7. /\ spec.target_state = ORDER_TRANSITIONS[spec.source_state]
        /\ spec.next_task_type = "none" <=> spec.source_state = "out_for_delivery"
        /\ spec.next_task_type # "none" =>
             \A r : r.task_type = spec.next_task_type
                    /\ r.target_state = spec.next_target_state
                    => /\ handler(r) # "unsupported"
                       /\ spec_of(r).source_state = spec.target_state
    <2>1. handler(tasks[o][i]) # "unsupported"
      BY <1>1, <1>2
    <2> HIDE DEF o, i, spec
    <2> QED BY <1>2, <2>1, SpecFacts
  <1>8. /\ tasks'[o][i].task_type = tasks[o][i].task_type
        /\ tasks'[o][i].target_state = tasks[o][i].target_state
        /\ tasks'[o][i].status = "completed"
    <2>1. /\ complete_claimed_task(Task(w)).task_type = Task(w).task_type
          /\ complete_claimed_task(Task(w)).target_state = Task(w).target_state
          /\ complete_claimed_task(Task(w)).status = "completed"
      BY <1>2, <1>3, RowFate
    <2> HIDE DEF o, i
    <2> QED BY <1>2, <1>4, <2>1
  <1> HIDE DEF o, i, n, spec
  <1>9. i = n /\ i \in 1 .. 5 /\ n \in 1 .. 5
    BY <1>1, <1>2, <1>3, UnfinishedIsLast DEF n
  <1>10. \A j \in 1 .. n : /\ handler(tasks[o][j]) # "unsupported"
                           /\ spec_of(tasks[o][j]).source_state = STAGES[j]
                           /\ j < n => tasks[o][j].status = "completed"
    BY <1>3, Zenon DEF Line, n
  <1>11. orders[o].state = STAGES[n] /\ spec.source_state = STAGES[n]
    BY <1>2, <1>6, <1>9, <1>10
  <1>12. spec.target_state = ORDER_TRANSITIONS[STAGES[n]]
    BY <1>7, <1>11
  <1>13. CASE n = 5
    <2>1. spec.next_task_type = "none" /\ Len(tasks'[o]) = 5
      BY <1>4, <1>7, <1>11, <1>13, StageFacts
    <2>2. orders'[o].state = "delivered"
      BY <1>5, <1>12, <1>13, StageFacts DEF ORDER_TRANSITIONS
    <2>3. tasks'[o] \in Seq(TaskRow) /\ tasks[o] \in Seq(TaskRow) /\ Len(tasks[o]) = 5
      BY <1>2, <1>3, <1>4, <1>13 DEF n
    <2>4. Line(tasks'[o])
      BY <1>3, <1>4, <1>8, <1>9, <1>13, <2>1, <2>3, LastRewritten
    <2>5. Fits(orders'[o].state, tasks'[o])
      BY <1>8, <1>9, <1>13, <2>1, <2>2 DEF Fits, Absent, ORDER_TRANSITIONS
    <2>6. QueueInv'
      BY <1>4, <1>5, <2>4, <2>5 DEF QueueInv
    <2>7. /\ o \in Orders /\ i = n /\ orders[o].state = STAGES[i] /\ i \in 1 .. 5
          /\ orders'[o].state = ORDER_TRANSITIONS[STAGES[i]]
          /\ \A p \in Orders : p # o => tasks'[p] = tasks[p] /\ orders'[p] = orders[p]
      BY <1>2, <1>4, <1>5, <1>9, <1>11, <1>12
    <2>8. /\ tasks'[o][i].status = "completed"
          /\ ~(i < 5)
          /\ Len(tasks'[o]) = i
      BY <1>8, <1>9, <1>13, <2>1
    <2> QED BY <2>6, <2>7, <2>8 DEF o, i, n
  <1>14. CASE n # 5
    <2>0. n \in 1 .. 4 /\ n + 1 \in 1 .. 5
      BY <1>9, <1>14
    <2>1. spec.next_task_type # "none" /\ spec.target_state = STAGES[n + 1]
      BY <1>7, <1>9, <1>11, <1>12, <1>14, <2>0, StageFacts
    <2>2. ~ \E j \in DOMAIN tasks[o] :
              /\ tasks[o][j].task_type = spec.next_task_type
              /\ tasks[o][j].target_state = spec.next_target_state
      <3> SUFFICES ASSUME NEW j \in 1 .. n,
                          tasks[o][j].task_type = spec.next_task_type,
                          tasks[o][j].target_state = spec.next_target_state
                   PROVE  FALSE
        BY <1>3
      <3>1. STAGES[j] = STAGES[n + 1]
        BY <1>7, <1>10, <2>1
      <3>2. j \in 1 .. 5 /\ j # n + 1
        BY <2>0
      <3> QED BY <2>0, <3>1, <3>2, StageFacts
    <2>3. /\ Len(tasks'[o]) = n + 1
          /\ handler(tasks'[o][n + 1]) # "unsupported"
          /\ spec_of(tasks'[o][n + 1]).source_state = STAGES[n + 1]
          /\ tasks'[o][n + 1].status = "pending"
      BY <1>4, <1>7, <2>1, <2>2
    <2>4. ASSUME NEW j \in 1 .. n + 1
          PROVE  /\ handler(tasks'[o][j]) # "unsupported"
                 /\ spec_of(tasks'[o][j]).source_state = STAGES[j]
                 /\ j < n + 1 => tasks'[o][j].status = "completed"
      <3>1. CASE j = n + 1
        BY <2>0, <2>3, <3>1
      <3>2. CASE j = n
        <4>1. /\ handler(tasks'[o][i]) = handler(tasks[o][i])
              /\ spec_of(tasks'[o][i]) = spec_of(tasks[o][i])
          BY <1>8, SameTask
        <4> QED BY <1>8, <1>9, <1>10, <3>2, <4>1
      <3>3. CASE j \in 1 .. n /\ j # n
        <4>1. tasks'[o][j] = tasks[o][j]
          BY <1>3, <1>4, <1>9, <3>3
        <4>2. j < n
          BY <1>9, <3>3
        <4> QED BY <1>10, <3>3, <4>1, <4>2
      <3> QED BY <1>9, <2>4, <3>1, <3>2, <3>3
    <2>5. Line(tasks'[o])
      BY <2>0, <2>3, <2>4 DEF Line
    <2>6. orders'[o].state = STAGES[n + 1]
      BY <1>5, <2>1
    <2>7. Fits(orders'[o].state, tasks'[o])
      <3>1. STAGES[n + 1] \in DOMAIN ORDER_TRANSITIONS
        BY <2>0, StageFacts
      <3>2. STAGES[n + 1] \notin {Absent, "delivered", "cancelled", "failed"}
        BY <3>1 DEF ORDER_TRANSITIONS, Absent
      <3> QED BY <2>0, <2>3, <2>6, <3>1, <3>2 DEF Fits
    <2>8. QueueInv'
      BY <1>4, <1>5, <2>5, <2>7 DEF QueueInv
    <2>9. /\ o \in Orders /\ i = n /\ orders[o].state = STAGES[i] /\ i \in 1 .. 5
          /\ orders'[o].state = ORDER_TRANSITIONS[STAGES[i]]
          /\ \A p \in Orders : p # o => tasks'[p] = tasks[p] /\ orders'[p] = orders[p]
      BY <1>2, <1>4, <1>5, <1>9, <1>11, <1>12
    <2>10. /\ tasks'[o][i].status = "completed"
           /\ i # 5
           /\ Len(tasks'[o]) = i + 1
           /\ tasks'[o][i + 1].status = "pending"
      BY <1>8, <1>9, <1>14, <2>3
    <2> QED BY <2>8, <2>9, <2>10 DEF o, i, n
  <1> QED BY <1>13, <1>14

\* Placing an order starts its line, cancelling closes what is open of it, and
\* an operator retry reopens its last row if that is the one that failed.
LEMMA QueueApi ==
  ASSUME TypeInv, QueueInv, NEW o \in Orders,
         create_or_get_order(o) \/ cancel_order(o) \/ retry_failed_tasks_for_order(o)
  PROVE  QueueInv'
  <1>1. /\ tasks[o] \in Seq(TaskRow) /\ now \in Nat /\ orders[o] \in OrderRow
        /\ Len(tasks[o]) \in Nat /\ DOMAIN tasks[o] = 1 .. Len(tasks[o])
        /\ Line(tasks[o]) /\ Fits(orders[o].state, tasks[o])
        /\ \A i \in DOMAIN tasks[o] : tasks[o][i] \in TaskRow
    BY LenProperties, ElementOfSeq DEF TypeInv, TablesOK, QueueInv
  <1>2. ASSUME Line(tasks'[o]), Fits(orders'[o].state, tasks'[o]),
               \A p \in Orders : p # o => tasks'[p] = tasks[p] /\ orders'[p] = orders[p]
        PROVE  QueueInv'
    BY <1>2 DEF QueueInv
  <1>3. \A at \in ApiStamps : at \in Nat
    BY <1>1 DEF ApiStamps
  <1>4. CASE create_or_get_order(o)
    <2>1. PICK at \in ApiStamps :
            /\ orders' = [orders EXCEPT ![o].state = "placed", ![o].updated_at = at]
            /\ tasks' = [tasks EXCEPT ![o] =
                 <<new_task("advance_state", "confirmed", at, NoTime, at)>>]
      BY <1>4 DEF create_or_get_order
    <2> DEFINE row == new_task("advance_state", "confirmed", at, NoTime, at)
    <2>2. /\ orders'[o].state = "placed"
          /\ tasks'[o] = <<row>>
          /\ \A p \in Orders : p # o => tasks'[p] = tasks[p] /\ orders'[p] = orders[p]
      BY <2>1 DEF TypeInv, TablesOK, OrderRow
    <2>3. /\ row.task_type = "advance_state" /\ row.target_state = "confirmed"
          /\ row.status = "pending"
      BY DEF new_task
    <2> HIDE DEF row
    <2>4. handler(row) # "unsupported" /\ spec_of(row).source_state = "placed"
      BY <2>3 DEF handler, spec_of, RESTAURANT_TRANSITION_SPECS
    <2>5. Line(tasks'[o])
      BY <2>2, <2>4, StageFacts DEF Line
    <2>6. Fits(orders'[o].state, tasks'[o])
      BY <2>2, <2>3, StageFacts DEF Fits, Absent
    <2> QED BY <1>2, <2>2, <2>5, <2>6
  <1>5. CASE cancel_order(o)
    <2>1. /\ tasks' = [tasks EXCEPT ![o] = [i \in DOMAIN @ |-> cancel_task(@[i])]]
          /\ orders[o].state # Absent
          /\ ~is_terminal_order_state(orders[o].state)
      BY <1>5 DEF cancel_order
    <2>2. /\ orders'[o].state = "cancelled"
          /\ \A p \in Orders : p # o => orders'[p] = orders[p]
      <3>1. PICK at \in ApiStamps : orders' = [orders EXCEPT ![o].state = "cancelled",
                                   ![o].version = @ + 1, ![o].updated_at = at]
        BY <1>5 DEF cancel_order
      <3>2. orders \in [Orders -> OrderRow]
        BY DEF TypeInv, TablesOK
      <3> QED BY <3>1, <3>2 DEF OrderRow
    <2>3. /\ tasks'[o] \in Seq(TaskRow) /\ Len(tasks'[o]) = Len(tasks[o])
          /\ \A p \in Orders : p # o => tasks'[p] = tasks[p]
          /\ \A i \in DOMAIN tasks[o] : tasks'[o][i] = cancel_task(tasks[o][i])
      BY <2>1, CancelRows DEF TypeInv
    <2>4. \A i \in DOMAIN tasks[o] :
            /\ tasks'[o][i].task_type = tasks[o][i].task_type
            /\ tasks'[o][i].target_state = tasks[o][i].target_state
            /\ i # Len(tasks[o]) => tasks'[o][i] = tasks[o][i]
      <3> TAKE i \in DOMAIN tasks[o]
      <3>1. CASE tasks[o][i].status = "completed"
        BY <1>1, <2>3, <3>1, RowFate DEF ACTIVE_TASK_STATUSES
      <3>2. CASE tasks[o][i].status # "completed"
        <4>1. i = Len(tasks[o])
          BY <1>1, <3>2, UnfinishedIsLast
        <4> QED BY <1>1, <2>3, <4>1, RowFate
      <3> QED BY <3>1, <3>2
    <2>5. Line(tasks'[o])
      <3>1. tasks[o] \in Seq(TaskRow) /\ Line(tasks[o])
        BY <1>1
      <3>2. Len(tasks[o]) > 0 => Len(tasks[o]) \in DOMAIN tasks[o]
        BY <3>1, LenProperties
      <3> QED BY <2>3, <2>4, <3>1, <3>2, LastRewritten
    <2>6. Len(tasks[o]) > 0
      <3>1. orders[o].state \in DOMAIN ORDER_TRANSITIONS
        BY <1>1, <2>1 DEF OrderRow, ORDER_STATES, is_terminal_order_state,
                          TERMINAL_ORDER_STATES, ORDER_TRANSITIONS
      <3> QED BY <1>1, <3>1 DEF Fits
    <2>7. Fits(orders'[o].state, tasks'[o])
      BY <1>1, <2>2, <2>3, <2>6 DEF Fits, Absent, ORDER_TRANSITIONS
    <2> QED BY <1>2, <2>2, <2>3, <2>5, <2>7
  <1>6. CASE retry_failed_tasks_for_order(o)
    <2> DEFINE failed == {i \in DOMAIN tasks[o] : tasks[o][i].status = "failed"}
    <2>1. PICK at \in ApiStamps : tasks' = [tasks EXCEPT ![o] = [i \in DOMAIN @ |->
                 IF i \in failed THEN retry_failed_task(@[i], at) ELSE @[i]]]
      BY <1>6 DEF retry_failed_tasks_for_order
    <2>2. /\ tasks'[o] \in Seq(TaskRow) /\ Len(tasks'[o]) = Len(tasks[o])
          /\ \A p \in Orders : p # o => tasks'[p] = tasks[p]
          /\ \A i \in DOMAIN tasks[o] : tasks'[o][i] =
               IF i \in failed THEN retry_failed_task(tasks[o][i], at) ELSE tasks[o][i]
      BY <1>3, <2>1, RetryRows DEF TypeInv
    <2>3. \A i \in DOMAIN tasks[o] :
            \/ tasks'[o][i] = tasks[o][i]
            \/ /\ i = Len(tasks[o]) /\ tasks[o][i].status = "failed"
               /\ tasks'[o][i].task_type = tasks[o][i].task_type
               /\ tasks'[o][i].target_state = tasks[o][i].target_state
               /\ tasks'[o][i].status = "pending"
      <3> TAKE i \in DOMAIN tasks[o]
      <3>1. CASE i \in failed
        <4>1. tasks[o][i].status = "failed" /\ tasks'[o][i] = retry_failed_task(tasks[o][i], at)
          BY <2>2, <3>1
        <4>2. i = Len(tasks[o])
          BY <1>1, <4>1, UnfinishedIsLast
        <4> QED BY <1>1, <1>3, <4>1, <4>2, RowFate
      <3>2. CASE i \notin failed
        BY <2>2, <3>2
      <3> QED BY <3>1, <3>2
    <2> HIDE DEF failed
    <2>4. Line(tasks'[o])
      <3>1. \A i \in DOMAIN tasks[o] : i # Len(tasks[o]) => tasks'[o][i] = tasks[o][i]
        BY <2>3
      <3>2. Len(tasks[o]) > 0 =>
              /\ tasks'[o][Len(tasks[o])].task_type = tasks[o][Len(tasks[o])].task_type
              /\ tasks'[o][Len(tasks[o])].target_state = tasks[o][Len(tasks[o])].target_state
        <4>1. Len(tasks[o]) > 0 => Len(tasks[o]) \in DOMAIN tasks[o]
          BY <1>1
        <4> QED BY <2>3, <4>1
      <3> QED BY <1>1, <2>2, <3>1, <3>2, LastRewritten
    <2>5. UNCHANGED orders
      BY <1>6 DEF retry_failed_tasks_for_order
    <2>6. Fits(orders'[o].state, tasks'[o])
      BY <1>1, <2>2, <2>3, <2>5 DEF Fits
    <2> QED BY <1>2, <2>2, <2>4, <2>5, <2>6
  <1> QED BY <1>4, <1>5, <1>6

\* Every step keeps one line of work per order.
LEMMA QueueStep ==
  ASSUME TypeInv, QueueInv, [Next]_vars PROVE QueueInv'
  <1>1. ASSUME UNCHANGED <<orders, tasks>> PROVE QueueInv'
    BY <1>1 DEF QueueInv
  <1>2. \A w \in Workers : QuietStep(w) => UNCHANGED <<orders, tasks>>
    BY DEF QuietStep
  <1>3. OutsideStep => UNCHANGED <<orders, tasks>>
    BY DEF OutsideStep
  <1>4. TablesOK /\ WorkerOK
    BY DEF TypeInv
  <1> QED BY <1>1, <1>2, <1>3, <1>4, StepKinds, QueueClaim, QueueSettle, QueueAdvance,
             QueueApi

--------------------------------------------------------------------------------
\* What a step means for a worker.

\* Worker v does not move and its row is no longer running under its name.
Lost(v) ==
  /\ worker'[v] = worker[v]
  /\ \/ tasks'[worker[v].order][worker[v].task].status # "running"
     \/ tasks'[worker[v].order][worker[v].task].locked_by # v

\* Worker v does not move, and the step spares its row and its order; all it may
\* do to them is to record an operator retry of other tasks.
Spared(v) ==
  LET o == worker[v].order IN
  /\ worker'[v] = worker[v]
  /\ orders'[o] = orders[o]
  /\ tasks'[o][worker[v].task] = tasks[o][worker[v].task]
  /\ \/ events'[o] = events[o]
     \/ o \in Orders /\ retry_failed_tasks_for_order(o)

\* What a step can mean for worker v.
Fate(v) ==
  \/ worker'[v].phase \notin {"calling", "answered"}
  \/ QuietStep(v)
  \/ Lost(v)
  \/ Spared(v)

LEMMA IsLost ==
  ASSUME NEW v, worker'[v] = worker[v],
         \/ tasks'[worker[v].order][worker[v].task].status # "running"
         \/ tasks'[worker[v].order][worker[v].task].locked_by # v
  PROVE  Fate(v)
  BY DEF Fate, Lost

LEMMA IsSpared ==
  ASSUME NEW v, worker'[v] = worker[v],
         orders'[worker[v].order] = orders[worker[v].order],
         tasks'[worker[v].order][worker[v].task] = tasks[worker[v].order][worker[v].task],
         \/ events'[worker[v].order] = events[worker[v].order]
         \/ /\ worker[v].order \in Orders
            /\ retry_failed_tasks_for_order(worker[v].order)
  PROVE  Fate(v)
  BY DEF Fate, Spared

\* There is no other fate: whoever moves the order or writes the row of a worker
\* that has its task takes the task away from it.
LEMMA WorkerFates ==
  ASSUME TypeInv, QueueInv, [Next]_vars, NEW v \in Workers
  PROVE  Fate(v)
  <1>0. TablesOK /\ WorkerOK /\ worker \in [Workers -> WorkerState]
    BY DEF TypeInv, WorkerOK
  <1>b. ASSUME worker'[v].phase \notin {"calling", "answered"} PROVE Fate(v)
    BY <1>b DEF Fate
  <1>c. Idle.phase \notin {"calling", "answered"}
    BY DEF Idle
  <1>d. worker[v].phase \in Busy =>
          /\ worker[v].order \in Orders
          /\ worker[v].task \in DOMAIN tasks[worker[v].order]
    BY <1>0 DEF WorkerOK
  <1>e. ASSUME worker'[v] = worker[v], worker[v].phase \notin Busy PROVE Fate(v)
    BY <1>e, <1>b DEF Busy
  <1>1. ASSUME NEW w \in Workers, claim_one_task(w) PROVE Fate(v)
    <2>1. PICK o \in Orders : \E i \in DOMAIN tasks[o] :
            /\ tasks' = [tasks EXCEPT ![o][i] = claim(@, w, now)]
            /\ worker' = [worker EXCEPT ![w].phase = "claimed",
                                        ![w].order = o, ![w].task = i]
      BY <1>1 DEF claim_one_task
    <2>2. PICK i \in DOMAIN tasks[o] :
            /\ tasks' = [tasks EXCEPT ![o][i] = claim(@, w, now)]
            /\ worker' = [worker EXCEPT ![w].phase = "claimed",
                                        ![w].order = o, ![w].task = i]
      BY <2>1
    <2>3. /\ tasks'[o][i] = claim(tasks[o][i], w, now)
          /\ tasks[o][i] \in TaskRow
          /\ \A p \in Orders : \A j \in DOMAIN tasks[p] :
               <<p, j>> # <<o, i>> => tasks'[p][j] = tasks[p][j]
      BY <1>0, <2>2, ClaimRows
    <2>4. tasks'[o][i].locked_by = w
      BY <1>0, <2>3, RowFate DEF TablesOK
    <2>5. UNCHANGED <<orders, events>>
      BY <1>1 DEF claim_one_task
    <2>6. CASE v = w
      <3>1. worker'[w].phase = "claimed"
        BY <1>0, <2>2 DEF WorkerState
      <3> QED BY <1>b, <2>6, <3>1
    <2>7. CASE v # w /\ worker[v].phase \in Busy
      <3>1. worker'[v] = worker[v]
        BY <1>0, <2>2, <2>7
      <3>2. CASE worker[v].order = o /\ worker[v].task = i
        BY <2>4, <2>7, <3>1, <3>2, IsLost
      <3>3. CASE ~(worker[v].order = o /\ worker[v].task = i)
        BY <1>0, <1>d, <2>3, <2>5, <2>7, <3>1, <3>3, IsSpared
      <3> QED BY <3>2, <3>3
    <2>8. CASE v # w /\ worker[v].phase \notin Busy
      BY <1>0, <1>e, <2>2, <2>8
    <2> QED BY <2>6, <2>7, <2>8
  <1>2. ASSUME NEW w \in Workers, QuietStep(w) PROVE Fate(v)
    <2>1. CASE v = w
      BY <1>2, <2>1 DEF Fate
    <2>2. CASE v # w
      BY <1>0, <1>2, <2>2, IsSpared DEF QuietStep
    <2> QED BY <2>1, <2>2
  <1>3. ASSUME NEW w \in Workers, SettleStep(w) PROVE Fate(v)
    <2>1. PICK row \in TaskRow :
            /\ WriteTask(w, row)
            /\ Returned(Task(w), row) \/ row = complete_claimed_task(Task(w))
      BY <1>3 DEF SettleStep
    <2>2. worker[w].phase \in Busy /\ Finish(w) /\ UNCHANGED <<orders, events>>
      BY <1>3 DEF SettleStep
    <2>3. Task(w) \in TaskRow /\ now \in Nat
      BY <1>0, <2>2, OwnRow DEF TablesOK
    <2>4. row.status # "running"
      BY <2>1, <2>3, RowFate DEF Returned
    <2>5. /\ tasks'[worker[w].order][worker[w].task] = row
          /\ \A p \in Orders : \A j \in DOMAIN tasks[p] :
               <<p, j>> # <<worker[w].order, worker[w].task>> => tasks'[p][j] = tasks[p][j]
      BY <1>0, <2>1, <2>2, WroteTask
    <2>6. worker'[w] = Idle /\ (v # w => worker'[v] = worker[v])
      BY <1>0, <2>2 DEF Finish
    <2>7. CASE v = w
      BY <1>b, <1>c, <2>6, <2>7
    <2>8. CASE v # w /\ worker[v].phase \notin Busy
      BY <1>e, <2>6, <2>8
    <2>9. CASE v # w /\ worker[v].phase \in Busy
      <3>1. CASE worker[v].order = worker[w].order /\ worker[v].task = worker[w].task
        BY <2>4, <2>5, <2>6, <2>9, <3>1, IsLost
      <3>2. CASE ~(worker[v].order = worker[w].order /\ worker[v].task = worker[w].task)
        BY <1>0, <1>d, <2>2, <2>5, <2>6, <2>9, <3>2, IsSpared
      <3> QED BY <3>1, <3>2
    <2> QED BY <2>7, <2>8, <2>9
  <1>4. ASSUME NEW w \in Workers, AdvanceStep(w) PROVE Fate(v)
    <2> DEFINE o == worker[w].order
               i == worker[w].task
    <2>1. Finish(w) /\ worker[w].phase \in Busy
      BY <1>4 DEF AdvanceStep
    <2>2. worker'[w] = Idle /\ (v # w => worker'[v] = worker[v])
      BY <1>0, <2>1 DEF Finish
    <2>3. /\ o \in Orders /\ i = Len(tasks[o])
          /\ \A p \in Orders : p # o => tasks'[p] = tasks[p] /\ orders'[p] = orders[p]
          /\ tasks'[o][i].status = "completed"
      BY <1>4, QueueAdvance
    <2>a. \A p \in Orders : p # o => events'[p] = events[p]
      BY <1>0, <1>4 DEF AdvanceStep, TablesOK
    <2>4. \A j \in DOMAIN tasks[o] : j # i => tasks'[o][j] = tasks[o][j]
      BY <1>0, <1>4, AdvanceRows
    <2> HIDE DEF o, i
    <2>5. CASE v = w
      BY <1>b, <1>c, <2>2, <2>5
    <2>6. CASE v # w /\ worker[v].phase \notin Busy
      BY <1>e, <2>2, <2>6
    <2>7. CASE v # w /\ worker[v].phase \in Busy /\ worker[v].order # o
      BY <1>d, <2>2, <2>3, <2>a, <2>7, IsSpared
    <2>8. CASE v # w /\ worker[v].phase \in Busy /\ worker[v].order = o
      <3>1. worker[v].task \in DOMAIN tasks[o]
        BY <1>d, <2>8
      <3>2. CASE worker[v].task = i
        BY <2>2, <2>3, <2>8, <3>2, IsLost
      <3>3. CASE worker[v].task # i
        <4>1. tasks'[o][worker[v].task] = tasks[o][worker[v].task]
          BY <2>4, <3>1, <3>3
        <4>2. tasks[o] \in Seq(TaskRow) /\ Line(tasks[o])
          BY <2>3 DEF TypeInv, TablesOK, QueueInv
        <4>3. tasks[o][worker[v].task].status = "completed"
          BY <2>3, <3>1, <3>3, <4>2, UnfinishedIsLast
        <4> QED BY <2>2, <2>8, <4>1, <4>3, IsLost
      <3> QED BY <3>2, <3>3
    <2> QED BY <2>5, <2>6, <2>7, <2>8
  <1>5. ASSUME NEW o \in Orders, \/ create_or_get_order(o) \/ cancel_order(o)
                                 \/ retry_failed_tasks_for_order(o)
        PROVE  Fate(v)
    <2>1. worker' = worker
      BY <1>5 DEF create_or_get_order, cancel_order, retry_failed_tasks_for_order
    <2>2. CASE worker[v].phase \notin Busy
      BY <1>e, <2>1, <2>2
    <2>3. CASE worker[v].phase \in Busy /\ worker[v].order # o
      <3>1. \A p \in Orders : p # o =>
              tasks'[p] = tasks[p] /\ orders'[p] = orders[p] /\ events'[p] = events[p]
        BY <1>0, <1>5 DEF create_or_get_order, cancel_order,
                          retry_failed_tasks_for_order, TablesOK
      <3> QED BY <1>0, <1>d, <2>1, <2>3, <3>1, IsSpared
    <2>4. CASE worker[v].phase \in Busy /\ worker[v].order = o
      <3> DEFINE j == worker[v].task
      <3>0. j \in DOMAIN tasks[o] /\ tasks[o][j] \in TaskRow /\ now \in Nat
        BY <1>0, <1>d, <2>4, ElementOfSeq DEF TablesOK
      <3>1. CASE create_or_get_order(o)
        <4>1. tasks[o] = <<>>
          BY <3>1 DEF create_or_get_order, TypeInv, Unplaced
        <4> QED BY <3>0, <4>1
      <3>2. CASE cancel_order(o)
        <4>1. tasks'[o][j] = cancel_task(tasks[o][j])
          <5>1. tasks' = [tasks EXCEPT ![o] = [k \in DOMAIN @ |-> cancel_task(@[k])]]
            BY <3>2 DEF cancel_order
          <5> QED BY <1>0, <3>0, <5>1, CancelRows
        <4>2. cancel_task(tasks[o][j]).status # "running"
          BY <3>0, RowFate DEF ACTIVE_TASK_STATUSES
        <4> QED BY <2>1, <2>4, <4>1, <4>2, IsLost
      <3>3. CASE retry_failed_tasks_for_order(o)
        <4> DEFINE failed == {k \in DOMAIN tasks[o] : tasks[o][k].status = "failed"}
        <4>1. PICK at \in ApiStamps : tasks' = [tasks EXCEPT ![o] = [k \in DOMAIN @ |->
                 IF k \in failed THEN retry_failed_task(@[k], at) ELSE @[k]]]
          BY <3>3 DEF retry_failed_tasks_for_order
        <4>2. at \in Nat
          BY <3>0 DEF ApiStamps
        <4>3. tasks'[o][j] = IF j \in failed THEN retry_failed_task(tasks[o][j], at)
                             ELSE tasks[o][j]
          BY <1>0, <3>0, <4>1, <4>2, RetryRows
        <4>4. retry_failed_task(tasks[o][j], at).status = "pending"
          BY <3>0, <4>2, RowFate
        <4>5. UNCHANGED orders
          BY <3>3 DEF retry_failed_tasks_for_order
        <4>6. CASE j \in failed
          BY <2>1, <2>4, <4>3, <4>4, <4>6, IsLost
        <4>7. CASE j \notin failed
          BY <2>1, <2>4, <3>3, <4>3, <4>5, <4>7, IsSpared
        <4> QED BY <4>6, <4>7
      <3> QED BY <1>5, <3>1, <3>2, <3>3
    <2> QED BY <2>2, <2>3, <2>4
  <1>6. CASE OutsideStep
    BY <1>6, IsSpared DEF OutsideStep
  <1> QED BY <1>0, <1>1, <1>2, <1>3, <1>4, <1>5, <1>6, StepKinds

--------------------------------------------------------------------------------
\* No answer for a state the order has left.

\* OwnedCallIsCurrent, for one worker.
Current(w) ==
  /\ worker[w].phase \in {"calling", "answered"}
  /\ Task(w).status = "running"
  /\ Task(w).locked_by = w
  => Order(w).state = spec_of(Task(w)).source_state

\* Every step keeps the call of every worker current.
LEMMA CurrentStep ==
  ASSUME TypeInv, QueueInv, OwnedCallIsCurrent, [Next]_vars
  PROVE  OwnedCallIsCurrent'
  <1>0. /\ worker \in [Workers -> WorkerState]
        /\ \A v \in Workers : Current(v)
    BY DEF TypeInv, WorkerOK, OwnedCallIsCurrent, Current
  <1>a. SUFFICES ASSUME NEW v \in Workers PROVE Current(v)'
    BY DEF OwnedCallIsCurrent, Current
  <1>1. CASE worker'[v].phase \notin {"calling", "answered"}
    BY <1>1 DEF Current
  <1>2. CASE Lost(v)
    BY <1>2 DEF Lost, Current, Task
  <1>3. CASE Spared(v)
    BY <1>0, <1>3 DEF Spared, Current, Task, Order
  <1>4. CASE QuietStep(v)
    <2>1. UNCHANGED <<orders, tasks>>
      BY <1>4 DEF QuietStep
    <2>2. PICK s \in WorkerState :
            /\ worker' = [worker EXCEPT ![v] = s]
            /\ \/ s.phase \notin Busy
               \/ /\ s.order = worker[v].order /\ s.task = worker[v].task
                  /\ worker[v].phase = "calling" \/ in_source_state(v)
      BY <1>4 DEF QuietStep
    <2>3. worker'[v] = s
      BY <1>0, <2>2
    <2>4. CASE s.phase \notin Busy
      BY <2>3, <2>4 DEF Busy, Current
    <2>5. CASE /\ s.order = worker[v].order /\ s.task = worker[v].task
               /\ worker[v].phase = "calling" \/ in_source_state(v)
      <3>1. Task(v)' = Task(v) /\ Order(v)' = Order(v)
        BY <2>1, <2>3, <2>5 DEF Task, Order
      <3>2. CASE worker[v].phase = "calling"
        BY <1>0, <3>1, <3>2 DEF Current
      <3>3. CASE in_source_state(v)
        <4>1. Order(v).state = spec_of(Task(v)).source_state
          BY <3>3 DEF in_source_state, SpecOf
        <4> QED BY <3>1, <4>1 DEF Current
      <3> QED BY <2>5, <3>2, <3>3
    <2> QED BY <2>2, <2>4, <2>5
  <1> QED BY <1>1, <1>2, <1>3, <1>4, WorkerFates DEF Fate

--------------------------------------------------------------------------------

\* The inductive invariant of the pipeline.
Inv == TypeInv /\ QueueInv /\ OwnedCallIsCurrent

\* It holds at the start.
LEMMA InvInit == Init => Inv
  <1> SUFFICES ASSUME Init PROVE Inv
    OBVIOUS
  <1>1. TypeInv
    BY TypeInit, TypeHalves DEF TypeInv, Unplaced, Init
  <1>2. QueueInv
    <2>1. \A o \in Orders : tasks[o] = <<>> /\ orders[o].state = Absent
      BY DEF Init
    <2>2. Line(<<>>) /\ Fits(Absent, <<>>)
      BY DEF Line, Fits, Absent, ORDER_TRANSITIONS
    <2> QED BY <2>1, <2>2 DEF QueueInv
  <1>3. OwnedCallIsCurrent
    BY DEF Init, OwnedCallIsCurrent, Idle
  <1> QED BY <1>1, <1>2, <1>3 DEF Inv

\* And every step keeps it.
LEMMA InvStep == Inv /\ [Next]_vars => Inv'
  BY TypeStep, QueueStep, CurrentStep DEF Inv

\* No order is stranded and none has two lines of work, for any number of
\* orders and workers, any lease length and any pattern of crashes, retries and
\* cancellations.
THEOREM NoOrderStranded == Spec => []StageQueue
  <1>1. Inv => StageQueue
    BY QueueImplies DEF Inv
  <1> QED BY <1>1, InvInit, InvStep, PTL DEF Spec

\* No answer is applied to an order that has moved since the call was made.
THEOREM CallsAreCurrent == Spec => []OwnedCallIsCurrent
  <1>1. Inv => OwnedCallIsCurrent
    BY DEF Inv
  <1> QED BY <1>1, InvInit, InvStep, PTL DEF Spec

\* One step of LateWorkerWritesNothing.
LateStep ==
  \A w \in Workers :
    /\ worker[w].phase \in {"claimed", "answered"}
    /\ worker'[w] # worker[w]
    /\ ~(Task(w).status = "running" /\ Task(w).locked_by = w)
    => UNCHANGED db

\* A step that moves a worker at work and writes a table is a settling or an
\* advancing step of that worker, and those begin with the ownership test.
LEMMA LateWorker == ASSUME TypeInv, [Next]_vars PROVE LateStep
  <1> SUFFICES ASSUME NEW v \in Workers,
                      worker[v].phase \in {"claimed", "answered"},
                      worker'[v] # worker[v],
                      ~(Task(v).status = "running" /\ Task(v).locked_by = v)
               PROVE  UNCHANGED db
    BY DEF LateStep
  <1>0. TablesOK /\ WorkerOK /\ worker \in [Workers -> WorkerState]
    BY DEF TypeInv, WorkerOK
  <1>1. ASSUME NEW w \in Workers, claim_one_task(w) PROVE FALSE
    <2>1. worker[w].phase = "idle"
      BY <1>1 DEF claim_one_task
    <2>2. \A u \in Workers : u # w => worker'[u] = worker[u]
      BY <1>0, <1>1 DEF claim_one_task
    <2> QED BY <2>1, <2>2
  <1>2. ASSUME NEW w \in Workers, QuietStep(w) PROVE UNCHANGED db
    BY <1>2 DEF QuietStep, db
  <1>3. ASSUME NEW w \in Workers, SettleStep(w) \/ AdvanceStep(w) PROVE FALSE
    <2>1. owned_task_check_result(w) /\ Finish(w)
      BY <1>3 DEF SettleStep, AdvanceStep
    <2>2. v # w
      BY <2>1 DEF owned_task_check_result
    <2> QED BY <1>0, <2>1, <2>2 DEF Finish
  <1>4. ASSUME NEW o \in Orders, \/ create_or_get_order(o) \/ cancel_order(o)
                                 \/ retry_failed_tasks_for_order(o)
        PROVE  FALSE
    BY <1>4 DEF create_or_get_order, cancel_order, retry_failed_tasks_for_order
  <1>5. CASE OutsideStep
    BY <1>5 DEF OutsideStep, db
  <1> QED BY <1>0, <1>1, <1>2, <1>3, <1>4, <1>5, StepKinds

\* A worker that lost its task to a peer or to a cancellation never writes.
THEOREM LateWorkersAreFenced == Spec => LateWorkerWritesNothing
  <1>1. Init => TypeInv
    BY InvInit DEF Inv
  <1>2. TypeInv /\ [Next]_vars => TypeInv'
    BY TypeStep
  <1>3. TypeInv /\ [Next]_vars => [LateStep]_vars
    BY LateWorker
  <1>4. Spec => [][LateStep]_vars
    BY <1>1, <1>2, <1>3, PTL DEF Spec
  <1> QED BY <1>4 DEF LateWorkerWritesNothing, LateStep

--------------------------------------------------------------------------------
\* OrderPipeline implements OrderLifecycle. The abstract view of one order.

\* In a line of work only the last row counts.
WorkOfRows(rows) ==
  LET n == Len(rows) IN
  IF n = 0 THEN "none"
  ELSE IF rows[n].status \in ACTIVE_TASK_STATUSES THEN "open"
  ELSE IF rows[n].status = "failed" THEN "failed"
  ELSE "done"

\* The same, by the status of the last row.
LEMMA WorkByStatus ==
  ASSUME NEW rows, NEW n \in Nat \ {0}, Len(rows) = n
  PROVE  /\ rows[n].status \in {"pending", "running"} => WorkOfRows(rows) = "open"
         /\ rows[n].status = "failed" => WorkOfRows(rows) = "failed"
         /\ rows[n].status \in {"completed", "cancelled"} => WorkOfRows(rows) = "done"
  <1>1. Len(rows) # 0
    OBVIOUS
  <1>2. WorkOfRows(rows) = IF rows[n].status \in ACTIVE_TASK_STATUSES THEN "open"
                           ELSE IF rows[n].status = "failed" THEN "failed" ELSE "done"
    BY <1>1 DEF WorkOfRows
  <1> QED BY <1>2 DEF ACTIVE_TASK_STATUSES

\* work_of, as the runs check it, is that.
LEMMA WorkOfLine ==
  ASSUME NEW rows \in Seq(TaskRow), Line(rows)
  PROVE  (LET Has(S) == \E i \in DOMAIN rows : rows[i].status \in S IN
          CASE rows = <<>>               -> "none"
            [] Has(ACTIVE_TASK_STATUSES) -> "open"
            [] Has({"failed"}) /\ ~Has(ACTIVE_TASK_STATUSES) -> "failed"
            [] OTHER                     -> "done")
         = WorkOfRows(rows)
  <1> DEFINE Has(S) == \E i \in DOMAIN rows : rows[i].status \in S
             n == Len(rows)
  <1>1. n \in Nat /\ DOMAIN rows = 1 .. n
    BY LenProperties
  <1>2. CASE rows = <<>>
    BY <1>2 DEF WorkOfRows
  <1>3. CASE rows # <<>>
    <2>1. n > 0 /\ n \in DOMAIN rows
      BY <1>1, <1>3, EmptySeq
    <2>2. \A i \in DOMAIN rows : rows[i].status # "completed" => i = n
      BY UnfinishedIsLast
    <2>3. Has(ACTIVE_TASK_STATUSES) <=> rows[n].status \in ACTIVE_TASK_STATUSES
      BY <2>1, <2>2 DEF ACTIVE_TASK_STATUSES
    <2>4. Has({"failed"}) <=> rows[n].status = "failed"
      BY <2>1, <2>2
    <2> HIDE DEF Has
    <2>5. n # 0
      BY <1>1, <2>1
    <2>6. (CASE rows = <<>>               -> "none"
             [] Has(ACTIVE_TASK_STATUSES) -> "open"
             [] Has({"failed"}) /\ ~Has(ACTIVE_TASK_STATUSES) -> "failed"
             [] OTHER                     -> "done")
          = WorkOfRows(rows)
      BY <1>3, <2>3, <2>4, <2>5 DEF WorkOfRows, ACTIVE_TASK_STATUSES
    <2> QED BY <2>6 DEF Has
  <1> QED BY <1>2, <1>3

\* In every state of the pipeline, before a step and after it.
LEMMA WorkOf ==
  ASSUME Inv, Inv', NEW o \in Orders
  PROVE  work_of(o) = WorkOfRows(tasks[o]) /\ work_of(o)' = WorkOfRows(tasks'[o])
  <1>1. /\ tasks[o] \in Seq(TaskRow) /\ Line(tasks[o])
        /\ tasks'[o] \in Seq(TaskRow) /\ Line(tasks'[o])
    BY DEF Inv, TypeInv, TablesOK, QueueInv
  <1> QED BY <1>1, WorkOfLine DEF work_of

\* What an action of OrderLifecycle does to the view of its order.
Seen(o, state, version, courier, work) ==
  /\ orders'[o].state = state
  /\ orders'[o].version = version
  /\ orders'[o].courier_ref = courier
  /\ WorkOfRows(tasks'[o]) = work

\* A step that touches one order, and whose effect on its view is that of an
\* action of OrderLifecycle, is that action.
LEMMA OneOrder ==
  ASSUME Inv, Inv', NEW o \in Orders,
         \A p \in Orders : p # o => orders'[p] = orders[p] /\ tasks'[p] = tasks[p],
         LET st == orders[o].state
             ver == orders[o].version
             cour == orders[o].courier_ref
             wk == WorkOfRows(tasks[o])
         IN  \/ Seen(o, st, ver, cour, wk)
             \/ st = Absent /\ Seen(o, "placed", ver, cour, "open")
             \/ /\ st \in DOMAIN ORDER_TRANSITIONS /\ wk = "open"
                /\ LET next == ORDER_TRANSITIONS[st] IN
                     Seen(o, next, ver + 1, cour \/ next = "out_for_delivery",
                          IF next = "delivered" THEN "done" ELSE "open")
             \/ /\ st \in DOMAIN ORDER_TRANSITIONS
                /\ Seen(o, "cancelled", ver + 1, cour,
                        IF wk = "failed" THEN "failed" ELSE "done")
             \/ /\ st \in DOMAIN ORDER_TRANSITIONS /\ wk = "open"
                /\ Seen(o, st, ver, cour, "failed")
             \/ wk = "failed" /\ Seen(o, st, ver, cour, "open")
             \/ /\ st = "cancelled" /\ wk = "open"
                /\ Seen(o, st, ver, cour, "done")
  PROVE  [Abstract!Next]_(Abstract!lifecycle_vars)
  <1> DEFINE st == [p \in Orders |-> orders[p].state]
             ver == [p \in Orders |-> orders[p].version]
             cour == [p \in Orders |-> orders[p].courier_ref]
             wk == [p \in Orders |-> work_of(p)]
             st1 == [p \in Orders |-> orders'[p].state]
             ver1 == [p \in Orders |-> orders'[p].version]
             cour1 == [p \in Orders |-> orders'[p].courier_ref]
             wk1 == [p \in Orders |-> work_of(p)']
  <1>1. \A p \in Orders : /\ work_of(p) = WorkOfRows(tasks[p])
                          /\ work_of(p)' = WorkOfRows(tasks'[p])
    BY WorkOf
  <1>2. /\ st1 = [st EXCEPT ![o] = orders'[o].state]
        /\ ver1 = [ver EXCEPT ![o] = orders'[o].version]
        /\ cour1 = [cour EXCEPT ![o] = orders'[o].courier_ref]
        /\ wk1 = [wk EXCEPT ![o] = WorkOfRows(tasks'[o])]
    BY <1>1
  <1>3. /\ st[o] = orders[o].state /\ ver[o] = orders[o].version
        /\ cour[o] = orders[o].courier_ref /\ wk[o] = WorkOfRows(tasks[o])
        /\ st = [st EXCEPT ![o] = st[o]] /\ ver = [ver EXCEPT ![o] = ver[o]]
        /\ cour = [cour EXCEPT ![o] = cour[o]] /\ wk = [wk EXCEPT ![o] = wk[o]]
    BY <1>1
  <1>4. /\ Abstract!ORDER_TRANSITIONS = ORDER_TRANSITIONS
        /\ Abstract!Absent = Absent
    BY DEF Abstract!ORDER_TRANSITIONS, ORDER_TRANSITIONS, Abstract!Absent, Absent
  <1> HIDE DEF st, ver, cour, wk, st1, ver1, cour1, wk1
  <1>5. CASE Seen(o, st[o], ver[o], cour[o], wk[o])
    <2>1. st1 = st /\ ver1 = ver /\ cour1 = cour /\ wk1 = wk
      BY <1>2, <1>3, <1>5 DEF Seen
    <2> QED BY <2>1 DEF st, ver, cour, wk, st1, ver1, cour1, wk1, Abstract!lifecycle_vars
  <1>6. CASE st[o] = Absent /\ Seen(o, "placed", ver[o], cour[o], "open")
    <2>1. /\ st[o] = Absent
          /\ st1 = [st EXCEPT ![o] = "placed"] /\ wk1 = [wk EXCEPT ![o] = "open"]
          /\ ver1 = ver /\ cour1 = cour
      BY <1>2, <1>3, <1>6 DEF Seen
    <2>2. Abstract!Place(o)
      BY <1>4, <2>1 DEF st, ver, cour, wk, st1, ver1, cour1, wk1, Abstract!Place
    <2> QED BY <2>2 DEF Abstract!Next
  <1>7. CASE /\ st[o] \in DOMAIN ORDER_TRANSITIONS /\ wk[o] = "open"
             /\ LET next == ORDER_TRANSITIONS[st[o]] IN
                  Seen(o, next, ver[o] + 1, cour[o] \/ next = "out_for_delivery",
                       IF next = "delivered" THEN "done" ELSE "open")
    <2> DEFINE next == ORDER_TRANSITIONS[st[o]]
    <2>1. /\ st[o] \in DOMAIN ORDER_TRANSITIONS /\ wk[o] = "open"
          /\ st1 = [st EXCEPT ![o] = next]
          /\ ver1 = [ver EXCEPT ![o] = ver[o] + 1]
          /\ cour1 = [cour EXCEPT ![o] = cour[o] \/ next = "out_for_delivery"]
          /\ wk1 = [wk EXCEPT ![o] = IF next = "delivered" THEN "done" ELSE "open"]
      BY <1>2, <1>7 DEF Seen
    <2>2. Abstract!Advance(o)
      BY <1>4, <2>1 DEF st, ver, cour, wk, st1, ver1, cour1, wk1, Abstract!Advance
    <2> QED BY <2>2 DEF Abstract!Next
  <1>8. CASE /\ st[o] \in DOMAIN ORDER_TRANSITIONS
             /\ Seen(o, "cancelled", ver[o] + 1, cour[o],
                     IF wk[o] = "failed" THEN "failed" ELSE "done")
    <2>1. /\ st[o] \in DOMAIN ORDER_TRANSITIONS
          /\ st1 = [st EXCEPT ![o] = "cancelled"]
          /\ ver1 = [ver EXCEPT ![o] = ver[o] + 1]
          /\ wk1 = [wk EXCEPT ![o] = IF wk[o] = "failed" THEN "failed" ELSE "done"]
          /\ cour1 = cour
      BY <1>2, <1>3, <1>8 DEF Seen
    <2>2. Abstract!Cancel(o)
      BY <1>4, <2>1 DEF st, ver, cour, wk, st1, ver1, cour1, wk1, Abstract!Cancel
    <2> QED BY <2>2 DEF Abstract!Next
  <1>9. CASE /\ st[o] \in DOMAIN ORDER_TRANSITIONS /\ wk[o] = "open"
             /\ Seen(o, st[o], ver[o], cour[o], "failed")
    <2>1. /\ st[o] \in DOMAIN ORDER_TRANSITIONS /\ wk[o] = "open"
          /\ wk1 = [wk EXCEPT ![o] = "failed"]
          /\ st1 = st /\ ver1 = ver /\ cour1 = cour
      BY <1>2, <1>3, <1>9 DEF Seen
    <2>2. Abstract!GiveUp(o)
      BY <1>4, <2>1 DEF st, ver, cour, wk, st1, ver1, cour1, wk1, Abstract!GiveUp
    <2> QED BY <2>2 DEF Abstract!Next
  <1>10. CASE wk[o] = "failed" /\ Seen(o, st[o], ver[o], cour[o], "open")
    <2>1. /\ wk[o] = "failed" /\ wk1 = [wk EXCEPT ![o] = "open"]
          /\ st1 = st /\ ver1 = ver /\ cour1 = cour
      BY <1>2, <1>3, <1>10 DEF Seen
    <2>2. Abstract!Reopen(o)
      BY <2>1 DEF st, ver, cour, wk, st1, ver1, cour1, wk1, Abstract!Reopen
    <2> QED BY <2>2 DEF Abstract!Next
  <1>11. CASE st[o] = "cancelled" /\ wk[o] = "open" /\ Seen(o, st[o], ver[o], cour[o], "done")
    <2>1. /\ st[o] = "cancelled" /\ wk[o] = "open" /\ wk1 = [wk EXCEPT ![o] = "done"]
          /\ st1 = st /\ ver1 = ver /\ cour1 = cour
      BY <1>2, <1>3, <1>11 DEF Seen
    <2>2. Abstract!Discard(o)
      BY <2>1 DEF st, ver, cour, wk, st1, ver1, cour1, wk1, Abstract!Discard
    <2> QED BY <2>2 DEF Abstract!Next
  <1> QED BY <1>3, <1>5, <1>6, <1>7, <1>8, <1>9, <1>10, <1>11

--------------------------------------------------------------------------------
\* The steps of the pipeline.

\* An order row none of whose fields a step changes, and a line whose last row
\* keeps its length and its kind of status, look the same.
Same(o) == Seen(o, orders[o].state, orders[o].version, orders[o].courier_ref,
                WorkOfRows(tasks[o]))

\* A settling step is invisible, or gives up on the order's current step, or
\* drops a task that was reopened for a cancelled order.
LEMMA SettleView ==
  ASSUME Inv, Inv', NEW w \in Workers, SettleStep(w)
  PROVE  [Abstract!Next]_(Abstract!lifecycle_vars)
  <1> DEFINE o == worker[w].order
             i == worker[w].task
  <1>1. PICK row \in TaskRow :
          /\ WriteTask(w, row)
          /\ \/ /\ Returned(Task(w), row)
                /\ row.status = "failed" =>
                     worker[w].phase = "answered" \/ in_source_state(w)
             \/ ~in_source_state(w) /\ row = complete_claimed_task(Task(w))
    BY DEF SettleStep
  <1>2. /\ worker[w].phase \in Busy /\ Task(w).status = "running"
        /\ Task(w).locked_by = w /\ UNCHANGED orders
    BY DEF SettleStep, owned_task_check_result
  <1>3. /\ TablesOK /\ WorkerOK /\ QueueInv /\ OwnedCallIsCurrent /\ now \in Nat
    BY DEF Inv, TypeInv, TablesOK
  <1>4. /\ Task(w) \in TaskRow /\ o \in Orders /\ i \in DOMAIN tasks[o]
        /\ Task(w) = tasks[o][i] /\ Order(w) = orders[o]
    BY <1>2, <1>3, OwnRow DEF Task, Order
  <1>5. /\ tasks[o] \in Seq(TaskRow) /\ Line(tasks[o]) /\ Fits(orders[o].state, tasks[o])
    BY <1>3, <1>4 DEF TablesOK, QueueInv
  <1>6. /\ \A p \in Orders : Len(tasks'[p]) = Len(tasks[p])
        /\ tasks'[o][i] = row
    BY <1>1, <1>2, <1>3, WroteTask
  <1>7. \A p \in Orders : p # o => orders'[p] = orders[p] /\ tasks'[p] = tasks[p]
    BY <1>1, <1>2, <1>3, <1>4 DEF WriteTask, TablesOK
  <1>8. in_source_state(w) <=> orders[o].state = spec_of(tasks[o][i]).source_state
    BY <1>4 DEF in_source_state, SpecOf
  <1>9. worker[w].phase = "answered" => in_source_state(w)
    <2>1. worker[w].phase = "answered" => Order(w).state = spec_of(Task(w)).source_state
      BY <1>2, <1>3 DEF OwnedCallIsCurrent
    <2> QED BY <1>4, <1>8, <2>1
  <1> HIDE DEF o, i
  <1>10. i = Len(tasks[o]) /\ i \in 1 .. 5
    BY <1>2, <1>4, <1>5, UnfinishedIsLast
  <1>11. spec_of(tasks[o][i]).source_state = STAGES[i]
    <2>1. i \in 1 .. Len(tasks[o])
      BY <1>4, <1>5, LenProperties
    <2> QED BY <1>5, <2>1, Zenon DEF Line
  <1>12. /\ in_source_state(w) => orders[o].state \in DOMAIN ORDER_TRANSITIONS
         /\ orders[o].state \in DOMAIN ORDER_TRANSITIONS => in_source_state(w)
    BY <1>5, <1>8, <1>10, <1>11, StageFacts DEF Fits
  <1>13. WorkOfRows(tasks[o]) = "open"
    BY <1>2, <1>4, <1>10, WorkByStatus
  <1>14. i \in Nat \ {0} /\ Len(tasks'[o]) = i /\ tasks'[o][i] = row
    BY <1>4, <1>6, <1>10
  <1>15. CASE row.status = "pending"
    <2>1. WorkOfRows(tasks'[o]) = "open"
      BY <1>14, <1>15, WorkByStatus, Zenon
    <2>2. Same(o)
      BY <1>2, <1>13, <2>1 DEF Same, Seen
    <2> QED BY <1>4, <1>7, <2>2, OneOrder DEF Same
  <1>16. CASE row.status = "failed" /\ in_source_state(w)
    <2>1. WorkOfRows(tasks'[o]) = "failed"
      BY <1>14, <1>16, WorkByStatus, Zenon
    <2>2. Seen(o, orders[o].state, orders[o].version, orders[o].courier_ref, "failed")
      BY <1>2, <2>1 DEF Seen
    <2> QED BY <1>4, <1>7, <1>12, <1>13, <1>16, <2>2, OneOrder
  <1>17. CASE row.status = "completed" /\ ~in_source_state(w)
    <2>1. WorkOfRows(tasks'[o]) = "done"
      BY <1>14, <1>17, WorkByStatus, Zenon
    <2>2. Seen(o, orders[o].state, orders[o].version, orders[o].courier_ref, "done")
      BY <1>2, <2>1 DEF Seen
    <2>3. orders[o].state = "cancelled"
      <3>1. orders[o].state \notin DOMAIN ORDER_TRANSITIONS
        BY <1>12, <1>17
      <3>2. orders[o].state \notin {Absent, "delivered", "failed"}
        BY <1>2, <1>4, <1>5, <1>10 DEF Fits
      <3>3. orders[o] \in OrderRow
        BY <1>3, <1>4 DEF TablesOK
      <3> QED BY <3>1, <3>2, <3>3 DEF OrderRow, ORDER_STATES, ORDER_TRANSITIONS
    <2> QED BY <1>4, <1>7, <1>13, <2>2, <2>3, OneOrder
  <1>18. \/ row.status = "pending"
         \/ row.status = "failed" /\ in_source_state(w)
         \/ row.status = "completed" /\ ~in_source_state(w)
    <2>1. complete_claimed_task(Task(w)).status = "completed"
      BY <1>3, <1>4, RowFate
    <2> QED BY <1>1, <1>9, <2>1 DEF Returned
  <1> QED BY <1>15, <1>16, <1>17, <1>18

\* A claim is invisible.
LEMMA ClaimView ==
  ASSUME Inv, Inv', NEW w \in Workers, claim_one_task(w)
  PROVE  [Abstract!Next]_(Abstract!lifecycle_vars)
  <1>1. PICK o \in Orders : \E i \in DOMAIN tasks[o] :
          /\ claimable(tasks[o][i], now)
          /\ tasks' = [tasks EXCEPT ![o][i] = claim(@, w, now)]
    BY DEF claim_one_task
  <1>2. PICK i \in DOMAIN tasks[o] :
          /\ claimable(tasks[o][i], now)
          /\ tasks' = [tasks EXCEPT ![o][i] = claim(@, w, now)]
    BY <1>1
  <1>3. /\ tasks[o] \in Seq(TaskRow) /\ now \in Nat /\ UNCHANGED orders
        /\ Line(tasks[o])
    BY DEF Inv, TypeInv, TablesOK, QueueInv, claim_one_task
  <1>4. /\ tasks[o][i] \in TaskRow
        /\ Len(tasks'[o]) = Len(tasks[o])
        /\ tasks'[o][i] = claim(tasks[o][i], w, now)
    BY <1>2, ClaimRows DEF Inv, TypeInv
  <1>5. tasks[o][i].status \in {"pending", "running"}
    BY <1>2 DEF claimable
  <1>6. i = Len(tasks[o]) /\ i \in 1 .. 5
    BY <1>3, <1>5, UnfinishedIsLast
  <1>7. tasks'[o][i].status = "running"
    BY <1>3, <1>4, RowFate
  <1>8. WorkOfRows(tasks[o]) = "open" /\ WorkOfRows(tasks'[o]) = "open"
    BY <1>4, <1>5, <1>6, <1>7 DEF WorkOfRows, ACTIVE_TASK_STATUSES
  <1>9. Same(o)
    BY <1>3, <1>8 DEF Same, Seen
  <1>10. \A p \in Orders : p # o => orders'[p] = orders[p] /\ tasks'[p] = tasks[p]
    BY <1>2, <1>3 DEF Inv, TypeInv, TablesOK
  <1> QED BY <1>9, <1>10, OneOrder DEF Same

\* Moving an order is Advance.
LEMMA AdvanceView ==
  ASSUME Inv, Inv', NEW w \in Workers, AdvanceStep(w)
  PROVE  [Abstract!Next]_(Abstract!lifecycle_vars)
  <1> DEFINE o == worker[w].order
             n == worker[w].task
             next == ORDER_TRANSITIONS[STAGES[n]]
  <1>1. /\ worker[w].phase \in Busy /\ Task(w).status = "running"
        /\ handler(Task(w)) # "unsupported" /\ in_source_state(w)
    BY DEF AdvanceStep, owned_task_check_result
  <1>2. Task(w) = tasks[o][n] /\ Order(w) = orders[o] /\ SpecOf(w) = spec_of(Task(w))
    BY DEF Task, Order, SpecOf
  <1>3. /\ o \in Orders
        /\ n = Len(tasks[o]) /\ n \in 1 .. 5
        /\ orders[o].state = STAGES[n]
        /\ orders'[o].state = next
        /\ \A p \in Orders : p # o => tasks'[p] = tasks[p] /\ orders'[p] = orders[p]
        /\ tasks'[o][n].status = "completed"
        /\ n < 5 => Len(tasks'[o]) = n + 1 /\ tasks'[o][n + 1].status = "pending"
        /\ n = 5 => Len(tasks'[o]) = n
    BY QueueAdvance DEF Inv
  <1>4. SpecOf(w) = COURIER_ASSIGN_SPEC <=> STAGES[n] = "ready"
    <2>1. SpecOf(w).source_state = STAGES[n]
      BY <1>1, <1>2, <1>3 DEF in_source_state
    <2> QED BY <1>1, <1>2, <2>1, SpecFacts
  <1>5. /\ orders'[o].version = orders[o].version + 1
        /\ orders'[o].courier_ref = (orders[o].courier_ref \/ SpecOf(w) = COURIER_ASSIGN_SPEC)
    <2>1. PICK at \in Nat : orders' = [orders EXCEPT
              ![o].state = SpecOf(w).target_state,
              ![o].version = @ + 1,
              ![o].updated_at = at,
              ![o].courier_ref = @ \/ SpecOf(w) = COURIER_ASSIGN_SPEC]
      BY DEF AdvanceStep
    <2>2. orders \in [Orders -> OrderRow]
      BY DEF Inv, TypeInv, TablesOK
    <2> HIDE DEF o
    <2> QED BY <1>3, <2>1, <2>2 DEF OrderRow
  <1> HIDE DEF o, n
  <1>b. n \in 1 .. 5
    BY <1>3, Zenon
  <1>a. n \in Nat \ {0}
    BY <1>b
  <1>6. STAGES[n] \in DOMAIN ORDER_TRANSITIONS
    BY <1>3, StageFacts
  <1>7. STAGES[n] = "ready" <=> next = "out_for_delivery"
    BY <1>6 DEF ORDER_TRANSITIONS
  <1>8. next = "delivered" <=> n = 5
    <2>1. next = "delivered" <=> STAGES[n] = "out_for_delivery"
      BY <1>6 DEF ORDER_TRANSITIONS
    <2> QED BY <1>3, <2>1, StageFacts
  <1>9. WorkOfRows(tasks[o]) = "open"
    <2>1. Len(tasks[o]) = n /\ tasks[o][n].status = "running"
      BY <1>1, <1>2, <1>3, Zenon
    <2> QED BY <1>a, <2>1, WorkByStatus, Zenon
  <1> HIDE DEF next
  <1>10. WorkOfRows(tasks'[o]) = IF next = "delivered" THEN "done" ELSE "open"
    <2>1. CASE n = 5
      <3>1. Len(tasks'[o]) = n /\ tasks'[o][n].status = "completed"
        BY <1>3, <2>1, Zenon
      <3>2. WorkOfRows(tasks'[o]) = "done"
        BY <1>a, <3>1, WorkByStatus, Zenon
      <3> QED BY <1>8, <2>1, <3>2
    <2>2. CASE n # 5
      <3>1. n < 5 /\ n + 1 \in Nat \ {0}
        BY <1>b, <2>2
      <3>2. Len(tasks'[o]) = n + 1 /\ tasks'[o][n + 1].status = "pending"
        BY <1>3, <3>1
      <3> QED BY <1>8, <2>2, <3>1, <3>2, WorkByStatus
    <2> QED BY <2>1, <2>2
  <1>11. Seen(o, next, orders[o].version + 1,
              orders[o].courier_ref \/ next = "out_for_delivery",
              IF next = "delivered" THEN "done" ELSE "open")
    BY <1>3, <1>4, <1>5, <1>7, <1>10 DEF Seen
  <1>12. next = ORDER_TRANSITIONS[orders[o].state]
    BY <1>3 DEF next
  <1>13. orders[o].state \in DOMAIN ORDER_TRANSITIONS
    BY <1>3, <1>6
  <1> QED BY <1>3, <1>9, <1>11, <1>12, <1>13, OneOrder

\* The API calls are Place, Cancel and Reopen.
LEMMA ApiView ==
  ASSUME Inv, Inv', NEW o \in Orders,
         create_or_get_order(o) \/ cancel_order(o) \/ retry_failed_tasks_for_order(o)
  PROVE  [Abstract!Next]_(Abstract!lifecycle_vars)
  <1> DEFINE n == Len(tasks[o])
  <1>1. /\ tasks[o] \in Seq(TaskRow) /\ now \in Nat
        /\ orders \in [Orders -> OrderRow] /\ orders[o] \in OrderRow
        /\ n \in Nat /\ DOMAIN tasks[o] = 1 .. n
        /\ Line(tasks[o]) /\ Fits(orders[o].state, tasks[o])
        /\ \A i \in DOMAIN tasks[o] : tasks[o][i] \in TaskRow
        /\ tasks \in [Orders -> Seq(TaskRow)]
    BY LenProperties, ElementOfSeq DEF Inv, TypeInv, TablesOK, QueueInv
  <1>2. \A p \in Orders : p # o => orders'[p] = orders[p] /\ tasks'[p] = tasks[p]
    BY <1>1 DEF create_or_get_order, cancel_order, retry_failed_tasks_for_order
  <1>3. CASE create_or_get_order(o)
    <2>1. PICK at \in ApiStamps :
            /\ orders' = [orders EXCEPT ![o].state = "placed", ![o].updated_at = at]
            /\ tasks' = [tasks EXCEPT ![o] =
                 <<new_task("advance_state", "confirmed", at, NoTime, at)>>]
      BY <1>3 DEF create_or_get_order
    <2>2. /\ orders'[o].state = "placed"
          /\ orders'[o].version = orders[o].version
          /\ orders'[o].courier_ref = orders[o].courier_ref
      BY <1>1, <2>1 DEF OrderRow
    <2>3. Len(tasks'[o]) = 1 /\ tasks'[o][1].status = "pending"
      BY <1>1, <2>1 DEF new_task
    <2>4. Seen(o, "placed", orders[o].version, orders[o].courier_ref, "open")
      BY <2>2, <2>3 DEF Seen, WorkOfRows, ACTIVE_TASK_STATUSES
    <2>5. orders[o].state = Absent
      BY <1>3 DEF create_or_get_order
    <2> QED BY <1>2, <2>4, <2>5, OneOrder
  <1>4. CASE cancel_order(o)
    <2>1. /\ tasks' = [tasks EXCEPT ![o] = [i \in DOMAIN @ |-> cancel_task(@[i])]]
          /\ orders[o].state # Absent
          /\ ~is_terminal_order_state(orders[o].state)
      BY <1>4 DEF cancel_order
    <2>2. /\ orders'[o].state = "cancelled"
          /\ orders'[o].version = orders[o].version + 1
          /\ orders'[o].courier_ref = orders[o].courier_ref
      <3>1. PICK at \in ApiStamps : orders' = [orders EXCEPT ![o].state = "cancelled",
                                   ![o].version = @ + 1, ![o].updated_at = at]
        BY <1>4 DEF cancel_order
      <3> QED BY <1>1, <3>1 DEF OrderRow
    <2>3. orders[o].state \in DOMAIN ORDER_TRANSITIONS
      BY <1>1, <2>1 DEF OrderRow, ORDER_STATES, is_terminal_order_state,
                        TERMINAL_ORDER_STATES, ORDER_TRANSITIONS
    <2>4. n > 0 /\ tasks[o][n].status \in {"pending", "running", "failed"}
      BY <1>1, <2>3 DEF Fits
    <2>5. n \in DOMAIN tasks[o]
      BY <1>1, <2>4
    <2>6. Len(tasks'[o]) = n /\ tasks'[o][n] = cancel_task(tasks[o][n])
      BY <2>1, <2>5, CancelRows DEF Inv, TypeInv
    <2>7. IF tasks[o][n].status = "failed" THEN tasks'[o][n].status = "failed"
                                           ELSE tasks'[o][n].status = "cancelled"
      BY <1>1, <2>4, <2>5, <2>6, RowFate DEF ACTIVE_TASK_STATUSES
    <2> HIDE DEF n
    <2>8. WorkOfRows(tasks'[o]) =
            IF WorkOfRows(tasks[o]) = "failed" THEN "failed" ELSE "done"
      BY <2>4, <2>6, <2>7 DEF WorkOfRows, ACTIVE_TASK_STATUSES, n
    <2>9. Seen(o, "cancelled", orders[o].version + 1, orders[o].courier_ref,
               IF WorkOfRows(tasks[o]) = "failed" THEN "failed" ELSE "done")
      BY <2>2, <2>8 DEF Seen
    <2> QED BY <1>2, <2>3, <2>9, OneOrder
  <1>5. CASE retry_failed_tasks_for_order(o)
    <2> DEFINE failed == {i \in DOMAIN tasks[o] : tasks[o][i].status = "failed"}
    <2>1. PICK at \in ApiStamps : tasks' = [tasks EXCEPT ![o] = [i \in DOMAIN @ |->
                 IF i \in failed THEN retry_failed_task(@[i], at) ELSE @[i]]]
      BY <1>5 DEF retry_failed_tasks_for_order
    <2>2. at \in Nat /\ UNCHANGED orders /\ failed # {}
      BY <1>1, <1>5 DEF ApiStamps, retry_failed_tasks_for_order
    <2>3. PICK k \in DOMAIN tasks[o] : tasks[o][k].status = "failed"
      BY <2>2
    <2>4. k = n /\ n \in 1 .. 5
      BY <1>1, <2>3, UnfinishedIsLast
    <2>5. Len(tasks'[o]) = n /\ tasks'[o][n] = retry_failed_task(tasks[o][n], at)
      BY <2>1, <2>2, <2>3, <2>4, RetryRows DEF Inv, TypeInv
    <2>6. tasks'[o][n].status = "pending"
      BY <1>1, <2>2, <2>3, <2>4, <2>5, RowFate
    <2> HIDE DEF failed, n
    <2>7. WorkOfRows(tasks[o]) = "failed" /\ WorkOfRows(tasks'[o]) = "open"
      BY <2>3, <2>4, <2>5, <2>6 DEF WorkOfRows, ACTIVE_TASK_STATUSES, n
    <2>8. Seen(o, orders[o].state, orders[o].version, orders[o].courier_ref, "open")
      BY <2>2, <2>7 DEF Seen
    <2> QED BY <1>2, <2>7, <2>8, OneOrder
  <1> QED BY <1>3, <1>4, <1>5

\* Every step of the pipeline is a step of OrderLifecycle or none.
LEMMA RefinementStep ==
  ASSUME Inv, Inv', [Next]_vars PROVE [Abstract!Next]_(Abstract!lifecycle_vars)
  <1>1. ASSUME UNCHANGED <<orders, tasks>>
        PROVE  UNCHANGED (Abstract!lifecycle_vars)
    BY <1>1 DEF Abstract!lifecycle_vars, work_of
  <1>2. \A w \in Workers : QuietStep(w) => UNCHANGED <<orders, tasks>>
    BY DEF QuietStep
  <1>3. OutsideStep => UNCHANGED <<orders, tasks>>
    BY DEF OutsideStep
  <1>4. TablesOK /\ WorkerOK
    BY DEF Inv, TypeInv
  <1> QED BY <1>1, <1>2, <1>3, <1>4, StepKinds, ClaimView, SettleView, AdvanceView, ApiView

\* Seen through the order rows and the status of their queues, workers, API and
\* operators together do nothing but what OrderLifecycle allows.
THEOREM PipelineImplementsLifecycle == Spec => Lifecycle
  <1>1. Init => Abstract!Init
    <2> SUFFICES ASSUME Init PROVE Abstract!Init
      OBVIOUS
    <2>1. \A o \in Orders : /\ orders[o].state = Absent /\ orders[o].version = 0
                            /\ orders[o].courier_ref = FALSE /\ tasks[o] = <<>>
      BY DEF Init
    <2>2. \A o \in Orders : work_of(o) = "none"
      BY <2>1 DEF work_of
    <2>3. Abstract!Absent = Absent
      BY DEF Abstract!Absent, Absent
    <2> QED BY <2>1, <2>2, <2>3 DEF Abstract!Init
  <1>2. Inv /\ Inv' /\ [Next]_vars => [Abstract!Next]_(Abstract!lifecycle_vars)
    BY RefinementStep
  <1> QED BY <1>1, <1>2, InvInit, InvStep, PTL DEF Spec, Lifecycle, Abstract!Spec

================================================================================
