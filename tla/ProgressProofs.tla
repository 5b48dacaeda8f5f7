----------------------------- MODULE ProgressProofs -----------------------------
(***************************************************************************)
(* The safety of PipelineProgress, for every set of orders and workers and *)
(* every budget of attempts, faults and retries: its state is well formed, *)
(* and it implements OrderLifecycle although each order has one row in     *)
(* place of a line of tasks, and facts in place of a clock.                *)
(***************************************************************************)
EXTENDS PipelineProgress, TLAPS

--------------------------------------------------------------------------------
\* The inductive invariant.

Busy == {"claimed", "calling", "success", "pending", "error"}
Called == {"calling", "success", "pending", "error"}

\* The last task of an order is the one its state calls for.
Fits(row, t) ==
  /\ row.state = Absent <=> t.status = Absent
  /\ row.state = Absent => row.version = 0
  /\ row.state # Absent => t.step \in 1 .. 5
  /\ row.state \in DOMAIN ORDER_TRANSITIONS =>
       /\ row.state = SOURCE[t.step]
       /\ row.version = t.step - 1
       /\ t.status \in {"pending", "running", "failed"}
  /\ row.state = "delivered" => t.status = "completed"
  /\ row.state # "failed"

QueueInv == \A o \in Orders : Fits(order[o], task[o])

\* A worker at work has a task, and one that called and still owns it works for
\* an order that has not moved.
WorkerInv ==
  \A w \in Workers :
    /\ worker[w].phase \in Busy => worker[w].order \in Orders /\ worker[w].step \in 1 .. 5
    /\ worker[w].phase \in Called /\ owned_task_check_result(w) => in_source_state(w)

Inv == TypeOK /\ QueueInv /\ WorkerInv
--------------------------------------------------------------------------------
\* Rows.

LEMMA UnlockedRow ==
  ASSUME NEW row \in TaskRow, NEW status \in ORDER_TASK_STATUSES
  PROVE  /\ Unlocked(row, status) \in TaskRow
         /\ Unlocked(row, status).status = status
         /\ Unlocked(row, status).step = row.step
         /\ Unlocked(row, status).locked_by = Nobody
  BY DEF TaskRow, Unlocked

LEMMA LaterRow ==
  ASSUME NEW row \in TaskRow
  PROVE  /\ Later(row) \in TaskRow
         /\ Later(row).status = "pending"
         /\ Later(row).step = row.step
         /\ Later(row).locked_by = Nobody
  BY DEF TaskRow, Unlocked, Later, ORDER_TASK_STATUSES

LEMMA NewRow ==
  ASSUME NEW step \in 1 .. 5
  PROVE  /\ new_task(step) \in TaskRow
         /\ new_task(step).status = "pending"
         /\ new_task(step).step = step
  BY DEF TaskRow, new_task, ORDER_TASK_STATUSES, POLLS

\* An error leaves a row pending or failed, and nobody's.
LEMMA ErrorRow ==
  ASSUME NEW row \in TaskRow
  PROVE  /\ retry_or_fail_claimed_task(row) \in TaskRow
         /\ retry_or_fail_claimed_task(row).status \in {"pending", "failed"}
         /\ retry_or_fail_claimed_task(row).step = row.step
         /\ retry_or_fail_claimed_task(row).locked_by = Nobody
  <1>1. "failed" \in ORDER_TASK_STATUSES
    BY DEF ORDER_TASK_STATUSES
  <1> QED BY <1>1, ProgressAssumption, UnlockedRow, LaterRow
          DEF TaskRow, retry_or_fail_claimed_task

\* So does a "not yet".
LEMMA NotYetRow ==
  ASSUME NEW row \in TaskRow
  PROVE  /\ after_not_yet(row) \in TaskRow
         /\ after_not_yet(row).status \in {"pending", "failed"}
         /\ after_not_yet(row).step = row.step
         /\ after_not_yet(row).locked_by = Nobody
  <1>1. "failed" \in ORDER_TASK_STATUSES
    BY DEF ORDER_TASK_STATUSES
  <1> QED BY <1>1, UnlockedRow, LaterRow DEF after_not_yet

\* The states of the happy path, by step.
LEMMA SourceFacts ==
  /\ \A i \in 1 .. 5 : /\ SOURCE[i] \in DOMAIN ORDER_TRANSITIONS
                       /\ SOURCE[i] \in ORDER_STATES
                       /\ ORDER_TRANSITIONS[SOURCE[i]] \in ORDER_STATES
                       /\ ORDER_TRANSITIONS[SOURCE[i]] \notin {Absent, "cancelled", "failed"}
                       /\ i < 5 => ORDER_TRANSITIONS[SOURCE[i]] = SOURCE[i + 1]
                       /\ i = 5 => ORDER_TRANSITIONS[SOURCE[i]] = "delivered"
                       /\ ORDER_TRANSITIONS[SOURCE[i]] = "out_for_delivery" <=> i = 4
  /\ SOURCE[1] = "placed"
  /\ \A i, j \in 1 .. 5 : SOURCE[i] = SOURCE[j] => i = j
  BY DEF SOURCE, ORDER_TRANSITIONS, ORDER_STATES, Absent

--------------------------------------------------------------------------------
\* What a step does, by kind.

\* A worker remembers something else; no table changes.
QuietStep(w) ==
  /\ UNCHANGED <<order, task>>
  /\ \E new \in WorkerState :
       /\ worker' = [worker EXCEPT ![w] = new]
       /\ new.phase \in Busy => /\ worker[w].phase \in Busy
                                /\ new.order = worker[w].order
                                /\ new.step = worker[w].step
       /\ new.phase \in Called => worker[w].phase \in Called \/ in_source_state(w)

\* A worker gives its task up: to try later, for good, or because the order has
\* moved.
SettleStep(w) ==
  /\ worker[w].phase \in Busy
  /\ owned_task_check_result(w)
  /\ UNCHANGED order
  /\ Finish(w)
  /\ \E row \in TaskRow :
       /\ WriteTask(w, row)
       /\ row.step = Task(w).step /\ row.locked_by = Nobody
       /\ \/ row.status = "pending"
          \/ row.status = "failed" /\ (in_source_state(w) \/ worker[w].phase \in Called)
          \/ row.status = "completed" /\ ~in_source_state(w)

\* A worker moves its order.
AdvanceStep(w) ==
  /\ worker[w].phase \in Busy
  /\ owned_task_check_result(w)
  /\ in_source_state(w)
  /\ Finish(w)
  /\ LET o == worker[w].order  i == worker[w].step IN
       /\ order' = [order EXCEPT ![o].state = ORDER_TRANSITIONS[SOURCE[i]],
                                 ![o].version = @ + 1, ![o].courier_ref = @ \/ i = 4]
       /\ WriteTask(w, insert_followup_task(Task(w)))

\* One of the facts about a row comes true.
FactStep(o) ==
  /\ UNCHANGED <<order, worker>>
  /\ \E row \in TaskRow :
       /\ task' = [task EXCEPT ![o] = row]
       /\ row.step = task[o].step /\ row.status = task[o].status
       /\ row.locked_by = task[o].locked_by

TablesOK == order \in [Orders -> OrderRow] /\ task \in [Orders -> TaskRow]

LEMMA Owned ==
  ASSUME TypeOK, WorkerInv, NEW w \in Workers, worker[w].phase \in Busy
  PROVE  /\ worker[w].order \in Orders /\ worker[w].step \in 1 .. 5
         /\ Task(w) \in TaskRow /\ Task(w) = task[worker[w].order]
         /\ Order(w) \in OrderRow /\ Order(w) = order[worker[w].order]
         /\ worker[w] \in WorkerState
  BY DEF TypeOK, WorkerInv, Task, Order
LEMMA IdleWorker ==
  /\ Idle \in WorkerState /\ Idle.phase \notin Busy
  /\ [Idle EXCEPT !.phase = "crashed"] \in WorkerState
  /\ [Idle EXCEPT !.phase = "crashed"].phase \notin Busy
  BY DEF Idle, WorkerState, Busy

\* The steps of a worker on its task.
LEMMA TaskSteps ==
  ASSUME Inv, NEW w \in Workers, process_claimed_task(w)
  PROVE  QuietStep(w) \/ SettleStep(w) \/ AdvanceStep(w)
  <1>1. TypeOK /\ WorkerInv /\ worker \in [Workers -> WorkerState]
    BY DEF Inv, TypeOK
  <1>2. ASSUME Finish(w), UNCHANGED <<order, task>> PROVE QuietStep(w)
    BY <1>2, IdleWorker DEF QuietStep, Finish, Busy, Called
  <1>3. CASE skip_after_claim(w)
    BY <1>2, <1>3 DEF skip_after_claim
  <1>4. CASE prepare_call(w)
    <2>1. worker[w].phase \in Busy
      BY <1>4 DEF prepare_call, Busy
    <2>2. Task(w) \in TaskRow /\ worker[w] \in WorkerState
      BY <1>1, <2>1, Owned
    <2>3. CASE in_source_state(w)
      <3> DEFINE new == [worker[w] EXCEPT !.phase = "calling"]
      <3>1. /\ new \in WorkerState /\ worker' = [worker EXCEPT ![w] = new]
            /\ new.order = worker[w].order /\ new.step = worker[w].step
        BY <1>1, <1>4, <2>2, <2>3 DEF prepare_call, WorkerState
      <3>2. UNCHANGED <<order, task>>
        BY <1>4, <2>3 DEF prepare_call
      <3> HIDE DEF new
      <3> QED BY <2>1, <2>3, <3>1, <3>2 DEF QuietStep
    <2>4. CASE ~in_source_state(w)
      <3>1. "completed" \in ORDER_TASK_STATUSES
        BY DEF ORDER_TASK_STATUSES
      <3>2. WriteTask(w, Unlocked(Task(w), "completed")) /\ Finish(w)
        BY <1>4, <2>4 DEF prepare_call
      <3> QED BY <1>4, <2>1, <2>2, <2>4, <3>1, <3>2, UnlockedRow DEF SettleStep, prepare_call
    <2> QED BY <2>3, <2>4
  <1>5. CASE call(w)
    <2>1. PICK out \in {"error", IF elapsed[worker[w].order] THEN "success" ELSE "pending"} :
            worker' = [worker EXCEPT ![w].phase = out]
      BY <1>5 DEF call
    <2> DEFINE new == [worker[w] EXCEPT !.phase = out]
    <2>2. out \in Called /\ worker[w].phase \in Called /\ worker[w].phase \in Busy
      BY <1>5 DEF call, Called, Busy
    <2>3. worker[w] \in WorkerState
      BY <1>1, <2>2, Owned
    <2>4. /\ new \in WorkerState /\ worker' = [worker EXCEPT ![w] = new]
          /\ new.order = worker[w].order /\ new.step = worker[w].step
      BY <1>1, <2>1, <2>2, <2>3 DEF WorkerState, Called
    <2> HIDE DEF new
    <2> QED BY <1>5, <2>2, <2>4 DEF QuietStep, call
  <1>6. CASE finalize_transition_task(w)
    <2>1. worker[w].phase \in Busy /\ owned_task_check_result(w) /\ Finish(w)
      BY <1>6 DEF finalize_transition_task, Busy
    <2>2. Task(w) \in TaskRow
      BY <1>1, <2>1, Owned
    <2>3. CASE in_source_state(w)
      BY <1>6, <2>1, <2>3 DEF finalize_transition_task, AdvanceStep
    <2>4. CASE ~in_source_state(w)
      <3>1. "completed" \in ORDER_TASK_STATUSES
        BY DEF ORDER_TASK_STATUSES
      <3>2. WriteTask(w, Unlocked(Task(w), "completed")) /\ UNCHANGED order
        BY <1>6, <2>4 DEF finalize_transition_task
      <3> QED BY <2>1, <2>2, <2>4, <3>1, <3>2, UnlockedRow DEF SettleStep
    <2> QED BY <2>3, <2>4
  <1>7. CASE reschedule_after_error(w)
    <2>1. /\ worker[w].phase \in Busy /\ worker[w].phase \in Called
          /\ owned_task_check_result(w) /\ Finish(w) /\ UNCHANGED order
      BY <1>7 DEF reschedule_after_error, Busy, Called
    <2>2. Task(w) \in TaskRow
      BY <1>1, <2>1, Owned
    <2>3. CASE worker[w].step \in POLLS /\ ~in_source_state(w)
      <3>1. "completed" \in ORDER_TASK_STATUSES
        BY DEF ORDER_TASK_STATUSES
      <3>2. WriteTask(w, Unlocked(Task(w), "completed"))
        BY <1>7, <2>3 DEF reschedule_after_error
      <3> QED BY <2>1, <2>2, <2>3, <3>1, <3>2, UnlockedRow DEF SettleStep
    <2>4. CASE ~(worker[w].step \in POLLS /\ ~in_source_state(w))
      <3>1. WriteTask(w, retry_or_fail_claimed_task(Task(w)))
        BY <1>7, <2>4 DEF reschedule_after_error
      <3> QED BY <2>1, <2>2, <3>1, ErrorRow DEF SettleStep
    <2> QED BY <2>3, <2>4
  <1>8. CASE reschedule_after_not_yet(w)
    <2>1. /\ worker[w].phase \in Busy
          /\ owned_task_check_result(w) /\ Finish(w) /\ UNCHANGED order
      BY <1>8 DEF reschedule_after_not_yet, Busy
    <2>2. Task(w) \in TaskRow
      BY <1>1, <2>1, Owned
    <2>3. CASE ~in_source_state(w)
      <3>1. "completed" \in ORDER_TASK_STATUSES
        BY DEF ORDER_TASK_STATUSES
      <3>2. WriteTask(w, Unlocked(Task(w), "completed"))
        BY <1>8, <2>3 DEF reschedule_after_not_yet
      <3> QED BY <2>1, <2>2, <2>3, <3>1, <3>2, UnlockedRow DEF SettleStep
    <2>4. CASE in_source_state(w)
      <3>1. WriteTask(w, after_not_yet(Task(w)))
        BY <1>8, <2>4 DEF reschedule_after_not_yet
      <3> QED BY <2>1, <2>2, <2>4, <3>1, NotYetRow DEF SettleStep
    <2> QED BY <2>3, <2>4
  <1> QED BY <1>3, <1>4, <1>5, <1>6, <1>7, <1>8 DEF process_claimed_task

\* The facts that come true with time.
LEMMA FactSteps ==
  ASSUME Inv, NEW o \in Orders, Time(o) \/ lease_outlived(o)
  PROVE  FactStep(o) \/ UNCHANGED <<order, task, worker>>
  <1>1. task \in [Orders -> TaskRow] /\ task[o] \in TaskRow
    BY DEF Inv, TypeOK
  <1>2. CASE task_becomes_due(o)
    <2> DEFINE row == [task[o] EXCEPT !.due = TRUE]
    <2>1. /\ row \in TaskRow /\ task' = [task EXCEPT ![o] = row]
          /\ row.step = task[o].step /\ row.status = task[o].status
          /\ row.locked_by = task[o].locked_by
      BY <1>1, <1>2 DEF task_becomes_due, TaskRow
    <2> HIDE DEF row
    <2> QED BY <1>2, <2>1 DEF FactStep, task_becomes_due
  <1>3. CASE deadline_passes(o)
    <2> DEFINE row == [task[o] EXCEPT !.late = TRUE]
    <2>1. /\ row \in TaskRow /\ task' = [task EXCEPT ![o] = row]
          /\ row.step = task[o].step /\ row.status = task[o].status
          /\ row.locked_by = task[o].locked_by
      BY <1>1, <1>3 DEF deadline_passes, TaskRow
    <2> HIDE DEF row
    <2> QED BY <1>3, <2>1 DEF FactStep, deadline_passes
  <1>4. CASE Expire(o)
    <2> DEFINE row == [task[o] EXCEPT !.expired = TRUE]
    <2>1. /\ row \in TaskRow /\ task' = [task EXCEPT ![o] = row]
          /\ row.step = task[o].step /\ row.status = task[o].status
          /\ row.locked_by = task[o].locked_by
      BY <1>1, <1>4 DEF Expire, TaskRow
    <2> HIDE DEF row
    <2> QED BY <1>4, <2>1 DEF FactStep, Expire
  <1>5. CASE delay_elapses(o)
    BY <1>5 DEF delay_elapses
  <1> QED BY <1>2, <1>3, <1>4, <1>5 DEF Time, lease_runs_out, lease_outlived

LEMMA StepKinds ==
  ASSUME Inv, [Next]_vars
  PROVE  \/ UNCHANGED <<order, task, worker>>
         \/ \E w \in Workers : \/ QuietStep(w) \/ SettleStep(w) \/ AdvanceStep(w)
                               \/ \E o \in Orders : claim_one_task(w, o)
         \/ \E o \in Orders : \/ FactStep(o) \/ create_or_get_order(o)
                              \/ cancel_order(o) \/ retry_failed_tasks_for_order(o)
  <1>1. ASSUME NEW w \in Workers, run_task_poll_loop_exception(w) \/ crash(w)
        PROVE  QuietStep(w)
    <2>1. UNCHANGED <<order, task>> /\ \E new \in WorkerState :
            worker' = [worker EXCEPT ![w] = new] /\ new.phase \notin Busy
      BY <1>1, IdleWorker DEF run_task_poll_loop_exception, crash, Finish
    <2> QED BY <2>1 DEF QuietStep, Busy, Called
  <1>2. CASE UNCHANGED vars
    BY <1>2 DEF vars
  <1>3. CASE Next
    BY <1>1, <1>3, TaskSteps, FactSteps DEF Next
  <1> QED BY <1>2, <1>3
--------------------------------------------------------------------------------
\* The invariant holds throughout.

LEMMA InvInit == Init => Inv
  <1> SUFFICES ASSUME Init PROVE Inv
    OBVIOUS
  <1>1. TypeOK
    <2>1. [state |-> Absent, version |-> 0, courier_ref |-> FALSE] \in OrderRow
      BY DEF OrderRow
    <2>2. [new_task(1) EXCEPT !.step = 0, !.status = Absent] \in TaskRow
      <3>1. new_task(1) \in TaskRow
        BY NewRow
      <3>2. ASSUME NEW row \in TaskRow PROVE [row EXCEPT !.step = 0] \in TaskRow
        BY DEF TaskRow
      <3>3. ASSUME NEW row \in TaskRow PROVE [row EXCEPT !.status = Absent] \in TaskRow
        BY DEF TaskRow
      <3>4. [new_task(1) EXCEPT !.step = 0, !.status = Absent]
            = [[new_task(1) EXCEPT !.step = 0] EXCEPT !.status = Absent]
        OBVIOUS
      <3> QED BY <3>1, <3>2, <3>3, <3>4
    <2>3. 0 \in 0 .. MaxFaults /\ 0 \in 0 .. MaxRetries
      BY ProgressAssumption
    <2> QED BY <2>1, <2>2, <2>3, IdleWorker DEF Init, TypeOK
  <1>2. QueueInv
    BY DEF Init, QueueInv, Fits, new_task, Absent, ORDER_TRANSITIONS
  <1>3. WorkerInv
    BY DEF Init, WorkerInv, Idle, Busy, Called
  <1> QED BY <1>1, <1>2, <1>3 DEF Inv

\* The part of the type invariant that nothing else depends on.
LEMMA BoundsKept ==
  ASSUME TypeOK, [Next]_vars
  PROVE  /\ elapsed' \in [Orders -> BOOLEAN]
         /\ faults' \in 0 .. MaxFaults /\ retries' \in [Orders -> 0 .. MaxRetries]
  <1>1. /\ elapsed \in [Orders -> BOOLEAN]
        /\ faults \in 0 .. MaxFaults /\ retries \in [Orders -> 0 .. MaxRetries]
    BY DEF TypeOK
  <1>2. \/ UNCHANGED elapsed
        \/ \E o : \E b \in BOOLEAN : elapsed' = [elapsed EXCEPT ![o] = b]
    BY DEF Next, vars, claim_one_task, process_claimed_task, skip_after_claim, prepare_call,
       call, finalize_transition_task, reschedule_after_error, reschedule_after_not_yet,
       run_task_poll_loop_exception, crash, Time, task_becomes_due, deadline_passes,
       delay_elapses, lease_runs_out, lease_outlived, Expire, create_or_get_order,
       cancel_order, retry_failed_tasks_for_order
  <1>3. \/ UNCHANGED faults
        \/ faults < MaxFaults /\ faults' = faults + 1
    BY DEF Next, vars, claim_one_task, process_claimed_task, skip_after_claim, prepare_call,
       call, finalize_transition_task, reschedule_after_error, reschedule_after_not_yet,
       run_task_poll_loop_exception, crash, Time, task_becomes_due, deadline_passes,
       delay_elapses, lease_runs_out, lease_outlived, Expire, create_or_get_order,
       cancel_order, retry_failed_tasks_for_order
  <1>4. \/ UNCHANGED retries
        \/ \E o \in Orders : retries[o] < MaxRetries /\ retries' = [retries EXCEPT ![o] = @ + 1]
    BY DEF Next, vars, claim_one_task, process_claimed_task, skip_after_claim, prepare_call,
       call, finalize_transition_task, reschedule_after_error, reschedule_after_not_yet,
       run_task_poll_loop_exception, crash, Time, task_becomes_due, deadline_passes,
       delay_elapses, lease_runs_out, lease_outlived, Expire, create_or_get_order,
       cancel_order, retry_failed_tasks_for_order
  <1>5. elapsed' \in [Orders -> BOOLEAN]
    BY <1>1, <1>2
  <1>6. faults' \in 0 .. MaxFaults
    BY <1>1, <1>3, ProgressAssumption
  <1>7. retries' \in [Orders -> 0 .. MaxRetries]
    BY <1>1, <1>4, ProgressAssumption
  <1> QED BY <1>5, <1>6, <1>7

\* Rewriting the rows of one order.
LEMMA OneOrderRewritten ==
  ASSUME TablesOK, QueueInv, NEW o \in Orders, NEW row \in OrderRow, NEW t \in TaskRow,
         order' = [order EXCEPT ![o] = row], task' = [task EXCEPT ![o] = t], Fits(row, t)
  PROVE  TablesOK' /\ QueueInv'
  <1>1. /\ order'[o] = row /\ task'[o] = t
        /\ \A p \in Orders : p # o => order'[p] = order[p] /\ task'[p] = task[p]
        /\ TablesOK'
    BY DEF TablesOK
  <1>2. ASSUME NEW p \in Orders PROVE Fits(order'[p], task'[p])
    <2>1. CASE p = o
      BY <1>1, <2>1
    <2>2. CASE p # o
      BY <1>1, <2>2 DEF QueueInv
    <2> QED BY <2>1, <2>2
  <1> QED BY <1>1, <1>2 DEF QueueInv

\* The invariant of one worker.
WorkerFine(w) ==
  /\ worker[w].phase \in Busy => worker[w].order \in Orders /\ worker[w].step \in 1 .. 5
  /\ worker[w].phase \in Called /\ owned_task_check_result(w) => in_source_state(w)

\* A worker that does not move is fine after a step that takes its task away, and
\* after one that leaves it and the order alone.
LEMMA WorkerSpared ==
  ASSUME NEW w \in Workers, WorkerFine(w), worker'[w] = worker[w],
         LET o == worker[w].order IN
         \/ worker[w].phase \notin Called
         \/ task'[o].status # "running" \/ task'[o].locked_by # w
         \/ /\ order'[o].state = order[o].state
            /\ task'[o].step = task[o].step /\ task'[o].status = task[o].status
            /\ task'[o].locked_by = task[o].locked_by
  PROVE  WorkerFine(w)'
  BY DEF WorkerFine, owned_task_check_result, in_source_state, Task, Order

\* A worker that has just become idle has nothing to be fine about.
LEMMA WorkerIdle ==
  ASSUME NEW w \in Workers, worker \in [Workers -> WorkerState], Finish(w)
  PROVE  /\ worker' \in [Workers -> WorkerState] /\ WorkerFine(w)'
         /\ \A v \in Workers : v # w => worker'[v] = worker[v]
  BY DEF Finish, Idle, WorkerFine, WorkerState, Busy, Called

LEMMA QuietKeeps ==
  ASSUME Inv, NEW w \in Workers, QuietStep(w)
  PROVE  TablesOK' /\ QueueInv' /\ worker' \in [Workers -> WorkerState] /\ WorkerInv'
  <1>1. TablesOK /\ QueueInv /\ worker \in [Workers -> WorkerState]
    BY DEF Inv, TypeOK, TablesOK
  <1>2. PICK new \in WorkerState :
          /\ worker' = [worker EXCEPT ![w] = new]
          /\ new.phase \in Busy => /\ worker[w].phase \in Busy
                                   /\ new.order = worker[w].order
                                   /\ new.step = worker[w].step
          /\ new.phase \in Called => worker[w].phase \in Called \/ in_source_state(w)
    BY DEF QuietStep
  <1>3. UNCHANGED <<order, task>>
    BY DEF QuietStep
  <1>4. /\ worker' \in [Workers -> WorkerState] /\ worker'[w] = new
        /\ \A v \in Workers : v # w => worker'[v] = worker[v]
    BY <1>1, <1>2
  <1>5. \A v \in Workers : WorkerFine(v)
    BY DEF Inv, WorkerInv, WorkerFine
  <1>6. \A v \in Workers : v # w => WorkerFine(v)'
    BY <1>3, <1>4, <1>5, WorkerSpared
  <1>7. WorkerFine(w)'
    <2>1. new.phase \in Called => new.phase \in Busy
      BY DEF Called, Busy
    <2> QED BY <1>2, <1>3, <1>4, <1>5, <2>1
            DEF WorkerFine, owned_task_check_result, in_source_state, Task, Order
  <1>8. TablesOK' /\ QueueInv'
    BY <1>1, <1>3 DEF TablesOK, QueueInv
  <1> QED BY <1>4, <1>6, <1>7, <1>8 DEF WorkerInv, WorkerFine

\* The order of an owned task, and where that task stands.
LEMMA OwnedFacts ==
  ASSUME Inv, NEW w \in Workers, worker[w].phase \in Busy, owned_task_check_result(w)
  PROVE  /\ worker[w].order \in Orders
         /\ worker[w].step \in 1 .. 5 /\ task[worker[w].order].step = worker[w].step
         /\ task[worker[w].order].status = "running"
         /\ Fits(order[worker[w].order], task[worker[w].order])
         /\ in_source_state(w) => /\ order[worker[w].order].state \in DOMAIN ORDER_TRANSITIONS
                                  /\ order[worker[w].order].state = SOURCE[worker[w].step]
         /\ ~in_source_state(w) => order[worker[w].order].state = "cancelled"
         /\ worker[w].phase \in Called => in_source_state(w)
  <1> DEFINE o == worker[w].order
  <1>1. /\ o \in Orders /\ worker[w].step \in 1 .. 5
        /\ task[o].step = worker[w].step /\ task[o].status = "running"
        /\ order[o] \in OrderRow
        /\ in_source_state(w) <=> order[o].state = SOURCE[worker[w].step]
        /\ worker[w].phase \in Called => in_source_state(w)
    BY Owned DEF Inv, owned_task_check_result, in_source_state, Task, Order, WorkerInv
  <1>2. Fits(order[o], task[o])
    BY <1>1 DEF Inv, QueueInv
  <1> HIDE DEF o
  <1>3. order[o].state \in {Absent, "cancelled", "delivered", "failed"} \union DOMAIN ORDER_TRANSITIONS
    BY <1>1 DEF OrderRow, ORDER_STATES, ORDER_TRANSITIONS
  <1>4. ~in_source_state(w) => order[o].state = "cancelled"
    BY <1>1, <1>2, <1>3 DEF Fits, Absent
  <1>5. in_source_state(w) => order[o].state \in DOMAIN ORDER_TRANSITIONS
    BY <1>1, SourceFacts
  <1> QED BY <1>1, <1>2, <1>4, <1>5 DEF o
LEMMA ClaimKeeps ==
  ASSUME Inv, NEW w \in Workers, NEW o \in Orders, claim_one_task(w, o)
  PROVE  /\ TablesOK' /\ QueueInv' /\ worker' \in [Workers -> WorkerState] /\ WorkerInv'
         /\ \A p \in Orders : order'[p] = order[p] /\ (p # o => task'[p] = task[p])
         /\ task[o].status \in ACTIVE_TASK_STATUSES /\ task'[o].status = "running"
  <1>1. /\ TablesOK /\ QueueInv /\ worker \in [Workers -> WorkerState]
        /\ order[o] \in OrderRow /\ task[o] \in TaskRow /\ Fits(order[o], task[o])
    BY DEF Inv, TypeOK, TablesOK, QueueInv
  <1> DEFINE t == [task[o] EXCEPT !.status = "running", !.locked_by = w, !.expired = FALSE]
             new == [phase |-> "claimed", order |-> o, step |-> task[o].step]
  <1>2. /\ t \in TaskRow /\ t.step = task[o].step /\ t.status = "running" /\ t.locked_by = w
        /\ new \in WorkerState /\ new.order = o /\ new.step = task[o].step
        /\ new.phase \in Busy /\ new.phase \notin Called
    BY <1>1 DEF TaskRow, WorkerState, ORDER_TASK_STATUSES, Busy, Called
  <1>3. /\ task' = [task EXCEPT ![o] = t] /\ worker' = [worker EXCEPT ![w] = new]
        /\ order' = order /\ task[o].status \in ACTIVE_TASK_STATUSES
    BY <1>1 DEF claim_one_task, TablesOK, claimable, ACTIVE_TASK_STATUSES
  <1> HIDE DEF t, new
  <1>4. order' = [order EXCEPT ![o] = order[o]]
    BY <1>1, <1>3 DEF TablesOK
  <1>5. Fits(order[o], t)
    BY <1>1, <1>2, <1>3 DEF Fits, ACTIVE_TASK_STATUSES, Absent
  <1>6. TablesOK' /\ QueueInv'
    BY <1>1, <1>2, <1>3, <1>4, <1>5, OneOrderRewritten
  <1>7. /\ \A p \in Orders : order'[p] = order[p] /\ (p # o => task'[p] = task[p])
        /\ task'[o] = t
    BY <1>1, <1>3 DEF TablesOK
  <1>8. /\ worker' \in [Workers -> WorkerState] /\ worker'[w] = new
        /\ \A v \in Workers : v # w => worker'[v] = worker[v]
    BY <1>1, <1>2, <1>3
  <1>9. WorkerFine(w)'
    <2>1. task[o].step \in 1 .. 5
      BY <1>1, <1>3 DEF Fits, ACTIVE_TASK_STATUSES, Absent
    <2> QED BY <1>2, <1>8, <2>1 DEF WorkerFine
  <1>10. ASSUME NEW v \in Workers, v # w PROVE WorkerFine(v)'
    <2>1. WorkerFine(v) /\ worker'[v] = worker[v]
      BY <1>8, <1>10 DEF Inv, WorkerInv, WorkerFine
    <2>2. CASE worker[v].order = o
      BY <1>2, <1>7, <1>10, <2>1, <2>2, WorkerSpared
    <2>3. CASE worker[v].order # o /\ worker[v].order \in Orders
      BY <1>7, <2>1, <2>3, WorkerSpared
    <2>4. CASE worker[v].order \notin Orders
      BY <2>1, <2>4, WorkerSpared DEF WorkerFine, Busy, Called
    <2> QED BY <2>2, <2>3, <2>4
  <1> QED BY <1>2, <1>3, <1>6, <1>7, <1>8, <1>9, <1>10 DEF WorkerInv, WorkerFine

\* After a step that writes the rows of order o and takes its task from whoever
\* had it, every worker that does not move is fine.
LEMMA OthersLoseTask ==
  ASSUME Inv, NEW o \in Orders,
         \A p \in Orders : p # o => order'[p] = order[p] /\ task'[p] = task[p],
         task'[o].status # "running"
  PROVE  \A v \in Workers : worker'[v] = worker[v] => WorkerFine(v)'
  <1> SUFFICES ASSUME NEW v \in Workers, worker'[v] = worker[v] PROVE WorkerFine(v)'
    OBVIOUS
  <1>1. WorkerFine(v)
    BY DEF Inv, WorkerInv, WorkerFine
  <1>2. CASE worker[v].order = o
    BY <1>1, <1>2, WorkerSpared
  <1>3. CASE worker[v].order # o /\ worker[v].order \in Orders
    BY <1>1, <1>3, WorkerSpared
  <1>4. CASE worker[v].order \notin Orders
    BY <1>1, <1>4, WorkerSpared DEF WorkerFine, Busy, Called
  <1> QED BY <1>2, <1>3, <1>4

LEMMA SettleKeeps ==
  ASSUME Inv, NEW w \in Workers, SettleStep(w)
  PROVE  TablesOK' /\ QueueInv' /\ worker' \in [Workers -> WorkerState] /\ WorkerInv'
  <1> DEFINE o == worker[w].order
  <1>1. PICK row \in TaskRow :
          /\ WriteTask(w, row)
          /\ row.step = Task(w).step /\ row.locked_by = Nobody
          /\ \/ row.status = "pending"
             \/ row.status = "failed" /\ (in_source_state(w) \/ worker[w].phase \in Called)
             \/ row.status = "completed" /\ ~in_source_state(w)
    BY DEF SettleStep
  <1>2. /\ worker[w].phase \in Busy /\ owned_task_check_result(w)
        /\ UNCHANGED order /\ Finish(w)
    BY DEF SettleStep
  <1>3. /\ TablesOK /\ QueueInv /\ worker \in [Workers -> WorkerState]
    BY DEF Inv, TypeOK, TablesOK
  <1>4. /\ o \in Orders /\ task[o].status = "running" /\ Fits(order[o], task[o])
        /\ in_source_state(w) => order[o].state \in DOMAIN ORDER_TRANSITIONS
        /\ ~in_source_state(w) => order[o].state = "cancelled"
        /\ worker[w].phase \in Called => in_source_state(w)
    BY <1>2, OwnedFacts
  <1>5. /\ task' = [task EXCEPT ![o] = row] /\ row.step = task[o].step
        /\ order' = [order EXCEPT ![o] = order[o]] /\ order[o] \in OrderRow
    BY <1>1, <1>2, <1>3, <1>4 DEF WriteTask, Task, TablesOK
  <1> HIDE DEF o
  <1>6. Fits(order[o], row)
    BY <1>1, <1>4, <1>5 DEF Fits, Absent, ORDER_TRANSITIONS
  <1>7. TablesOK' /\ QueueInv'
    BY <1>3, <1>4, <1>5, <1>6, OneOrderRewritten
  <1>8. /\ \A p \in Orders : p # o => order'[p] = order[p] /\ task'[p] = task[p]
        /\ task'[o].status # "running"
    BY <1>1, <1>3, <1>4, <1>5 DEF TablesOK
  <1>9. \A v \in Workers : worker'[v] = worker[v] => WorkerFine(v)'
    BY <1>4, <1>8, OthersLoseTask
  <1> QED BY <1>2, <1>3, <1>7, <1>9, WorkerIdle DEF WorkerInv, WorkerFine

\* The rows after a move.
LEMMA AdvanceRows ==
  ASSUME Inv, NEW w \in Workers, AdvanceStep(w)
  PROVE  LET o == worker[w].order
             i == worker[w].step
         IN  /\ o \in Orders /\ i \in 1 .. 5
             /\ order[o].state = SOURCE[i] /\ task[o].status = "running"
             /\ order'[o].state = ORDER_TRANSITIONS[SOURCE[i]]
             /\ order'[o].version = order[o].version + 1
             /\ order'[o].courier_ref = (order[o].courier_ref \/ i = 4)
             /\ task'[o].status = IF i = 5 THEN "completed" ELSE "pending"
             /\ \A p \in Orders : p # o => order'[p] = order[p] /\ task'[p] = task[p]
             /\ TablesOK' /\ QueueInv'
  <1> DEFINE o == worker[w].order
             i == worker[w].step
             t == insert_followup_task(Task(w))
             row == [order[o] EXCEPT !.state = ORDER_TRANSITIONS[SOURCE[i]],
                                     !.version = @ + 1, !.courier_ref = @ \/ i = 4]
  <1>1. /\ worker[w].phase \in Busy /\ owned_task_check_result(w) /\ in_source_state(w)
    BY DEF AdvanceStep
  <1>2. /\ o \in Orders /\ i \in 1 .. 5 /\ task[o].step = i /\ task[o].status = "running"
        /\ Fits(order[o], task[o]) /\ order[o].state = SOURCE[i]
        /\ order[o].state \in DOMAIN ORDER_TRANSITIONS
    BY <1>1, OwnedFacts
  <1>3. /\ TablesOK /\ QueueInv /\ order[o] \in OrderRow /\ task[o] \in TaskRow
        /\ Task(w) = task[o]
    BY <1>2 DEF Inv, TypeOK, TablesOK, Task
  <1>4. task' = [task EXCEPT ![o] = t] /\ order' = [order EXCEPT ![o] = row]
    BY <1>2, <1>3 DEF AdvanceStep, WriteTask, TablesOK
  <1>5. /\ t \in TaskRow
        /\ i = 5 => t.status = "completed" /\ t.step = 5
        /\ i < 5 => t.status = "pending" /\ t.step = i + 1
    <2>1. "completed" \in ORDER_TASK_STATUSES
      BY DEF ORDER_TASK_STATUSES
    <2>2. CASE i = 5
      BY <1>2, <1>3, <2>1, <2>2, UnlockedRow DEF insert_followup_task
    <2>3. CASE i < 5
      <3>1. i + 1 \in 1 .. 5
        BY <1>2, <2>3
      <3>2. t = new_task(i + 1)
        BY <1>2, <1>3, <2>3 DEF insert_followup_task
      <3> QED BY <2>3, <3>1, <3>2, NewRow
    <2> QED BY <1>2, <2>2, <2>3
  <1>6. /\ ORDER_TRANSITIONS[SOURCE[i]] \in ORDER_STATES
        /\ ORDER_TRANSITIONS[SOURCE[i]] \notin {Absent, "cancelled", "failed"}
        /\ i < 5 => ORDER_TRANSITIONS[SOURCE[i]] = SOURCE[i + 1]
        /\ i = 5 => ORDER_TRANSITIONS[SOURCE[i]] = "delivered"
    BY <1>2, SourceFacts
  <1>7. order[o].version = i - 1 /\ order[o].version \in 0 .. 4
    BY <1>2 DEF Fits
  <1> HIDE DEF o, i, t
  <1>8. /\ row \in OrderRow
        /\ row.state = ORDER_TRANSITIONS[SOURCE[i]] /\ row.version = i
        /\ row.version = order[o].version + 1
        /\ row.courier_ref = (order[o].courier_ref \/ i = 4)
    <2> DEFINE next == ORDER_TRANSITIONS[SOURCE[i]]
               cour == order[o].courier_ref \/ i = 4
               ver == order[o].version + 1
    <2>1. cour \in BOOLEAN /\ ver \in 0 .. 6 /\ ver = i
      BY <1>2, <1>3, <1>7 DEF OrderRow
    <2>2. row = [order[o] EXCEPT !.state = next, !.version = ver, !.courier_ref = cour]
      BY <1>3 DEF OrderRow
    <2>3. next \in ORDER_STATES
      BY <1>6
    <2> HIDE DEF row, next, cour, ver
    <2>4. row \in OrderRow /\ row.state = next /\ row.version = ver /\ row.courier_ref = cour
      BY <1>3, <2>1, <2>2, <2>3 DEF OrderRow
    <2> QED BY <2>1, <2>4 DEF next, cour, ver
  <1> HIDE DEF row
  <1>9. Fits(row, t)
    <2>1. CASE i = 5
      <3>1. row.state = "delivered" /\ t.status = "completed" /\ t.step = 5
        BY <1>5, <1>6, <1>8, <2>1
      <3>2. "delivered" \notin DOMAIN ORDER_TRANSITIONS
        BY DEF ORDER_TRANSITIONS
      <3> QED BY <3>1, <3>2 DEF Fits, Absent
    <2>2. CASE i < 5
      <3>1. row.state = SOURCE[t.step] /\ t.step \in 1 .. 5 /\ row.version = t.step - 1
        BY <1>2, <1>5, <1>6, <1>8, <2>2
      <3>2. row.state \in DOMAIN ORDER_TRANSITIONS
        BY <3>1, SourceFacts
      <3> QED BY <1>5, <1>6, <1>8, <2>2, <3>1, <3>2 DEF Fits, Absent, ORDER_TRANSITIONS
    <2> QED BY <1>2, <2>1, <2>2
  <1>10. TablesOK' /\ QueueInv'
    BY <1>2, <1>3, <1>4, <1>5, <1>8, <1>9, OneOrderRewritten
  <1>11. /\ order'[o] = row /\ task'[o] = t
         /\ \A p \in Orders : p # o => order'[p] = order[p] /\ task'[p] = task[p]
    BY <1>2, <1>3, <1>4 DEF TablesOK
  <1>12. t.status = IF i = 5 THEN "completed" ELSE "pending"
    BY <1>2, <1>5
  <1> QED BY <1>2, <1>8, <1>10, <1>11, <1>12 DEF o, i

LEMMA AdvanceKeeps ==
  ASSUME Inv, NEW w \in Workers, AdvanceStep(w)
  PROVE  TablesOK' /\ QueueInv' /\ worker' \in [Workers -> WorkerState] /\ WorkerInv'
  <1> DEFINE o == worker[w].order
  <1>1. /\ o \in Orders /\ TablesOK' /\ QueueInv'
        /\ \A p \in Orders : p # o => order'[p] = order[p] /\ task'[p] = task[p]
        /\ task'[o].status # "running"
    BY AdvanceRows
  <1>2. \A v \in Workers : worker'[v] = worker[v] => WorkerFine(v)'
    BY <1>1, OthersLoseTask
  <1>3. Finish(w) /\ worker \in [Workers -> WorkerState]
    BY DEF AdvanceStep, Inv, TypeOK
  <1> QED BY <1>1, <1>2, <1>3, WorkerIdle DEF WorkerInv, WorkerFine
LEMMA FactKeeps ==
  ASSUME Inv, NEW o \in Orders, FactStep(o)
  PROVE  /\ TablesOK' /\ QueueInv' /\ worker' \in [Workers -> WorkerState] /\ WorkerInv'
         /\ UNCHANGED order /\ \A p \in Orders : task'[p].status = task[p].status
  <1>1. PICK row \in TaskRow :
          /\ task' = [task EXCEPT ![o] = row]
          /\ row.step = task[o].step /\ row.status = task[o].status
          /\ row.locked_by = task[o].locked_by
    BY DEF FactStep
  <1>2. /\ TablesOK /\ QueueInv /\ worker \in [Workers -> WorkerState]
        /\ UNCHANGED <<order, worker>>
        /\ order[o] \in OrderRow /\ Fits(order[o], task[o])
    BY DEF Inv, TypeOK, TablesOK, QueueInv, FactStep
  <1>3. Fits(order[o], row) /\ order' = [order EXCEPT ![o] = order[o]]
    BY <1>1, <1>2 DEF Fits, TablesOK
  <1>4. TablesOK' /\ QueueInv'
    BY <1>1, <1>2, <1>3, OneOrderRewritten
  <1>5. \A p \in Orders : /\ task'[p].step = task[p].step
                          /\ task'[p].status = task[p].status
                          /\ task'[p].locked_by = task[p].locked_by
    BY <1>1, <1>2 DEF TablesOK
  <1>6. ASSUME NEW v \in Workers PROVE WorkerFine(v)'
    <2>1. WorkerFine(v) /\ worker'[v] = worker[v]
      BY <1>2 DEF Inv, WorkerInv, WorkerFine
    <2>2. CASE worker[v].order \in Orders
      BY <1>2, <1>5, <2>1, <2>2, WorkerSpared
    <2>3. CASE worker[v].order \notin Orders
      BY <2>1, <2>3, WorkerSpared DEF WorkerFine, Busy, Called
    <2> QED BY <2>2, <2>3
  <1> QED BY <1>2, <1>4, <1>5, <1>6 DEF WorkerInv, WorkerFine

\* The rows after an API call.
LEMMA ApiRows ==
  ASSUME Inv, NEW o \in Orders,
         create_or_get_order(o) \/ cancel_order(o) \/ retry_failed_tasks_for_order(o)
  PROVE  /\ UNCHANGED worker /\ TablesOK' /\ QueueInv'
         /\ \A p \in Orders : p # o => order'[p] = order[p] /\ task'[p] = task[p]
         /\ task'[o].status # "running"
         /\ create_or_get_order(o) =>
              /\ order[o].state = Absent /\ order'[o].state = "placed"
              /\ order'[o].version = order[o].version
              /\ order'[o].courier_ref = order[o].courier_ref
              /\ task'[o].status = "pending"
         /\ cancel_order(o) =>
              /\ order[o].state \in DOMAIN ORDER_TRANSITIONS
              /\ order'[o].state = "cancelled"
              /\ order'[o].version = order[o].version + 1
              /\ order'[o].courier_ref = order[o].courier_ref
              /\ task[o].status \in {"pending", "running", "failed"}
              /\ task'[o].status = IF task[o].status = "failed" THEN "failed" ELSE "cancelled"
         /\ retry_failed_tasks_for_order(o) =>
              /\ UNCHANGED order
              /\ task[o].status = "failed" /\ task'[o].status = "pending"
  <1>1. /\ TablesOK /\ QueueInv /\ order[o] \in OrderRow /\ task[o] \in TaskRow
        /\ Fits(order[o], task[o])
    BY DEF Inv, TypeOK, TablesOK, QueueInv
  <1>2. CASE create_or_get_order(o)
    <2> DEFINE row == [order[o] EXCEPT !.state = "placed"]
               t == new_task(1)
    <2>1. order' = [order EXCEPT ![o] = row] /\ task' = [task EXCEPT ![o] = t]
      BY <1>1, <1>2 DEF create_or_get_order, TablesOK
    <2>2. /\ row \in OrderRow /\ row.state = "placed" /\ row.version = order[o].version
          /\ row.courier_ref = order[o].courier_ref
      BY <1>1 DEF OrderRow, ORDER_STATES
    <2>3. t \in TaskRow /\ t.status = "pending" /\ t.step = 1
      BY NewRow
    <2>4. order[o].state = Absent /\ order[o].version = 0
      BY <1>1, <1>2 DEF create_or_get_order, Fits
    <2> HIDE DEF row, t
    <2>5. "placed" \in DOMAIN ORDER_TRANSITIONS /\ "placed" = SOURCE[1]
      BY DEF ORDER_TRANSITIONS, SOURCE
    <2>6. Fits(row, t)
      BY <2>2, <2>3, <2>4, <2>5 DEF Fits, Absent
    <2>7. TablesOK' /\ QueueInv'
      BY <1>1, <2>1, <2>2, <2>3, <2>6, OneOrderRewritten
    <2>8. /\ order'[o] = row /\ task'[o] = t
          /\ \A p \in Orders : p # o => order'[p] = order[p] /\ task'[p] = task[p]
      BY <1>1, <2>1 DEF TablesOK
    <2>9. ~cancel_order(o) /\ ~retry_failed_tasks_for_order(o)
      BY <1>1, <2>4 DEF cancel_order, retry_failed_tasks_for_order, Fits, Absent, ORDER_TRANSITIONS
    <2> QED BY <1>2, <2>2, <2>3, <2>4, <2>7, <2>8, <2>9 DEF create_or_get_order
  <1>3. CASE cancel_order(o)
    <2> DEFINE row == [order[o] EXCEPT !.state = "cancelled", !.version = order[o].version + 1]
               t == IF task[o].status \in ACTIVE_TASK_STATUSES
                      THEN Unlocked(task[o], "cancelled") ELSE task[o]
    <2>1. order' = [order EXCEPT ![o] = row] /\ task' = [task EXCEPT ![o] = t]
      BY <1>1, <1>3 DEF cancel_order, TablesOK
    <2>2. /\ order[o].state \in DOMAIN ORDER_TRANSITIONS /\ task[o].step \in 1 .. 5
          /\ order[o].version = task[o].step - 1
          /\ task[o].status \in {"pending", "running", "failed"}
      BY <1>1, <1>3 DEF cancel_order, Fits, Absent, ORDER_TRANSITIONS
    <2>3. /\ row \in OrderRow /\ row.state = "cancelled"
          /\ row.version = order[o].version + 1
          /\ row.courier_ref = order[o].courier_ref
      <3> DEFINE ver == order[o].version + 1
      <3>1. ver \in 0 .. 6 /\ "cancelled" \in ORDER_STATES
        BY <2>2 DEF ORDER_STATES
      <3>2. row = [order[o] EXCEPT !.state = "cancelled", !.version = ver]
        OBVIOUS
      <3> HIDE DEF row, ver
      <3>3. /\ row \in OrderRow /\ row.state = "cancelled" /\ row.version = ver
            /\ row.courier_ref = order[o].courier_ref
        BY <1>1, <3>1, <3>2 DEF OrderRow
      <3> QED BY <3>3 DEF ver
    <2>4. /\ t \in TaskRow /\ t.step = task[o].step
          /\ t.status = IF task[o].status = "failed" THEN "failed" ELSE "cancelled"
      <3>1. "cancelled" \in ORDER_TASK_STATUSES
        BY DEF ORDER_TASK_STATUSES
      <3> QED BY <1>1, <2>2, <3>1, UnlockedRow DEF ACTIVE_TASK_STATUSES
    <2> HIDE DEF row, t
    <2>5. "cancelled" \notin DOMAIN ORDER_TRANSITIONS
      BY DEF ORDER_TRANSITIONS
    <2>6. Fits(row, t)
      BY <2>2, <2>3, <2>4, <2>5 DEF Fits, Absent
    <2>7. TablesOK' /\ QueueInv'
      BY <1>1, <2>1, <2>3, <2>4, <2>6, OneOrderRewritten
    <2>8. /\ order'[o] = row /\ task'[o] = t
          /\ \A p \in Orders : p # o => order'[p] = order[p] /\ task'[p] = task[p]
      BY <1>1, <2>1 DEF TablesOK
    <2>9. ~create_or_get_order(o)
      BY <2>2 DEF create_or_get_order, Absent, ORDER_TRANSITIONS
    <2>10. ~retry_failed_tasks_for_order(o)
      <3>1. order'[o] # order[o]
        BY <2>2, <2>3, <2>5, <2>8
      <3> QED BY <3>1 DEF retry_failed_tasks_for_order
    <2> QED BY <1>3, <2>2, <2>3, <2>4, <2>7, <2>8, <2>9, <2>10 DEF cancel_order
  <1>4. CASE retry_failed_tasks_for_order(o)
    <2> DEFINE t == [task[o] EXCEPT !.status = "pending", !.attempts = 0,
                                    !.due = TRUE, !.late = FALSE]
    <2>1. /\ order' = [order EXCEPT ![o] = order[o]] /\ task' = [task EXCEPT ![o] = t]
          /\ UNCHANGED order /\ task[o].status = "failed"
      BY <1>1, <1>4 DEF retry_failed_tasks_for_order, TablesOK
    <2>2. t \in TaskRow /\ t.step = task[o].step /\ t.status = "pending"
      BY <1>1 DEF TaskRow, ORDER_TASK_STATUSES
    <2> HIDE DEF t
    <2>3. Fits(order[o], t)
      BY <1>1, <2>1, <2>2 DEF Fits, Absent
    <2>4. TablesOK' /\ QueueInv'
      BY <1>1, <2>1, <2>2, <2>3, OneOrderRewritten
    <2>5. /\ task'[o] = t
          /\ \A p \in Orders : p # o => order'[p] = order[p] /\ task'[p] = task[p]
      BY <1>1, <2>1 DEF TablesOK
    <2>6. ~create_or_get_order(o)
      BY <1>1, <2>1 DEF create_or_get_order, Fits, Absent
    <2>7. ~cancel_order(o)
      <3>1. order'[o].state = order[o].state /\ "cancelled" \notin DOMAIN ORDER_TRANSITIONS
        BY <2>1 DEF ORDER_TRANSITIONS
      <3>2. cancel_order(o) => order'[o].state = "cancelled"
        BY <1>1 DEF cancel_order, TablesOK, OrderRow
      <3> QED BY <3>1, <3>2 DEF cancel_order
    <2> QED BY <1>4, <2>1, <2>2, <2>4, <2>5, <2>6, <2>7 DEF retry_failed_tasks_for_order
  <1> QED BY <1>2, <1>3, <1>4

LEMMA ApiKeeps ==
  ASSUME Inv, NEW o \in Orders,
         create_or_get_order(o) \/ cancel_order(o) \/ retry_failed_tasks_for_order(o)
  PROVE  TablesOK' /\ QueueInv' /\ worker' \in [Workers -> WorkerState] /\ WorkerInv'
  <1>1. /\ UNCHANGED worker /\ TablesOK' /\ QueueInv'
        /\ \A p \in Orders : p # o => order'[p] = order[p] /\ task'[p] = task[p]
        /\ task'[o].status # "running"
    BY ApiRows
  <1>2. \A v \in Workers : WorkerFine(v)'
    BY <1>1, OthersLoseTask
  <1> QED BY <1>1, <1>2 DEF Inv, TypeOK, WorkerInv, WorkerFine

LEMMA InvStep == Inv /\ [Next]_vars => Inv'
  <1> SUFFICES ASSUME Inv, [Next]_vars PROVE Inv'
    OBVIOUS
  <1>1. TablesOK' /\ QueueInv' /\ worker' \in [Workers -> WorkerState] /\ WorkerInv'
    <2>1. CASE UNCHANGED <<order, task, worker>>
      BY <2>1 DEF Inv, TypeOK, TablesOK, QueueInv, WorkerInv, owned_task_check_result,
                  in_source_state, Task, Order
    <2> QED BY <2>1, StepKinds, QuietKeeps, SettleKeeps, AdvanceKeeps, ClaimKeeps,
               FactKeeps, ApiKeeps
  <1>2. /\ elapsed' \in [Orders -> BOOLEAN]
        /\ faults' \in 0 .. MaxFaults /\ retries' \in [Orders -> 0 .. MaxRetries]
    BY BoundsKept DEF Inv
  <1> QED BY <1>1, <1>2 DEF Inv, TypeOK, TablesOK

\* The untimed pipeline keeps its invariant, fairness or not.
LEMMA InvAlways == Spec => []Inv
  BY InvInit, InvStep, PTL DEF Spec

\* The rows and the workers keep the shape the code gives them, whatever the
\* interleaving of workers, faults, operators and time.
THEOREM ProgressTypes == Spec => []TypeOK
  <1>1. Inv => TypeOK
    BY DEF Inv
  <1> QED BY <1>1, InvAlways, PTL
--------------------------------------------------------------------------------
\* The refinement.

\* work, for one row.
WorkOf(t) ==
  CASE t.status = Absent -> "none"
    [] t.status \in ACTIVE_TASK_STATUSES -> "open"
    [] t.status = "failed" -> "failed"
    [] OTHER -> "done"

LEMMA WorkByStatus ==
  ASSUME NEW t
  PROVE  /\ t.status = Absent => WorkOf(t) = "none"
         /\ t.status \in {"pending", "running"} => WorkOf(t) = "open"
         /\ t.status = "failed" => WorkOf(t) = "failed"
         /\ t.status \in {"completed", "cancelled"} => WorkOf(t) = "done"
  BY DEF WorkOf, ACTIVE_TASK_STATUSES, Absent

\* What an action of OrderLifecycle does to the view of its order.
Seen(o, state, version, courier, wk) ==
  /\ order'[o].state = state
  /\ order'[o].version = version
  /\ order'[o].courier_ref = courier
  /\ WorkOf(task'[o]) = wk

\* A step that touches one order, and whose effect on its view is that of an
\* action of OrderLifecycle, is that action.
LEMMA OneOrder ==
  ASSUME NEW o \in Orders,
         \A p \in Orders : p # o => order'[p] = order[p] /\ task'[p] = task[p],
         LET st == order[o].state
             ver == order[o].version
             cour == order[o].courier_ref
             wk == WorkOf(task[o])
         IN  \/ Seen(o, st, ver, cour, wk)
             \/ st = Absent /\ Seen(o, "placed", ver, cour, "open")
             \/ /\ st \in DOMAIN ORDER_TRANSITIONS /\ wk = "open"
                /\ LET next == ORDER_TRANSITIONS[st] IN
                     Seen(o, next, ver + 1, cour \/ next = "out_for_delivery",
                          IF next = "delivered" THEN "done" ELSE "open")
             \/ /\ st \in DOMAIN ORDER_TRANSITIONS
                /\ Seen(o, "cancelled", ver + 1, cour,
                        IF wk = "failed" THEN "failed" ELSE "done")
             \/ /\ st \in DOMAIN ORDER_TRANSITIONS /\ wk = "open"
                /\ Seen(o, st, ver, cour, "failed")
             \/ wk = "failed" /\ Seen(o, st, ver, cour, "open")
             \/ /\ st = "cancelled" /\ wk = "open"
                /\ Seen(o, st, ver, cour, "done")
  PROVE  [Lifecycle!Next]_(Lifecycle!lifecycle_vars)
  <1> DEFINE st == [p \in Orders |-> order[p].state]
             ver == [p \in Orders |-> order[p].version]
             cour == [p \in Orders |-> order[p].courier_ref]
             wk == [p \in Orders |-> WorkOf(task[p])]
             st1 == [p \in Orders |-> order'[p].state]
             ver1 == [p \in Orders |-> order'[p].version]
             cour1 == [p \in Orders |-> order'[p].courier_ref]
             wk1 == [p \in Orders |-> WorkOf(task'[p])]
  <1>1. work = wk /\ work' = wk1
    BY DEF work, WorkOf
  <1>2. /\ st1 = [st EXCEPT ![o] = order'[o].state]
        /\ ver1 = [ver EXCEPT ![o] = order'[o].version]
        /\ cour1 = [cour EXCEPT ![o] = order'[o].courier_ref]
        /\ wk1 = [wk EXCEPT ![o] = WorkOf(task'[o])]
    OBVIOUS
  <1>3. /\ st[o] = order[o].state /\ ver[o] = order[o].version
        /\ cour[o] = order[o].courier_ref /\ wk[o] = WorkOf(task[o])
        /\ st = [st EXCEPT ![o] = st[o]] /\ ver = [ver EXCEPT ![o] = ver[o]]
        /\ cour = [cour EXCEPT ![o] = cour[o]] /\ wk = [wk EXCEPT ![o] = wk[o]]
    OBVIOUS
  <1>4. /\ Lifecycle!ORDER_TRANSITIONS = ORDER_TRANSITIONS
        /\ Lifecycle!Absent = Absent
    BY DEF Lifecycle!ORDER_TRANSITIONS, ORDER_TRANSITIONS, Lifecycle!Absent, Absent
  <1> HIDE DEF st, ver, cour, wk, st1, ver1, cour1, wk1
  <1>5. CASE Seen(o, st[o], ver[o], cour[o], wk[o])
    <2>1. st1 = st /\ ver1 = ver /\ cour1 = cour /\ wk1 = wk
      BY <1>2, <1>3, <1>5 DEF Seen
    <2> QED BY <1>1, <2>1 DEF st, ver, cour, st1, ver1, cour1, Lifecycle!lifecycle_vars
  <1>6. CASE st[o] = Absent /\ Seen(o, "placed", ver[o], cour[o], "open")
    <2>1. /\ st[o] = Absent
          /\ st1 = [st EXCEPT ![o] = "placed"] /\ wk1 = [wk EXCEPT ![o] = "open"]
          /\ ver1 = ver /\ cour1 = cour
      BY <1>2, <1>3, <1>6 DEF Seen
    <2>2. Lifecycle!Place(o)
      BY <1>1, <1>4, <2>1 DEF st, ver, cour, st1, ver1, cour1, Lifecycle!Place
    <2> QED BY <2>2 DEF Lifecycle!Next
  <1>7. CASE /\ st[o] \in DOMAIN ORDER_TRANSITIONS /\ wk[o] = "open"
             /\ LET next == ORDER_TRANSITIONS[st[o]] IN
                  Seen(o, next, ver[o] + 1, cour[o] \/ next = "out_for_delivery",
                       IF next = "delivered" THEN "done" ELSE "open")
    <2> DEFINE next == ORDER_TRANSITIONS[st[o]]
    <2>1. /\ st[o] \in DOMAIN ORDER_TRANSITIONS /\ wk[o] = "open"
          /\ st1 = [st EXCEPT ![o] = next]
          /\ ver1 = [ver EXCEPT ![o] = ver[o] + 1]
          /\ cour1 = [cour EXCEPT ![o] = cour[o] \/ next = "out_for_delivery"]
          /\ wk1 = [wk EXCEPT ![o] = IF next = "delivered" THEN "done" ELSE "open"]
      BY <1>2, <1>7 DEF Seen
    <2>2. Lifecycle!Advance(o)
      BY <1>1, <1>4, <2>1 DEF st, ver, cour, st1, ver1, cour1, Lifecycle!Advance
    <2> QED BY <2>2 DEF Lifecycle!Next
  <1>8. CASE /\ st[o] \in DOMAIN ORDER_TRANSITIONS
             /\ Seen(o, "cancelled", ver[o] + 1, cour[o],
                     IF wk[o] = "failed" THEN "failed" ELSE "done")
    <2>1. /\ st[o] \in DOMAIN ORDER_TRANSITIONS
          /\ st1 = [st EXCEPT ![o] = "cancelled"]
          /\ ver1 = [ver EXCEPT ![o] = ver[o] + 1]
          /\ wk1 = [wk EXCEPT ![o] = IF wk[o] = "failed" THEN "failed" ELSE "done"]
          /\ cour1 = cour
      BY <1>2, <1>3, <1>8 DEF Seen
    <2>2. Lifecycle!Cancel(o)
      BY <1>1, <1>4, <2>1 DEF st, ver, cour, st1, ver1, cour1, Lifecycle!Cancel
    <2> QED BY <2>2 DEF Lifecycle!Next
  <1>9. CASE /\ st[o] \in DOMAIN ORDER_TRANSITIONS /\ wk[o] = "open"
             /\ Seen(o, st[o], ver[o], cour[o], "failed")
    <2>1. /\ st[o] \in DOMAIN ORDER_TRANSITIONS /\ wk[o] = "open"
          /\ wk1 = [wk EXCEPT ![o] = "failed"]
          /\ st1 = st /\ ver1 = ver /\ cour1 = cour
      BY <1>2, <1>3, <1>9 DEF Seen
    <2>2. Lifecycle!GiveUp(o)
      BY <1>1, <1>4, <2>1 DEF st, ver, cour, st1, ver1, cour1, Lifecycle!GiveUp
    <2> QED BY <2>2 DEF Lifecycle!Next
  <1>10. CASE wk[o] = "failed" /\ Seen(o, st[o], ver[o], cour[o], "open")
    <2>1. /\ wk[o] = "failed" /\ wk1 = [wk EXCEPT ![o] = "open"]
          /\ st1 = st /\ ver1 = ver /\ cour1 = cour
      BY <1>2, <1>3, <1>10 DEF Seen
    <2>2. Lifecycle!Reopen(o)
      BY <1>1, <2>1 DEF st, ver, cour, st1, ver1, cour1, Lifecycle!Reopen
    <2> QED BY <2>2 DEF Lifecycle!Next
  <1>11. CASE st[o] = "cancelled" /\ wk[o] = "open" /\ Seen(o, st[o], ver[o], cour[o], "done")
    <2>1. /\ st[o] = "cancelled" /\ wk[o] = "open" /\ wk1 = [wk EXCEPT ![o] = "done"]
          /\ st1 = st /\ ver1 = ver /\ cour1 = cour
      BY <1>2, <1>3, <1>11 DEF Seen
    <2>2. Lifecycle!Discard(o)
      BY <1>1, <2>1 DEF st, ver, cour, st1, ver1, cour1, Lifecycle!Discard
    <2> QED BY <2>2 DEF Lifecycle!Next
  <1> QED BY <1>3, <1>5, <1>6, <1>7, <1>8, <1>9, <1>10, <1>11
\* The view of an order whose row and whose kind of work do not change.
Same(o) == Seen(o, order[o].state, order[o].version, order[o].courier_ref, WorkOf(task[o]))

\* A worker that gives its task up: nothing, GiveUp, or Discard for a cancelled
\* order.
LEMMA SettleView ==
  ASSUME Inv, NEW w \in Workers, SettleStep(w)
  PROVE  [Lifecycle!Next]_(Lifecycle!lifecycle_vars)
  <1> DEFINE o == worker[w].order
  <1>1. PICK row \in TaskRow :
          /\ WriteTask(w, row)
          /\ \/ row.status = "pending"
             \/ row.status = "failed" /\ (in_source_state(w) \/ worker[w].phase \in Called)
             \/ row.status = "completed" /\ ~in_source_state(w)
    BY DEF SettleStep
  <1>2. /\ worker[w].phase \in Busy /\ owned_task_check_result(w) /\ UNCHANGED order
    BY DEF SettleStep
  <1>3. /\ o \in Orders /\ task[o].status = "running"
        /\ in_source_state(w) => order[o].state \in DOMAIN ORDER_TRANSITIONS
        /\ ~in_source_state(w) => order[o].state = "cancelled"
        /\ worker[w].phase \in Called => in_source_state(w)
    BY <1>2, OwnedFacts
  <1>4. /\ task'[o] = row
        /\ \A p \in Orders : p # o => order'[p] = order[p] /\ task'[p] = task[p]
    BY <1>1, <1>2, <1>3 DEF WriteTask, Inv, TypeOK
  <1> HIDE DEF o
  <1>5. WorkOf(task[o]) = "open"
    BY <1>3, WorkByStatus
  <1>6. CASE row.status = "pending"
    <2>1. Same(o)
      BY <1>2, <1>4, <1>5, <1>6, WorkByStatus DEF Same, Seen
    <2> QED BY <1>3, <1>4, <2>1, OneOrder DEF Same
  <1>7. CASE row.status = "failed" /\ in_source_state(w)
    <2>1. Seen(o, order[o].state, order[o].version, order[o].courier_ref, "failed")
      BY <1>2, <1>4, <1>7, WorkByStatus DEF Seen
    <2> QED BY <1>3, <1>4, <1>5, <1>7, <2>1, OneOrder
  <1>8. CASE row.status = "completed" /\ ~in_source_state(w)
    <2>1. Seen(o, order[o].state, order[o].version, order[o].courier_ref, "done")
      BY <1>2, <1>4, <1>8, WorkByStatus DEF Seen
    <2> QED BY <1>3, <1>4, <1>5, <1>8, <2>1, OneOrder
  <1> QED BY <1>1, <1>3, <1>6, <1>7, <1>8

\* Moving an order is Advance.
LEMMA AdvanceView ==
  ASSUME Inv, NEW w \in Workers, AdvanceStep(w)
  PROVE  [Lifecycle!Next]_(Lifecycle!lifecycle_vars)
  <1> DEFINE o == worker[w].order
             i == worker[w].step
             next == ORDER_TRANSITIONS[SOURCE[i]]
  <1>1. /\ o \in Orders /\ i \in 1 .. 5
        /\ order[o].state = SOURCE[i] /\ task[o].status = "running"
        /\ order'[o].state = next
        /\ order'[o].version = order[o].version + 1
        /\ order'[o].courier_ref = (order[o].courier_ref \/ i = 4)
        /\ task'[o].status = IF i = 5 THEN "completed" ELSE "pending"
        /\ \A p \in Orders : p # o => order'[p] = order[p] /\ task'[p] = task[p]
    BY AdvanceRows
  <1>2. /\ SOURCE[i] \in DOMAIN ORDER_TRANSITIONS
        /\ next = "out_for_delivery" <=> i = 4
        /\ next = "delivered" <=> i = 5
    <2>1. /\ SOURCE[i] \in DOMAIN ORDER_TRANSITIONS
          /\ next = "out_for_delivery" <=> i = 4
          /\ i = 5 => next = "delivered"
          /\ i < 5 => next = SOURCE[i + 1] /\ SOURCE[i + 1] \in DOMAIN ORDER_TRANSITIONS
      BY <1>1, SourceFacts
    <2>2. "delivered" \notin DOMAIN ORDER_TRANSITIONS
      BY DEF ORDER_TRANSITIONS
    <2> HIDE DEF next, i
    <2> QED BY <1>1, <2>1, <2>2
  <1> HIDE DEF o, i, next
  <1>3. WorkOf(task[o]) = "open"
    BY <1>1, WorkByStatus
  <1>4. WorkOf(task'[o]) = IF next = "delivered" THEN "done" ELSE "open"
    BY <1>1, <1>2, WorkByStatus
  <1>5. Seen(o, next, order[o].version + 1, order[o].courier_ref \/ next = "out_for_delivery",
             IF next = "delivered" THEN "done" ELSE "open")
    BY <1>1, <1>2, <1>4 DEF Seen
  <1>6. next = ORDER_TRANSITIONS[order[o].state] /\ order[o].state \in DOMAIN ORDER_TRANSITIONS
    BY <1>1, <1>2 DEF next
  <1> QED BY <1>1, <1>3, <1>5, <1>6, OneOrder

\* The API calls are Place, Cancel and Reopen.
LEMMA ApiView ==
  ASSUME Inv, NEW o \in Orders,
         create_or_get_order(o) \/ cancel_order(o) \/ retry_failed_tasks_for_order(o)
  PROVE  [Lifecycle!Next]_(Lifecycle!lifecycle_vars)
  <1>1. \A p \in Orders : p # o => order'[p] = order[p] /\ task'[p] = task[p]
    BY ApiRows
  <1>2. CASE create_or_get_order(o)
    <2>1. order[o].state = Absent
      BY <1>2, ApiRows
    <2>2. Seen(o, "placed", order[o].version, order[o].courier_ref, "open")
      BY <1>2, ApiRows, WorkByStatus DEF Seen
    <2> QED BY <1>1, <2>1, <2>2, OneOrder
  <1>3. CASE cancel_order(o)
    <2>1. order[o].state \in DOMAIN ORDER_TRANSITIONS
      BY <1>3, ApiRows
    <2>2. WorkOf(task'[o]) = IF WorkOf(task[o]) = "failed" THEN "failed" ELSE "done"
      <3>1. /\ task[o].status \in {"pending", "running", "failed"}
            /\ task'[o].status = IF task[o].status = "failed" THEN "failed" ELSE "cancelled"
        BY <1>3, ApiRows
      <3>2. CASE task[o].status = "failed"
        BY <3>1, <3>2, WorkByStatus
      <3>3. CASE task[o].status \in {"pending", "running"}
        BY <3>1, <3>3, WorkByStatus
      <3> QED BY <3>1, <3>2, <3>3
    <2>3. Seen(o, "cancelled", order[o].version + 1, order[o].courier_ref,
               IF WorkOf(task[o]) = "failed" THEN "failed" ELSE "done")
      BY <1>3, <2>2, ApiRows DEF Seen
    <2> QED BY <1>1, <2>1, <2>3, OneOrder
  <1>4. CASE retry_failed_tasks_for_order(o)
    <2>1. WorkOf(task[o]) = "failed" /\ WorkOf(task'[o]) = "open" /\ UNCHANGED order
      BY <1>4, ApiRows, WorkByStatus
    <2>2. Seen(o, order[o].state, order[o].version, order[o].courier_ref, "open")
      BY <2>1 DEF Seen
    <2> QED BY <1>1, <2>1, <2>2, OneOrder
  <1> QED BY <1>2, <1>3, <1>4

\* Every step is a step of OrderLifecycle or none.
LEMMA RefinementStep ==
  ASSUME Inv, [Next]_vars PROVE [Lifecycle!Next]_(Lifecycle!lifecycle_vars)
  <1>1. ASSUME UNCHANGED order, \A o \in Orders : WorkOf(task'[o]) = WorkOf(task[o])
        PROVE  UNCHANGED (Lifecycle!lifecycle_vars)
    BY <1>1 DEF Lifecycle!lifecycle_vars, work, WorkOf
  <1>2. UNCHANGED <<order, task, worker>> => UNCHANGED (Lifecycle!lifecycle_vars)
    BY <1>1
  <1>3. ASSUME NEW w \in Workers, QuietStep(w) PROVE UNCHANGED (Lifecycle!lifecycle_vars)
    BY <1>1, <1>3 DEF QuietStep
  <1>4. ASSUME NEW o \in Orders, FactStep(o) PROVE UNCHANGED (Lifecycle!lifecycle_vars)
    <2>1. UNCHANGED order /\ \A p \in Orders : task'[p].status = task[p].status
      BY <1>4, FactKeeps
    <2> QED BY <1>1, <2>1 DEF WorkOf
  <1>5. ASSUME NEW w \in Workers, NEW o \in Orders, claim_one_task(w, o)
        PROVE  UNCHANGED (Lifecycle!lifecycle_vars)
    <2>1. /\ \A p \in Orders : p # o => task'[p] = task[p]
          /\ task[o].status \in {"pending", "running"} /\ task'[o].status = "running"
      BY <1>5, ClaimKeeps DEF ACTIVE_TASK_STATUSES
    <2>2. \A p \in Orders : WorkOf(task'[p]) = WorkOf(task[p])
      BY <2>1, WorkByStatus
    <2> QED BY <1>1, <1>5, <2>2 DEF claim_one_task
  <1> QED BY <1>2, <1>3, <1>4, <1>5, StepKinds, SettleView, AdvanceView, ApiView

\* Seen through the order rows and the status of each order's last task, workers,
\* faults, API and operators do nothing but what OrderLifecycle allows, so what
\* the liveness runs find of the untimed pipeline they find of a lifecycle.
THEOREM UntimedPipelineImplementsLifecycle == Spec => UntimedImplementsLifecycle
  <1>1. Init => Lifecycle!Init
    <2> SUFFICES ASSUME Init PROVE Lifecycle!Init
      OBVIOUS
    <2>1. \A o \in Orders : /\ order[o].state = Absent /\ order[o].version = 0
                            /\ order[o].courier_ref = FALSE /\ task[o].status = Absent
      BY DEF Init, new_task
    <2>2. work = [o \in Orders |-> "none"]
      <3>1. \A o \in Orders : WorkOf(task[o]) = "none"
        BY <2>1, WorkByStatus
      <3>2. work = [o \in Orders |-> WorkOf(task[o])]
        BY DEF work, WorkOf
      <3> QED BY <3>1, <3>2
    <2>3. Lifecycle!Absent = Absent
      BY DEF Lifecycle!Absent, Absent
    <2> QED BY <2>1, <2>2, <2>3 DEF Lifecycle!Init
  <1>2. Inv /\ [Next]_vars => [Lifecycle!Next]_(Lifecycle!lifecycle_vars)
    BY RefinementStep
  <1> QED BY <1>1, <1>2, InvAlways, PTL DEF Spec, UntimedImplementsLifecycle, Lifecycle!Spec
================================================================================
