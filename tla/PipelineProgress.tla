--------------------------- MODULE PipelineProgress ---------------------------
(***************************************************************************)
(* Progress of the pipeline.  OrderPipeline counts seconds up to a bound,  *)
(* so nothing in it can be said to happen eventually.  Here time is three  *)
(* facts that may become true of the order's current task: its next_run_at *)
(* has come, its deadline_at has passed, its lease has run out; and one of *)
(* the simulator: the delay of the step is over.  Everything the workers   *)
(* and the API do to the task is the same.                                 *)
(*                                                                         *)
(* The task is the order's last row of order_tasks, the only one that can  *)
(* be active (StageQueue, proved in PipelineProofs).                       *)
(*                                                                         *)
(* Bounds: MaxFaults exceptions, crashes and calls that outlive their      *)
(* lease, in all; MaxRetries operator retries per order.                   *)
(***************************************************************************)
EXTENDS Naturals, OrderStates

CONSTANTS Orders, Workers,
          Nobody,        \* locked_by of a row nobody holds; the order of an idle worker
          MaxAttempts, MaxFaults, MaxRetries

ASSUME ProgressAssumption ==
  /\ Nobody \notin Orders \union Workers
  /\ MaxAttempts \in Nat \ {0} /\ MaxFaults \in Nat /\ MaxRetries \in Nat

VARIABLES
  order,    \* the order rows
  task,     \* task[o]: the last task of order o
  elapsed,  \* elapsed[o]: the simulator's delay for the current step is over
  worker,
  faults, retries

vars == <<order, task, elapsed, worker, faults, retries>>

\* The states in which a step can be taken, in order; step 3 and step 5 are
\* polls with a deadline, the others commands.
SOURCE == <<"placed", "confirmed", "preparing", "ready", "out_for_delivery">>
POLLS == {3, 5}

OrderRow == [state : ORDER_STATES \union {Absent}, version : 0 .. 6, courier_ref : BOOLEAN]

TaskRow == [step : 0 .. 5, status : ORDER_TASK_STATUSES \union {Absent}, attempts : Nat,
            due : BOOLEAN, late : BOOLEAN, expired : BOOLEAN,
            locked_by : Workers \union {Nobody}]

WorkerState ==
  [phase : {"idle", "claimed", "calling", "success", "pending", "error", "crashed"},
   order : Orders \union {Nobody}, step : 0 .. 5]

Idle == [phase |-> "idle", order |-> Nobody, step |-> 0]
Finish(w) == worker' = [worker EXCEPT ![w] = Idle]

\* A row that leaves the worker's hands.
Unlocked(row, status) ==
  [row EXCEPT !.status = status, !.locked_by = Nobody, !.expired = FALSE]
Later(row) == [Unlocked(row, "pending") EXCEPT !.due = FALSE]

\* A command is due at once, a poll after its initial delay.
new_task(step) ==
  [step |-> step, status |-> "pending", attempts |-> 0, due |-> step \notin POLLS,
   late |-> FALSE, expired |-> FALSE, locked_by |-> Nobody]

claimable(row) ==
  \/ row.status = "pending" /\ row.due
  \/ row.status = "running" /\ row.expired

--------------------------------------------------------------------------------
\* The worker.

claim_one_task(w, o) ==
  /\ worker[w].phase = "idle"
  /\ claimable(task[o])
  /\ task' = [task EXCEPT ![o].status = "running", ![o].locked_by = w, ![o].expired = FALSE]
  /\ worker' = [worker EXCEPT ![w] = [phase |-> "claimed", order |-> o, step |-> task[o].step]]
  /\ UNCHANGED <<order, elapsed, faults, retries>>

Order(w) == order[worker[w].order]
Task(w) == task[worker[w].order]

owned_task_check_result(w) ==
  /\ Task(w).step = worker[w].step
  /\ Task(w).status = "running" /\ Task(w).locked_by = w

\* Mutant: the order's state is not compared.
in_source_state_mutant(w) == Order(w).state # Absent

in_source_state(w) == Order(w).state = SOURCE[worker[w].step]

WriteTask(w, row) == task' = [task EXCEPT ![worker[w].order] = row]

skip_after_claim(w) ==
  /\ worker[w].phase \in {"claimed", "success", "pending", "error"}
  /\ ~owned_task_check_result(w)
  /\ Finish(w)
  /\ UNCHANGED <<order, task, elapsed, faults, retries>>

\* The inputs of a poll are always there (PollInputsPresent), so the branch for
\* missing ones is left out.
prepare_call(w) ==
  /\ worker[w].phase = "claimed"
  /\ owned_task_check_result(w)
  /\ IF in_source_state(w)
       THEN worker' = [worker EXCEPT ![w].phase = "calling"] /\ UNCHANGED task
       ELSE WriteTask(w, Unlocked(Task(w), "completed")) /\ Finish(w)
  /\ UNCHANGED <<order, elapsed, faults, retries>>

\* The answer, or an error, which may come at any time and again and again.
call(w) ==
  /\ worker[w].phase = "calling"
  /\ \E out \in {"error", IF elapsed[worker[w].order] THEN "success" ELSE "pending"} :
       worker' = [worker EXCEPT ![w].phase = out]
  /\ UNCHANGED <<order, task, elapsed, faults, retries>>

\* Mutant: the last step has a follow-up as well.
insert_followup_task_mutant(row) == new_task(row.step + 1)

\* The finished task, or the one that takes its place.
insert_followup_task(row) ==
  IF row.step = 5 THEN Unlocked(row, "completed") ELSE new_task(row.step + 1)

\* The order's next step begins a new delay in the simulator.
finalize_transition_task(w) ==
  LET o == worker[w].order  i == worker[w].step IN
  /\ worker[w].phase = "success"
  /\ owned_task_check_result(w)
  /\ IF in_source_state(w)
       THEN /\ order' = [order EXCEPT ![o].state = ORDER_TRANSITIONS[SOURCE[i]],
                              ![o].version = @ + 1, ![o].courier_ref = @ \/ i = 4]
            /\ WriteTask(w, insert_followup_task(Task(w)))
            /\ elapsed' = [elapsed EXCEPT ![o] = FALSE]
       ELSE WriteTask(w, Unlocked(Task(w), "completed")) /\ UNCHANGED <<order, elapsed>>
  /\ Finish(w)
  /\ UNCHANGED <<faults, retries>>

\* Mutant: an error does not count against the budget.
retry_or_fail_claimed_task_mutant(row) == Later(row)

\* An error: backoff, or the end of the budget.
retry_or_fail_claimed_task(row) ==
  IF row.attempts + 1 >= MaxAttempts
    THEN [Unlocked(row, "failed") EXCEPT !.attempts = @ + 1]
    ELSE [Later(row) EXCEPT !.attempts = @ + 1]

\* reschedule_transition_task, which does not look at the order, and the two
\* reschedule_.._check_after_error, which do.
reschedule_after_error(w) ==
  /\ worker[w].phase = "error"
  /\ owned_task_check_result(w)
  /\ WriteTask(w, IF worker[w].step \in POLLS /\ ~in_source_state(w)
                    THEN Unlocked(Task(w), "completed")
                    ELSE retry_or_fail_claimed_task(Task(w)))
  /\ Finish(w)
  /\ UNCHANGED <<order, elapsed, faults, retries>>

\* Mutant: a poll goes on after its deadline.
after_not_yet_mutant(row) == Later(row)

\* A "not yet" costs nothing, and ends a poll whose deadline has passed.
after_not_yet(row) ==
  IF row.step \in POLLS /\ row.late THEN Unlocked(row, "failed") ELSE Later(row)

\* reschedule_transition_after_pending, reschedule_ready_check_after_not_ready and
\* reschedule_delivery_check_after_in_transit.
reschedule_after_not_yet(w) ==
  /\ worker[w].phase = "pending"
  /\ owned_task_check_result(w)
  /\ WriteTask(w, IF in_source_state(w) THEN after_not_yet(Task(w))
                    ELSE Unlocked(Task(w), "completed"))
  /\ Finish(w)
  /\ UNCHANGED <<order, elapsed, faults, retries>>

process_claimed_task(w) ==
  \/ skip_after_claim(w) \/ prepare_call(w) \/ call(w)
  \/ finalize_transition_task(w) \/ reschedule_after_error(w) \/ reschedule_after_not_yet(w)

--------------------------------------------------------------------------------
\* Faults.

\* An exception after the claim: the loop goes on, the row keeps its lease.
run_task_poll_loop_exception(w) ==
  /\ worker[w].phase \notin {"idle", "crashed"}
  /\ faults < MaxFaults /\ faults' = faults + 1
  /\ Finish(w)
  /\ UNCHANGED <<order, task, elapsed, retries>>

\* The process dies, while another one runs.
crash(w) ==
  /\ worker[w].phase # "crashed"
  /\ \E v \in Workers \ {w} : worker[v].phase # "crashed"
  /\ faults < MaxFaults /\ faults' = faults + 1
  /\ worker' = [worker EXCEPT ![w] = [Idle EXCEPT !.phase = "crashed"]]
  /\ UNCHANGED <<order, task, elapsed, retries>>

\* Nobody is at work on the task any more.
Abandoned(o) ==
  /\ task[o].status = "running"
  /\ \A w \in Workers : worker[w].order = o => ~owned_task_check_result(w)

Expire(o) ==
  /\ task[o].status = "running" /\ ~task[o].expired
  /\ task' = [task EXCEPT ![o].expired = TRUE]
  /\ UNCHANGED <<order, elapsed, worker, retries>>

lease_runs_out(o) == Abandoned(o) /\ Expire(o) /\ UNCHANGED faults

\* A worker outlives its own lease: a process that was suspended, say.
lease_outlived(o) ==
  ~Abandoned(o) /\ faults < MaxFaults /\ Expire(o) /\ faults' = faults + 1

--------------------------------------------------------------------------------
\* Time.

task_becomes_due(o) ==
  /\ task[o].status = "pending" /\ ~task[o].due
  /\ task' = [task EXCEPT ![o].due = TRUE]
  /\ UNCHANGED <<order, elapsed, worker, faults, retries>>

deadline_passes(o) ==
  /\ task[o].step \in POLLS /\ task[o].status \in ACTIVE_TASK_STATUSES /\ ~task[o].late
  /\ task' = [task EXCEPT ![o].late = TRUE]
  /\ UNCHANGED <<order, elapsed, worker, faults, retries>>

delay_elapses(o) ==
  /\ order[o].state \in DOMAIN ORDER_TRANSITIONS /\ ~elapsed[o]
  /\ elapsed' = [elapsed EXCEPT ![o] = TRUE]
  /\ UNCHANGED <<order, task, worker, faults, retries>>

--------------------------------------------------------------------------------
\* The API.

create_or_get_order(o) ==
  /\ order[o].state = Absent
  /\ order' = [order EXCEPT ![o].state = "placed"]
  /\ task' = [task EXCEPT ![o] = new_task(1)]
  /\ UNCHANGED <<elapsed, worker, faults, retries>>

cancel_order(o) ==
  /\ order[o].state \in DOMAIN ORDER_TRANSITIONS
  /\ order' = [order EXCEPT ![o].state = "cancelled", ![o].version = @ + 1]
  /\ task' = [task EXCEPT ![o] =
       IF @.status \in ACTIVE_TASK_STATUSES THEN Unlocked(@, "cancelled") ELSE @]
  /\ UNCHANGED <<elapsed, worker, faults, retries>>

retry_failed_tasks_for_order(o) ==
  /\ task[o].status = "failed"
  /\ retries[o] < MaxRetries /\ retries' = [retries EXCEPT ![o] = @ + 1]
  /\ task' = [task EXCEPT ![o] = [@ EXCEPT !.status = "pending", !.attempts = 0,
                                           !.due = TRUE, !.late = FALSE]]
  /\ UNCHANGED <<order, elapsed, worker, faults>>

--------------------------------------------------------------------------------
Init ==
  /\ order = [o \in Orders |-> [state |-> Absent, version |-> 0, courier_ref |-> FALSE]]
  /\ task = [o \in Orders |-> [new_task(1) EXCEPT !.step = 0, !.status = Absent]]
  /\ elapsed = [o \in Orders |-> FALSE]
  /\ worker = [w \in Workers |-> Idle]
  /\ faults = 0 /\ retries = [o \in Orders |-> 0]

Time(o) == task_becomes_due(o) \/ deadline_passes(o) \/ delay_elapses(o) \/ lease_runs_out(o)

Next ==
  \/ \E w \in Workers : \/ \E o \in Orders : claim_one_task(w, o)
                        \/ process_claimed_task(w)
                        \/ run_task_poll_loop_exception(w) \/ crash(w)
  \/ \E o \in Orders : \/ Time(o) \/ lease_outlived(o)
                       \/ create_or_get_order(o) \/ cancel_order(o)
                       \/ retry_failed_tasks_for_order(o)

(***************************************************************************)
(* Fairness.  Time passes.  The thread of a worker that runs gets its turn *)
(* and a call returns, if only by its timeout.  A worker that has no task  *)
(* polls without end, and a row that is claimable again and again while    *)
(* workers claim is claimed: ClaimQueue, where no row is passed over more  *)
(* than once by another.  A command ends because the simulator's delay     *)
(* does; nothing is assumed of the delay of the two polls, whose deadline  *)
(* ends them, and nothing of errors, which may be all a service answers.   *)
(***************************************************************************)
Fairness ==
  /\ \A o \in Orders :
       /\ WF_vars(task_becomes_due(o)) /\ WF_vars(deadline_passes(o))
       /\ WF_vars(lease_runs_out(o))
       /\ WF_vars(task[o].step \notin POLLS /\ delay_elapses(o))
       /\ SF_vars(\E w \in Workers : claim_one_task(w, o))
  /\ \A w \in Workers : WF_vars(process_claimed_task(w))

Spec == Init /\ [][Next]_vars /\ Fairness

--------------------------------------------------------------------------------
\* The rows and the workers have the shape the code gives them.
TypeOK ==
  /\ order \in [Orders -> OrderRow]
  /\ task \in [Orders -> TaskRow]
  /\ elapsed \in [Orders -> BOOLEAN]
  /\ worker \in [Workers -> WorkerState]
  /\ faults \in 0 .. MaxFaults /\ retries \in [Orders -> 0 .. MaxRetries]

\* Work that is open ends: whatever the services answer, and after finitely many
\* crashes, exceptions and outlived leases, the order of a task that is pending or
\* running is delivered or cancelled, or its task has failed and waits for an
\* operator.  The same holds anew for work an operator reopens.
OpenWorkEnds ==
  \A o \in Orders :
    task[o].status \in ACTIVE_TASK_STATUSES ~> task[o].status \notin ACTIVE_TASK_STATUSES

\* Nothing ends in between: an order that is placed comes to a terminal state, or
\* to a failed task that the attention list shows.
EveryOrderSettles ==
  \A o \in Orders :
    order[o].state = "placed" ~> \/ order[o].state \in {"delivered", "cancelled"}
                                 \/ task[o].status = "failed"

\* The untimed pipeline keeps the promises of OrderLifecycle too.
work == [o \in Orders |->
           CASE task[o].status = Absent -> "none"
             [] task[o].status \in ACTIVE_TASK_STATUSES -> "open"
             [] task[o].status = "failed" -> "failed"
             [] OTHER -> "done"]

Lifecycle == INSTANCE OrderLifecycle WITH
  state <- [o \in Orders |-> order[o].state],
  version <- [o \in Orders |-> order[o].version],
  courier <- [o \in Orders |-> order[o].courier_ref]

UntimedImplementsLifecycle == Lifecycle!Spec
================================================================================
