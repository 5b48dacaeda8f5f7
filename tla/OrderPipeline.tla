----------------------------- MODULE OrderPipeline -----------------------------
(***************************************************************************)
(* The order pipeline: the tables orders, order_tasks and order_events,    *)
(* the workers that drain order_tasks (backend/worker), the API calls that *)
(* write the tables (create, cancel, operator retry), the downstream       *)
(* simulator they depend on, and the clock.                                *)
(*                                                                         *)
(* One action is one database transaction, or one downstream call.  A      *)
(* worker runs at most one task, through the phases                        *)
(*                                                                         *)
(*   idle -claim-> claimed -prepare-> calling -call-> answered -outcome->  *)
(*                                                                         *)
(* and back to idle; it holds no row lock between two of them, so anything *)
(* may happen in between: its lease may run out and another worker take    *)
(* the task, the order may be cancelled, the clock moves.                  *)
(*                                                                         *)
(* The claim uses the database's clock.  Every other transaction writes    *)
(* the timestamp its function took on entry, before it had a connection or *)
(* a lock: that is why the outcome actions choose a time `at' between the  *)
(* answer and the commit, and the API actions one up to API_LAG before it. *)
(*                                                                         *)
(* A transaction is one step because the row locks make it look like one.  *)
(* The order changes only together with a lock on its row (cancel takes    *)
(* FOR UPDATE, finalize the lock of its UPDATE), a worker's transaction    *)
(* holds FOR UPDATE on its task throughout, and the event an operator      *)
(* retry inserts refers to the order, which waits while a cancel holds it. *)
(* Cancel locks order then tasks and finalize task then order; when the    *)
(* two meet the database aborts one of them, which is no step at all for   *)
(* cancel and run_task_poll_loop_exception for the worker.                 *)
(***************************************************************************)
EXTENDS TaskRows, DownstreamSim, Sequences, FiniteSets

CONSTANTS
  NoOrder,       \* the order of a worker that has none
  READY_CHECK_INITIAL_DELAY_SECONDS, READY_CHECK_INTERVAL_SECONDS,
  READY_CHECK_DEADLINE_SECONDS,
  DELIVERY_CHECK_INITIAL_DELAY_SECONDS, DELIVERY_CHECK_INTERVAL_SECONDS,
  DELIVERY_CHECK_DEADLINE_SECONDS,
  API_LAG,       \* bound: how long an API call may wait for its locks
  MaxNow,        \* bound: the clock stops here
  MaxRetries,    \* bound: operator retries per order
  MaxCrashes     \* bound: worker processes that die

ASSUME PipelineAssumption ==
  /\ NoOrder \notin Orders
  /\ READY_CHECK_INITIAL_DELAY_SECONDS \in Nat
  /\ READY_CHECK_INTERVAL_SECONDS \in Nat
  /\ READY_CHECK_DEADLINE_SECONDS \in Nat
  /\ DELIVERY_CHECK_INITIAL_DELAY_SECONDS \in Nat
  /\ DELIVERY_CHECK_INTERVAL_SECONDS \in Nat
  /\ DELIVERY_CHECK_DEADLINE_SECONDS \in Nat
  /\ API_LAG \in Nat /\ MaxNow \in Nat
  /\ MaxRetries \in Nat /\ MaxCrashes \in Nat

VARIABLES
  orders,  \* orders[o]: the row of order o
  tasks,   \* tasks[o]: the order_tasks rows of o, in insertion order
  events,  \* events[o]: the order_events rows of o, in commit order
  worker   \* worker[w]: where worker w is, and what it remembers

db   == <<orders, tasks, events>>
vars == <<now, killed, orders, tasks, events, worker>>

OrderRow ==
  [state       : ORDER_STATES \union {Absent},
   version     : Nat,
   courier_ref : BOOLEAN,      \* whether a courier is recorded
   updated_at  : Nat]

\* from_state and to_state are Absent (null) except for the two kinds of event
\* that record a move.  The rows of one operator retry share everything but
\* the task they name: they are one event with the set of those tasks.
EventRow ==
  [event_type  : ORDER_EVENT_TYPES,
   from_state  : ORDER_STATES \union {Absent},
   to_state    : ORDER_STATES \union {Absent},
   task_ids    : SUBSET (Nat \ {0}),
   occurred_at : Nat]

event(type, from, to, task_ids, at) ==
  [event_type |-> type, from_state |-> from, to_state |-> to,
   task_ids |-> task_ids, occurred_at |-> at]

\* `order' and `task' are the claimed task, source_started_at what prepare
\* read for the call, outcome and answered_at the answer to it.
WorkerState ==
  [phase   : {"idle", "claimed", "calling", "answered", "crashed"},
   order   : Orders \union {NoOrder},
   task    : Nat,
   source_started_at : Nat,
   outcome : {"none", "success", "pending", "error"},
   answered_at : Nat]

\* Between two tasks a worker remembers nothing.
Idle == [phase |-> "idle", order |-> NoOrder, task |-> 0,
         source_started_at |-> 0, outcome |-> "none", answered_at |-> 0]

\* The timestamps an API call that commits now may have taken on entry.
ApiStamps == {t \in 0 .. now : now - t <= API_LAG}

--------------------------------------------------------------------------------
\* The transition specs.  A spec without a follow-up has next_task_type "none".

RESTAURANT_TRANSITION_SPECS ==
  [t \in {"confirmed", "preparing"} |->
     IF t = "confirmed"
       THEN [source_state |-> "placed", target_state |-> "confirmed",
             service |-> "restaurant_confirm",
             next_task_type |-> "advance_state",
             next_target_state |-> "preparing"]
       ELSE [source_state |-> "confirmed", target_state |-> "preparing",
             service |-> "restaurant_start_prep",
             next_task_type |-> "check_ready",
             next_target_state |-> "ready"]]

READY_FINALIZATION_SPEC ==
  [source_state |-> "preparing", target_state |-> "ready",
   service |-> "restaurant_check_ready",
   next_task_type |-> "advance_state",
   next_target_state |-> "out_for_delivery"]

COURIER_ASSIGN_SPEC ==
  [source_state |-> "ready", target_state |-> "out_for_delivery",
   service |-> "courier_assign",
   next_task_type |-> "check_delivery",
   next_target_state |-> "delivered"]

DELIVERY_FINALIZATION_SPEC ==
  [source_state |-> "out_for_delivery", target_state |-> "delivered",
   service |-> "courier_check_delivery",
   next_task_type |-> "none",
   next_target_state |-> "none"]

\* Which handler claim_and_process_one_task gives a claimed task to.
handler(row) ==
  CASE row.task_type = "advance_state"
       /\ row.target_state \in {"confirmed", "preparing"}    -> "transition"
    [] row.task_type = "advance_state"
       /\ row.target_state = "out_for_delivery"              -> "courier_assign"
    [] row.task_type = "check_ready"
       /\ row.target_state = "ready"                         -> "ready_check"
    [] row.task_type = "check_delivery"
       /\ row.target_state = "delivered"                     -> "delivery_check"
    [] OTHER                                                 -> "unsupported"

\* The spec that handler works with.
spec_of(row) ==
  CASE handler(row) = "ready_check"    -> READY_FINALIZATION_SPEC
    [] handler(row) = "delivery_check" -> DELIVERY_FINALIZATION_SPEC
    [] handler(row) = "courier_assign" -> COURIER_ASSIGN_SPEC
    [] OTHER -> RESTAURANT_TRANSITION_SPECS[row.target_state]

--------------------------------------------------------------------------------
\* What a worker's transaction reads and writes.

Order(w) == orders[worker[w].order]
Task(w)  == tasks[worker[w].order][worker[w].task]
SpecOf(w) == spec_of(Task(w))

\* Mutant: a running task is taken for one's own.
owned_task_check_result_mutant(w) == Task(w).status = "running"

\* The worker's own row is still running under its name.  The test every
\* transaction after the claim begins with; a worker that fails it leaves
\* without writing (skip_after_claim).
owned_task_check_result(w) ==
  /\ Task(w).status = "running"
  /\ Task(w).locked_by = w

\* Mutant: the order's state is not compared.
in_source_state_mutant(w) == Order(w).state # Absent

\* The order is where the task expects it.  Both the terminal and the stale
\* no-op of the code are the negation.
in_source_state(w) == Order(w).state = SpecOf(w).source_state

WriteTask(w, row) ==
  tasks' = [tasks EXCEPT ![worker[w].order][worker[w].task] = row]

Finish(w) == worker' = [worker EXCEPT ![w] = Idle]

\* When the source state began: ORDER BY occurred_at DESC LIMIT 1 of the
\* events that match, as a set with at most one element.
Latest(S) == {t \in S : \A u \in S : u <= t}

EventTimes(o, Match(_)) ==
  {events[o][i].occurred_at : i \in {j \in DOMAIN events[o] : Match(events[o][j])}}

load_transition_task_row(o, source) ==
  LET Match(e) == IF source = "placed" THEN e.event_type = "order_created"
                  ELSE e.event_type = "state_transition" /\ e.to_state = source
      found == Latest(EventTimes(o, Match))
  IN  IF found = {} THEN {orders[o].updated_at} ELSE found

\* Mutant: preparation is dated by the confirmation.
load_ready_check_task_row_mutant(o) ==
  LET Match(e) == e.event_type = "state_transition" /\ e.to_state = "confirmed"
  IN  Latest(EventTimes(o, Match))

load_ready_check_task_row(o) ==
  LET Match(e) == /\ e.event_type = "state_transition"
                  /\ e.from_state = "confirmed" /\ e.to_state = "preparing"
  IN  Latest(EventTimes(o, Match))

load_delivery_check_task_row(o) ==
  LET Match(e) == /\ e.event_type = "state_transition"
                  /\ e.from_state = "ready" /\ e.to_state = "out_for_delivery"
  IN  Latest(EventTimes(o, Match))

--------------------------------------------------------------------------------
\* Claim.

\* FOR UPDATE SKIP LOCKED makes any claimable row a possible first choice.
claim_one_task(w) ==
  /\ worker[w].phase = "idle"
  /\ \E o \in Orders : \E i \in DOMAIN tasks[o] :
       /\ claimable(tasks[o][i], now)
       /\ tasks' = [tasks EXCEPT ![o][i] = claim(@, w, now)]
       /\ worker' = [worker EXCEPT ![w].phase = "claimed",
                                   ![w].order = o, ![w].task = i]
  /\ UNCHANGED <<now, killed, orders, events>>

\* The task stopped being the worker's between two transactions: taken over
\* after the lease ran out, or cancelled with its order.
skip_after_claim(w) ==
  /\ worker[w].phase \in {"claimed", "answered"}
  /\ ~owned_task_check_result(w)
  /\ Finish(w)
  /\ UNCHANGED <<now, killed, orders, tasks, events>>

\* No handler for the claimed type and target: back to the queue, later.
release_unsupported_task(w) ==
  /\ WriteTask(w, release_claimed_task(
                    Task(w), now + UNSUPPORTED_TASK_RELEASE_DELAY_SECONDS))
  /\ Finish(w)

--------------------------------------------------------------------------------
\* Prepare: re-read the task, and either start the call or finish without one.

Prepared(w, started) ==
  /\ worker' = [worker EXCEPT ![w].phase = "calling",
                              ![w].source_started_at = started]
  /\ UNCHANGED tasks

\* The claimed task is of no use for the order as it is now.
CompleteNoop(w) ==
  /\ WriteTask(w, complete_claimed_task(Task(w)))
  /\ Finish(w)

\* restaurant confirm, restaurant start-prep and, through
\* _prepare_courier_assign_call, courier assign.
prepare_transition_call(w) ==
  /\ worker[w].phase = "claimed"
  /\ handler(Task(w)) \in {"transition", "courier_assign", "unsupported"}
  /\ owned_task_check_result(w)
  /\ IF handler(Task(w)) = "unsupported" THEN release_unsupported_task(w)
     ELSE \/ ~in_source_state(w) /\ CompleteNoop(w)
          \/ /\ in_source_state(w)
             /\ \E started \in load_transition_task_row(
                                 worker[w].order, SpecOf(w).source_state) :
                  Prepared(w, started)
  /\ UNCHANGED <<now, killed, orders, events>>

\* A row a poll task needs is missing: an error like any other.
MissingInput(w) ==
  /\ WriteTask(w, retry_or_fail_claimed_task(Task(w), now, "missing_input"))
  /\ Finish(w)

prepare_ready_check_call(w) ==
  /\ worker[w].phase = "claimed"
  /\ handler(Task(w)) = "ready_check"
  /\ owned_task_check_result(w)
  /\ LET found == load_ready_check_task_row(worker[w].order) IN
       \/ ~in_source_state(w) /\ CompleteNoop(w)
       \/ /\ in_source_state(w)
          /\ IF Task(w).deadline_at = NoTime \/ found = {}
               THEN MissingInput(w)
               ELSE \E started \in found : Prepared(w, started)
  /\ UNCHANGED <<now, killed, orders, events>>

prepare_delivery_check_call(w) ==
  /\ worker[w].phase = "claimed"
  /\ handler(Task(w)) = "delivery_check"
  /\ owned_task_check_result(w)
  /\ LET found == load_delivery_check_task_row(worker[w].order) IN
       \/ ~in_source_state(w) /\ CompleteNoop(w)
       \/ /\ in_source_state(w)
          /\ IF Task(w).deadline_at = NoTime \/ found = {} \/ ~Order(w).courier_ref
               THEN MissingInput(w)
               ELSE \E started \in found : Prepared(w, started)
  /\ UNCHANGED <<now, killed, orders, events>>

--------------------------------------------------------------------------------
\* Call: outside any transaction, one answer or one error.

Answer(w) ==
  /\ \E out \in responses(worker[w].order, SpecOf(w).service,
                          worker[w].source_started_at) :
       worker' = [worker EXCEPT ![w].phase = "answered",
                                ![w].source_started_at = 0,
                                ![w].outcome = out, ![w].answered_at = now]
  /\ UNCHANGED <<now, killed, orders, tasks, events>>

call_restaurant_transition(w) ==
  worker[w].phase = "calling" /\ handler(Task(w)) = "transition" /\ Answer(w)

call_courier_assign(w) ==
  worker[w].phase = "calling" /\ handler(Task(w)) = "courier_assign" /\ Answer(w)

call_restaurant_ready_check(w) ==
  worker[w].phase = "calling" /\ handler(Task(w)) = "ready_check" /\ Answer(w)

call_courier_delivery_check(w) ==
  worker[w].phase = "calling" /\ handler(Task(w)) = "delivery_check" /\ Answer(w)

--------------------------------------------------------------------------------
\* Outcome: one transaction that re-reads the task and writes what came of it.

\* The worker is at the outcome `out' of a task with handler in H and still
\* owns the task.
Outcome(w, out, H) ==
  /\ worker[w].phase = "answered"
  /\ worker[w].outcome = out
  /\ handler(Task(w)) \in H
  /\ owned_task_check_result(w)
  /\ Finish(w)
  /\ UNCHANGED <<now, killed>>

\* Mutant: the delivery check is scheduled like a command, without a deadline.
followup_schedule_for_spec_mutant(spec, at) ==
  IF spec.next_task_type = "check_ready"
    THEN <<at + READY_CHECK_INITIAL_DELAY_SECONDS, at + READY_CHECK_DEADLINE_SECONDS>>
    ELSE <<at, NoTime>>

followup_schedule_for_spec(spec, at) ==
  CASE spec.next_task_type = "check_ready" ->
         <<at + READY_CHECK_INITIAL_DELAY_SECONDS, at + READY_CHECK_DEADLINE_SECONDS>>
    [] spec.next_task_type = "check_delivery" ->
         <<at + DELIVERY_CHECK_INITIAL_DELAY_SECONDS, at + DELIVERY_CHECK_DEADLINE_SECONDS>>
    [] OTHER -> <<at, NoTime>>

\* Mutant: a dedupe_key without the target state, so that the task being
\* finished shadows a follow-up of its own type.
insert_followup_task_mutant(rows, spec, at) ==
  LET schedule == followup_schedule_for_spec(spec, at)
      row == new_task(spec.next_task_type, spec.next_target_state,
                      schedule[1], schedule[2], at)
  IN  IF \/ spec.next_task_type = "none"
         \/ \E i \in DOMAIN rows : /\ rows[i].status \in ACTIVE_TASK_STATUSES
                                   /\ rows[i].task_type = row.task_type
        THEN rows ELSE Append(rows, row)

\* ON CONFLICT (dedupe_key) WHERE status is active DO NOTHING.
insert_followup_task(rows, spec, at) ==
  LET schedule == followup_schedule_for_spec(spec, at)
      row == new_task(spec.next_task_type, spec.next_target_state,
                      schedule[1], schedule[2], at)
  IN  IF \/ spec.next_task_type = "none"
         \/ \E i \in DOMAIN rows : /\ rows[i].status \in ACTIVE_TASK_STATUSES
                                   /\ rows[i].task_type = row.task_type
                                   /\ rows[i].target_state = row.target_state
        THEN rows ELSE Append(rows, row)

\* Success: order, event, follow-up and completed task in one transaction.  The
\* UPDATE of the order tests version and state again; both are what was read as
\* long as the task is the worker's (see above), so the optimistic no-op of the
\* code falls together with the two state tests before it.
finalize_transition_task(w) ==
  \E at \in worker[w].answered_at .. now :
    /\ Outcome(w, "success",
               {"transition", "courier_assign", "ready_check", "delivery_check"})
    /\ LET o == worker[w].order
           i == worker[w].task
           spec == SpecOf(w)
       IN  IF ~in_source_state(w)
             THEN /\ WriteTask(w, complete_claimed_task(Task(w)))
                  /\ UNCHANGED <<orders, events>>
             ELSE /\ orders' = [orders EXCEPT
                       ![o].state = spec.target_state,
                       ![o].version = @ + 1,
                       ![o].updated_at = at,
                       ![o].courier_ref = @ \/ spec = COURIER_ASSIGN_SPEC]
                  /\ events' = [events EXCEPT ![o] = Append(@,
                       event("state_transition", spec.source_state,
                             spec.target_state, {i}, at))]
                  /\ tasks' = [tasks EXCEPT ![o] =
                       [insert_followup_task(tasks[o], spec, at) EXCEPT
                          ![i] = complete_claimed_task(@)]]

\* A valid "not yet" to a transition task.
reschedule_transition_after_pending(w) ==
  \E at \in worker[w].answered_at .. now :
    /\ Outcome(w, "pending", {"transition", "courier_assign"})
    /\ WriteTask(w,
         IF ~in_source_state(w) THEN complete_claimed_task(Task(w))
         ELSE reschedule_poll_task(Task(w),
                at + poll_delay_seconds(RETRY_AFTER[SpecOf(w).service],
                                        TASK_RETRY_DELAY_SECONDS)))
    /\ UNCHANGED <<orders, events>>

\* An error of a transition task.  Unlike the poll tasks' handlers this one
\* does not look at the order.
reschedule_transition_task(w) ==
  \E at \in worker[w].answered_at .. now :
    /\ Outcome(w, "error", {"transition", "courier_assign"})
    /\ WriteTask(w, retry_or_fail_claimed_task(Task(w), at, "downstream"))
    /\ UNCHANGED <<orders, events>>

\* An error of a poll task.
RescheduleAfterError(w, H) ==
  \E at \in worker[w].answered_at .. now :
    /\ Outcome(w, "error", {H})
    /\ WriteTask(w,
         IF ~in_source_state(w) THEN complete_claimed_task(Task(w))
         ELSE retry_or_fail_claimed_task(Task(w), at, "downstream"))
    /\ UNCHANGED <<orders, events>>

reschedule_ready_check_after_error(w) == RescheduleAfterError(w, "ready_check")

reschedule_delivery_check_after_error(w) == RescheduleAfterError(w, "delivery_check")

\* The next poll, capped so that the deadline itself gets a check.
bounded_next_run_at(at, delay, deadline_at) ==
  IF at + delay <= deadline_at THEN at + delay ELSE deadline_at

\* What a "not yet" makes of a poll task that still matters.
after_not_yet(row, at, delay) ==
  IF row.deadline_at = NoTime
    THEN retry_or_fail_claimed_task(row, at, "missing_input")
  ELSE IF at >= row.deadline_at
    THEN fail_claimed_task_without_attempt_increment(row, "deadline")
  ELSE reschedule_poll_task(row, bounded_next_run_at(at, delay, row.deadline_at))

RescheduleAfterNotYet(w, H, interval) ==
  \E at \in worker[w].answered_at .. now :
    /\ Outcome(w, "pending", {H})
    /\ WriteTask(w,
         IF ~in_source_state(w) THEN complete_claimed_task(Task(w))
         ELSE after_not_yet(Task(w), at,
                poll_delay_seconds(RETRY_AFTER[SpecOf(w).service], interval)))
    /\ UNCHANGED <<orders, events>>

reschedule_ready_check_after_not_ready(w) ==
  RescheduleAfterNotYet(w, "ready_check", READY_CHECK_INTERVAL_SECONDS)

reschedule_delivery_check_after_in_transit(w) ==
  RescheduleAfterNotYet(w, "delivery_check", DELIVERY_CHECK_INTERVAL_SECONDS)

--------------------------------------------------------------------------------
\* The worker process.

\* An exception anywhere after the claim (a lost connection, a transaction the
\* database chose to abort) rolls the transaction back; the poll loop logs it
\* and goes on.  The row keeps the worker's lease.
run_task_poll_loop_exception(w) ==
  /\ worker[w].phase \in {"claimed", "calling", "answered"}
  /\ Finish(w)
  /\ UNCHANGED <<now, killed, orders, tasks, events>>

\* The process dies.  A restarted one has a new worker_id, so a crashed id
\* never comes back.
crash(w) ==
  /\ worker[w].phase # "crashed"
  /\ Cardinality({v \in Workers : worker[v].phase = "crashed"}) < MaxCrashes
  /\ worker' = [worker EXCEPT ![w] = [Idle EXCEPT !.phase = "crashed"]]
  /\ UNCHANGED <<now, killed, orders, tasks, events>>

process_task(w) ==
  \/ claim_one_task(w)
  \/ skip_after_claim(w)
  \/ prepare_transition_call(w)
  \/ prepare_ready_check_call(w)
  \/ prepare_delivery_check_call(w)
  \/ call_restaurant_transition(w)
  \/ call_courier_assign(w)
  \/ call_restaurant_ready_check(w)
  \/ call_courier_delivery_check(w)
  \/ finalize_transition_task(w)
  \/ reschedule_transition_after_pending(w)
  \/ reschedule_transition_task(w)
  \/ reschedule_ready_check_after_error(w)
  \/ reschedule_ready_check_after_not_ready(w)
  \/ reschedule_delivery_check_after_error(w)
  \/ reschedule_delivery_check_after_in_transit(w)

--------------------------------------------------------------------------------
\* The API.

\* A new idempotency key: order, creation event and first task together.  A
\* known key changes no table.
create_or_get_order(o) ==
  /\ orders[o].state = Absent
  /\ \E at \in ApiStamps :
       /\ orders' = [orders EXCEPT ![o].state = "placed", ![o].updated_at = at]
       /\ events' = [events EXCEPT ![o] =
            <<event("order_created", Absent, Absent, {}, at)>>]
       /\ tasks' = [tasks EXCEPT ![o] =
            <<new_task("advance_state", "confirmed", at, NoTime, at)>>]
  /\ UNCHANGED <<now, killed, worker>>

\* A terminal order is left alone.
cancel_order(o) ==
  /\ orders[o].state # Absent
  /\ ~is_terminal_order_state(orders[o].state)
  /\ \E at \in ApiStamps :
       /\ orders' = [orders EXCEPT ![o].state = "cancelled",
                                   ![o].version = @ + 1, ![o].updated_at = at]
       /\ tasks' = [tasks EXCEPT ![o] = [i \in DOMAIN @ |-> cancel_task(@[i])]]
       /\ events' = [events EXCEPT ![o] = Append(@,
            event("order_cancelled", orders[o].state, "cancelled", {}, at))]
  /\ UNCHANGED <<now, killed, worker>>

\* Reopen every failed task of the order, whatever the order's state.
retry_failed_tasks_for_order(o) ==
  LET failed == {i \in DOMAIN tasks[o] : tasks[o][i].status = "failed"} IN
  /\ failed # {}
  /\ Cardinality({j \in DOMAIN events[o] :
       events[o][j].event_type = "retry_scheduled"}) < MaxRetries
  /\ \E at \in ApiStamps :
       /\ tasks' = [tasks EXCEPT ![o] = [i \in DOMAIN @ |->
            IF i \in failed THEN retry_failed_task(@[i], at) ELSE @[i]]]
       /\ events' = [events EXCEPT ![o] = Append(@,
            event("retry_scheduled", Absent, Absent, failed, at))]
  /\ UNCHANGED <<now, killed, orders, worker>>

--------------------------------------------------------------------------------

update_kill_switch ==
  /\ \E s \in Killable, on \in BOOLEAN : set_kill_switch(s, on)
  /\ UNCHANGED <<now, orders, tasks, events, worker>>

tick ==
  /\ now < MaxNow
  /\ now' = now + 1
  /\ UNCHANGED <<killed, orders, tasks, events, worker>>

Init ==
  /\ now = 0
  /\ SimInit
  /\ orders = [o \in Orders |-> [state |-> Absent, version |-> 0,
                                 courier_ref |-> FALSE, updated_at |-> 0]]
  /\ tasks  = [o \in Orders |-> <<>>]
  /\ events = [o \in Orders |-> <<>>]
  /\ worker = [w \in Workers |-> Idle]

Next ==
  \/ \E w \in Workers :
       process_task(w) \/ run_task_poll_loop_exception(w) \/ crash(w)
  \/ \E o \in Orders :
       create_or_get_order(o) \/ cancel_order(o) \/ retry_failed_tasks_for_order(o)
  \/ update_kill_switch
  \/ tick

Spec == Init /\ [][Next]_vars

================================================================================
