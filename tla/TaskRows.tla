------------------------------- MODULE TaskRows -------------------------------
(***************************************************************************)
(* One row of order_tasks, the durable queue, and every UPDATE the workers *)
(* and the API make to it.  Each operator maps a row to the row after the  *)
(* statement.  A worker's statements all carry                             *)
(*    WHERE id = .. AND status = 'running' AND locked_by = <worker>        *)
(* and run under the row lock, after the same test has passed; that test   *)
(* is owned_task_check_result in OrderPipeline.                            *)
(*                                                                         *)
(* Left out of the row: updated_at and completed_at, which no transition   *)
(* reads, and dedupe_key, which is a function of order, type and target.   *)
(***************************************************************************)
EXTENDS Integers, OrderStates

CONSTANTS
  Workers,                        \* worker process ids
  NoWorker,                       \* locked_by of a row nobody holds
  LEASE_SECONDS,                  \* how long a claim lasts
  MaxAttempts,                    \* order_tasks.max_attempts
  TASK_RETRY_DELAY_SECONDS,       \* backoff after the first error
  TASK_RETRY_MAX_DELAY_SECONDS,   \* cap of the backoff
  UNSUPPORTED_TASK_RELEASE_DELAY_SECONDS,
  RETRY_WINDOW_DEFAULT,           \* the '60 seconds' of the operator retry
  RETRY_WINDOW_MIN                \* its '1 second'

ASSUME TaskRowsAssumption ==
  /\ NoWorker \notin Workers
  /\ LEASE_SECONDS \in Nat
  /\ MaxAttempts \in Nat \ {0}
  /\ TASK_RETRY_DELAY_SECONDS \in Nat
  /\ TASK_RETRY_MAX_DELAY_SECONDS \in Nat
  /\ UNSUPPORTED_TASK_RELEASE_DELAY_SECONDS \in Nat
  /\ RETRY_WINDOW_DEFAULT \in Nat
  /\ RETRY_WINDOW_MIN \in Nat

NoTime == -1                      \* SQL null in a timestamp column

Times == Nat \union {NoTime}

\* last_error, by its cause.
TASK_ERRORS == {"none", "downstream", "deadline", "missing_input",
                "unsupported", "order_cancelled"}

TaskRow ==
  [task_type    : ORDER_TASK_TYPES,
   target_state : ORDER_STATES,
   status       : ORDER_TASK_STATUSES,
   attempts     : Nat,
   next_run_at  : Nat,
   deadline_at  : Times,
   locked_by    : Workers \union {NoWorker},
   locked_until : Times,
   created_at   : Nat,
   last_error   : TASK_ERRORS]

\* The row an INSERT creates: attempts and the lease come from the defaults.
new_task(type, target, next_run_at, deadline_at, created_at) ==
  [task_type |-> type, target_state |-> target, status |-> "pending",
   attempts |-> 0, next_run_at |-> next_run_at, deadline_at |-> deadline_at,
   locked_by |-> NoWorker, locked_until |-> NoTime,
   created_at |-> created_at, last_error |-> "none"]

\* Due, or abandoned by a worker whose lease ran out.
claimable(row, t) ==
  \/ row.status = "pending" /\ row.next_run_at <= t
  \/ row.status = "running" /\ row.locked_until < t

claim(row, w, t) ==
  [row EXCEPT !.status = "running", !.locked_by = w,
              !.locked_until = t + LEASE_SECONDS]

release_claimed_task(row, next_run_at) ==
  [row EXCEPT !.status = "pending", !.next_run_at = next_run_at,
              !.last_error = "unsupported",
              !.locked_by = NoWorker, !.locked_until = NoTime]

\* Mutant: a status the task_status enum does not have.
complete_claimed_task_mutant(row) ==
  [row EXCEPT !.status = "done", !.last_error = "none",
              !.locked_by = NoWorker, !.locked_until = NoTime]

complete_claimed_task(row) ==
  [row EXCEPT !.status = "completed", !.last_error = "none",
              !.locked_by = NoWorker, !.locked_until = NoTime]

reschedule_claimed_task(row, next_run_at, error) ==
  [row EXCEPT !.status = "pending", !.attempts = @ + 1,
              !.next_run_at = next_run_at, !.last_error = error,
              !.locked_by = NoWorker, !.locked_until = NoTime]

reschedule_poll_task(row, next_run_at) ==
  [row EXCEPT !.status = "pending", !.next_run_at = next_run_at,
              !.last_error = "none",
              !.locked_by = NoWorker, !.locked_until = NoTime]

fail_claimed_task(row, error) ==
  [row EXCEPT !.status = "failed", !.attempts = @ + 1, !.last_error = error,
              !.locked_by = NoWorker, !.locked_until = NoTime]

fail_claimed_task_without_attempt_increment(row, error) ==
  [row EXCEPT !.status = "failed", !.last_error = error,
              !.locked_by = NoWorker, !.locked_until = NoTime]

\* Exponential backoff with a cap.  (min(x, cap) of a natural x.)
task_retry_delay_seconds(attempts) ==
  LET retry_delay == TASK_RETRY_DELAY_SECONDS * 2^attempts IN
  IF retry_delay \in 0 .. TASK_RETRY_MAX_DELAY_SECONDS
    THEN retry_delay ELSE TASK_RETRY_MAX_DELAY_SECONDS

\* Mutant: one attempt too many.
retry_or_fail_claimed_task_mutant(row, at, error) ==
  IF row.attempts + 1 > MaxAttempts
    THEN fail_claimed_task(row, error)
    ELSE reschedule_claimed_task(
           row, at + task_retry_delay_seconds(row.attempts), error)

\* An error consumes one attempt; the one that reaches the budget fails the task.
retry_or_fail_claimed_task(row, at, error) ==
  IF row.attempts + 1 >= MaxAttempts
    THEN fail_claimed_task(row, error)
    ELSE reschedule_claimed_task(
           row, at + task_retry_delay_seconds(row.attempts), error)

\* A pending answer does not: the caller's hint, or a default when there is none.
poll_delay_seconds(hint, default) == IF hint > 0 THEN hint ELSE default

\* Mutant: a running task is left to its worker.
cancel_task_mutant(row) ==
  IF row.status = "pending"
    THEN [row EXCEPT !.status = "cancelled", !.last_error = "order_cancelled",
                     !.locked_by = NoWorker, !.locked_until = NoTime]
    ELSE row

\* Cancellation invalidates work that is still active, and only that.
cancel_task(row) ==
  IF row.status \in ACTIVE_TASK_STATUSES
    THEN [row EXCEPT !.status = "cancelled", !.last_error = "order_cancelled",
                     !.locked_by = NoWorker, !.locked_until = NoTime]
    ELSE row

\* The new deadline of a poll task is measured from the deadline and the
\* creation time the row has now.
retry_deadline_at(row, at) ==
  LET window == IF row.deadline_at = NoTime THEN RETRY_WINDOW_DEFAULT
                ELSE row.deadline_at - row.created_at
  IN  at + (IF window >= RETRY_WINDOW_MIN THEN window ELSE RETRY_WINDOW_MIN)

retry_failed_task(row, at) ==
  [row EXCEPT !.status = "pending", !.attempts = 0, !.next_run_at = at,
              !.deadline_at = IF row.task_type \in POLL_TASK_TYPES
                                THEN retry_deadline_at(row, at) ELSE @,
              !.last_error = "none",
              !.locked_by = NoWorker, !.locked_until = NoTime]

================================================================================
