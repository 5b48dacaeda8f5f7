------------------------------ MODULE OrderStates ------------------------------
(***************************************************************************)
(* The vocabulary that the API and the workers share: the order states and *)
(* the happy path through them (backend/common/state_machine.py), the task *)
(* types and statuses (backend/common/task_types.py) and the event types   *)
(* (backend/common/event_types.py).  No state of its own.                  *)
(***************************************************************************)

\* An order row that has not been inserted yet.  The database has no such
\* value: it stands for "no row".
Absent == "absent"

\* The order states.  No code of the repository writes "failed".
ORDER_STATES ==
  {"placed", "confirmed", "preparing", "ready", "out_for_delivery",
   "delivered", "cancelled", "failed"}

\* The happy path.  Terminal states are not in its domain.
ORDER_TRANSITIONS ==
  [s \in {"placed", "confirmed", "preparing", "ready", "out_for_delivery"} |->
     CASE s = "placed"           -> "confirmed"
       [] s = "confirmed"        -> "preparing"
       [] s = "preparing"        -> "ready"
       [] s = "ready"            -> "out_for_delivery"
       [] s = "out_for_delivery" -> "delivered"]

TERMINAL_ORDER_STATES == {"delivered", "cancelled", "failed"}

is_terminal_order_state(state) == state \in TERMINAL_ORDER_STATES

\* "check_pickup" is declared in the code and no task has that type.
ORDER_TASK_TYPES ==
  {"advance_state", "check_ready", "check_pickup", "check_delivery"}

\* The task types that carry a business deadline.
POLL_TASK_TYPES == {"check_ready", "check_delivery"}

ORDER_TASK_STATUSES ==
  {"pending", "running", "completed", "failed", "cancelled"}

\* The statuses the partial unique index on dedupe_key covers, and the ones a
\* cancellation invalidates.
ACTIVE_TASK_STATUSES == {"pending", "running"}

\* "courier_picked_up" and "order_failed" are declared and never written.
ORDER_EVENT_TYPES ==
  {"order_created", "state_transition", "courier_picked_up",
   "retry_scheduled", "order_cancelled", "order_failed"}

================================================================================
