---------------------------- MODULE OrderLifecycle ----------------------------
(***************************************************************************)
(* What the pipeline promises about one order, without tasks, leases,      *)
(* workers, downstream calls or time: the order moves one happy-path step  *)
(* at a time or is cancelled, each move adds one to its version, and as    *)
(* long as it can still move there is exactly one piece of work for it,    *)
(* which is either open or waiting for an operator.                        *)
(*                                                                         *)
(* OrderPipeline implements it: Lifecycle in PipelineProperties.           *)
(***************************************************************************)
EXTENDS Naturals, OrderStates

CONSTANT Orders   \* the orders that may be placed

VARIABLES
  state,    \* state[o]: the order's state, Absent before it is placed
  version,  \* version[o]: how many times the row has moved
  courier,  \* courier[o]: whether a courier is recorded on the row
  work      \* work[o]: the order's place in the queue
            \*   "none"    not placed
            \*   "open"    a worker can run it now or later
            \*   "failed"  given up; only an operator can reopen it
            \*   "done"    nothing left to run

lifecycle_vars == <<state, version, courier, work>>

Init ==
  /\ state   = [o \in Orders |-> Absent]
  /\ version = [o \in Orders |-> 0]
  /\ courier = [o \in Orders |-> FALSE]
  /\ work    = [o \in Orders |-> "none"]

Place(o) ==
  /\ state[o] = Absent
  /\ state' = [state EXCEPT ![o] = "placed"]
  /\ work'  = [work EXCEPT ![o] = "open"]
  /\ UNCHANGED <<version, courier>>

\* One happy-path move.  The courier is recorded by the move that dispatches
\* the order, and by no other.
Advance(o) ==
  /\ state[o] \in DOMAIN ORDER_TRANSITIONS
  /\ work[o] = "open"
  /\ LET next == ORDER_TRANSITIONS[state[o]] IN
       /\ state'   = [state EXCEPT ![o] = next]
       /\ version' = [version EXCEPT ![o] = @ + 1]
       /\ courier' = [courier EXCEPT ![o] = @ \/ next = "out_for_delivery"]
       /\ work'    = [work EXCEPT ![o] =
                        IF next = "delivered" THEN "done" ELSE "open"]

\* An operator cancels the order.  Work that had already been given up keeps
\* that mark.
Cancel(o) ==
  /\ state[o] \in DOMAIN ORDER_TRANSITIONS
  /\ state'   = [state EXCEPT ![o] = "cancelled"]
  /\ version' = [version EXCEPT ![o] = @ + 1]
  /\ work'    = [work EXCEPT ![o] = IF @ = "failed" THEN "failed" ELSE "done"]
  /\ UNCHANGED courier

\* The pipeline gives up on the current step.  The order stays where it is.
GiveUp(o) ==
  /\ state[o] \in DOMAIN ORDER_TRANSITIONS
  /\ work[o] = "open"
  /\ work' = [work EXCEPT ![o] = "failed"]
  /\ UNCHANGED <<state, version, courier>>

\* An operator reopens given-up work, of a cancelled order too.
Reopen(o) ==
  /\ work[o] = "failed"
  /\ work' = [work EXCEPT ![o] = "open"]
  /\ UNCHANGED <<state, version, courier>>

\* Work reopened for a cancelled order is dropped: it never fails again and
\* never moves the order.
Discard(o) ==
  /\ state[o] = "cancelled"
  /\ work[o] = "open"
  /\ work' = [work EXCEPT ![o] = "done"]
  /\ UNCHANGED <<state, version, courier>>

Next ==
  \E o \in Orders :
    Place(o) \/ Advance(o) \/ Cancel(o) \/ GiveUp(o) \/ Reopen(o) \/ Discard(o)

Spec == Init /\ [][Next]_lifecycle_vars

================================================================================
