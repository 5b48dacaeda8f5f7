------------------------------- MODULE RowLocks -------------------------------
(***************************************************************************)
(* The transactions that meet on one order, statement by statement: the    *)
(* claim, prepare, finalize and error transactions of the workers          *)
(* (backend/worker/tasks.py), cancel_order (backend/api/order_store.py)    *)
(* and retry_failed_tasks_for_order (backend/api/task_store.py), with the  *)
(* row locks they take and the READ COMMITTED snapshot each statement      *)
(* reads.  OrderPipeline has each of them as one step; this module is why  *)
(* it may.                                                                 *)
(*                                                                         *)
(* A statement that locks rows chooses them in the snapshot it starts with *)
(* and looks at each row again once it has the lock; the other tables of a *)
(* join keep their snapshot values.  Deadlines, leases, attempts and the   *)
(* calls themselves are left out: a claimed task may succeed or fail, a    *)
(* lease may run out.                                                      *)
(*                                                                         *)
(* Bounds: MaxExpiries claims of an expired lease, MaxFaults transactions  *)
(* or processes that die.                                                  *)
(***************************************************************************)
EXTENDS Naturals, Sequences, OrderStates

CONSTANTS Workers,
          Cancels,   \* calls of cancel_order
          Retries,   \* calls of retry_failed_tasks_for_order
          NoTx,      \* nobody holds the lock; the task has no owner
          MaxExpiries, MaxFaults

Tx == Workers \union Cancels \union Retries

ASSUME LocksAssumption ==
  /\ NoTx \notin Tx
  /\ Workers \intersect Cancels = {} /\ Workers \intersect Retries = {}
  /\ Cancels \intersect Retries = {}
  /\ MaxExpiries \in Nat /\ MaxFaults \in Nat

VARIABLES
  order,       \* the committed order row
  tasks,       \* its committed task rows, in the order of their creation
  order_lock,  \* who holds the order row: FOR UPDATE (a cancel) or FOR NO KEY UPDATE (a worker)
  key_share,   \* who holds it FOR KEY SHARE, through a foreign key
  task_lock,   \* who holds each task row
  tx,          \* where each transaction is
  expiries, faults

vars == <<order, tasks, order_lock, key_share, task_lock, tx, expiries, faults>>

\* SOURCE[i] is the state the i-th task moves its order from.
SOURCE == <<"placed", "confirmed", "preparing", "ready", "out_for_delivery">>

OrderRow == [state : ORDER_STATES \union {Absent}, version : Nat, courier_ref : BOOLEAN]
TaskRow == [status : ORDER_TASK_STATUSES, locked_by : Workers \union {NoTx}]

\* seen: the order row in the snapshot of the last load; todo: rows chosen by
\* the running statement and not locked yet; rows: rows it changed.
Idle == [pc |-> "idle", task |-> 0, seen |-> [state |-> Absent, version |-> 0,
         courier_ref |-> FALSE], todo |-> {}, rows |-> {}]

Goto(t, pc) == tx' = [tx EXCEPT ![t].pc = pc]

\* Mutant: a connection goes back to the pool with its transaction open.
Release_mutant(t) ==
  /\ order_lock' = IF order_lock = t THEN NoTx ELSE order_lock
  /\ key_share' = key_share \ {t}
  /\ UNCHANGED task_lock

\* The end of a transaction: its locks are released, and what it was is forgotten
\* but for an API call, which is answered.
Release(t) ==
  /\ order_lock' = IF order_lock = t THEN NoTx ELSE order_lock
  /\ key_share' = key_share \ {t}
  /\ task_lock' = [i \in DOMAIN task_lock |->
                     IF task_lock[i] = t THEN NoTx ELSE task_lock[i]]

End(t, pc) ==
  /\ Release(t)
  /\ tx' = [tx EXCEPT ![t] = [Idle EXCEPT !.pc = pc,
                              !.task = IF pc = "calling" THEN tx[t].task ELSE 0]]

NoBound == UNCHANGED <<expiries, faults>>
NoLock == UNCHANGED <<order_lock, key_share, task_lock>>

Active(i) == tasks[i].status \in ACTIVE_TASK_STATUSES
Owned(w) == /\ tasks[tx[w].task].status = "running"
            /\ tasks[tx[w].task].locked_by = w
Write(i, status) == [tasks EXCEPT ![i] = [status |-> status, locked_by |-> NoTx]]

--------------------------------------------------------------------------------
\* The order and its first task, in one transaction of their own.
create_or_get_order ==
  /\ order.state = Absent
  /\ order' = [order EXCEPT !.state = "placed"]
  /\ tasks' = <<[status |-> "pending", locked_by |-> NoTx]>>
  /\ UNCHANGED tx /\ NoLock /\ NoBound

\* claim_one_task is one statement, and SKIP LOCKED never waits.
claim_one_task(w) ==
  /\ tx[w].pc = "idle"
  /\ \E i \in DOMAIN tasks :
       /\ task_lock[i] = NoTx
       /\ \/ tasks[i].status = "pending" /\ UNCHANGED expiries
          \/ /\ tasks[i].status = "running"
             /\ expiries < MaxExpiries /\ expiries' = expiries + 1
       /\ tasks' = [tasks EXCEPT ![i] = [status |-> "running", locked_by |-> w]]
       /\ tx' = [tx EXCEPT ![w] = [Idle EXCEPT !.pc = "claimed", !.task = i]]
  /\ UNCHANGED <<order, faults>> /\ NoLock

\* The load statements join task and order: the order as of now, the task under
\* its lock.
load_task_row(w, from, to) ==
  /\ tx[w].pc = from
  /\ tx' = [tx EXCEPT ![w].pc = to, ![w].seen = order]
  /\ UNCHANGED <<order, tasks>> /\ NoLock /\ NoBound

InSourceState(w) == tx[w].seen.state = SOURCE[tx[w].task]

\* prepare_*: after the lock, a task that is not owned is left alone, one whose
\* order was elsewhere is completed, else the call is made outside.
prepare_call(w) ==
  /\ tx[w].pc = "prepare" /\ task_lock[tx[w].task] = NoTx
  /\ \/ ~Owned(w) /\ End(w, "idle") /\ UNCHANGED tasks
     \/ /\ Owned(w) /\ ~InSourceState(w)
        /\ tasks' = Write(tx[w].task, "completed") /\ End(w, "idle")
     \/ Owned(w) /\ InSourceState(w) /\ End(w, "calling") /\ UNCHANGED tasks
  /\ UNCHANGED order /\ NoBound

\* finalize_transition_task, the load: the task row stays locked.
lock_for_finalize(w) ==
  /\ tx[w].pc = "finalize" /\ task_lock[tx[w].task] = NoTx
  /\ \/ ~Owned(w) /\ End(w, "idle") /\ UNCHANGED tasks
     \/ /\ Owned(w) /\ ~InSourceState(w)
        /\ tasks' = Write(tx[w].task, "completed") /\ End(w, "idle")
     \/ /\ Owned(w) /\ InSourceState(w)
        /\ task_lock' = [task_lock EXCEPT ![tx[w].task] = w]
        /\ Goto(w, "update")
        /\ UNCHANGED <<tasks, order_lock, key_share>>
  /\ UNCHANGED order /\ NoBound

\* UPDATE orders ... WHERE version = ... AND state = ...: it waits for the row
\* and looks again; with no row it completes the task and moves nothing.
update_order(w) ==
  /\ tx[w].pc = "update" /\ order_lock = NoTx
  /\ \/ /\ order.state = tx[w].seen.state /\ order.version = tx[w].seen.version
        /\ order_lock' = w
        /\ Goto(w, "commit")
        /\ UNCHANGED <<tasks, key_share, task_lock>>
     \/ /\ ~(order.state = tx[w].seen.state /\ order.version = tx[w].seen.version)
        /\ tasks' = Write(tx[w].task, "completed") /\ End(w, "idle")
  /\ UNCHANGED order /\ NoBound

\* Mutant: a follow-up after the last step too.
finalize_transition_task_mutant(w) ==
  /\ tx[w].pc = "commit"
  /\ order' = [state |-> ORDER_TRANSITIONS[SOURCE[tx[w].task]],
               version |-> order.version + 1, courier_ref |-> order.courier_ref]
  /\ tasks' = Append(Write(tx[w].task, "completed"),
                     [status |-> "pending", locked_by |-> NoTx])
  /\ End(w, "idle") /\ NoBound

\* The event, the follow-up task and the completed task wait for nothing.
finalize_transition_task(w) ==
  /\ tx[w].pc = "commit"
  /\ LET i == tx[w].task
         target == ORDER_TRANSITIONS[SOURCE[i]]
     IN  /\ order' = [state |-> target, version |-> order.version + 1,
                      courier_ref |-> order.courier_ref \/ target = "out_for_delivery"]
         /\ tasks' = IF i < Len(SOURCE)
                       THEN Append(Write(i, "completed"),
                                   [status |-> "pending", locked_by |-> NoTx])
                       ELSE Write(i, "completed")
  /\ End(w, "idle") /\ NoBound

\* The error and the not-yet transactions look at the task only.
reschedule_task(w) ==
  /\ tx[w].pc = "calling" /\ task_lock[tx[w].task] = NoTx
  /\ \/ ~Owned(w) /\ UNCHANGED tasks
     \/ Owned(w) /\ \E status \in {"pending", "failed"} : tasks' = Write(tx[w].task, status)
  /\ End(w, "idle")
  /\ UNCHANGED order /\ NoBound

--------------------------------------------------------------------------------
\* cancel_order.  First the order row, FOR UPDATE; an order that is gone or in a
\* terminal state ends it.
begin_cancel(c) ==
  /\ tx[c].pc = "idle" /\ Goto(c, "lock")
  /\ UNCHANGED <<order, tasks>> /\ NoLock /\ NoBound

\* Mutant: the order is read without FOR UPDATE.
lock_order_mutant(c) ==
  /\ tx[c].pc = "lock"
  /\ Goto(c, IF order.state \in DOMAIN ORDER_TRANSITIONS THEN "tasks" ELSE "done")
  /\ UNCHANGED <<order, tasks>> /\ NoLock /\ NoBound

lock_order(c) ==
  /\ tx[c].pc = "lock"
  /\ order_lock = NoTx /\ key_share = {}
  /\ \/ /\ order.state \notin DOMAIN ORDER_TRANSITIONS
        /\ Goto(c, "done") /\ UNCHANGED order_lock
     \/ /\ order.state \in DOMAIN ORDER_TRANSITIONS
        /\ order_lock' = c /\ Goto(c, "tasks")
  /\ UNCHANGED <<order, tasks, key_share, task_lock>> /\ NoBound

\* UPDATE order_tasks: the rows that are active in the statement's snapshot.
choose_tasks(c) ==
  /\ tx[c].pc = "tasks"
  /\ tx' = [tx EXCEPT ![c].pc = "sweep", ![c].todo = {i \in DOMAIN tasks : Active(i)}]
  /\ UNCHANGED <<order, tasks>> /\ NoLock /\ NoBound

\* Mutant: tasks that are locked are skipped.
sweep_task_mutant(c) ==
  /\ tx[c].pc = "sweep" /\ tx[c].todo # {}
  /\ LET free == {i \in tx[c].todo : task_lock[i] = NoTx} IN
     /\ tx' = [tx EXCEPT ![c].todo = {}, ![c].rows = free]
     /\ task_lock' = [i \in DOMAIN task_lock |-> IF i \in free THEN c ELSE task_lock[i]]
  /\ UNCHANGED <<order, tasks, order_lock, key_share>> /\ NoBound

\* Each is locked and looked at again.
sweep_task(c) ==
  /\ tx[c].pc = "sweep"
  /\ \E i \in tx[c].todo :
       /\ task_lock[i] = NoTx
       /\ tx' = [tx EXCEPT ![c].todo = @ \ {i},
                           ![c].rows = IF Active(i) THEN @ \union {i} ELSE @]
       /\ task_lock' = IF Active(i) THEN [task_lock EXCEPT ![i] = c] ELSE task_lock
  /\ UNCHANGED <<order, tasks, order_lock, key_share>> /\ NoBound

cancel_order(c) ==
  /\ tx[c].pc = "sweep" /\ tx[c].todo = {}
  /\ order' = [order EXCEPT !.state = "cancelled", !.version = @ + 1]
  /\ tasks' = [i \in DOMAIN tasks |->
                 IF i \in tx[c].rows THEN [status |-> "cancelled", locked_by |-> NoTx]
                                     ELSE tasks[i]]
  /\ End(c, "done") /\ NoBound

--------------------------------------------------------------------------------
\* retry_failed_tasks_for_order.  The failed rows of the snapshot, each locked and
\* looked at again; then the event, whose foreign key takes the order row FOR
\* KEY SHARE and so waits for a cancel but not for a worker.
choose_failed(r) ==
  /\ tx[r].pc = "idle" /\ order.state # Absent
  /\ tx' = [tx EXCEPT ![r].pc = "sweep",
                      ![r].todo = {i \in DOMAIN tasks : tasks[i].status = "failed"}]
  /\ UNCHANGED <<order, tasks>> /\ NoLock /\ NoBound

lock_failed(r) ==
  /\ tx[r].pc = "sweep"
  /\ \/ \E i \in tx[r].todo :
          /\ task_lock[i] = NoTx
          /\ \/ /\ tasks[i].status = "failed"
                /\ tx' = [tx EXCEPT ![r].pc = "event", ![r].todo = {}, ![r].rows = {i}]
                /\ task_lock' = [task_lock EXCEPT ![i] = r]
             \/ /\ tasks[i].status # "failed"
                /\ tx' = [tx EXCEPT ![r].todo = @ \ {i}] /\ UNCHANGED task_lock
     \/ tx[r].todo = {} /\ Goto(r, "done") /\ UNCHANGED task_lock
  /\ UNCHANGED <<order, tasks, order_lock, key_share>> /\ NoBound

insert_retry_event(r) ==
  /\ tx[r].pc = "event" /\ order_lock \notin Cancels
  /\ key_share' = key_share \union {r}
  /\ Goto(r, "commit")
  /\ UNCHANGED <<order, tasks, order_lock, task_lock>> /\ NoBound

retry_failed_tasks(r) ==
  /\ tx[r].pc = "commit"
  /\ tasks' = [i \in DOMAIN tasks |->
                 IF i \in tx[r].rows THEN [status |-> "pending", locked_by |-> NoTx]
                                     ELSE tasks[i]]
  /\ End(r, "done")
  /\ UNCHANGED order /\ NoBound

--------------------------------------------------------------------------------
\* The database.

\* The transactions t waits for.
WaitsFor(t) ==
  LET Others(S) == S \ {NoTx, t} IN
  CASE t \in Workers /\ tx[t].pc \in {"prepare", "finalize", "calling"} ->
         Others({task_lock[tx[t].task]})
    [] t \in Workers /\ tx[t].pc = "update" -> Others({order_lock})
    [] tx[t].pc = "lock"  -> Others({order_lock} \union key_share)
    [] tx[t].pc = "sweep" -> Others({task_lock[i] : i \in tx[t].todo})
    [] tx[t].pc = "event" -> Others({order_lock} \intersect Cancels)
    [] OTHER -> {}

Deadlocked(t) ==
  /\ WaitsFor(t) # {}
  /\ \E S \in SUBSET {s \in Tx : WaitsFor(s) # {}} :
    /\ t \in S
    /\ \A s \in S : WaitsFor(s) \intersect S # {} /\ \E u \in S : s \in WaitsFor(u)

\* The open transaction of t is rolled back: a worker logs the error and polls
\* on, its row stays running until the lease is over; an API call answers 503.
InProgress(t) == tx[t].pc \notin {"idle", "done", "claimed", "calling"}
Rollback(t) == /\ End(t, IF t \in Workers THEN "idle" ELSE "done")
               /\ UNCHANGED <<order, tasks, expiries>>

abort_deadlocked(t) == Deadlocked(t) /\ Rollback(t) /\ UNCHANGED faults

\* A connection, a process or the database fails.
die(t) ==
  /\ faults < MaxFaults /\ (InProgress(t) \/ tx[t].pc \in {"claimed", "calling"})
  /\ faults' = faults + 1
  /\ Rollback(t)

--------------------------------------------------------------------------------
Init ==
  /\ order = [state |-> Absent, version |-> 0, courier_ref |-> FALSE]
  /\ tasks = <<>>
  /\ order_lock = NoTx /\ key_share = {}
  /\ task_lock = [i \in 1 .. Len(SOURCE) |-> NoTx]
  /\ tx = [t \in Tx |-> Idle]
  /\ expiries = 0 /\ faults = 0

\* The steps of a worker that has claimed something.
Work(w) ==
  \/ load_task_row(w, "claimed", "prepare") \/ prepare_call(w)
  \/ load_task_row(w, "calling", "finalize") \/ lock_for_finalize(w)
  \/ update_order(w) \/ finalize_transition_task(w) \/ reschedule_task(w)
\* The steps of an API call that has begun.
Cancelling(c) == lock_order(c) \/ choose_tasks(c) \/ sweep_task(c) \/ cancel_order(c)
Retrying(r) == lock_failed(r) \/ insert_retry_event(r) \/ retry_failed_tasks(r)

Next ==
  \/ create_or_get_order
  \/ \E w \in Workers : claim_one_task(w) \/ Work(w)
  \/ \E c \in Cancels : begin_cancel(c) \/ Cancelling(c)
  \/ \E r \in Retries : choose_failed(r) \/ Retrying(r)
  \/ \E t \in Tx : abort_deadlocked(t) \/ die(t)

\* Sessions run, and the database looks for deadlocks after a second.
Fairness ==
  /\ \A w \in Workers : WF_vars(Work(w))
  /\ \A c \in Cancels : WF_vars(Cancelling(c))
  /\ \A r \in Retries : WF_vars(Retrying(r))
  /\ WF_vars(\E t \in Tx : abort_deadlocked(t))

Spec == Init /\ [][Next]_vars /\ Fairness

--------------------------------------------------------------------------------
\* Rows, locks and transactions have their shape.
TypeOK ==
  /\ order \in OrderRow /\ tasks \in Seq(TaskRow) /\ Len(tasks) <= Len(SOURCE)
  /\ order_lock \in Cancels \union Workers \union {NoTx} /\ key_share \subseteq Retries
  /\ task_lock \in [1 .. Len(SOURCE) -> Tx \union {NoTx}]
  /\ \A t \in Tx : /\ tx[t].task \in 0 .. Len(tasks) /\ tx[t].seen \in OrderRow
                   /\ tx[t].todo \subseteq DOMAIN tasks /\ tx[t].rows \subseteq DOMAIN tasks

\* A worker that has locked a task it owns has seen the order as it is and will
\* stay until the worker commits, although it read it without a lock, and before
\* it waited for the task: a cancel cannot get past that task.  So the version
\* in the WHERE of the update never decides anything.
OwnedOrderIsCurrent ==
  \A w \in Workers : tx[w].pc \in {"update", "commit"} => order = tx[w].seen

\* The order's place in the queue, by its rows.
work_of ==
  CASE tasks = <<>> -> "none"
    [] \E i \in DOMAIN tasks : Active(i) -> "open"
    [] /\ \E i \in DOMAIN tasks : tasks[i].status = "failed"
       /\ ~\E i \in DOMAIN tasks : Active(i) -> "failed"
    [] OTHER -> "done"

Abstract == INSTANCE OrderLifecycle WITH
  Orders  <- {1},
  state   <- [o \in {1} |-> order.state],
  version <- [o \in {1} |-> order.version],
  courier <- [o \in {1} |-> order.courier_ref],
  work    <- [o \in {1} |-> work_of]

\* Refinement: with every lock wait, stale snapshot and rollback in between, what
\* is committed is the abstract lifecycle.  In particular a cancel leaves no
\* active task, not even a follow-up that a worker inserts while it runs, and a
\* retry that meets a cancel comes entirely before or after it.
StatementsImplementLifecycle == Abstract!Spec

\* No transaction waits for ever: the lock cycle of a cancel (order, then tasks)
\* and a worker (task, then order) is broken, and every other wait ends.
EveryTransactionEnds == \A t \in Tx : InProgress(t) ~> ~InProgress(t)
================================================================================
