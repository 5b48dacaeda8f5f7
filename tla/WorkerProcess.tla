----------------------------- MODULE WorkerProcess -----------------------------
(***************************************************************************)
(* One worker process (backend/worker/main.py): its start, the heartbeat   *)
(* loop (backend/worker/heartbeat.py), the task poll loop, its graceful    *)
(* stop and its death, the connection pool they share                      *)
(* (backend/common/db.py), and the row by which the dashboard counts the   *)
(* process as active (_load_worker_overview, backend/api/                  *)
(* dashboard_store.py).  What a poll does with a task is OrderPipeline.    *)
(*                                                                         *)
(* Time is kept as ages and remaining waits, so that it needs no bound.    *)
(* Two coroutines run on the event loop, the database work of each in a    *)
(* thread.                                                                 *)
(***************************************************************************)
EXTENDS Integers

CONSTANTS
  HEARTBEAT_INTERVAL_SECONDS, ACTIVE_WORKER_THRESHOLD_SECONDS,
  TASK_POLL_INITIAL_IDLE_SECONDS, TASK_POLL_MAX_IDLE_SECONDS,
  MaxWrite,   \* the longest a heartbeat statement takes, done or failed
  MaxWork,    \* the longest a claim and its processing take
  MaxMisses   \* heartbeats that may fail in a row

ASSUME WorkerAssumption ==
  /\ HEARTBEAT_INTERVAL_SECONDS \in Nat \ {0} /\ ACTIVE_WORKER_THRESHOLD_SECONDS \in Nat
  /\ TASK_POLL_INITIAL_IDLE_SECONDS \in Nat \ {0}
  /\ TASK_POLL_MAX_IDLE_SECONDS \in Nat
  /\ TASK_POLL_INITIAL_IDLE_SECONDS <= TASK_POLL_MAX_IDLE_SECONDS
  /\ MaxWrite \in Nat /\ MaxWork \in Nat /\ MaxMisses \in Nat
  \* The window covers the rounds of MaxMisses failures and of the success.
  /\ (MaxMisses + 1) * (HEARTBEAT_INTERVAL_SECONDS + MaxWrite) + MaxWrite
       <= ACTIVE_WORKER_THRESHOLD_SECONDS

VARIABLES
  main,    \* run_worker: "configuring", "running", "stopping", "exited", "killed"
  stop,    \* stop_event
  pool,    \* _db_pool: "none", "open", "closed"
  heart,   \* the heartbeat loop: its place, the time it has been there, failures in a row
  poll,    \* the poll loop: its place, the time it has been there, idle_delay
  seen     \* the age of last_seen_at in the worker's row, or NoRow

vars == <<main, stop, pool, heart, poll, seen>>

NoRow == -1
Alive == main \notin {"exited", "killed"}
Ended(loop) == loop.pc \in {"off", "done"}

--------------------------------------------------------------------------------
\* SIGTERM or SIGINT, also while the pool is being configured.
request_stop ==
  /\ Alive /\ ~stop
  /\ stop' = TRUE
  /\ UNCHANGED <<main, pool, heart, poll, seen>>

\* configure_db_pool in a thread.  If it fails there are no loops to wait for.
configure_db_pool ==
  /\ main = "configuring"
  /\ \/ /\ main' = "running" /\ pool' = "open"
        /\ heart' = [heart EXCEPT !.pc = "round"]
        /\ poll' = [poll EXCEPT !.pc = "round"]
        /\ UNCHANGED stop
     \/ /\ main' = "stopping" /\ stop' = TRUE
        /\ UNCHANGED <<pool, heart, poll>>
  /\ UNCHANGED seen

\* run_worker wakes from stop_event.wait() and waits for both loops.
stop_event_wait ==
  /\ main = "running" /\ stop
  /\ main' = "stopping"
  /\ UNCHANGED <<stop, pool, heart, poll, seen>>

\* Mutant: the pool is closed while the loops still run.
close_db_pool_mutant ==
  /\ main = "stopping"
  /\ main' = "exited"
  /\ pool' = IF pool = "open" THEN "closed" ELSE pool
  /\ UNCHANGED <<stop, heart, poll, seen>>

\* gather has returned: the pool is closed and the process ends.
close_db_pool ==
  /\ main = "stopping" /\ Ended(heart) /\ Ended(poll)
  /\ main' = "exited"
  /\ pool' = IF pool = "open" THEN "closed" ELSE pool
  /\ UNCHANGED <<stop, heart, poll, seen>>

\* The process is killed with whatever it was doing.
kill ==
  /\ Alive
  /\ main' = "killed"
  /\ heart' = [heart EXCEPT !.pc = "off"] /\ poll' = [poll EXCEPT !.pc = "off"]
  /\ UNCHANGED <<stop, pool, seen>>

--------------------------------------------------------------------------------
\* run_heartbeat_loop.

heartbeat_round ==
  /\ heart.pc = "round"
  /\ heart' = [heart EXCEPT !.pc = IF stop THEN "done" ELSE "writing", !.age = 0]
  /\ UNCHANGED <<main, stop, pool, poll, seen>>

\* Mutant: an exception of the write ends the loop.
record_worker_heartbeat_mutant ==
  /\ heart.pc = "writing"
  /\ \/ seen' = heart.age /\ heart' = [pc |-> "waiting", age |-> 0, misses |-> 0]
     \/ heart' = [heart EXCEPT !.pc = "done"] /\ UNCHANGED seen
  /\ UNCHANGED <<main, stop, pool, poll>>

\* seen_at was taken when the write began, so that is how old the row is.
record_worker_heartbeat ==
  /\ heart.pc = "writing"
  /\ \/ seen' = heart.age /\ heart' = [pc |-> "waiting", age |-> 0, misses |-> 0]
     \/ /\ heart.misses < MaxMisses
        /\ heart' = [pc |-> "waiting", age |-> 0, misses |-> heart.misses + 1]
        /\ UNCHANGED seen
  /\ UNCHANGED <<main, stop, pool, poll>>

heartbeat_wait ==
  /\ heart.pc = "waiting"
  /\ stop \/ heart.age = HEARTBEAT_INTERVAL_SECONDS
  /\ heart' = [heart EXCEPT !.pc = "round", !.age = 0]
  /\ UNCHANGED <<main, stop, pool, poll, seen>>

--------------------------------------------------------------------------------
\* run_task_poll_loop.

\* Mutant: the loop asks for work before it looks at the event.
poll_round_mutant ==
  /\ poll.pc = "round"
  /\ poll' = [poll EXCEPT !.pc = "working", !.age = 0]
  /\ UNCHANGED <<main, stop, pool, heart, seen>>

poll_round ==
  /\ poll.pc = "round"
  /\ poll' = [poll EXCEPT !.pc = IF stop THEN "done" ELSE "working", !.age = 0]
  /\ UNCHANGED <<main, stop, pool, heart, seen>>

\* Work was found: poll again at once.  None, or an exception: sleep.
claim_and_process_one_task ==
  /\ poll.pc = "working"
  /\ \/ poll' = [pc |-> "round", age |-> 0, idle_delay |-> TASK_POLL_INITIAL_IDLE_SECONDS]
     \/ poll' = [poll EXCEPT !.pc = "sleeping", !.age = 0]
  /\ UNCHANGED <<main, stop, pool, heart, seen>>

\* Mutant: the backoff has no limit.
poll_wait_mutant ==
  /\ poll.pc = "sleeping"
  /\ \/ stop /\ poll' = [poll EXCEPT !.pc = "round"]
     \/ /\ poll.age = poll.idle_delay
        /\ poll' = [pc |-> "round", age |-> 0, idle_delay |-> 2 * poll.idle_delay]
  /\ UNCHANGED <<main, stop, pool, heart, seen>>

poll_wait ==
  /\ poll.pc = "sleeping"
  /\ \/ stop /\ poll' = [poll EXCEPT !.pc = "round"]
     \/ /\ poll.age = poll.idle_delay
        /\ poll' = [pc |-> "round", age |-> 0, idle_delay |->
                      IF 2 * poll.idle_delay > TASK_POLL_MAX_IDLE_SECONDS
                        THEN TASK_POLL_MAX_IDLE_SECONDS ELSE 2 * poll.idle_delay]
  /\ UNCHANGED <<main, stop, pool, heart, seen>>

--------------------------------------------------------------------------------
\* How long a loop may stay where it is: timers fire when they are due, a
\* coroutine that can run does, a thread ends within its limit.
Limit(loop) ==
  CASE loop.pc = "writing"  -> MaxWrite
    [] loop.pc = "waiting"  -> IF stop THEN 0 ELSE HEARTBEAT_INTERVAL_SECONDS
    [] loop.pc = "working"  -> MaxWork
    [] loop.pc = "sleeping" -> IF stop THEN 0 ELSE poll.idle_delay
    [] OTHER -> 0

Older(loop) == IF Ended(loop) THEN loop ELSE [loop EXCEPT !.age = @ + 1]

\* One second.  The age of the row is not counted beyond what the dashboard tells
\* apart.
tick ==
  /\ Ended(heart) \/ heart.age < Limit(heart)
  /\ Ended(poll) \/ poll.age < Limit(poll)
  /\ heart' = Older(heart) /\ poll' = Older(poll)
  /\ seen' = IF seen = NoRow \/ seen > ACTIVE_WORKER_THRESHOLD_SECONDS THEN seen ELSE seen + 1
  /\ UNCHANGED <<main, stop, pool>>

Init ==
  /\ main = "configuring" /\ stop = FALSE /\ pool = "none"
  /\ heart = [pc |-> "off", age |-> 0, misses |-> 0]
  /\ poll = [pc |-> "off", age |-> 0, idle_delay |-> TASK_POLL_INITIAL_IDLE_SECONDS]
  /\ seen = NoRow

Step ==
  \/ configure_db_pool \/ stop_event_wait \/ close_db_pool
  \/ heartbeat_round \/ record_worker_heartbeat \/ heartbeat_wait
  \/ poll_round \/ claim_and_process_one_task \/ poll_wait

Next == Step \/ tick \/ request_stop \/ kill

\* Time passes and the process runs; nobody has to stop or kill it.
Spec == /\ Init /\ [][Next]_vars /\ WF_vars(tick)
        /\ WF_vars(configure_db_pool) /\ WF_vars(stop_event_wait) /\ WF_vars(close_db_pool)
        /\ WF_vars(heartbeat_round \/ record_worker_heartbeat \/ heartbeat_wait)
        /\ WF_vars(poll_round \/ claim_and_process_one_task \/ poll_wait)

--------------------------------------------------------------------------------
\* Places, ages and delays have their range; the idle delay stays between its
\* first value and its maximum, so a due task is noticed within that time.
TypeOK ==
  /\ main \in {"configuring", "running", "stopping", "exited", "killed"}
  /\ stop \in BOOLEAN /\ pool \in {"none", "open", "closed"}
  /\ heart \in [pc : {"off", "round", "writing", "waiting", "done"},
                age : Nat, misses : 0 .. MaxMisses]
  /\ heart.age <= HEARTBEAT_INTERVAL_SECONDS + MaxWrite
  /\ poll \in [pc : {"off", "round", "working", "sleeping", "done"}, age : Nat,
               idle_delay : TASK_POLL_INITIAL_IDLE_SECONDS .. TASK_POLL_MAX_IDLE_SECONDS]
  /\ seen \in NoRow .. ACTIVE_WORKER_THRESHOLD_SECONDS + 1

\* No thread works in the database without the pool.  open_db_connection would
\* not fail then: it would open a connection of its own.
PoolOutlivesWork ==
  heart.pc = "writing" \/ poll.pc = "working" => pool = "open"

\* A process that runs and has been seen once is counted as active, although a
\* heartbeat is dated before its write and up to MaxMisses of them fail in a row.
LiveWorkerIsActive ==
  main = "running" /\ ~stop /\ seen # NoRow => seen <= ACTIVE_WORKER_THRESHOLD_SECONDS

\* A signal ends the process, whenever it comes and however full the queue is:
\* both loops see the event, from their sleep as well as from their work.
StopEndsProcess == stop ~> ~Alive
================================================================================
