-------------------------- MODULE WorkerProcessProofs --------------------------
(***************************************************************************)
(* The safety of the worker process (backend/worker/main.py, heartbeat.py) *)
(* for every interval, threshold, delay and number of lost heartbeats that *)
(* WorkerAssumption allows.                                                *)
(***************************************************************************)
EXTENDS WorkerProcess, TLAPS

\* One round of the heartbeat loop at its longest: the wait and the write.
Round == HEARTBEAT_INTERVAL_SECONDS + MaxWrite

\* Where the loops can be for each phase of run_worker, and that a loop ends only
\* after the event was set.
PhaseInv ==
  /\ main = "configuring" => /\ heart.pc = "off" /\ poll.pc = "off" /\ pool = "none"
                             /\ heart.age = 0 /\ seen = NoRow
  /\ main = "running" => pool = "open" /\ heart.pc # "off"
  /\ ~Ended(heart) \/ ~Ended(poll) => main \in {"running", "stopping"} /\ pool = "open"
  /\ heart.pc = "done" => stop

\* How long the heartbeat loop has been where it is.
AgeInv ==
  /\ heart.pc = "round" => heart.age = 0
  /\ heart.pc = "writing" => heart.age <= MaxWrite
  /\ heart.pc = "waiting" => heart.age <= HEARTBEAT_INTERVAL_SECONDS

\* How old the row is: the write that dated it, one round for each failure since,
\* and the part of the round that is over.
SeenInv ==
  heart.pc \in {"round", "writing", "waiting"} /\ seen # NoRow =>
    seen <= MaxWrite + heart.misses * Round + heart.age
              + (IF heart.pc = "waiting" THEN 0 ELSE HEARTBEAT_INTERVAL_SECONDS)

WorkerInv == TypeOK /\ PhaseInv /\ AgeInv /\ SeenInv

--------------------------------------------------------------------------------
\* One failure more is one round more, and a number of failures within its limit
\* takes no longer than the limit.
LEMMA Rounds ==
  ASSUME NEW m \in 0 .. MaxMisses
  PROVE  /\ Round \in Nat /\ m * Round \in Nat
         /\ (m + 1) * Round = m * Round + Round
         /\ m * Round + Round + MaxWrite <= ACTIVE_WORKER_THRESHOLD_SECONDS
<1>1. Round \in Nat /\ MaxMisses \in Nat /\ m \in Nat /\ m <= MaxMisses
  BY WorkerAssumption DEF Round
<1>2. \A r \in Nat, a \in Nat, b \in Nat :
        /\ a * r \in Nat /\ (a + 1) * r = a * r + r
        /\ a <= b => a * r <= b * r
  <2>1. \A r \in Nat, a \in Nat : a * r \in Nat /\ (a + 1) * r = a * r + r
    OBVIOUS
  <2>2. ASSUME NEW r \in Nat, NEW a \in Nat, NEW b \in Nat, a <= b
        PROVE  a * r <= b * r
    <3>1. (b - a) * r >= 0 /\ (b - a) * r = b * r - a * r
      BY <2>2
    <3>. QED  BY <3>1, <2>1
  <2>. QED  BY <2>1, <2>2
<1>3. (MaxMisses + 1) * Round + MaxWrite <= ACTIVE_WORKER_THRESHOLD_SECONDS
  BY WorkerAssumption DEF Round
<1>. QED
  BY <1>1, <1>2, <1>3, WorkerAssumption

\* What the constants are, without the sum that Rounds is about.
LEMMA ConstantTypes ==
  /\ HEARTBEAT_INTERVAL_SECONDS \in Nat \ {0} /\ ACTIVE_WORKER_THRESHOLD_SECONDS \in Nat
  /\ TASK_POLL_INITIAL_IDLE_SECONDS \in Nat \ {0} /\ TASK_POLL_MAX_IDLE_SECONDS \in Nat
  /\ TASK_POLL_INITIAL_IDLE_SECONDS <= TASK_POLL_MAX_IDLE_SECONDS
  /\ MaxWrite \in Nat /\ MaxWork \in Nat /\ MaxMisses \in Nat
  BY WorkerAssumption

LEMMA WorkerInit == Init => WorkerInv
<1>. SUFFICES ASSUME Init PROVE WorkerInv
  OBVIOUS
<1>1. TypeOK
  <2>1. heart \in [pc : {"off", "round", "writing", "waiting", "done"},
                  age : Nat, misses : 0 .. MaxMisses]
        /\ heart.age <= HEARTBEAT_INTERVAL_SECONDS + MaxWrite
    BY ConstantTypes DEF Init
  <2>2. poll \in [pc : {"off", "round", "working", "sleeping", "done"}, age : Nat,
                 idle_delay : TASK_POLL_INITIAL_IDLE_SECONDS .. TASK_POLL_MAX_IDLE_SECONDS]
    BY ConstantTypes DEF Init
  <2>3. seen \in NoRow .. ACTIVE_WORKER_THRESHOLD_SECONDS + 1
    BY ConstantTypes DEF Init, NoRow
  <2>. QED  BY <2>1, <2>2, <2>3 DEF Init, TypeOK
<1>2. PhaseInv /\ AgeInv /\ SeenInv
  BY DEF Init, PhaseInv, AgeInv, SeenInv, Ended, NoRow
<1>. QED  BY <1>1, <1>2 DEF WorkerInv

\* The steps of run_worker.
LEMMA MainStep ==
  ASSUME WorkerInv,
         request_stop \/ configure_db_pool \/ stop_event_wait \/ close_db_pool \/ kill
  PROVE  WorkerInv'
<1>. USE DEF WorkerInv
<1>1. CASE request_stop
  BY <1>1 DEF request_stop, TypeOK, PhaseInv, AgeInv, SeenInv, Ended
<1>2. CASE configure_db_pool
  <2>1. heart.age = 0 /\ heart.pc = "off" /\ poll.pc = "off" /\ pool = "none"
        /\ seen = NoRow
    BY <1>2 DEF configure_db_pool, PhaseInv
  <2>2. TypeOK'
    BY <1>2 DEF configure_db_pool, TypeOK
  <2>3. PhaseInv' /\ AgeInv'
    BY <1>2, <2>1 DEF configure_db_pool, TypeOK, PhaseInv, AgeInv, Ended
  <2>4. SeenInv'
    BY <1>2, <2>1 DEF configure_db_pool, TypeOK, SeenInv
  <2>. QED  BY <2>2, <2>3, <2>4
<1>3. CASE stop_event_wait
  BY <1>3 DEF stop_event_wait, TypeOK, PhaseInv, AgeInv, SeenInv, Ended
<1>4. CASE close_db_pool
  BY <1>4 DEF close_db_pool, TypeOK, PhaseInv, AgeInv, SeenInv, Ended
<1>5. CASE kill
  BY <1>5 DEF kill, TypeOK, PhaseInv, AgeInv, SeenInv, Ended
<1>. QED  BY <1>1, <1>2, <1>3, <1>4, <1>5

\* The steps of the heartbeat loop.
LEMMA HeartStep ==
  ASSUME WorkerInv, heartbeat_round \/ record_worker_heartbeat \/ heartbeat_wait
  PROVE  WorkerInv'
<1>. USE DEF WorkerInv
<1>1. CASE heartbeat_round
  <2>1. TypeOK'
    <3>1. heart.misses \in 0 .. MaxMisses
          /\ \E pc \in {"done", "writing"} :
               heart' = [pc |-> pc, age |-> 0, misses |-> heart.misses]
      <4>1. stop => heart' = [pc |-> "done", age |-> 0, misses |-> heart.misses]
        BY <1>1 DEF heartbeat_round, TypeOK
      <4>2. ~stop => heart' = [pc |-> "writing", age |-> 0, misses |-> heart.misses]
        BY <1>1 DEF heartbeat_round, TypeOK
      <4>. QED  BY <4>1, <4>2 DEF TypeOK
    <3>. QED  BY <1>1, <3>1, ConstantTypes DEF heartbeat_round, TypeOK
  <2>4. PhaseInv'
    BY <1>1 DEF heartbeat_round, TypeOK, PhaseInv, Ended
  <2>2. AgeInv'
    BY <1>1, ConstantTypes DEF heartbeat_round, TypeOK, AgeInv
  <2>3. SeenInv'
    BY <1>1 DEF heartbeat_round, TypeOK, AgeInv, SeenInv
  <2>. QED  BY <2>1, <2>2, <2>3, <2>4
<1>2. CASE record_worker_heartbeat
  <2>. heart.pc = "writing" /\ heart.age \in Nat /\ heart.age <= MaxWrite
       /\ heart.misses \in 0 .. MaxMisses
    BY <1>2 DEF record_worker_heartbeat, TypeOK, AgeInv
  <2>. /\ Round \in Nat /\ heart.misses * Round \in Nat
       /\ (heart.misses + 1) * Round = heart.misses * Round + Round
       /\ heart.misses * Round + Round + MaxWrite <= ACTIVE_WORKER_THRESHOLD_SECONDS
    BY Rounds
  <2>1. PhaseInv' /\ AgeInv'
    BY <1>2, ConstantTypes DEF record_worker_heartbeat, PhaseInv, AgeInv, Ended
  <2>2. CASE seen' = heart.age /\ heart' = [pc |-> "waiting", age |-> 0, misses |-> 0]
    <3>1. TypeOK'
      BY <1>2, <2>2, ConstantTypes DEF record_worker_heartbeat, TypeOK, NoRow
    <3>2. SeenInv'
      BY <2>2, ConstantTypes DEF SeenInv
    <3>. QED  BY <2>1, <3>1, <3>2
  <2>3. CASE /\ heart.misses < MaxMisses /\ UNCHANGED seen
             /\ heart' = [pc |-> "waiting", age |-> 0, misses |-> heart.misses + 1]
    <3>1. TypeOK'
      BY <1>2, <2>3, ConstantTypes DEF record_worker_heartbeat, TypeOK
    <3>2. SeenInv'
      <4>. SUFFICES ASSUME heart'.pc \in {"round", "writing", "waiting"}, seen' # NoRow
                    PROVE  seen' <= MaxWrite + heart'.misses * Round + heart'.age
                             + (IF heart'.pc = "waiting" THEN 0 ELSE HEARTBEAT_INTERVAL_SECONDS)
        BY DEF SeenInv
      <4>1. seen <= MaxWrite + heart.misses * Round + heart.age + HEARTBEAT_INTERVAL_SECONDS
        BY <2>3 DEF SeenInv
      <4>2. heart'.misses * Round = heart.misses * Round + HEARTBEAT_INTERVAL_SECONDS + MaxWrite
        BY <2>3, ConstantTypes DEF Round
      <4>. QED  BY <4>1, <4>2, <2>3, ConstantTypes DEF TypeOK, NoRow
    <3>. QED  BY <2>1, <3>1, <3>2
  <2>. QED  BY <1>2, <2>2, <2>3 DEF record_worker_heartbeat
<1>3. CASE heartbeat_wait
  <2>1. TypeOK'
    <3>1. heart' = [pc |-> "round", age |-> 0, misses |-> heart.misses]
          /\ heart.misses \in 0 .. MaxMisses
      BY <1>3 DEF heartbeat_wait, TypeOK
    <3>. QED  BY <1>3, <3>1, ConstantTypes DEF heartbeat_wait, TypeOK
  <2>3. PhaseInv' /\ AgeInv'
    BY <1>3 DEF heartbeat_wait, TypeOK, PhaseInv, AgeInv, Ended
  <2>2. SeenInv'
    <3>. SUFFICES ASSUME heart'.pc \in {"round", "writing", "waiting"}, seen' # NoRow
                  PROVE  seen' <= MaxWrite + heart'.misses * Round + heart'.age
                           + (IF heart'.pc = "waiting" THEN 0 ELSE HEARTBEAT_INTERVAL_SECONDS)
      BY DEF SeenInv
    <3>1. /\ heart.age <= HEARTBEAT_INTERVAL_SECONDS /\ heart.age \in Nat
          /\ heart.misses \in 0 .. MaxMisses /\ heart.pc = "waiting"
      BY <1>3 DEF heartbeat_wait, TypeOK, AgeInv
    <3>2. heart'.misses = heart.misses /\ heart'.age = 0 /\ heart'.pc = "round" /\ seen' = seen
      BY <1>3 DEF heartbeat_wait, TypeOK
    <3>3. heart.misses * Round \in Nat
      BY <3>1, Rounds
    <3>4. seen <= MaxWrite + heart.misses * Round + heart.age + 0 /\ seen \in Int
      BY <3>1, <3>2 DEF SeenInv, TypeOK, NoRow
    <3>. QED  BY <3>1, <3>2, <3>3, <3>4, ConstantTypes
  <2>. QED  BY <2>1, <2>2, <2>3
<1>. QED  BY <1>1, <1>2, <1>3

\* The steps of the poll loop.
LEMMA PollStep ==
  ASSUME WorkerInv, poll_round \/ claim_and_process_one_task \/ poll_wait
  PROVE  WorkerInv'
<1>. USE DEF WorkerInv
<1>1. UNCHANGED <<main, stop, pool, heart, seen>>
  BY DEF poll_round, claim_and_process_one_task, poll_wait
<1>2. poll' \in [pc : {"off", "round", "working", "sleeping", "done"}, age : Nat,
                 idle_delay : TASK_POLL_INITIAL_IDLE_SECONDS .. TASK_POLL_MAX_IDLE_SECONDS]
  <2>1. CASE poll_round
    BY <2>1 DEF poll_round, TypeOK
  <2>2. CASE claim_and_process_one_task
    <3>1. CASE poll' = [poll EXCEPT !.pc = "sleeping", !.age = 0]
      BY <3>1 DEF TypeOK
    <3>2. CASE poll' # [poll EXCEPT !.pc = "sleeping", !.age = 0]
      BY <2>2, <3>2, ConstantTypes DEF claim_and_process_one_task
    <3>. QED  BY <3>1, <3>2
  <2>3. CASE poll_wait
    <3>1. poll.idle_delay \in TASK_POLL_INITIAL_IDLE_SECONDS .. TASK_POLL_MAX_IDLE_SECONDS
      BY DEF TypeOK
    <3>2. (IF 2 * poll.idle_delay > TASK_POLL_MAX_IDLE_SECONDS
             THEN TASK_POLL_MAX_IDLE_SECONDS ELSE 2 * poll.idle_delay)
            \in TASK_POLL_INITIAL_IDLE_SECONDS .. TASK_POLL_MAX_IDLE_SECONDS
      BY <3>1, ConstantTypes
    <3>3. CASE poll' = [poll EXCEPT !.pc = "round"]
      BY <3>3 DEF TypeOK
    <3>4. CASE poll' # [poll EXCEPT !.pc = "round"]
      BY <2>3, <3>2, <3>4 DEF poll_wait
    <3>. QED  BY <3>3, <3>4
  <2>. QED  BY <2>1, <2>2, <2>3
<1>3. TypeOK'
  BY <1>1, <1>2 DEF TypeOK
<1>4. PhaseInv'
  BY <1>1 DEF PhaseInv, Ended, poll_round, claim_and_process_one_task, poll_wait
<1>5. AgeInv' /\ SeenInv'
  BY <1>1 DEF AgeInv, SeenInv
<1>. QED  BY <1>3, <1>4, <1>5

\* A second passes: a loop that is not over its limit gets older with the row.
LEMMA TickStep == ASSUME WorkerInv, tick PROVE WorkerInv'
<1>. USE DEF WorkerInv
<1>1. UNCHANGED <<main, stop, pool>> /\ heart'.pc = heart.pc /\ poll'.pc = poll.pc
      /\ heart'.misses = heart.misses
  BY DEF tick, Older, TypeOK
<1>2. heart.pc \in {"writing", "waiting"} =>
        /\ heart.age < (IF heart.pc = "writing" THEN MaxWrite ELSE HEARTBEAT_INTERVAL_SECONDS)
        /\ heart'.age = heart.age + 1
  BY ConstantTypes DEF tick, Limit, Older, Ended, TypeOK
<1>3. heart.pc # "round"
  BY DEF tick, Limit, Ended, TypeOK
<1>4. heart.pc \in {"off", "done"} => heart' = heart
  BY DEF tick, Older, Ended
<1>5. AgeInv'
  BY <1>1, <1>2, <1>3, ConstantTypes DEF AgeInv, TypeOK
<1>6. TypeOK'
  <2>1. heart' \in [pc : {"off", "round", "writing", "waiting", "done"},
                    age : Nat, misses : 0 .. MaxMisses]
        /\ heart'.age <= HEARTBEAT_INTERVAL_SECONDS + MaxWrite
    <3>1. heart' = heart \/ heart' = [heart EXCEPT !.age = heart.age + 1]
      BY DEF tick, Older
    <3>. QED  BY <1>2, <1>3, <1>4, <3>1, ConstantTypes DEF TypeOK
  <2>2. poll' \in [pc : {"off", "round", "working", "sleeping", "done"}, age : Nat,
                   idle_delay : TASK_POLL_INITIAL_IDLE_SECONDS .. TASK_POLL_MAX_IDLE_SECONDS]
    BY DEF tick, Older, TypeOK
  <2>3. seen' \in NoRow .. ACTIVE_WORKER_THRESHOLD_SECONDS + 1
    BY ConstantTypes DEF tick, TypeOK, NoRow
  <2>. QED  BY <1>1, <2>1, <2>2, <2>3 DEF TypeOK
<1>7. PhaseInv'
  BY <1>1, <1>4 DEF PhaseInv, Ended, tick
<1>8. SeenInv'
  <2>. SUFFICES ASSUME heart'.pc \in {"round", "writing", "waiting"}, seen' # NoRow
                PROVE  seen' <= MaxWrite + heart'.misses * Round + heart'.age
                         + (IF heart'.pc = "waiting" THEN 0 ELSE HEARTBEAT_INTERVAL_SECONDS)
    BY DEF SeenInv
  <2>1. seen # NoRow /\ seen \in Int /\ seen' <= seen + 1 /\ seen' \in Int
    BY ConstantTypes DEF tick, TypeOK, NoRow
  <2>2. heart'.age = heart.age + 1 /\ heart.age \in Nat
    BY <1>1, <1>2, <1>3 DEF TypeOK
  <2>3. heart.misses * Round \in Nat
    BY Rounds DEF TypeOK
  <2>4. seen <= MaxWrite + heart.misses * Round + heart.age
                  + (IF heart.pc = "waiting" THEN 0 ELSE HEARTBEAT_INTERVAL_SECONDS)
    BY <1>1, <2>1 DEF SeenInv
  <2>. QED  BY <1>1, <2>1, <2>2, <2>3, <2>4, ConstantTypes
<1>. QED  BY <1>5, <1>6, <1>7, <1>8

LEMMA WorkerStep == WorkerInv /\ [Next]_vars => WorkerInv'
<1>. SUFFICES ASSUME WorkerInv, [Next]_vars PROVE WorkerInv'
  OBVIOUS
<1>1. CASE UNCHANGED vars
  BY <1>1 DEF vars, WorkerInv, TypeOK, PhaseInv, AgeInv, SeenInv, Ended
<1>2. CASE Next
  BY <1>2, MainStep, HeartStep, PollStep, TickStep DEF Next, Step
<1>. QED  BY <1>1, <1>2

\* The three coroutines of the process stay in step, and the row is as old as the
\* rounds since its last write.
THEOREM WorkerInvariant == Spec => []WorkerInv
  BY WorkerInit, WorkerStep, PTL DEF Spec

--------------------------------------------------------------------------------
\* The process keeps its types, the heartbeat loop its timing and the poll loop its
\* bounded backoff (run_task_poll_loop, run_heartbeat_loop).
THEOREM WorkerTypes == Spec => []TypeOK
<1>1. WorkerInv => TypeOK
  BY DEF WorkerInv
<1>. QED  BY <1>1, WorkerInvariant, PTL

\* run_worker closes the pool after both loops have ended and in no other case, so
\* no thread works in the database without it.
THEOREM PoolIsOpenForWork == Spec => []PoolOutlivesWork
<1>1. WorkerInv => PoolOutlivesWork
  BY DEF WorkerInv, PhaseInv, PoolOutlivesWork, Ended
<1>. QED  BY <1>1, WorkerInvariant, PTL

\* The window of _load_worker_overview is wide enough for every heartbeat interval
\* and every number of lost heartbeats for which WorkerAssumption holds.
THEOREM LiveWorkersAreCounted == Spec => []LiveWorkerIsActive
<1>1. WorkerInv => LiveWorkerIsActive
  <2>. SUFFICES ASSUME WorkerInv, main = "running", ~stop, seen # NoRow
                PROVE  seen <= ACTIVE_WORKER_THRESHOLD_SECONDS
    BY DEF LiveWorkerIsActive
  <2>1. heart.pc \in {"round", "writing", "waiting"} /\ heart.misses \in 0 .. MaxMisses
        /\ heart.age \in Nat /\ seen \in Int
    BY DEF WorkerInv, TypeOK, PhaseInv, NoRow
  <2>2. /\ heart.misses * Round \in Nat /\ Round = HEARTBEAT_INTERVAL_SECONDS + MaxWrite
        /\ heart.misses * Round + Round + MaxWrite <= ACTIVE_WORKER_THRESHOLD_SECONDS
    BY <2>1, Rounds DEF Round
  <2>3. heart.age + (IF heart.pc = "waiting" THEN 0 ELSE HEARTBEAT_INTERVAL_SECONDS)
          <= HEARTBEAT_INTERVAL_SECONDS + MaxWrite
    BY <2>1, ConstantTypes DEF WorkerInv, AgeInv
  <2>4. seen <= MaxWrite + heart.misses * Round + heart.age
                  + (IF heart.pc = "waiting" THEN 0 ELSE HEARTBEAT_INTERVAL_SECONDS)
    BY <2>1 DEF WorkerInv, SeenInv
  <2>. QED  BY <2>1, <2>2, <2>3, <2>4, ConstantTypes
<1>. QED  BY <1>1, WorkerInvariant, PTL
================================================================================
