------------------------------ MODULE TrailProofs ------------------------------
(***************************************************************************)
(* Proofs about the audit trail of OrderPipeline, and about the Dashboard  *)
(* that reads it: the events of an order tell its history, no step is      *)
(* recorded before the downstream service had its time, every poll finds   *)
(* its inputs, and the responses put together from several statements are  *)
(* covered by the work and the events behind them.                         *)
(***************************************************************************)
EXTENDS Dashboard, PipelineProofs, FiniteSetTheorems

\* The transitions of a trail: its moves but a cancellation.
Transitions(trail) == {j \in Moves(trail) : trail[j].event_type = "state_transition"}

\* A trail begins with the creation of its order, which it records once.
Opening(trail) ==
  /\ trail # <<>>
  /\ trail[1].event_type = "order_created"
  /\ \A i \in DOMAIN trail : trail[i].event_type = "order_created" => i = 1

\* The k-th move, if a transition, is the one task k stands for, and that task
\* is done.
StageMove(trail, rows, j) ==
  \E k \in 1 .. 5 :
    /\ k = Rank(trail, j)
    /\ trail[j].task_ids = {k}
    /\ trail[j].from_state = STAGES[k]
    /\ trail[j].to_state = ORDER_TRANSITIONS[STAGES[k]]
    /\ k \in DOMAIN rows /\ rows[k].status = "completed"

\* The moves of a trail, each with the one before it and with the rows.
Chained(trail, rows) ==
  /\ \A j \in Moves(trail) : \A i \in Before(trail, j) :
       trail[j].from_state = reached(trail, i)
  /\ \A j \in Moves(trail) :
       trail[j].event_type = "order_cancelled" =>
         trail[j].to_state = "cancelled" /\ trail[j].task_ids = {}
  /\ \A j \in Transitions(trail) : StageMove(trail, rows, j)
  /\ \A i, j \in Transitions(trail) : trail[i].task_ids = trail[j].task_ids => i = j
  /\ \A k \in 2 .. Len(rows) : \E j \in Transitions(trail) : trail[j].task_ids = {k - 1}

\* The trail, the order row and the task rows of a placed order agree.
Trail(trail, rows, order) ==
  /\ Opening(trail)
  /\ order.version = Cardinality(Moves(trail))
  /\ Latest(Steps(trail)) # {}
  /\ \A i \in Latest(Steps(trail)) : order.state = reached(trail, i)
  /\ Chained(trail, rows)
  /\ order.state \in DOMAIN ORDER_TRANSITIONS => Len(rows) = order.version + 1

\* Poll tasks have deadlines.
Polls(rows) ==
  \A i \in DOMAIN rows : rows[i].task_type \in POLL_TASK_TYPES => rows[i].deadline_at # NoTime

\* StageDelayRespected for one order.
Delays(o, trail, rows) ==
  \A j \in Moves(trail) : \A i \in Before(trail, j) : \A t \in trail[j].task_ids :
    trail[j].occurred_at >= trail[i].occurred_at + Delay[o][spec_of(rows[t]).service]

\* A call under way sends the date of the order's last step along, and success
\* is answered only when the service has had its time since then.
Timely(w) ==
  /\ Task(w).status = "running"
  /\ Task(w).locked_by = w
  => LET trail == events[worker[w].order] IN
     \A i \in Latest(Steps(trail)) :
       /\ worker[w].phase = "calling" =>
            worker[w].source_started_at = trail[i].occurred_at
       /\ worker[w].phase = "answered" /\ worker[w].outcome = "success" =>
            worker[w].answered_at >=
              trail[i].occurred_at + Delay[worker[w].order][SpecOf(w).service]

OrderTold(o) ==
  /\ IF orders[o].state = Absent
       THEN events[o] = <<>> /\ orders[o].version = 0
       ELSE Trail(events[o], tasks[o], orders[o])
  /\ Polls(tasks[o])
  /\ Len(tasks[o]) = 5 => orders[o].courier_ref
  /\ Delays(o, events[o], tasks[o])

\* The inductive invariant, on top of Inv.
TrailInv ==
  /\ \A o \in Orders : OrderTold(o)
  /\ \A w \in Workers : worker[w].phase \in {"calling", "answered"} => Timely(w)

--------------------------------------------------------------------------------
\* Trails.

\* The positions of a trail are numbers, and only finitely many.
LEMMA TrailPositions ==
  ASSUME NEW E \in Seq(EventRow)
  PROVE  /\ DOMAIN E = 1 .. Len(E) /\ Len(E) \in Nat
         /\ Moves(E) \subseteq 1 .. Len(E)
         /\ IsFiniteSet(Moves(E))
         /\ E # <<>> => Steps(E) \subseteq 1 .. Len(E)
  <1>1. DOMAIN E = 1 .. Len(E) /\ Len(E) \in Nat
    BY LenProperties
  <1>2. Moves(E) \subseteq 1 .. Len(E)
    BY <1>1 DEF Moves
  <1>3. IsFiniteSet(Moves(E))
    <2>1. IsFiniteSet(1 .. Len(E))
      BY <1>1, FS_Interval
    <2> QED BY <1>2, <2>1, FS_Subset
  <1>4. E # <<>> => Len(E) # 0
    BY EmptySeq
  <1>5. E # <<>> => Steps(E) \subseteq 1 .. Len(E)
    BY <1>1, <1>2, <1>4 DEF Steps
  <1> QED BY <1>1, <1>2, <1>3, <1>5

\* What one more event does to a trail: the steps there were keep their place,
\* their predecessor and their rank; a move becomes the last step, anything else
\* is none.
Appended(E, e, F) ==
  /\ F \in Seq(EventRow) /\ F # <<>>
  /\ Len(E) \in Nat /\ DOMAIN E = 1 .. Len(E) /\ DOMAIN F = 1 .. Len(E) + 1
  /\ F[Len(E) + 1] = e
  /\ \A j \in DOMAIN E : F[j] = E[j] /\ reached(F, j) = reached(E, j)
  /\ Moves(E) \subseteq DOMAIN E
  /\ Latest(Steps(E)) \subseteq DOMAIN E
  /\ \A j \in Moves(E) : /\ Before(F, j) = Before(E, j)
                         /\ Before(E, j) \subseteq DOMAIN E
                         /\ Rank(F, j) = Rank(E, j)

AppendedOther(E, e, F) == Moves(F) = Moves(E) /\ Steps(F) = Steps(E)

AppendedMove(E, e, F) ==
  /\ Moves(F) = Moves(E) \union {Len(E) + 1}
  /\ Cardinality(Moves(F)) = Cardinality(Moves(E)) + 1
  /\ Before(F, Len(E) + 1) = Latest(Steps(E))
  /\ Rank(F, Len(E) + 1) = Cardinality(Moves(F))
  /\ Latest(Steps(F)) = {Len(E) + 1}
  /\ reached(F, Len(E) + 1) = e.to_state

LEMMA TrailAppend ==
  ASSUME NEW E \in Seq(EventRow), E # <<>>, NEW e \in EventRow,
         NEW F, F = Append(E, e)
  PROVE  /\ Appended(E, e, F)
         /\ IF e.event_type \in {"state_transition", "order_cancelled"}
              THEN AppendedMove(E, e, F) ELSE AppendedOther(E, e, F)
  <1> DEFINE n == Len(E)
             move == e.event_type \in {"state_transition", "order_cancelled"}
  <1>1. /\ n \in Nat /\ DOMAIN E = 1 .. n /\ 1 \in 1 .. n
        /\ Moves(E) \subseteq 1 .. n /\ Steps(E) \subseteq 1 .. n
        /\ IsFiniteSet(Moves(E))
    BY TrailPositions DEF Steps
  <1>2. /\ F \in Seq(EventRow) /\ Len(F) = n + 1
        /\ F[n + 1] = e /\ \A j \in 1 .. n : F[j] = E[j]
    BY AppendProperties
  <1>3. DOMAIN F = 1 .. n + 1 /\ F # <<>>
    BY <1>1, <1>2, LenProperties, EmptySeq
  <1> HIDE DEF n
  <1>4. ~move => Moves(F) = Moves(E)
    BY <1>1, <1>2, <1>3 DEF Moves
  <1>5. move => Moves(F) = Moves(E) \union {n + 1}
    BY <1>1, <1>2, <1>3 DEF Moves
  <1> HIDE DEF move
  <1>6. \A j \in 1 .. n : {i \in Moves(F) : i <= j} = {i \in Moves(E) : i <= j}
    BY <1>1, <1>4, <1>5
  <1>7. \A j \in 1 .. n : {i \in Steps(F) : i < j} = {i \in Steps(E) : i < j}
    BY <1>1, <1>4, <1>5 DEF Steps
  <1>8. \A j \in 1 .. n : Before(F, j) = Before(E, j) /\ Rank(F, j) = Rank(E, j)
    BY <1>6, <1>7 DEF Before, Rank
  <1>9. \A j : Before(E, j) \subseteq 1 .. n
    BY <1>1 DEF Before, Latest
  <1>10. Latest(Steps(E)) \subseteq 1 .. n
    BY <1>1 DEF Latest
  <1>11. ASSUME move
         PROVE  /\ Cardinality(Moves(F)) = Cardinality(Moves(E)) + 1
                /\ Before(F, n + 1) = Latest(Steps(E))
                /\ Rank(F, n + 1) = Cardinality(Moves(F))
                /\ Latest(Steps(F)) = {n + 1}
                /\ reached(F, n + 1) = e.to_state
    <2>1. n + 1 \notin Moves(E) /\ n + 1 # 1
      BY <1>1
    <2>2. Cardinality(Moves(F)) = Cardinality(Moves(E)) + 1
      BY <1>1, <1>5, <1>11, <2>1, FS_AddElement
    <2>3. {i \in Steps(F) : i < n + 1} = Steps(E)
      BY <1>1, <1>5, <1>11 DEF Steps
    <2>4. {i \in Moves(F) : i <= n + 1} = Moves(F)
      BY <1>1, <1>5, <1>11
    <2>5. Latest(Steps(F)) = {n + 1}
      <3>1. Steps(F) = Steps(E) \union {n + 1}
        BY <1>5, <1>11 DEF Steps
      <3>2. \A i \in Steps(E) : i \in Nat /\ i <= n
        BY <1>1
      <3> QED BY <1>1, <3>1, <3>2 DEF Latest
    <2>6. reached(F, n + 1) = e.to_state
      BY <1>2, <2>1 DEF reached
    <2> QED BY <2>2, <2>3, <2>4, <2>5, <2>6 DEF Before, Rank
  <1>12. \A j \in 1 .. n : reached(F, j) = reached(E, j)
    BY <1>2 DEF reached
  <1>13. ~move => Steps(F) = Steps(E)
    BY <1>4 DEF Steps
  <1>14. Appended(E, e, F)
    BY <1>1, <1>2, <1>3, <1>8, <1>9, <1>10, <1>12 DEF n, Appended
  <1>15. move => AppendedMove(E, e, F)
    BY <1>5, <1>11 DEF n, AppendedMove
  <1>16. ~move => AppendedOther(E, e, F)
    BY <1>4, <1>13 DEF AppendedOther
  <1> QED BY <1>14, <1>15, <1>16 DEF move

--------------------------------------------------------------------------------
\* Rows that are rewritten.

\* The row stands for the same task, completed if it was, with a deadline if it
\* had one.
RowKept(r, row) ==
  /\ row.task_type = r.task_type /\ row.target_state = r.target_state
  /\ r.status = "completed" => row.status = "completed"
  /\ r.deadline_at # NoTime => row.deadline_at # NoTime

Rewritten(rows, rows2) ==
  /\ Len(rows2) = Len(rows) /\ DOMAIN rows2 = DOMAIN rows
  /\ \A i \in DOMAIN rows : RowKept(rows[i], rows2[i])

\* Every statement of the workers and the API but the INSERTs leaves the row a
\* row of the same task.
LEMMA RowsKept ==
  ASSUME NEW r \in TaskRow, NEW t \in Nat
  PROVE  /\ \A w \in Workers : claimable(r, t) => RowKept(r, claim(r, w, t))
         /\ \A row : r.status = "running" /\ Returned(r, row) => RowKept(r, row)
         /\ RowKept(r, complete_claimed_task(r))
         /\ RowKept(r, cancel_task(r))
         /\ r.status = "failed" => RowKept(r, retry_failed_task(r, t))
  <1>1. \A w \in Workers : claimable(r, t) => RowKept(r, claim(r, w, t))
    BY DEF RowKept, claim, claimable, TaskRow
  <1>2. \A row : r.status = "running" /\ Returned(r, row) => RowKept(r, row)
    BY DEF RowKept, Returned
  <1>3. RowKept(r, complete_claimed_task(r))
    BY DEF RowKept, complete_claimed_task, TaskRow
  <1>4. RowKept(r, cancel_task(r))
    BY DEF RowKept, cancel_task, TaskRow, ACTIVE_TASK_STATUSES
  <1>5. ASSUME r.status = "failed" PROVE RowKept(r, retry_failed_task(r, t))
    <2>1. retry_deadline_at(r, t) \in Nat
      BY TaskRowsAssumption DEF retry_deadline_at, TaskRow, Times, NoTime
    <2> DEFINE row == retry_failed_task(r, t)
    <2>2. /\ row.task_type = r.task_type /\ row.target_state = r.target_state
          /\ \/ row.deadline_at = retry_deadline_at(r, t)
             \/ row.deadline_at = r.deadline_at
      BY DEF retry_failed_task, TaskRow
    <2> HIDE DEF row
    <2>3. RowKept(r, row)
      BY <1>5, <2>1, <2>2 DEF RowKept, NoTime
    <2> QED BY <2>3 DEF row
  <1> QED BY <1>1, <1>2, <1>3, <1>4, <1>5

\* A rewriting of one row, or of none, of an order.
LEMMA OneRewritten ==
  ASSUME NEW rows \in Seq(TaskRow), NEW rows2 \in Seq(TaskRow), NEW i \in DOMAIN rows,
         Len(rows2) = Len(rows), RowKept(rows[i], rows2[i]),
         \A j \in DOMAIN rows : j # i => rows2[j] = rows[j]
  PROVE  Rewritten(rows, rows2)
  BY LenProperties DEF Rewritten, RowKept

LEMMA NoneRewritten == ASSUME NEW rows PROVE Rewritten(rows, rows)
  BY DEF Rewritten, RowKept

--------------------------------------------------------------------------------
\* The steps of Next, by what they do to one order.

\* Nothing but a rewriting of its rows.
Kept(o) ==
  /\ orders'[o] = orders[o]
  /\ events'[o] = events[o]
  /\ Rewritten(tasks[o], tasks'[o])

Placed(o) ==
  /\ orders[o].state = Absent
  /\ orders'[o].state = "placed"
  /\ orders'[o].version = orders[o].version
  /\ \E at \in Nat :
       /\ events'[o] = <<event("order_created", Absent, Absent, {}, at)>>
       /\ tasks'[o] = <<new_task("advance_state", "confirmed", at, NoTime, at)>>

Cancelled(o) ==
  /\ orders[o].state \in DOMAIN ORDER_TRANSITIONS
  /\ orders'[o].state = "cancelled"
  /\ orders'[o].version = orders[o].version + 1
  /\ orders'[o].courier_ref = orders[o].courier_ref
  /\ \E at \in Nat : events'[o] =
       Append(events[o], event("order_cancelled", orders[o].state, "cancelled", {}, at))
  /\ Rewritten(tasks[o], tasks'[o])

Retried(o) ==
  /\ orders[o].state # Absent
  /\ orders'[o] = orders[o]
  /\ \E ids \in SUBSET (Nat \ {0}), at \in Nat : events'[o] =
       Append(events[o], event("retry_scheduled", Absent, Absent, ids, at))
  /\ Rewritten(tasks[o], tasks'[o])

\* A worker that calls a service moves the order on to stage k + 1.
Advanced(o, w, k) ==
  /\ worker[w].order = o /\ worker[w].task = k
  /\ worker[w].phase = "answered" /\ worker[w].outcome = "success"
  /\ owned_task_check_result(w)
  /\ k \in 1 .. 5 /\ k = Len(tasks[o])
  /\ orders[o].state = STAGES[k]
  /\ orders'[o].state = ORDER_TRANSITIONS[STAGES[k]]
  /\ orders'[o].version = orders[o].version + 1
  /\ orders[o].courier_ref \/ k = 4 => orders'[o].courier_ref
  /\ \E at \in Nat :
       /\ worker[w].answered_at <= at
       /\ events'[o] = Append(events[o],
            event("state_transition", STAGES[k], ORDER_TRANSITIONS[STAGES[k]], {k}, at))
  /\ \A i \in 1 .. k : RowKept(tasks[o][i], tasks'[o][i])
  /\ tasks'[o][k].status = "completed"
  /\ Len(tasks'[o]) = IF k < 5 THEN k + 1 ELSE k
  /\ k < 5 => /\ tasks'[o][k + 1].task_type \in POLL_TASK_TYPES =>
                   tasks'[o][k + 1].deadline_at # NoTime
              /\ tasks'[o][k + 1].status = "pending"

\* An order that no event, no move and no row of a step is about.
LEMMA KeptByRows ==
  ASSUME Inv, UNCHANGED <<orders, events>>, tasks' \in [Orders -> Seq(TaskRow)],
         NEW p \in Orders, NEW i \in DOMAIN tasks[p],
         \A q \in Orders : Len(tasks'[q]) = Len(tasks[q]),
         RowKept(tasks[p][i], tasks'[p][i]),
         \A q \in Orders : \A j \in DOMAIN tasks[q] :
           <<q, j>> # <<p, i>> => tasks'[q][j] = tasks[q][j],
         NEW o \in Orders
  PROVE  Kept(o)
  <1>1. tasks[o] \in Seq(TaskRow) /\ tasks'[o] \in Seq(TaskRow) /\ Len(tasks'[o]) = Len(tasks[o])
    BY DEF Inv, TypeInv, TablesOK
  <1>2. Rewritten(tasks[o], tasks'[o])
    <2>1. CASE o = p
      BY <1>1, <2>1, OneRewritten
    <2>2. CASE o # p
      BY <1>1, <2>2, LenProperties DEF Rewritten, RowKept
    <2> QED BY <2>1, <2>2
  <1> QED BY <1>2 DEF Kept

\* Claims, calls and settlements keep every order.
LEMMA WorkerKeeps ==
  ASSUME Inv, NEW w \in Workers, claim_one_task(w) \/ QuietStep(w) \/ SettleStep(w),
         NEW o \in Orders
  PROVE  Kept(o)
  <1>0. TablesOK /\ WorkerOK /\ now \in Nat
    BY DEF Inv, TypeInv, TablesOK
  <1>1. CASE claim_one_task(w)
    <2>1. PICK p \in Orders : \E i \in DOMAIN tasks[p] :
            /\ claimable(tasks[p][i], now)
            /\ tasks' = [tasks EXCEPT ![p][i] = claim(@, w, now)]
      BY <1>1 DEF claim_one_task
    <2>2. PICK i \in DOMAIN tasks[p] :
            /\ claimable(tasks[p][i], now)
            /\ tasks' = [tasks EXCEPT ![p][i] = claim(@, w, now)]
      BY <2>1
    <2>3. /\ tasks[p][i] \in TaskRow
          /\ tasks' \in [Orders -> Seq(TaskRow)]
          /\ \A q \in Orders : Len(tasks'[q]) = Len(tasks[q])
          /\ tasks'[p][i] = claim(tasks[p][i], w, now)
          /\ \A q \in Orders : \A j \in DOMAIN tasks[q] :
               <<q, j>> # <<p, i>> => tasks'[q][j] = tasks[q][j]
      BY <1>0, <2>2, ClaimRows
    <2>4. RowKept(tasks[p][i], tasks'[p][i])
      BY <1>0, <2>2, <2>3, RowsKept
    <2>5. UNCHANGED <<orders, events>>
      BY <1>1 DEF claim_one_task
    <2> QED BY <2>3, <2>4, <2>5, KeptByRows
  <1>2. CASE QuietStep(w)
    BY <1>2, NoneRewritten DEF QuietStep, Kept
  <1>3. CASE SettleStep(w)
    <2>1. PICK row \in TaskRow :
            /\ WriteTask(w, row)
            /\ Returned(Task(w), row) \/ row = complete_claimed_task(Task(w))
      BY <1>3 DEF SettleStep
    <2>2. /\ worker[w].phase \in Busy /\ Task(w).status = "running"
          /\ UNCHANGED <<orders, events>>
      BY <1>3 DEF SettleStep, owned_task_check_result
    <2>3. /\ Task(w) \in TaskRow
          /\ worker[w].order \in Orders
          /\ worker[w].task \in DOMAIN tasks[worker[w].order]
      BY <1>0, <2>2, OwnRow
    <2>4. RowKept(tasks[worker[w].order][worker[w].task], row)
      BY <1>0, <2>1, <2>2, <2>3, RowsKept DEF Task
    <2>5. /\ tasks' \in [Orders -> Seq(TaskRow)]
          /\ \A q \in Orders : Len(tasks'[q]) = Len(tasks[q])
          /\ tasks'[worker[w].order][worker[w].task] = row
          /\ \A q \in Orders : \A j \in DOMAIN tasks[q] :
               <<q, j>> # <<worker[w].order, worker[w].task>> => tasks'[q][j] = tasks[q][j]
      BY <1>0, <2>1, <2>2, WroteTask
    <2> DEFINE p == worker[w].order
               i == worker[w].task
    <2>6. /\ p \in Orders /\ i \in DOMAIN tasks[p]
          /\ RowKept(tasks[p][i], tasks'[p][i])
          /\ \A q \in Orders : \A j \in DOMAIN tasks[q] :
               <<q, j>> # <<p, i>> => tasks'[q][j] = tasks[q][j]
      BY <2>3, <2>4, <2>5
    <2> HIDE DEF p, i
    <2> QED BY <2>2, <2>5, <2>6, KeptByRows
  <1> QED BY <1>1, <1>2, <1>3

\* finalize_transition_task moves its order and keeps the others.
LEMMA AdvanceMoves ==
  ASSUME Inv, NEW w \in Workers, AdvanceStep(w)
  PROVE  /\ worker[w].order \in Orders
         /\ Advanced(worker[w].order, w, worker[w].task)
         /\ \A p \in Orders : p # worker[w].order => Kept(p)
  <1> DEFINE o == worker[w].order
             k == worker[w].task
             n == Len(tasks[o])
             spec == SpecOf(w)
  <1>0. TablesOK /\ WorkerOK /\ now \in Nat /\ TypeInv /\ QueueInv
    BY DEF Inv, TypeInv, TablesOK
  <1>1. /\ worker[w].phase \in Busy
        /\ worker[w].phase = "answered" /\ worker[w].outcome = "success"
        /\ owned_task_check_result(w)
        /\ handler(Task(w)) # "unsupported" /\ in_source_state(w)
    BY DEF AdvanceStep
  <1>2. /\ Task(w) \in TaskRow /\ o \in Orders /\ k \in DOMAIN tasks[o]
        /\ Task(w) = tasks[o][k] /\ Order(w) = orders[o]
        /\ orders \in [Orders -> OrderRow] /\ orders[o] \in OrderRow
        /\ events \in [Orders -> Seq(EventRow)]
    BY <1>0, <1>1, OwnRow DEF Task, Order, TablesOK
  <1>3. /\ k = n /\ k \in 1 .. 5
        /\ orders[o].state = STAGES[k]
        /\ orders'[o].state = ORDER_TRANSITIONS[STAGES[k]]
        /\ \A p \in Orders : p # o => tasks'[p] = tasks[p] /\ orders'[p] = orders[p]
        /\ tasks'[o][k].status = "completed"
        /\ k < 5 => /\ Len(tasks'[o]) = k + 1
                    /\ tasks'[o][k + 1].status = "pending"
        /\ k = 5 => Len(tasks'[o]) = k
    BY <1>0, QueueAdvance
  <1>4. /\ tasks'[o][k] = complete_claimed_task(Task(w))
        /\ \A j \in DOMAIN tasks[o] : j # k => tasks'[o][j] = tasks[o][j]
        /\ Len(tasks'[o]) = n + 1 =>
             (tasks'[o][n + 1].task_type \in POLL_TASK_TYPES =>
                tasks'[o][n + 1].deadline_at # NoTime)
    <2>1. /\ tasks'[o][k] = complete_claimed_task(Task(w))
          /\ \A j \in DOMAIN tasks[o] : j # k => tasks'[o][j] = tasks[o][j]
          /\ \/ Len(tasks'[o]) = n
             \/ /\ Len(tasks'[o]) = n + 1
                /\ tasks'[o][n + 1].task_type \in POLL_TASK_TYPES =>
                     tasks'[o][n + 1].deadline_at # NoTime
      BY <1>0, AdvanceRows
    <2>2. n \in Nat
      BY <1>2, LenProperties DEF TypeInv, TablesOK, Inv
    <2>3. n # n + 1
      BY <2>2
    <2> HIDE DEF o, k, n
    <2> QED BY <2>1, <2>3
  <1>5. /\ spec.source_state = STAGES[k]
        /\ spec.target_state = ORDER_TRANSITIONS[STAGES[k]]
        /\ k = 4 => spec = COURIER_ASSIGN_SPEC
    <2>1. spec.source_state = orders[o].state
      BY <1>1, <1>2 DEF in_source_state
    <2>2. /\ spec.target_state = ORDER_TRANSITIONS[spec.source_state]
          /\ spec = COURIER_ASSIGN_SPEC <=> spec.source_state = "ready"
      BY <1>1, SpecFacts DEF SpecOf
    <2> HIDE DEF o, k, spec
    <2>3. STAGES[4] = "ready"
      BY DEF STAGES
    <2> QED BY <1>3, <2>1, <2>2, <2>3
  <1>6. PICK at \in Nat :
          /\ worker[w].answered_at <= at
          /\ orders' = [orders EXCEPT
                ![o].state = spec.target_state,
                ![o].version = @ + 1,
                ![o].updated_at = at,
                ![o].courier_ref = @ \/ spec = COURIER_ASSIGN_SPEC]
          /\ events' = [events EXCEPT ![o] = Append(@,
                event("state_transition", spec.source_state, spec.target_state, {k}, at))]
    BY DEF AdvanceStep
  <1> HIDE DEF o, k, n, spec
  <1>7. /\ orders'[o].version = orders[o].version + 1
        /\ orders[o].courier_ref \/ k = 4 => orders'[o].courier_ref
    BY <1>2, <1>5, <1>6 DEF OrderRow
  <1>8. events'[o] = Append(events[o],
          event("state_transition", STAGES[k], ORDER_TRANSITIONS[STAGES[k]], {k}, at))
    BY <1>2, <1>5, <1>6
  <1>9. \A i \in 1 .. k : RowKept(tasks[o][i], tasks'[o][i])
    <2>1. RowKept(tasks[o][k], tasks'[o][k])
      BY <1>0, <1>2, <1>4, RowsKept
    <2>2. DOMAIN tasks[o] = 1 .. k
      BY <1>2, <1>3, LenProperties DEF TablesOK, TypeInv, Inv, n
    <2> QED BY <1>4, <2>1, <2>2 DEF RowKept
  <1>10. \A p \in Orders : p # o => Kept(p)
    BY <1>2, <1>3, <1>6, NoneRewritten DEF Kept
  <1>11. /\ Len(tasks'[o]) = IF k < 5 THEN k + 1 ELSE k
         /\ k < 5 => /\ tasks'[o][k + 1].task_type \in POLL_TASK_TYPES =>
                          tasks'[o][k + 1].deadline_at # NoTime
                     /\ tasks'[o][k + 1].status = "pending"
    BY <1>3, <1>4
  <1>12. k = Len(tasks[o]) /\ worker[w].order = o /\ worker[w].task = k
    BY <1>3 DEF n, o, k
  <1>13. Advanced(o, w, k)
    BY <1>1, <1>3, <1>6, <1>7, <1>8, <1>9, <1>11, <1>12 DEF Advanced
  <1> QED BY <1>2, <1>10, <1>13 DEF o, k

\* The API calls are about one order each.
LEMMA ApiMoves ==
  ASSUME Inv, NEW p \in Orders,
         create_or_get_order(p) \/ cancel_order(p) \/ retry_failed_tasks_for_order(p)
  PROVE  /\ Placed(p) \/ Cancelled(p) \/ Retried(p)
         /\ \A o \in Orders : o # p => Kept(o)
         /\ UNCHANGED worker
  <1>0. /\ TablesOK /\ now \in Nat
        /\ orders \in [Orders -> OrderRow] /\ orders[p] \in OrderRow
        /\ tasks \in [Orders -> Seq(TaskRow)] /\ tasks[p] \in Seq(TaskRow)
        /\ events \in [Orders -> Seq(EventRow)]
        /\ \A i \in DOMAIN tasks[p] : tasks[p][i] \in TaskRow
    BY ElementOfSeq DEF Inv, TypeInv, TablesOK
  <1>1. \A at \in ApiStamps : at \in Nat
    BY <1>0 DEF ApiStamps
  <1>2. UNCHANGED worker
    BY DEF create_or_get_order, cancel_order, retry_failed_tasks_for_order
  <1>3. ASSUME NEW o \in Orders, o # p PROVE Kept(o)
    <2>1. orders'[o] = orders[o] /\ events'[o] = events[o] /\ tasks'[o] = tasks[o]
      BY <1>0, <1>3 DEF create_or_get_order, cancel_order, retry_failed_tasks_for_order
    <2> QED BY <2>1, NoneRewritten DEF Kept
  <1>4. CASE create_or_get_order(p)
    <2>1. PICK at \in ApiStamps :
            /\ orders' = [orders EXCEPT ![p].state = "placed", ![p].updated_at = at]
            /\ events' = [events EXCEPT ![p] =
                 <<event("order_created", Absent, Absent, {}, at)>>]
            /\ tasks' = [tasks EXCEPT ![p] =
                 <<new_task("advance_state", "confirmed", at, NoTime, at)>>]
      BY <1>4 DEF create_or_get_order
    <2>2. /\ events'[p] = <<event("order_created", Absent, Absent, {}, at)>>
          /\ tasks'[p] = <<new_task("advance_state", "confirmed", at, NoTime, at)>>
      BY <1>0, <2>1
    <2>3. orders'[p].state = "placed" /\ orders'[p].version = orders[p].version
      BY <1>0, <2>1 DEF OrderRow
    <2> QED BY <1>1, <1>2, <1>3, <1>4, <2>2, <2>3 DEF create_or_get_order, Placed
  <1>5. CASE cancel_order(p)
    <2>1. PICK at \in ApiStamps :
            /\ orders' = [orders EXCEPT ![p].state = "cancelled",
                                   ![p].version = @ + 1, ![p].updated_at = at]
            /\ tasks' = [tasks EXCEPT ![p] = [i \in DOMAIN @ |-> cancel_task(@[i])]]
            /\ events' = [events EXCEPT ![p] = Append(@,
                 event("order_cancelled", orders[p].state, "cancelled", {}, at))]
      BY <1>5 DEF cancel_order
    <2>2. /\ orders'[p].state = "cancelled"
          /\ orders'[p].version = orders[p].version + 1
          /\ orders'[p].courier_ref = orders[p].courier_ref
      BY <1>0, <2>1 DEF OrderRow
    <2>3. events'[p] = Append(events[p],
            event("order_cancelled", orders[p].state, "cancelled", {}, at))
      BY <1>0, <2>1
    <2>4. /\ tasks'[p] \in Seq(TaskRow) /\ Len(tasks'[p]) = Len(tasks[p])
          /\ \A i \in DOMAIN tasks[p] : tasks'[p][i] = cancel_task(tasks[p][i])
      BY <1>0, <2>1, CancelRows
    <2>5. Rewritten(tasks[p], tasks'[p])
      BY <1>0, <2>4, RowsKept, LenProperties DEF Rewritten
    <2>6. orders[p].state \in DOMAIN ORDER_TRANSITIONS
      BY <1>0, <1>5 DEF cancel_order, OrderRow, ORDER_STATES, is_terminal_order_state,
                        TERMINAL_ORDER_STATES, ORDER_TRANSITIONS
    <2> QED BY <1>1, <1>2, <1>3, <2>2, <2>3, <2>5, <2>6 DEF Cancelled
  <1>6. CASE retry_failed_tasks_for_order(p)
    <2> DEFINE failed == {i \in DOMAIN tasks[p] : tasks[p][i].status = "failed"}
    <2>1. PICK at \in ApiStamps :
            /\ tasks' = [tasks EXCEPT ![p] = [i \in DOMAIN @ |->
                 IF i \in failed THEN retry_failed_task(@[i], at) ELSE @[i]]]
            /\ events' = [events EXCEPT ![p] = Append(@,
                 event("retry_scheduled", Absent, Absent, failed, at))]
      BY <1>6 DEF retry_failed_tasks_for_order
    <2>2. failed \in SUBSET (Nat \ {0})
      BY <1>0, LenProperties
    <2>3. /\ tasks'[p] \in Seq(TaskRow) /\ Len(tasks'[p]) = Len(tasks[p])
          /\ \A i \in DOMAIN tasks[p] : tasks'[p][i] =
               IF i \in failed THEN retry_failed_task(tasks[p][i], at) ELSE tasks[p][i]
      BY <1>0, <1>1, <2>1, RetryRows
    <2>4. \A i \in DOMAIN tasks[p] : RowKept(tasks[p][i], tasks'[p][i])
      BY <1>0, <1>1, <2>3, RowsKept DEF RowKept
    <2>5. failed # {}
      BY <1>6 DEF retry_failed_tasks_for_order
    <2>6. orders[p].state # Absent
      <3>1. tasks[p] # <<>>
        BY <2>5
      <3> QED BY <3>1 DEF Inv, TypeInv, Unplaced
    <2> HIDE DEF failed
    <2>7. Rewritten(tasks[p], tasks'[p])
      BY <1>0, <2>3, <2>4, LenProperties DEF Rewritten
    <2>8. events'[p] = Append(events[p],
            event("retry_scheduled", Absent, Absent, failed, at))
      BY <1>0, <2>1
    <2>9. UNCHANGED orders
      BY <1>6 DEF retry_failed_tasks_for_order
    <2> QED BY <1>1, <1>2, <1>3, <2>2, <2>6, <2>7, <2>8, <2>9 DEF Retried
  <1> QED BY <1>2, <1>3, <1>4, <1>5, <1>6

\* Seen from one order, every step is of one of five kinds.
LEMMA OrderSteps ==
  ASSUME Inv, [Next]_vars, NEW o \in Orders
  PROVE  \/ Kept(o) \/ Placed(o) \/ Cancelled(o) \/ Retried(o)
         \/ \E w \in Workers : \E k \in 1 .. 5 : Advanced(o, w, k)
  <1>1. TablesOK /\ WorkerOK
    BY DEF Inv, TypeInv
  <1>2. ASSUME NEW w \in Workers, AdvanceStep(w)
        PROVE  Kept(o) \/ \E k \in 1 .. 5 : Advanced(o, w, k)
    <2>1. CASE o = worker[w].order
      BY <1>2, <2>1, AdvanceMoves DEF Advanced
    <2>2. CASE o # worker[w].order
      BY <1>2, <2>2, AdvanceMoves
    <2> QED BY <2>1, <2>2
  <1>3. OutsideStep => Kept(o)
    BY NoneRewritten DEF OutsideStep, Kept
  <1>4. ASSUME NEW p \in Orders,
               create_or_get_order(p) \/ cancel_order(p) \/ retry_failed_tasks_for_order(p)
        PROVE  Kept(o) \/ Placed(o) \/ Cancelled(o) \/ Retried(o)
    BY <1>4, ApiMoves
  <1> QED BY <1>1, <1>2, <1>3, <1>4, StepKinds, WorkerKeeps

--------------------------------------------------------------------------------
\* What each kind of step does to a trail.

\* Every move is a transition or a cancellation, and the tasks it names are
\* completed rows.
LEMMA MoveKinds ==
  ASSUME NEW E, NEW T, Chained(E, T), NEW j \in Moves(E)
  PROVE  /\ j \in Transitions(E) \/ E[j].event_type = "order_cancelled"
         /\ \A t \in E[j].task_ids : t \in DOMAIN T /\ T[t].status = "completed"
  BY DEF Chained, Transitions, Moves, StageMove

\* Rewriting rows disturbs no trail.
LEMMA TrailKept ==
  ASSUME NEW E, NEW T, NEW U, NEW r, Trail(E, T, r), Rewritten(T, U)
  PROVE  Trail(E, U, r)
  <1>1. \A j : StageMove(E, T, j) => StageMove(E, U, j)
    BY DEF StageMove, Rewritten, RowKept
  <1>2. Chained(E, U)
    BY <1>1 DEF Trail, Chained, Rewritten
  <1> QED BY <1>2 DEF Trail, Rewritten

\* Nor the poll rows, nor the delays.
LEMMA PollsKept ==
  ASSUME NEW T, NEW U, Polls(T), Rewritten(T, U)
  PROVE  Polls(U)
  BY DEF Polls, Rewritten, RowKept

LEMMA DelaysKept ==
  ASSUME NEW E, NEW T, NEW U, NEW o, Delays(o, E, T),
         \A j \in Moves(E) : \A t \in E[j].task_ids : RowKept(T[t], U[t])
  PROVE  Delays(o, E, U)
  <1>1. \A j \in Moves(E) : \A t \in E[j].task_ids : spec_of(U[t]) = spec_of(T[t])
    BY SameTask DEF RowKept
  <1> QED BY <1>1 DEF Delays

\* One more event that is no creation leaves the opening.
LEMMA OpeningKept ==
  ASSUME NEW E \in Seq(EventRow), Opening(E), NEW e \in EventRow,
         e.event_type # "order_created"
  PROVE  Opening(Append(E, e))
  <1> DEFINE F == Append(E, e)
  <1>1. /\ E # <<>> /\ F # <<>>
        /\ Len(E) \in Nat /\ DOMAIN E = 1 .. Len(E) /\ DOMAIN F = 1 .. Len(E) + 1
        /\ F[Len(E) + 1] = e
        /\ \A j \in DOMAIN E : F[j] = E[j]
        /\ Latest(Steps(E)) \subseteq DOMAIN E
    <2>1. Appended(E, e, F)
      BY TrailAppend DEF Opening
    <2> QED BY <2>1 DEF Appended, Opening
  <1>2. 1 \in DOMAIN E
    BY <1>1, EmptySeq
  <1> HIDE DEF F
  <1>3. Opening(F)
    BY <1>1, <1>2 DEF Opening
  <1> QED BY <1>3 DEF F

\* The conditions of Chained on one move.
MoveChained(trail, rows, j) ==
  /\ \A i \in Before(trail, j) : trail[j].from_state = reached(trail, i)
  /\ trail[j].event_type = "order_cancelled" =>
       trail[j].to_state = "cancelled" /\ trail[j].task_ids = {}
  /\ j \in Transitions(trail) => StageMove(trail, rows, j)

\* The moves there were stay chained when an event is added.
LEMMA ChainKept ==
  ASSUME NEW E \in Seq(EventRow), E # <<>>, NEW T, NEW U, Chained(E, T),
         NEW e \in EventRow, NEW F, F = Append(E, e),
         \A k \in DOMAIN T : k \in DOMAIN U /\ RowKept(T[k], U[k])
  PROVE  \A j \in Moves(E) : /\ j \in Transitions(E) <=> j \in Transitions(F)
                             /\ MoveChained(F, U, j)
  <1> SUFFICES ASSUME NEW j \in Moves(E)
               PROVE  /\ j \in Transitions(E) <=> j \in Transitions(F)
                      /\ MoveChained(F, U, j)
    OBVIOUS
  <1>1. /\ j \in DOMAIN E /\ F[j] = E[j]
        /\ Before(F, j) = Before(E, j) /\ Before(E, j) \subseteq DOMAIN E
        /\ Rank(F, j) = Rank(E, j)
        /\ \A i \in DOMAIN E : reached(F, i) = reached(E, i)
        /\ DOMAIN E \subseteq DOMAIN F
    <2>1. Appended(E, e, F)
      BY TrailAppend
    <2> QED BY <2>1 DEF Appended
  <1>2. j \in Moves(F)
    BY <1>1 DEF Moves
  <1>3. j \in Transitions(E) <=> j \in Transitions(F)
    BY <1>1, <1>2 DEF Transitions
  <1>4. StageMove(E, T, j) => StageMove(F, U, j)
    BY <1>1 DEF StageMove, RowKept
  <1> QED BY <1>1, <1>3, <1>4 DEF Chained, MoveChained

\* Trail F has the last step of trail E.
SameLast(E, F) ==
  /\ Latest(Steps(F)) = Latest(Steps(E))
  /\ \A i \in Latest(Steps(E)) : F[i] = E[i]

\* An operator retry adds an event that is no move.
LEMMA TrailRetried ==
  ASSUME NEW E \in Seq(EventRow), NEW T, NEW U, NEW r, NEW o,
         Trail(E, T, r), Delays(o, E, T), Rewritten(T, U),
         NEW e \in EventRow, e.event_type = "retry_scheduled",
         NEW F, F = Append(E, e)
  PROVE  Trail(F, U, r) /\ Delays(o, F, U) /\ SameLast(E, F)
  <1>1. Opening(E) /\ Chained(E, T) /\ E # <<>>
    BY DEF Trail, Opening
  <1>2. /\ Moves(F) = Moves(E) /\ Steps(F) = Steps(E)
        /\ Latest(Steps(E)) \subseteq DOMAIN E
        /\ \A j \in DOMAIN E : F[j] = E[j] /\ reached(F, j) = reached(E, j)
        /\ Moves(E) \subseteq DOMAIN E
        /\ \A j \in Moves(E) : Before(F, j) = Before(E, j) /\ Before(E, j) \subseteq DOMAIN E
    <2>1. Appended(E, e, F) /\ AppendedOther(E, e, F)
      BY <1>1, TrailAppend
    <2> QED BY <2>1 DEF Appended, AppendedOther
  <1>3. \A k \in DOMAIN T : k \in DOMAIN U /\ RowKept(T[k], U[k])
    BY DEF Rewritten
  <1>4. Transitions(F) = Transitions(E)
    BY <1>2 DEF Transitions
  <1>5. Chained(F, U)
    <2>1. \A j \in Moves(E) : MoveChained(F, U, j)
      BY <1>1, <1>3, ChainKept
    <2>2. \A j \in Transitions(E) : j \in Moves(E) /\ F[j] = E[j]
      BY <1>2 DEF Transitions
    <2>3. \A i, j \in Transitions(F) : F[i].task_ids = F[j].task_ids => i = j
      BY <1>1, <1>4, <2>2 DEF Chained
    <2>4. \A k \in 2 .. Len(U) : \E j \in Transitions(F) : F[j].task_ids = {k - 1}
      BY <1>1, <1>4, <2>2 DEF Chained, Rewritten
    <2> QED BY <1>2, <1>4, <2>1, <2>2, <2>3, <2>4 DEF Chained, MoveChained
  <1>6. Opening(F)
    BY <1>1, OpeningKept
  <1>7. Trail(F, U, r)
    BY <1>2, <1>5, <1>6 DEF Trail, Rewritten
  <1>8. Delays(o, E, U)
    BY <1>1, <1>3, MoveKinds, DelaysKept
  <1>9. Delays(o, F, U)
    BY <1>2, <1>8 DEF Delays
  <1> QED BY <1>2, <1>7, <1>9 DEF SameLast

\* Event e, the last of trail F, fits trail E and the state of its order: it
\* starts there, and if it is a transition, it is the one of the last task.
Continues(E, T, U, state, e, F) ==
  /\ e \in EventRow /\ F = Append(E, e)
  /\ e.event_type \in {"state_transition", "order_cancelled"}
  /\ e.from_state = state
  /\ e.event_type = "order_cancelled" => e.to_state = "cancelled" /\ e.task_ids = {}
  /\ e.event_type = "state_transition" =>
       /\ StageMove(F, U, Len(E) + 1)
       /\ \A j \in Transitions(E) : E[j].task_ids # e.task_ids
  /\ \A k \in DOMAIN T : k \in DOMAIN U /\ RowKept(T[k], U[k])
  /\ \A k \in 2 .. Len(U) : \/ k \in 2 .. Len(T)
                            \/ e.event_type = "state_transition" /\ e.task_ids = {k - 1}

\* What comes of it.
Continued(E, U, e, F) ==
  /\ Opening(F)
  /\ Chained(F, U)
  /\ Cardinality(Moves(F)) = Cardinality(Moves(E)) + 1
  /\ Latest(Steps(F)) = {Len(E) + 1}
  /\ reached(F, Len(E) + 1) = e.to_state

\* A new move that fits the state of the order continues the chain.
LEMMA ChainContinued ==
  ASSUME NEW E \in Seq(EventRow), NEW T, NEW U, NEW r, Trail(E, T, r),
         NEW e, NEW F, Continues(E, T, U, r.state, e, F)
  PROVE  Continued(E, U, e, F)
  <1>0. /\ e \in EventRow /\ F = Append(E, e)
        /\ e.event_type \in {"state_transition", "order_cancelled"}
        /\ e.from_state = r.state
        /\ e.event_type = "order_cancelled" => e.to_state = "cancelled" /\ e.task_ids = {}
        /\ e.event_type = "state_transition" =>
             /\ StageMove(F, U, Len(E) + 1)
             /\ \A j \in Transitions(E) : E[j].task_ids # e.task_ids
        /\ \A k \in DOMAIN T : k \in DOMAIN U /\ RowKept(T[k], U[k])
        /\ \A k \in 2 .. Len(U) : \/ k \in 2 .. Len(T)
                                  \/ e.event_type = "state_transition" /\ e.task_ids = {k - 1}
    BY DEF Continues
  <1> DEFINE n == Len(E) + 1
  <1>1. Opening(E) /\ Chained(E, T) /\ E # <<>>
    BY DEF Trail, Opening
  <1>2. Appended(E, e, F) /\ AppendedMove(E, e, F)
    BY <1>0, <1>1, TrailAppend
  <1>3. /\ Moves(F) = Moves(E) \union {n} /\ F[n] = e
        /\ Moves(E) \subseteq DOMAIN E /\ n \notin DOMAIN E
        /\ \A j \in DOMAIN E : F[j] = E[j] /\ reached(F, j) = reached(E, j)
        /\ Before(F, n) = Latest(Steps(E)) /\ Latest(Steps(E)) \subseteq DOMAIN E
        /\ Latest(Steps(F)) = {n} /\ reached(F, n) = e.to_state
        /\ Cardinality(Moves(F)) = Cardinality(Moves(E)) + 1
    BY <1>2 DEF Appended, AppendedMove
  <1>4. \A j \in Moves(E) : /\ j \in Transitions(E) <=> j \in Transitions(F)
                            /\ MoveChained(F, U, j)
    BY <1>0, <1>1, ChainKept
  <1>5. /\ Transitions(E) \subseteq Moves(E)
        /\ Transitions(F) \subseteq Moves(F)
        /\ n \in Transitions(F) <=> e.event_type = "state_transition"
    BY <1>3 DEF Transitions
  <1>6. MoveChained(F, U, n)
    <2>1. \A i \in Before(F, n) : F[n].from_state = reached(F, i)
      BY <1>0, <1>3 DEF Trail
    <2> QED BY <1>0, <1>3, <1>5, <2>1 DEF MoveChained
  <1> HIDE DEF n
  <1>7. \A i, j \in Transitions(F) : F[i].task_ids = F[j].task_ids => i = j
    <2>1. \A j \in Transitions(F) : j = n \/ (j \in Transitions(E) /\ F[j] = E[j])
      BY <1>3, <1>4, <1>5
    <2>2. \A i, j \in Transitions(E) : E[i].task_ids = E[j].task_ids => i = j
      BY <1>1 DEF Chained
    <2>3. n \in Transitions(F) => \A j \in Transitions(E) : E[j].task_ids # F[n].task_ids
      BY <1>0, <1>3, <1>5
    <2>4. ASSUME NEW i \in Transitions(F), NEW j \in Transitions(F),
                 F[i].task_ids = F[j].task_ids
          PROVE  i = j
      <3>1. CASE i = n
        BY <2>1, <2>3, <2>4, <3>1
      <3>2. CASE j = n
        BY <2>1, <2>3, <2>4, <3>2
      <3>3. CASE i # n /\ j # n
        BY <2>1, <2>2, <2>4, <3>3
      <3> QED BY <3>1, <3>2, <3>3
    <2> QED BY <2>4
  <1>8. \A k \in 2 .. Len(U) : \E j \in Transitions(F) : F[j].task_ids = {k - 1}
    <2> TAKE k \in 2 .. Len(U)
    <2>1. CASE k \in 2 .. Len(T)
      <3>1. PICK j \in Transitions(E) : E[j].task_ids = {k - 1}
        BY <1>1, <2>1 DEF Chained
      <3> QED BY <1>3, <1>4, <1>5, <3>1
    <2>2. CASE e.event_type = "state_transition" /\ e.task_ids = {k - 1}
      BY <1>3, <1>5, <2>2
    <2> QED BY <1>0, <2>1, <2>2
  <1>9. \A j \in Moves(F) : MoveChained(F, U, j)
    BY <1>3, <1>4, <1>6
  <1>10. Chained(F, U)
    BY <1>5, <1>7, <1>8, <1>9 DEF Chained, MoveChained
  <1>11. Opening(F)
    BY <1>0, <1>1, OpeningKept
  <1> QED BY <1>3, <1>10, <1>11 DEF n, Continued

\* A new move that is late enough keeps the delays.
LEMMA DelaysContinued ==
  ASSUME NEW E \in Seq(EventRow), E # <<>>, NEW T, NEW U, NEW o, Chained(E, T),
         Delays(o, E, T), NEW e \in EventRow, NEW F, F = Append(E, e),
         e.event_type \in {"state_transition", "order_cancelled"},
         \A k \in DOMAIN T : k \in DOMAIN U /\ RowKept(T[k], U[k]),
         \A i \in Latest(Steps(E)) : \A t \in e.task_ids :
           e.occurred_at >= E[i].occurred_at + Delay[o][spec_of(U[t]).service]
  PROVE  Delays(o, F, U)
  <1>1. Appended(E, e, F) /\ AppendedMove(E, e, F)
    BY TrailAppend
  <1>2. Delays(o, E, U)
    BY MoveKinds, DelaysKept
  <1> DEFINE Late(X, j) == \A i \in Before(X, j) : \A t \in X[j].task_ids :
               X[j].occurred_at >= X[i].occurred_at + Delay[o][spec_of(U[t]).service]
  <1>3. ASSUME NEW j \in Moves(E) PROVE Late(F, j)
    <2>1. /\ F[j] = E[j] /\ Before(F, j) = Before(E, j)
          /\ \A i \in Before(E, j) : F[i] = E[i]
      BY <1>1 DEF Appended
    <2>2. Late(E, j)
      BY <1>2 DEF Delays
    <2> QED BY <2>1, <2>2
  <1>4. Late(F, Len(E) + 1)
    <2>1. /\ F[Len(E) + 1] = e /\ Before(F, Len(E) + 1) = Latest(Steps(E))
          /\ \A i \in Latest(Steps(E)) : F[i] = E[i]
      BY <1>1 DEF Appended, AppendedMove
    <2> QED BY <2>1
  <1>5. Moves(F) = Moves(E) \union {Len(E) + 1}
    BY <1>1 DEF AppendedMove
  <1> HIDE DEF Late
  <1>6. \A j \in Moves(F) : Late(F, j)
    BY <1>3, <1>4, <1>5
  <1> QED BY <1>6 DEF Late, Delays

\* A cancellation ends the trail.
LEMMA TrailCancelled ==
  ASSUME NEW E \in Seq(EventRow), NEW T, NEW U, NEW r, NEW s, NEW o, NEW at \in Nat,
         Trail(E, T, r), Delays(o, E, T), Rewritten(T, U),
         r.state \in ORDER_STATES,
         s.state = "cancelled", s.version = r.version + 1,
         NEW F, F = Append(E, event("order_cancelled", r.state, "cancelled", {}, at))
  PROVE  Trail(F, U, s) /\ Delays(o, F, U)
  <1> DEFINE e == event("order_cancelled", r.state, "cancelled", {}, at)
  <1>1. /\ e.event_type = "order_cancelled" /\ e.from_state = r.state
        /\ e.to_state = "cancelled" /\ e.task_ids = {}
    BY DEF event
  <1>2. e \in EventRow
    BY EventType DEF ORDER_EVENT_TYPES, ORDER_STATES
  <1>3. F = Append(E, e)
    OBVIOUS
  <1> HIDE DEF e
  <1>4. /\ \A k \in DOMAIN T : k \in DOMAIN U /\ RowKept(T[k], U[k])
        /\ Len(U) = Len(T)
    BY DEF Rewritten
  <1>5. Continues(E, T, U, r.state, e, F)
    BY <1>1, <1>2, <1>3, <1>4 DEF Continues
  <1>9. Continued(E, U, e, F)
    BY <1>5, ChainContinued
  <1>6. Trail(F, U, s)
    BY <1>1, <1>9 DEF Trail, Continued, ORDER_TRANSITIONS
  <1>7. E # <<>> /\ Chained(E, T)
    BY DEF Trail, Opening
  <1>8. Delays(o, F, U)
    BY <1>1, <1>2, <1>3, <1>4, <1>7, DelaysContinued
  <1> QED BY <1>6, <1>8

--------------------------------------------------------------------------------
\* Every step keeps the history of every order.

\* A step that only rewrites rows.
LEMMA ToldKept ==
  ASSUME Inv, NEW o \in Orders, OrderTold(o), Kept(o)
  PROVE  OrderTold(o)'
  <1>1. /\ orders'[o] = orders[o] /\ events'[o] = events[o]
        /\ Rewritten(tasks[o], tasks'[o])
    BY DEF Kept
  <1>2. Polls(tasks'[o])
    BY <1>1, PollsKept DEF OrderTold
  <1>3. Len(tasks'[o]) = 5 => orders'[o].courier_ref
    BY <1>1 DEF OrderTold, Rewritten
  <1>4. CASE orders[o].state = Absent
    <2>1. events'[o] = <<>> /\ orders'[o].version = 0 /\ orders'[o].state = Absent
      BY <1>1, <1>4 DEF OrderTold
    <2>2. Delays(o, events'[o], tasks'[o])
      BY <2>1 DEF Delays, Moves
    <2> QED BY <1>2, <1>3, <2>1, <2>2 DEF OrderTold
  <1>5. CASE orders[o].state # Absent
    <2>1. Trail(events[o], tasks[o], orders[o]) /\ Delays(o, events[o], tasks[o])
      BY <1>5 DEF OrderTold
    <2>2. Trail(events'[o], tasks'[o], orders'[o])
      BY <1>1, <2>1, TrailKept
    <2>3. \A j \in Moves(events[o]) : \A t \in events[o][j].task_ids :
            RowKept(tasks[o][t], tasks'[o][t])
      BY <1>1, <2>1, MoveKinds DEF Trail, Rewritten
    <2>4. Delays(o, events'[o], tasks'[o])
      BY <1>1, <2>1, <2>3, DelaysKept
    <2> QED BY <1>1, <1>2, <1>3, <1>5, <2>2, <2>4 DEF OrderTold
  <1> QED BY <1>4, <1>5

\* Placing an order opens its trail.
LEMMA ToldPlaced ==
  ASSUME Inv, NEW o \in Orders, OrderTold(o), Placed(o)
  PROVE  OrderTold(o)'
  <1>1. PICK at \in Nat :
          /\ events'[o] = <<event("order_created", Absent, Absent, {}, at)>>
          /\ tasks'[o] = <<new_task("advance_state", "confirmed", at, NoTime, at)>>
    BY DEF Placed
  <1> DEFINE e == event("order_created", Absent, Absent, {}, at)
             row == new_task("advance_state", "confirmed", at, NoTime, at)
  <1>2. e.event_type = "order_created" /\ row.task_type = "advance_state"
    BY DEF event, new_task
  <1>3. events'[o] = <<e>> /\ tasks'[o] = <<row>>
    BY <1>1
  <1> HIDE DEF e, row
  <1>4. /\ orders'[o].state = "placed" /\ orders'[o].version = 0
    BY DEF Placed, OrderTold
  <1>5. Moves(<<e>>) = {} /\ Transitions(<<e>>) = {} /\ Steps(<<e>>) = {1}
    BY <1>2 DEF Moves, Transitions, Steps
  <1>6. Latest(Steps(<<e>>)) = {1} /\ reached(<<e>>, 1) = "placed"
    BY <1>5 DEF Latest, reached
  <1>7. Opening(<<e>>)
    BY <1>2 DEF Opening
  <1>8. Chained(<<e>>, <<row>>)
    <2>1. Len(<<row>>) = 1 /\ 2 .. 1 = {}
      OBVIOUS
    <2> QED BY <1>5, <2>1 DEF Chained
  <1>9. Cardinality({}) = 0
    BY FS_EmptySet
  <1>10. Trail(<<e>>, <<row>>, orders'[o])
    BY <1>4, <1>5, <1>6, <1>7, <1>8, <1>9 DEF Trail
  <1>11. Polls(<<row>>)
    BY <1>2 DEF Polls, POLL_TASK_TYPES
  <1>12. Delays(o, <<e>>, <<row>>)
    BY <1>5 DEF Delays
  <1> QED BY <1>3, <1>4, <1>10, <1>11, <1>12 DEF OrderTold, Absent

\* A cancellation adds its move.
LEMMA ToldCancelled ==
  ASSUME Inv, NEW o \in Orders, OrderTold(o), Cancelled(o)
  PROVE  OrderTold(o)'
  <1>1. /\ events[o] \in Seq(EventRow)
        /\ orders[o].state \in ORDER_STATES /\ orders[o].state # Absent
        /\ orders'[o].state = "cancelled" /\ orders'[o].version = orders[o].version + 1
        /\ orders'[o].courier_ref = orders[o].courier_ref
        /\ Rewritten(tasks[o], tasks'[o])
    BY StageFacts DEF Cancelled, Inv, TypeInv, TablesOK, ORDER_TRANSITIONS, Absent
  <1>2. PICK at \in Nat : events'[o] =
          Append(events[o], event("order_cancelled", orders[o].state, "cancelled", {}, at))
    BY DEF Cancelled
  <1>3. Trail(events[o], tasks[o], orders[o]) /\ Delays(o, events[o], tasks[o])
    BY <1>1 DEF OrderTold
  <1>4. Trail(events'[o], tasks'[o], orders'[o]) /\ Delays(o, events'[o], tasks'[o])
    BY <1>1, <1>2, <1>3, TrailCancelled
  <1>5. Polls(tasks'[o])
    BY <1>1, PollsKept DEF OrderTold
  <1> QED BY <1>1, <1>4, <1>5 DEF OrderTold, Rewritten, Absent

\* An operator retry adds an event that is no step.
LEMMA ToldRetried ==
  ASSUME Inv, NEW o \in Orders, OrderTold(o), Retried(o)
  PROVE  /\ OrderTold(o)'
         /\ SameLast(events[o], events'[o])
  <1>1. /\ events[o] \in Seq(EventRow)
        /\ orders[o].state # Absent /\ orders'[o] = orders[o]
        /\ Rewritten(tasks[o], tasks'[o])
    BY DEF Retried, Inv, TypeInv, TablesOK
  <1>2. PICK ids \in SUBSET (Nat \ {0}), at \in Nat : events'[o] =
          Append(events[o], event("retry_scheduled", Absent, Absent, ids, at))
    BY DEF Retried
  <1> DEFINE e == event("retry_scheduled", Absent, Absent, ids, at)
  <1>3. e \in EventRow /\ e.event_type = "retry_scheduled" /\ events'[o] = Append(events[o], e)
    BY <1>2, EventType DEF ORDER_EVENT_TYPES, event
  <1> HIDE DEF e
  <1>4. Trail(events[o], tasks[o], orders[o]) /\ Delays(o, events[o], tasks[o])
    BY <1>1 DEF OrderTold
  <1>5. /\ Trail(events'[o], tasks'[o], orders[o]) /\ Delays(o, events'[o], tasks'[o])
        /\ SameLast(events[o], events'[o])
    BY <1>1, <1>3, <1>4, TrailRetried
  <1>6. Polls(tasks'[o])
    BY <1>1, PollsKept DEF OrderTold
  <1> QED BY <1>1, <1>5, <1>6 DEF OrderTold, Rewritten

\* A transition adds its move, of the task and at the time that are due.
LEMMA ToldAdvanced ==
  ASSUME Inv, Inv', NEW o \in Orders, OrderTold(o),
         NEW w \in Workers, NEW k \in 1 .. 5, Advanced(o, w, k), Timely(w)
  PROVE  OrderTold(o)'
  <1> DEFINE E == events[o]
             F == events'[o]
             T == tasks[o]
             U == tasks'[o]
             r == orders[o]
             s == orders'[o]
             next == ORDER_TRANSITIONS[STAGES[k]]
  <1>1. /\ E \in Seq(EventRow) /\ T \in Seq(TaskRow) /\ U \in Seq(TaskRow)
        /\ DOMAIN T = 1 .. Len(T) /\ DOMAIN U = 1 .. Len(U) /\ Len(U) \in Nat
        /\ Task(w) = T[k] /\ SpecOf(w) = spec_of(T[k])
    BY LenProperties DEF Inv, TypeInv, TablesOK, Task, SpecOf, Advanced
  <1>2. /\ worker[w].order = o
        /\ worker[w].phase = "answered" /\ worker[w].outcome = "success"
        /\ T[k].status = "running" /\ T[k].locked_by = w
        /\ k = Len(T) /\ r.state = STAGES[k]
        /\ s.state = next /\ s.version = r.version + 1
        /\ r.courier_ref \/ k = 4 => s.courier_ref
        /\ \A i \in 1 .. k : RowKept(T[i], U[i])
        /\ U[k].status = "completed"
        /\ Len(U) = IF k < 5 THEN k + 1 ELSE k
        /\ k < 5 => (U[k + 1].task_type \in POLL_TASK_TYPES => U[k + 1].deadline_at # NoTime)
    BY <1>1 DEF Advanced, owned_task_check_result
  <1>3. PICK at \in Nat :
          /\ worker[w].answered_at <= at
          /\ F = Append(E, event("state_transition", STAGES[k], next, {k}, at))
    BY DEF Advanced
  <1>4. /\ STAGES[k] \in DOMAIN ORDER_TRANSITIONS
        /\ STAGES[k] \in ORDER_STATES /\ STAGES[k] # Absent
        /\ next \in ORDER_STATES /\ next # Absent
        /\ next \in DOMAIN ORDER_TRANSITIONS => k < 5
    <2>1. STAGES[k] \in DOMAIN ORDER_TRANSITIONS
      BY StageFacts
    <2>2. STAGES[k] = "out_for_delivery" <=> k = 5
      BY StageFacts
    <2> QED BY <2>1, <2>2 DEF ORDER_TRANSITIONS, ORDER_STATES, Absent
  <1>5. Trail(E, T, r) /\ Delays(o, E, T) /\ Polls(T) /\ (Len(T) = 5 => r.courier_ref)
    BY <1>2, <1>4 DEF OrderTold
  <1>6. \A i \in Latest(Steps(E)) :
          worker[w].answered_at >= E[i].occurred_at + Delay[o][spec_of(T[k]).service]
    BY <1>1, <1>2 DEF Timely
  <1> DEFINE e == event("state_transition", STAGES[k], next, {k}, at)
  <1>7. /\ e.event_type = "state_transition" /\ e.from_state = STAGES[k]
        /\ e.to_state = next /\ e.task_ids = {k} /\ e.occurred_at = at
        /\ F = Append(E, e)
    BY <1>3 DEF event
  <1>8. e \in EventRow
    <2> HIDE DEF next
    <2>1. {k} \in SUBSET (Nat \ {0})
      OBVIOUS
    <2> QED BY <1>4, <2>1, EventType DEF ORDER_EVENT_TYPES
  <1>a. \A i \in DOMAIN E : E[i].occurred_at \in Nat
    <2>1. \A i \in DOMAIN E : E[i] \in EventRow
      BY <1>1, ElementOfSeq
    <2> QED BY <2>1 DEF EventRow
  <1>b. worker[w].answered_at \in Nat
    BY DEF Inv, TypeInv, WorkerOK, WorkerState
  <1> HIDE DEF E, F, T, U, r, s, next, e
  <1>9. E # <<>> /\ Chained(E, T)
    BY <1>5 DEF Trail, Opening
  <1>10. Appended(E, e, F) /\ AppendedMove(E, e, F)
    BY <1>7, <1>8, <1>1, <1>9, TrailAppend
  <1>11. k = r.version + 1 /\ r.version = Cardinality(Moves(E))
    BY <1>2, <1>4, <1>5 DEF Trail
  <1>12. \A i \in DOMAIN T : i \in DOMAIN U /\ RowKept(T[i], U[i])
    BY <1>1, <1>2
  <1>13. StageMove(F, U, Len(E) + 1)
    <2>1. F[Len(E) + 1] = e /\ Rank(F, Len(E) + 1) = k
      BY <1>10, <1>11 DEF Appended, AppendedMove
    <2>2. k \in DOMAIN U
      BY <1>1, <1>2
    <2> QED BY <1>2, <1>7, <2>1, <2>2 DEF StageMove, next
  <1>14. \A j \in Transitions(E) : E[j].task_ids # e.task_ids
    <2> SUFFICES ASSUME NEW j \in Transitions(E), E[j].task_ids = {k} PROVE FALSE
      BY <1>7
    <2>1. \A t \in E[j].task_ids : T[t].status = "completed"
      BY <1>9, MoveKinds DEF Transitions
    <2> QED BY <1>2, <2>1
  <1>15. \A i \in 2 .. Len(U) : i \in 2 .. Len(T) \/ e.task_ids = {i - 1}
    <2>1. \A i \in 2 .. Len(U) : i \in 2 .. Len(T) \/ i - 1 = k
      BY <1>1, <1>2
    <2> QED BY <1>7, <2>1
  <1>16. Continues(E, T, U, r.state, e, F)
    BY <1>2, <1>7, <1>8, <1>12, <1>13, <1>14, <1>15 DEF Continues
  <1>17. Continued(E, U, e, F)
    BY <1>1, <1>5, <1>16, ChainContinued
  <1>18. Trail(F, U, s)
    <2>1. s.state \in DOMAIN ORDER_TRANSITIONS => Len(U) = s.version + 1
      BY <1>2, <1>4, <1>11
    <2>2. s.version = Cardinality(Moves(F))
      BY <1>2, <1>11, <1>17 DEF Continued
    <2>3. \A i \in Latest(Steps(F)) : s.state = reached(F, i)
      BY <1>2, <1>7, <1>17 DEF Continued
    <2> QED BY <1>17, <2>1, <2>2, <2>3 DEF Trail, Continued
  <1>19. Delays(o, F, U)
    <2>1. spec_of(U[k]) = spec_of(T[k])
      BY <1>2, SameTask DEF RowKept
    <2>2. Delay[o][spec_of(T[k]).service] \in Nat
      <3>1. handler(T[k]) # "unsupported"
        BY <1>1, <1>2 DEF Inv, QueueInv, Line, T
      <3>2. spec_of(T[k]).service \in SIMULATED_SERVICES
        BY <3>1, SpecFacts
      <3> QED BY <3>2, DelayAssumption
    <2>3. \A i \in Latest(Steps(E)) : \A t \in e.task_ids :
            e.occurred_at >= E[i].occurred_at + Delay[o][spec_of(U[t]).service]
      <3> SUFFICES ASSUME NEW i \in Latest(Steps(E))
                   PROVE  at >= E[i].occurred_at + Delay[o][spec_of(T[k]).service]
        BY <1>7, <2>1
      <3>1. E[i].occurred_at \in Nat
        BY <1>10, <1>a DEF Appended
      <3>2. worker[w].answered_at >= E[i].occurred_at + Delay[o][spec_of(T[k]).service]
        BY <1>6
      <3>3. worker[w].answered_at <= at
        BY <1>3
      <3> QED BY <1>b, <2>2, <3>1, <3>2, <3>3
    <2> QED BY <1>1, <1>5, <1>7, <1>8, <1>9, <1>12, <2>3, DelaysContinued
  <1>20. Polls(U)
    <2>1. \A i \in 1 .. k : U[i].task_type \in POLL_TASK_TYPES => U[i].deadline_at # NoTime
      BY <1>1, <1>2, <1>5 DEF Polls, RowKept
    <2>2. \A i \in DOMAIN U : i \in 1 .. k \/ (k < 5 /\ i = k + 1)
      BY <1>1, <1>2
    <2> QED BY <1>2, <2>1, <2>2 DEF Polls
  <1>21. Len(U) = 5 => s.courier_ref
    <2>0. \A m : (m = IF k < 5 THEN k + 1 ELSE k) /\ m = 5 => k = 4 \/ k = 5
      OBVIOUS
    <2>1. Len(U) = 5 => k = 4 \/ k = 5
      BY <1>2, <2>0
    <2> QED BY <1>2, <1>5, <2>1
  <1> QED BY <1>2, <1>4, <1>18, <1>19, <1>20, <1>21 DEF OrderTold, F, U, s, next

\* Every step keeps the history of every order.
LEMMA ToldStep ==
  ASSUME Inv, Inv', TrailInv, [Next]_vars, NEW o \in Orders
  PROVE  OrderTold(o)'
  <1>1. OrderTold(o)
    BY DEF TrailInv
  <1>2. ASSUME NEW w \in Workers, NEW k \in 1 .. 5, Advanced(o, w, k)
        PROVE  Timely(w)
    BY <1>2 DEF TrailInv, Advanced
  <1> QED BY <1>1, <1>2, OrderSteps, ToldKept, ToldPlaced, ToldCancelled, ToldRetried,
             ToldAdvanced

--------------------------------------------------------------------------------
\* Every step keeps the dates the workers have.

\* The stages lead to different states.
LEMMA StageTargets ==
  /\ \A k, m \in 1 .. 5 :
       ORDER_TRANSITIONS[STAGES[k]] = ORDER_TRANSITIONS[STAGES[m]] => k = m
  /\ \A k \in 1 .. 5 :
       /\ ORDER_TRANSITIONS[STAGES[k]] \notin {"placed", "cancelled"}
       /\ ORDER_TRANSITIONS[STAGES[k]] = "preparing" => STAGES[k] = "confirmed"
       /\ ORDER_TRANSITIONS[STAGES[k]] = "out_for_delivery" => STAGES[k] = "ready"
  <1>1. \A k \in 1 .. 5 : k = 1 \/ k = 2 \/ k = 3 \/ k = 4 \/ k = 5
    OBVIOUS
  <1>2. /\ STAGES[1] = "placed" /\ STAGES[2] = "confirmed" /\ STAGES[3] = "preparing"
        /\ STAGES[4] = "ready" /\ STAGES[5] = "out_for_delivery"
    BY DEF STAGES
  <1>3. /\ ORDER_TRANSITIONS["placed"] = "confirmed"
        /\ ORDER_TRANSITIONS["confirmed"] = "preparing"
        /\ ORDER_TRANSITIONS["preparing"] = "ready"
        /\ ORDER_TRANSITIONS["ready"] = "out_for_delivery"
        /\ ORDER_TRANSITIONS["out_for_delivery"] = "delivered"
    BY DEF ORDER_TRANSITIONS
  <1> QED BY <1>1, <1>2, <1>3

\* A trail has one transition to each state, so its event is dated without doubt.
LEMMA OneTransition ==
  ASSUME NEW E, NEW T, Chained(E, T), NEW j \in Transitions(E)
  PROVE  /\ j \in DOMAIN E /\ E[j].event_type = "state_transition"
         /\ E[j].to_state \notin {"placed", "cancelled"}
         /\ E[j].to_state = "preparing" => E[j].from_state = "confirmed"
         /\ E[j].to_state = "out_for_delivery" => E[j].from_state = "ready"
         /\ \A i \in DOMAIN E : /\ E[i].event_type = "state_transition"
                                /\ E[i].to_state = E[j].to_state
                                => i = j
  <1>1. /\ j \in DOMAIN E /\ E[j].event_type = "state_transition"
        /\ \A i \in DOMAIN E : E[i].event_type = "state_transition" => i \in Transitions(E)
    BY DEF Transitions, Moves
  <1>2. \A i \in Transitions(E) : StageMove(E, T, i)
    BY DEF Chained
  <1>3. PICK k \in 1 .. 5 :
          /\ E[j].task_ids = {k} /\ E[j].from_state = STAGES[k]
          /\ E[j].to_state = ORDER_TRANSITIONS[STAGES[k]]
    BY <1>2 DEF StageMove
  <1>4. ASSUME NEW i \in Transitions(E), E[i].to_state = E[j].to_state PROVE i = j
    <2>1. PICK m \in 1 .. 5 :
            E[i].task_ids = {m} /\ E[i].to_state = ORDER_TRANSITIONS[STAGES[m]]
      BY <1>2 DEF StageMove
    <2>2. ORDER_TRANSITIONS[STAGES[m]] = ORDER_TRANSITIONS[STAGES[k]]
      BY <1>3, <1>4, <2>1
    <2>3. m = k
      BY <2>2, StageTargets
    <2> QED BY <1>3, <2>1, <2>3 DEF Chained
  <1> QED BY <1>1, <1>3, <1>4, StageTargets

\* What the worker loads as the beginning of the order's state is the date of the
\* last step of its trail, for every kind of task.
LEMMA StepDate ==
  ASSUME TablesOK, NEW o \in Orders, Trail(events[o], tasks[o], orders[o]),
         orders[o].state \in DOMAIN ORDER_TRANSITIONS,
         NEW i \in Latest(Steps(events[o]))
  PROVE  /\ load_transition_task_row(o, orders[o].state) = {events[o][i].occurred_at}
         /\ orders[o].state = "preparing" =>
              load_ready_check_task_row(o) = {events[o][i].occurred_at}
         /\ orders[o].state = "out_for_delivery" =>
              load_delivery_check_task_row(o) = {events[o][i].occurred_at}
  <1> DEFINE E == events[o]
             source == orders[o].state
             d == E[i].occurred_at
  <1>1. /\ E \in Seq(EventRow) /\ Opening(E) /\ Chained(E, tasks[o])
        /\ source = reached(E, i)
    BY DEF TablesOK, Trail
  <1>2. i \in DOMAIN E /\ (i = 1 \/ i \in Moves(E))
    <2>1. E # <<>> /\ DOMAIN E = 1 .. Len(E)
      BY <1>1, LenProperties DEF Opening
    <2>2. 1 \in DOMAIN E
      BY <1>1, <2>1, EmptySeq, LenProperties
    <2> QED BY <2>2 DEF Latest, Steps, Moves
  <1>3. d \in Nat
    <2>1. E[i] \in EventRow
      BY <1>1, <1>2, ElementOfSeq
    <2> QED BY <2>1 DEF EventRow
  <1>4. Latest({d}) = {d}
    BY <1>3 DEF Latest
  <1>5. CASE i = 1
    <2>1. source = "placed"
      BY <1>1, <1>5 DEF reached
    <2>2. \A j \in DOMAIN E : E[j].event_type = "order_created" <=> j = i
      BY <1>1, <1>2, <1>5 DEF Opening
    <2>3. load_transition_task_row(o, "placed") = {d}
      <3>1. {E[m].occurred_at : m \in {j \in DOMAIN E : E[j].event_type = "order_created"}} = {d}
        BY <1>2, <2>2
      <3> QED BY <1>4, <3>1 DEF load_transition_task_row, EventTimes
    <2> QED BY <2>1, <2>3
  <1>6. CASE i # 1
    <2>1. i \in Moves(E) /\ E[i].to_state = source
      BY <1>1, <1>2, <1>6 DEF reached
    <2>2. source # "cancelled"
      BY DEF ORDER_TRANSITIONS
    <2>3. i \in Transitions(E)
      <3>1. E[i].event_type # "order_cancelled"
        BY <1>1, <2>1, <2>2 DEF Chained
      <3> QED BY <1>1, <2>1, <3>1, MoveKinds
    <2>4. /\ source # "placed"
          /\ source = "preparing" => E[i].from_state = "confirmed"
          /\ source = "out_for_delivery" => E[i].from_state = "ready"
          /\ \A j \in DOMAIN E :
               E[j].event_type = "state_transition" /\ E[j].to_state = source <=> j = i
      BY <1>1, <2>1, <2>3, OneTransition
    <2> HIDE DEF E, source, d
    <2>5. {E[m].occurred_at : m \in {j \in DOMAIN E :
             E[j].event_type = "state_transition" /\ E[j].to_state = source}} = {d}
      BY <1>2, <2>4 DEF d
    <2>6. load_transition_task_row(o, source) = {d}
      BY <1>4, <2>4, <2>5 DEF load_transition_task_row, EventTimes, E
    <2>7. source = "preparing" => load_ready_check_task_row(o) = {d}
      <3> SUFFICES ASSUME source = "preparing" PROVE load_ready_check_task_row(o) = {d}
        OBVIOUS
      <3>1. {E[m].occurred_at : m \in {j \in DOMAIN E :
               /\ E[j].event_type = "state_transition"
               /\ E[j].from_state = "confirmed" /\ E[j].to_state = "preparing"}} = {d}
        BY <1>2, <2>4 DEF d
      <3> QED BY <1>4, <3>1 DEF load_ready_check_task_row, EventTimes, E
    <2>8. source = "out_for_delivery" => load_delivery_check_task_row(o) = {d}
      <3> SUFFICES ASSUME source = "out_for_delivery"
                   PROVE  load_delivery_check_task_row(o) = {d}
        OBVIOUS
      <3>1. {E[m].occurred_at : m \in {j \in DOMAIN E :
               /\ E[j].event_type = "state_transition"
               /\ E[j].from_state = "ready" /\ E[j].to_state = "out_for_delivery"}} = {d}
        BY <1>2, <2>4 DEF d
      <3> QED BY <1>4, <3>1 DEF load_delivery_check_task_row, EventTimes, E
    <2> QED BY <2>6, <2>7, <2>8 DEF E, source, d
  <1> QED BY <1>5, <1>6

\* So prepare sends the right date along, whichever prepare it is.
LEMMA BeginningIsLast ==
  ASSUME Inv, NEW w \in Workers, worker[w].phase \in Busy,
         handler(Task(w)) # "unsupported", in_source_state(w),
         OrderTold(worker[w].order),
         NEW started \in Beginnings(w),
         NEW i \in Latest(Steps(events[worker[w].order]))
  PROVE  started = events[worker[w].order][i].occurred_at
  <1> DEFINE o == worker[w].order
  <1>1. TablesOK /\ o \in Orders
    BY DEF Inv, TypeInv, WorkerOK
  <1>2. /\ SpecOf(w).source_state \in DOMAIN ORDER_TRANSITIONS
        /\ orders[o].state = SpecOf(w).source_state
    BY SpecFacts DEF SpecOf, in_source_state, Order
  <1>3. orders[o].state # Absent
    BY <1>2 DEF ORDER_TRANSITIONS, Absent
  <1>4. Trail(events[o], tasks[o], orders[o])
    BY <1>3 DEF OrderTold
  <1>5. /\ handler(Task(w)) = "ready_check" => orders[o].state = "preparing"
        /\ handler(Task(w)) = "delivery_check" => orders[o].state = "out_for_delivery"
    BY <1>2 DEF SpecOf, spec_of, READY_FINALIZATION_SPEC, DELIVERY_FINALIZATION_SPEC
  <1>6. \/ started \in load_transition_task_row(o, orders[o].state)
        \/ orders[o].state = "preparing" /\ started \in load_ready_check_task_row(o)
        \/ orders[o].state = "out_for_delivery" /\ started \in load_delivery_check_task_row(o)
    BY <1>2, <1>5 DEF Beginnings
  <1> HIDE DEF o
  <1>7. i \in Latest(Steps(events[o]))
    BY DEF o
  <1>8. started = events[o][i].occurred_at
    BY <1>1, <1>2, <1>4, <1>6, <1>7, StepDate
  <1> QED BY <1>8 DEF o

\* A worker that is spared keeps its date.
LEMMA TimelySpared ==
  ASSUME NEW v, Timely(v), Spared(v),
         SameLast(events[worker[v].order], events'[worker[v].order])
  PROVE  Timely(v)'
  <1> DEFINE o == worker[v].order
             L == Latest(Steps(events[o]))
  <1>1. worker'[v] = worker[v] /\ tasks'[o][worker[v].task] = tasks[o][worker[v].task]
    BY DEF Spared
  <1>2. Task(v)' = Task(v) /\ SpecOf(v)' = SpecOf(v)
    BY <1>1 DEF Task, SpecOf
  <1>3. Latest(Steps(events'[o])) = L /\ \A i \in L : events'[o][i] = events[o][i]
    BY DEF SameLast
  <1> QED BY <1>1, <1>2, <1>3 DEF Timely

\* A call begins with the date of the last step, and is answered with success
\* only when the service has had its time since.
LEMMA TimelyQuiet ==
  ASSUME Inv, NEW v \in Workers, QuietStep(v),
         \A o \in Orders : OrderTold(o),
         worker[v].phase = "calling" => Timely(v),
         worker'[v].phase \in {"calling", "answered"}
  PROVE  Timely(v)'
  <1> DEFINE o == worker[v].order
  <1>1. PICK s \in WorkerState :
          /\ worker' = [worker EXCEPT ![v] = s]
          /\ \/ s.phase \notin Busy
             \/ /\ worker[v].phase \in Busy
                /\ s.order = worker[v].order /\ s.task = worker[v].task
                /\ Progressed(v, s)
    BY DEF QuietStep
  <1>2. worker'[v] = s
    BY <1>1 DEF Inv, TypeInv, WorkerOK
  <1>3. /\ worker[v].phase \in Busy /\ s.order = o /\ s.task = worker[v].task
        /\ Progressed(v, s)
    BY <1>1, <1>2 DEF Busy
  <1>4. o \in Orders
    BY <1>3 DEF Inv, TypeInv, WorkerOK
  <1>5. Task(v)' = Task(v) /\ SpecOf(v)' = SpecOf(v) /\ events' = events
    BY <1>2, <1>3 DEF QuietStep, Task, SpecOf
  <1>6. CASE /\ s.phase = "calling"
             /\ handler(Task(v)) # "unsupported"
             /\ in_source_state(v)
             /\ s.source_started_at \in Beginnings(v)
    <2>1. \A i \in Latest(Steps(events[o])) :
            s.source_started_at = events[o][i].occurred_at
      BY <1>3, <1>4, <1>6, BeginningIsLast
    <2>2. worker'[v].phase = "calling" /\ worker'[v].order = o
          /\ worker'[v].source_started_at = s.source_started_at
      BY <1>2, <1>3, <1>6
    <2> HIDE DEF o
    <2> QED BY <1>5, <2>1, <2>2 DEF Timely
  <1>7. CASE /\ worker[v].phase = "calling"
             /\ s.phase = "answered"
             /\ s.outcome = "success" =>
                  s.answered_at >= worker[v].source_started_at
                                     + Delay[worker[v].order][SpecOf(v).service]
    <2>1. Task(v).status = "running" /\ Task(v).locked_by = v =>
            \A i \in Latest(Steps(events[o])) :
              worker[v].source_started_at = events[o][i].occurred_at
      BY <1>7 DEF Timely
    <2>2. worker'[v].phase = "answered" /\ worker'[v].order = o
          /\ worker'[v].outcome = s.outcome /\ worker'[v].answered_at = s.answered_at
      BY <1>2, <1>3, <1>7
    <2>3. s.outcome = "success" =>
            s.answered_at >= worker[v].source_started_at + Delay[o][SpecOf(v).service]
      BY <1>7
    <2> HIDE DEF o
    <2> QED BY <1>5, <2>1, <2>2, <2>3 DEF Timely
  <1> QED BY <1>3, <1>6, <1>7 DEF Progressed

\* Every step keeps the dates the workers have.
LEMMA TimelyStep ==
  ASSUME Inv, TrailInv, [Next]_vars, NEW v \in Workers,
         worker'[v].phase \in {"calling", "answered"}
  PROVE  Timely(v)'
  <1>1. TypeInv /\ QueueInv
    BY DEF Inv
  <1>2. /\ \A o \in Orders : OrderTold(o)
        /\ worker[v].phase \in {"calling", "answered"} => Timely(v)
    BY DEF TrailInv
  <1>3. CASE QuietStep(v)
    BY <1>2, <1>3, TimelyQuiet
  <1>4. CASE Lost(v)
    BY <1>4 DEF Lost, Timely, Task
  <1>5. CASE Spared(v)
    <2> DEFINE o == worker[v].order
    <2>1. Timely(v)
      BY <1>2, <1>5 DEF Spared
    <2>2. CASE events'[o] = events[o]
      <3>1. SameLast(events[o], events'[o])
        BY <2>2 DEF SameLast
      <3> QED BY <1>5, <2>1, <3>1, TimelySpared
    <2>3. CASE o \in Orders /\ retry_failed_tasks_for_order(o)
      <3>1. Placed(o) \/ Cancelled(o) \/ Retried(o)
        BY <2>3, ApiMoves
      <3>2. orders'[o] = orders[o] /\ orders[o] \in OrderRow
        BY <1>1, <2>3 DEF retry_failed_tasks_for_order, TypeInv, TablesOK
      <3>3. Retried(o)
        <4>1. ~Placed(o)
          BY <3>2 DEF Placed, Absent
        <4>2. ~Cancelled(o)
          BY <3>2 DEF Cancelled, ORDER_TRANSITIONS
        <4> QED BY <3>1, <4>1, <4>2
      <3>4. SameLast(events[o], events'[o])
        BY <1>2, <2>3, <3>3, ToldRetried
      <3> QED BY <1>5, <2>1, <3>4, TimelySpared
    <2> QED BY <1>5, <2>2, <2>3 DEF Spared
  <1> QED BY <1>1, <1>3, <1>4, <1>5, WorkerFates DEF Fate

--------------------------------------------------------------------------------
\* The results.

LEMMA TrailInit == Init => TrailInv
  <1> SUFFICES ASSUME Init PROVE TrailInv
    OBVIOUS
  <1>1. \A w \in Workers : worker[w].phase \notin {"calling", "answered"}
    BY DEF Init, Idle
  <1>2. ASSUME NEW o \in Orders PROVE OrderTold(o)
    <2>1. /\ events[o] = <<>> /\ tasks[o] = <<>>
          /\ orders[o].state = Absent /\ orders[o].version = 0
      BY DEF Init
    <2>2. Delays(o, <<>>, <<>>)
      BY DEF Delays, Moves
    <2> QED BY <2>1, <2>2 DEF OrderTold, Polls
  <1> QED BY <1>1, <1>2 DEF TrailInv

LEMMA TrailStep == Inv /\ TrailInv /\ [Next]_vars => TrailInv'
  <1> SUFFICES ASSUME Inv, TrailInv, [Next]_vars PROVE TrailInv'
    OBVIOUS
  <1>1. Inv'
    BY InvStep
  <1>2. \A o \in Orders : OrderTold(o)'
    BY <1>1, ToldStep
  <1>3. \A w \in Workers : worker'[w].phase \in {"calling", "answered"} => Timely(w)'
    BY TimelyStep
  <1> QED BY <1>2, <1>3 DEF TrailInv

\* The history of every order is told, and every call carries the right date.
THEOREM TrailInvariant == Spec => [](Inv /\ TrailInv)
  BY InvInit, InvStep, TrailInit, TrailStep, PTL DEF Spec

\* The events of an order tell its history without gap or repetition, whatever
\* workers, cancellations and operator retries do at the same time.
THEOREM HistoryIsWhole == Spec => []AuditTrail
  <1>1. Inv /\ TrailInv => AuditTrail
    <2> SUFFICES ASSUME Inv, TrailInv, NEW o \in Orders, orders[o].state # Absent
                 PROVE  LET trail == events[o] IN
                        /\ trail[1].event_type = "order_created"
                        /\ orders[o].version = Cardinality(Moves(trail))
                        /\ \A i \in Latest(Steps(trail)) :
                             orders[o].state = reached(trail, i)
                        /\ \A j \in Moves(trail) :
                             /\ \A i \in Before(trail, j) :
                                  trail[j].from_state = reached(trail, i)
                             /\ trail[j].event_type = "state_transition" =>
                                  trail[j].task_ids = {Rank(trail, j)}
      BY DEF AuditTrail
    <2>1. Trail(events[o], tasks[o], orders[o])
      BY DEF TrailInv, OrderTold
    <2>2. \A j \in Moves(events[o]) : events[o][j].event_type = "state_transition" =>
            events[o][j].task_ids = {Rank(events[o], j)}
      BY <2>1 DEF Trail, Chained, Transitions, StageMove
    <2> QED BY <2>1, <2>2 DEF Trail, Chained, Opening
  <1> QED BY <1>1, TrailInvariant, PTL

\* No step is recorded before the service behind it had its time since the step
\* before, however often the task was retried, taken over or reopened.
THEOREM StepsTakeTheirTime == Spec => []StageDelayRespected
  <1>1. TrailInv => StageDelayRespected
    BY DEF TrailInv, OrderTold, Delays, StageDelayRespected
  <1> QED BY <1>1, TrailInvariant, PTL

\* The polls of an order find the transition they are dated by.
LEMMA PollsAreDated ==
  ASSUME Inv, NEW o \in Orders, OrderTold(o), NEW k \in DOMAIN tasks[o]
  PROVE  /\ tasks[o][k].task_type = "check_ready" => load_ready_check_task_row(o) # {}
         /\ tasks[o][k].task_type = "check_delivery" =>
              load_delivery_check_task_row(o) # {} /\ orders[o].courier_ref
  <1> DEFINE E == events[o]
             T == tasks[o]
             source == spec_of(T[k]).source_state
  <1>1. /\ T \in Seq(TaskRow) /\ DOMAIN T = 1 .. Len(T) /\ Len(T) \in Nat
        /\ E \in Seq(EventRow) /\ Line(T)
    BY LenProperties DEF Inv, TypeInv, TablesOK, QueueInv
  <1>2. handler(T[k]) # "unsupported" /\ source = STAGES[k] /\ Len(T) <= 5 /\ k \in 1 .. 5
    BY <1>1 DEF Line
  <1>3. /\ T[k].task_type = "check_ready" => source = "preparing"
        /\ T[k].task_type = "check_delivery" => source = "out_for_delivery"
    BY <1>2 DEF handler, spec_of, READY_FINALIZATION_SPEC, DELIVERY_FINALIZATION_SPEC
  <1> HIDE DEF source
  <1>4. /\ source = "preparing" => k = 3
        /\ source = "out_for_delivery" => k = 5
    <2>1. /\ STAGES[1] = "placed" /\ STAGES[2] = "confirmed" /\ STAGES[3] = "preparing"
          /\ STAGES[4] = "ready" /\ STAGES[5] = "out_for_delivery"
      BY DEF STAGES
    <2>2. k = 1 \/ k = 2 \/ k = 3 \/ k = 4 \/ k = 5
      BY <1>2
    <2> QED BY <1>2, <2>1, <2>2
  <1>5. orders[o].state # Absent
    <2>1. tasks[o] # <<>>
      OBVIOUS
    <2> QED BY <2>1 DEF Inv, TypeInv, Unplaced
  <1>6. Chained(E, T) /\ (Len(T) = 5 => orders[o].courier_ref)
    BY <1>5 DEF OrderTold, Trail
  <1>7. ASSUME NEW m \in 1 .. 4, m + 1 \in DOMAIN T
        PROVE  \E j \in DOMAIN E : /\ E[j].event_type = "state_transition"
                                   /\ E[j].occurred_at \in Nat
                                   /\ E[j].from_state = STAGES[m]
                                   /\ E[j].to_state = ORDER_TRANSITIONS[STAGES[m]]
                                   /\ \A i \in DOMAIN E :
                                        /\ E[i].event_type = "state_transition"
                                        /\ E[i].to_state = E[j].to_state
                                        => i = j
    <2>1. m + 1 \in 2 .. Len(T) /\ (m + 1) - 1 = m
      BY <1>1, <1>7
    <2>2. PICK j \in Transitions(E) : E[j].task_ids = {m}
      BY <1>6, <2>1 DEF Chained
    <2>3. PICK n \in 1 .. 5 : /\ E[j].task_ids = {n} /\ E[j].from_state = STAGES[n]
                              /\ E[j].to_state = ORDER_TRANSITIONS[STAGES[n]]
      BY <1>6, <2>2 DEF Chained, StageMove
    <2>4. n = m
      BY <2>2, <2>3
    <2>5. /\ j \in DOMAIN E /\ E[j].event_type = "state_transition"
          /\ \A i \in DOMAIN E : /\ E[i].event_type = "state_transition"
                                 /\ E[i].to_state = E[j].to_state
                                 => i = j
      BY <1>6, <2>2, OneTransition
    <2>6. E[j].occurred_at \in Nat
      <3>1. E[j] \in EventRow
        BY <1>1, <2>5, ElementOfSeq
      <3> QED BY <3>1 DEF EventRow
    <2> QED BY <2>3, <2>4, <2>5, <2>6
  <1>8. ASSUME k = 3 PROVE load_ready_check_task_row(o) # {}
    <2>1. 2 \in 1 .. 4 /\ 2 + 1 = k /\ STAGES[2] = "confirmed"
          /\ ORDER_TRANSITIONS["confirmed"] = "preparing"
      BY <1>8 DEF STAGES, ORDER_TRANSITIONS
    <2>2. PICK j \in DOMAIN E :
            /\ E[j].event_type = "state_transition" /\ E[j].occurred_at \in Nat
            /\ E[j].from_state = "confirmed" /\ E[j].to_state = "preparing"
            /\ \A i \in DOMAIN E : E[i].event_type = "state_transition"
                                   /\ E[i].to_state = "preparing" => i = j
      BY <1>7, <2>1
    <2>3. {E[m].occurred_at : m \in {i \in DOMAIN E :
             /\ E[i].event_type = "state_transition"
             /\ E[i].from_state = "confirmed" /\ E[i].to_state = "preparing"}}
            = {E[j].occurred_at}
      BY <2>2
    <2>4. Latest({E[j].occurred_at}) = {E[j].occurred_at}
      BY <2>2 DEF Latest
    <2> QED BY <2>3, <2>4 DEF load_ready_check_task_row, EventTimes
  <1>9. ASSUME k = 5 PROVE load_delivery_check_task_row(o) # {}
    <2>1. 4 \in 1 .. 4 /\ 4 + 1 = k /\ STAGES[4] = "ready"
          /\ ORDER_TRANSITIONS["ready"] = "out_for_delivery"
      BY <1>9 DEF STAGES, ORDER_TRANSITIONS
    <2>2. PICK j \in DOMAIN E :
            /\ E[j].event_type = "state_transition" /\ E[j].occurred_at \in Nat
            /\ E[j].from_state = "ready" /\ E[j].to_state = "out_for_delivery"
            /\ \A i \in DOMAIN E : E[i].event_type = "state_transition"
                                   /\ E[i].to_state = "out_for_delivery" => i = j
      BY <1>7, <2>1
    <2>3. {E[m].occurred_at : m \in {i \in DOMAIN E :
             /\ E[i].event_type = "state_transition"
             /\ E[i].from_state = "ready" /\ E[i].to_state = "out_for_delivery"}}
            = {E[j].occurred_at}
      BY <2>2
    <2>4. Latest({E[j].occurred_at}) = {E[j].occurred_at}
      BY <2>2 DEF Latest
    <2> QED BY <2>3, <2>4 DEF load_delivery_check_task_row, EventTimes
  <1>10. k = 5 => Len(T) = 5
    <2>1. \A l \in Nat : l <= 5 /\ 5 \in 1 .. l => l = 5
      OBVIOUS
    <2>2. k \in 1 .. Len(T) /\ Len(T) <= 5 /\ Len(T) \in Nat
      BY <1>1, <1>2
    <2> HIDE DEF T
    <2> QED BY <2>1, <2>2
  <1> QED BY <1>3, <1>4, <1>6, <1>8, <1>9, <1>10

\* A poll finds its deadline, the event that dates its step and its courier, so
\* the missing-input branches of the prepare functions are dead code.
THEOREM PollsHaveInputs == Spec => []PollInputsPresent
  <1>1. Inv /\ TrailInv => PollInputsPresent
    <2> SUFFICES ASSUME Inv, TrailInv PROVE PollInputsPresent
      OBVIOUS
    <2>1. \A o \in Orders : OrderTold(o) /\ Polls(tasks[o])
      BY DEF TrailInv, OrderTold
    <2> QED BY <2>1, PollsAreDated DEF PollInputsPresent, Polls
  <1> QED BY <1>1, TrailInvariant, PTL

--------------------------------------------------------------------------------
\* What the dashboard shows. An order that is there only grows.

\* The trail has the move that gave the order this version and this state.
HasMove(trail, version, state) ==
  \E j \in Moves(trail) : Rank(trail, j) = version /\ trail[j].to_state = state

\* A placed order stays placed, its moves keep their ranks, no task goes away and
\* no completed task is undone.
Grows(o) ==
  /\ orders'[o].state # Absent
  /\ \A version, state : HasMove(events[o], version, state) => HasMove(events'[o], version, state)
  /\ Len(tasks[o]) <= Len(tasks'[o]) /\ DOMAIN tasks[o] \subseteq DOMAIN tasks'[o]
  /\ \A i \in DOMAIN tasks[o] :
       tasks[o][i].status = "completed" => tasks'[o][i].status = "completed"

\* An event that is added leaves the moves there were.
LEMMA MovesStay ==
  ASSUME NEW E \in Seq(EventRow), E # <<>>, NEW e \in EventRow, NEW F, F = Append(E, e)
  PROVE  \A version, state : HasMove(E, version, state) => HasMove(F, version, state)
  <1>1. Appended(E, e, F) /\ (AppendedMove(E, e, F) \/ AppendedOther(E, e, F))
    BY TrailAppend
  <1>2. Moves(E) \subseteq Moves(F) /\ \A j \in Moves(E) : Rank(F, j) = Rank(E, j) /\ F[j] = E[j]
    BY <1>1 DEF Appended, AppendedMove, AppendedOther
  <1> QED BY <1>2 DEF HasMove

LEMMA OrderGrows ==
  ASSUME Inv, TrailInv, [Next]_vars, NEW o \in Orders, orders[o].state # Absent
  PROVE  Grows(o)
  <1>1. /\ tasks[o] \in Seq(TaskRow) /\ events[o] \in Seq(EventRow)
        /\ orders[o].state \in ORDER_STATES
        /\ Len(tasks[o]) \in Nat /\ DOMAIN tasks[o] = 1 .. Len(tasks[o])
    BY LenProperties DEF Inv, TypeInv, TablesOK, OrderRow
  <1>2. events[o] # <<>>
    BY DEF TrailInv, OrderTold, Trail, Opening
  <1>3. CASE Kept(o)
    BY <1>1, <1>3 DEF Kept, Grows, Rewritten, RowKept
  <1>4. CASE Placed(o)
    BY <1>4 DEF Placed
  <1>5. CASE Cancelled(o)
    <2>1. PICK at \in Nat : events'[o] =
            Append(events[o], event("order_cancelled", orders[o].state, "cancelled", {}, at))
      BY <1>5 DEF Cancelled
    <2>2. event("order_cancelled", orders[o].state, "cancelled", {}, at) \in EventRow
      BY <1>1, EventType DEF ORDER_EVENT_TYPES, ORDER_STATES
    <2>3. \A version, state :
            HasMove(events[o], version, state) => HasMove(events'[o], version, state)
      BY <1>1, <1>2, <2>1, <2>2, MovesStay
    <2> QED BY <1>1, <1>5, <2>3 DEF Cancelled, Grows, Rewritten, RowKept, Absent
  <1>6. CASE Retried(o)
    <2>1. PICK ids \in SUBSET (Nat \ {0}), at \in Nat : events'[o] =
            Append(events[o], event("retry_scheduled", Absent, Absent, ids, at))
      BY <1>6 DEF Retried
    <2>2. event("retry_scheduled", Absent, Absent, ids, at) \in EventRow
      BY EventType DEF ORDER_EVENT_TYPES
    <2>3. \A version, state :
            HasMove(events[o], version, state) => HasMove(events'[o], version, state)
      BY <1>1, <1>2, <2>1, <2>2, MovesStay
    <2> QED BY <1>1, <1>6, <2>3 DEF Retried, Grows, Rewritten, RowKept
  <1>7. ASSUME NEW w \in Workers, NEW k \in 1 .. 5, Advanced(o, w, k) PROVE Grows(o)
    <2>1. PICK at \in Nat : events'[o] = Append(events[o],
            event("state_transition", STAGES[k], ORDER_TRANSITIONS[STAGES[k]], {k}, at))
      BY <1>7 DEF Advanced
    <2>2. /\ STAGES[k] \in ORDER_STATES
          /\ ORDER_TRANSITIONS[STAGES[k]] \in ORDER_STATES
          /\ ORDER_TRANSITIONS[STAGES[k]] # Absent
      <3>1. k = 1 \/ k = 2 \/ k = 3 \/ k = 4 \/ k = 5
        OBVIOUS
      <3> QED BY <3>1 DEF STAGES, ORDER_TRANSITIONS, ORDER_STATES, Absent
    <2>3. event("state_transition", STAGES[k], ORDER_TRANSITIONS[STAGES[k]], {k}, at) \in EventRow
      BY <2>2, EventType DEF ORDER_EVENT_TYPES
    <2>4. \A version, state :
            HasMove(events[o], version, state) => HasMove(events'[o], version, state)
      BY <1>1, <1>2, <2>1, <2>3, MovesStay
    <2>5. /\ k = Len(tasks[o]) /\ tasks'[o] \in Seq(TaskRow)
          /\ Len(tasks'[o]) = IF k < 5 THEN k + 1 ELSE k
          /\ DOMAIN tasks'[o] = 1 .. Len(tasks'[o])
          /\ \A i \in 1 .. k : RowKept(tasks[o][i], tasks'[o][i])
      <3>1. Inv'
        BY InvStep
      <3> QED BY <1>7, <3>1, LenProperties DEF Advanced, Inv, TypeInv, TablesOK
    <2>6. /\ Len(tasks[o]) <= Len(tasks'[o]) /\ DOMAIN tasks[o] \subseteq DOMAIN tasks'[o]
          /\ \A i \in DOMAIN tasks[o] :
               tasks[o][i].status = "completed" => tasks'[o][i].status = "completed"
      BY <1>1, <2>5 DEF RowKept
    <2> QED BY <1>7, <2>2, <2>4, <2>6 DEF Grows, Advanced
  <1> QED BY <1>3, <1>4, <1>5, <1>6, <1>7, OrderSteps

--------------------------------------------------------------------------------
\* Requests.

Request ==
  [view : {"none", "detail", "overview"}, done : 0 .. 3, order : Orders \union {NoOrder},
   state : ORDER_STATES \union {Absent}, version : Nat, rows : Nat, trail : Seq(EventRow),
   counts : [ORDER_STATES -> Nat], completed : Nat, total : Nat]

\* The statements of a request come in their order.
LEMMA StatementOrder ==
  ASSUME request \in Request
  PROVE  /\ request.view = "detail" => (Complete <=> request.done = 3)
         /\ request.view = "overview" => (Complete <=> request.done = 2)
         /\ request.view = "detail" /\ request.done = 0 => NextStatement = "order"
         /\ request.view = "detail" /\ request.done = 1 => NextStatement = "tasks"
         /\ request.view = "detail" /\ request.done = 2 => NextStatement = "events"
         /\ request.view = "overview" /\ request.done = 0 => NextStatement = "order_counts"
         /\ request.view = "overview" /\ request.done = 1 => NextStatement = "task_counts"
  <1>1. /\ Len(DETAIL_STATEMENTS) = 3 /\ Len(OVERVIEW_STATEMENTS) = 2
        /\ DETAIL_STATEMENTS[1] = "order" /\ DETAIL_STATEMENTS[2] = "tasks"
        /\ DETAIL_STATEMENTS[3] = "events"
        /\ OVERVIEW_STATEMENTS[1] = "order_counts" /\ OVERVIEW_STATEMENTS[2] = "task_counts"
    BY DEF DETAIL_STATEMENTS, OVERVIEW_STATEMENTS
  <1>2. request.view = "detail" => Statements(request.view) = DETAIL_STATEMENTS
    BY DEF Statements
  <1>3. request.view = "overview" => Statements(request.view) = OVERVIEW_STATEMENTS
    BY DEF Statements
  <1>4. request.view = "detail" => (Complete <=> request.done = 3)
    BY <1>1, <1>2 DEF Complete
  <1>5. request.view = "overview" => (Complete <=> request.done = 2)
    BY <1>1, <1>3 DEF Complete
  <1> QED BY <1>1, <1>2, <1>3, <1>4, <1>5 DEF NextStatement

\* The task of an order with this version is there.
Least(version) == IF version < 5 THEN version + 1 ELSE 5

LEMMA LeastBound ==
  \A version \in Nat :
    Least(version) \in Nat /\ Least(version) <= 5 /\ Least(version) <= version + 1
  BY DEF Least

\* A detail request: what it read of the order row is covered by the tables of the
\* order from then on, and so is what it reads of these later.
DetailInv ==
  LET o == request.order IN
  /\ o \in Orders /\ orders[o].state # Absent
  /\ request.done >= 1 =>
       /\ request.version > 0 => HasMove(events[o], request.version, request.state)
       /\ request.state # "cancelled" => Len(tasks[o]) >= Least(request.version)
  /\ request.done >= 2 /\ request.state # "cancelled" =>
       request.rows >= Least(request.version)
  /\ request.done >= 3 /\ Len(request.trail) < ORDER_DETAIL_EVENT_LIMIT /\ request.version > 0 =>
       HasMove(request.trail, request.version, request.state)

\* The order row agrees with the trail and the tasks.
LEMMA OrderCovered ==
  ASSUME Inv, NEW o \in Orders, OrderTold(o), orders[o].state # Absent
  PROVE  /\ orders[o].version > 0 => HasMove(events[o], orders[o].version, orders[o].state)
         /\ orders[o].state # "cancelled" => Len(tasks[o]) >= Least(orders[o].version)
  <1> DEFINE E == events[o]
             r == orders[o]
  <1>1. /\ E \in Seq(EventRow) /\ Trail(E, tasks[o], r)
        /\ r.version \in Nat /\ r.state \in ORDER_STATES
        /\ Len(tasks[o]) \in Nat /\ Line(tasks[o]) /\ Fits(r.state, tasks[o])
    BY LenProperties DEF OrderTold, Inv, TypeInv, TablesOK, OrderRow, QueueInv
  <1>2. ASSUME r.version > 0 PROVE HasMove(E, r.version, r.state)
    <2>1. /\ Moves(E) \subseteq 1 .. Len(E) /\ IsFiniteSet(Moves(E)) /\ Len(E) \in Nat
          /\ r.version = Cardinality(Moves(E)) /\ Opening(E)
      BY <1>1, TrailPositions DEF Trail
    <2>2. PICK i \in Latest(Steps(E)) : r.state = reached(E, i)
      BY <1>1 DEF Trail
    <2>3. PICK m \in Moves(E) : TRUE
      BY <1>2, <2>1, FS_EmptySet
    <2>4. 1 \notin Moves(E)
      BY <2>1 DEF Opening, Moves
    <2>5. i \in Moves(E) /\ \A j \in Moves(E) : j <= i
      BY <2>1, <2>2, <2>3, <2>4 DEF Latest, Steps
    <2>6. {j \in Moves(E) : j <= i} = Moves(E)
      BY <2>5
    <2>7. Rank(E, i) = r.version /\ i # 1
      BY <2>1, <2>4, <2>5, <2>6 DEF Rank
    <2> HIDE DEF E, r
    <2> QED BY <2>2, <2>5, <2>7 DEF HasMove, reached
  <1>3. ASSUME r.state # "cancelled" PROVE Len(tasks[o]) >= Least(r.version)
    <2>1. r.state \in DOMAIN ORDER_TRANSITIONS \/ r.state = "delivered"
      BY <1>1, <1>3 DEF ORDER_STATES, ORDER_TRANSITIONS, Fits
    <2>2. r.state \in DOMAIN ORDER_TRANSITIONS => Len(tasks[o]) = r.version + 1
      BY <1>1 DEF Trail
    <2>3. r.state = "delivered" => Len(tasks[o]) = 5
      BY <1>1 DEF Fits
    <2>4. Len(tasks[o]) <= 5
      BY <1>1 DEF Line
    <2>5. r.version \in Nat /\ Len(tasks[o]) \in Nat
      BY <1>1
    <2>6. /\ Least(r.version) \in Nat /\ Least(r.version) <= 5
          /\ Least(r.version) <= r.version + 1
      BY <2>5, LeastBound
    <2> QED BY <2>1, <2>2, <2>3, <2>6
  <1> QED BY <1>2, <1>3
--------------------------------------------------------------------------------
\* Counting tasks.

CompletedTasks == {p \in AllTasks : tasks[p[1]][p[2]].status = "completed"}

\* Among the tasks S there are n different ones.
Accounted(S, n) == \E P \in SUBSET S : IsFiniteSet(P) /\ Cardinality(P) = n

By(state) == {o \in Orders : orders[o].state = state}

\* Tasks of completed stages, and of stages that have begun, by the numbers of
\* orders in each state.
DoneOf(n) ==
  n["confirmed"] + 2 * n["preparing"] + 3 * n["ready"]
  + 4 * n["out_for_delivery"] + 5 * n["delivered"]

BegunOf(n) ==
  DoneOf(n) + (n["placed"] + n["confirmed"] + n["preparing"] + n["ready"]
               + n["out_for_delivery"]) + n["cancelled"]

\* The first m tasks of each order of S.
Block(S, m) == S \X (1 .. m)

\* Blocks of different orders add up.
LEMMA AddBlock ==
  ASSUME NEW A, IsFiniteSet(A), NEW S, IsFiniteSet(S), NEW m \in Nat,
         \A p \in A : p[1] \notin S
  PROVE  /\ IsFiniteSet(A \union Block(S, m))
         /\ Cardinality(A \union Block(S, m)) = Cardinality(A) + Cardinality(S) * m
  <1>1. IsFiniteSet(1 .. m) /\ Cardinality(1 .. m) = m
    BY FS_Interval
  <1>2. IsFiniteSet(Block(S, m)) /\ Cardinality(Block(S, m)) = Cardinality(S) * m
    BY <1>1, FS_Product DEF Block
  <1>3. A \intersect Block(S, m) = {}
    BY DEF Block
  <1>4. Cardinality(A \intersect Block(S, m)) = 0
    BY <1>3, FS_EmptySet
  <1>5. /\ IsFiniteSet(A \union Block(S, m))
        /\ Cardinality(A \union Block(S, m))
             = Cardinality(A) + Cardinality(Block(S, m)) - Cardinality(A \intersect Block(S, m))
    BY <1>2, FS_Union
  <1>6. Cardinality(A) \in Nat /\ Cardinality(Block(S, m)) \in Nat
    BY <1>2, FS_CardinalityType
  <1> QED BY <1>2, <1>4, <1>5, <1>6

LEMMA StateSets ==
  /\ \A s : IsFiniteSet(By(s)) /\ Cardinality(By(s)) \in Nat /\ By(s) \subseteq Orders
  /\ \A s, t : s # t => By(s) \intersect By(t) = {}
  <1>1. ASSUME NEW s
        PROVE  IsFiniteSet(By(s)) /\ Cardinality(By(s)) \in Nat /\ By(s) \subseteq Orders
    <2>1. By(s) \in SUBSET Orders
      BY DEF By
    <2> QED BY <2>1, DashboardAssumption, FS_Subset, FS_CardinalityType
  <1>2. \A s, t : s # t => By(s) \intersect By(t) = {}
    BY DEF By
  <1> QED BY <1>1, <1>2

\* One more state, in the tower of blocks over the states before it.
LEMMA AddState ==
  ASSUME NEW A, IsFiniteSet(A), NEW s, NEW m \in Nat,
         \A p \in A : p[1] \notin By(s)
  PROVE  /\ IsFiniteSet(A \union Block(By(s), m))
         /\ Cardinality(A \union Block(By(s), m)) = Cardinality(A) + Cardinality(By(s)) * m
         /\ \A t : t # s /\ (\A p \in A : p[1] \notin By(t)) =>
              \A p \in A \union Block(By(s), m) : p[1] \notin By(t)
  <1>1. IsFiniteSet(By(s))
    BY StateSets
  <1>2. \A t : t # s => \A p \in Block(By(s), m) : p[1] \notin By(t)
    BY StateSets DEF Block
  <1> QED BY <1>1, <1>2, AddBlock

\* A number of tasks for each state.
Tower(ma, mb, mc, md, me, mf, mg) ==
  Block(By("placed"), ma) \union Block(By("confirmed"), mb) \union Block(By("preparing"), mc)
  \union Block(By("ready"), md) \union Block(By("out_for_delivery"), me)
  \union Block(By("delivered"), mf) \union Block(By("cancelled"), mg)

Height(ma, mb, mc, md, me, mf, mg) ==
  Cardinality(By("placed")) * ma + Cardinality(By("confirmed")) * mb
  + Cardinality(By("preparing")) * mc + Cardinality(By("ready")) * md
  + Cardinality(By("out_for_delivery")) * me
  + Cardinality(By("delivered")) * mf + Cardinality(By("cancelled")) * mg

LEMMA TowerSize ==
  ASSUME NEW ma \in Nat, NEW mb \in Nat, NEW mc \in Nat, NEW md \in Nat,
         NEW me \in Nat, NEW mf \in Nat, NEW mg \in Nat
  PROVE  /\ IsFiniteSet(Tower(ma, mb, mc, md, me, mf, mg))
         /\ Cardinality(Tower(ma, mb, mc, md, me, mf, mg)) = Height(ma, mb, mc, md, me, mf, mg)
  <1> DEFINE Away(X, t) == \A p \in X : p[1] \notin By(t)
             A == Block(By("placed"), ma)
             B == A \union Block(By("confirmed"), mb)
             C == B \union Block(By("preparing"), mc)
             D == C \union Block(By("ready"), md)
             E == D \union Block(By("out_for_delivery"), me)
             F == E \union Block(By("delivered"), mf)
             G == F \union Block(By("cancelled"), mg)
  <1>0. IsFiniteSet({}) /\ Cardinality({}) = 0 /\ \A t : Away({}, t)
    BY FS_EmptySet
  <1>1. /\ IsFiniteSet(A) /\ Cardinality(A) = 0 + Cardinality(By("placed")) * ma
        /\ Away(A, "confirmed") /\ Away(A, "preparing") /\ Away(A, "ready")
        /\ Away(A, "out_for_delivery") /\ Away(A, "delivered") /\ Away(A, "cancelled")
    <2>1. IsFiniteSet({}) /\ (\A p \in {} : p[1] \notin By("placed")) /\ ma \in Nat
      BY <1>0
    <2> DEFINE U == {} \union A
    <2>2. /\ IsFiniteSet(U)
          /\ Cardinality(U) = Cardinality({}) + Cardinality(By("placed")) * ma
          /\ \A t : t # "placed" /\ Away({}, t) => Away(U, t)
      BY <2>1, AddState
    <2>3. U = A
      OBVIOUS
    <2> HIDE DEF U, A
    <2> QED BY <1>0, <2>2, <2>3
  <1> HIDE DEF A
  <1>2. /\ IsFiniteSet(B) /\ Cardinality(B) = Cardinality(A) + Cardinality(By("confirmed")) * mb
        /\ Away(B, "preparing") /\ Away(B, "ready") /\ Away(B, "out_for_delivery")
        /\ Away(B, "delivered") /\ Away(B, "cancelled")
    <2>1. IsFiniteSet(A) /\ (\A p \in A : p[1] \notin By("confirmed")) /\ mb \in Nat
      BY <1>1
    <2>2. /\ IsFiniteSet(B)
          /\ Cardinality(B) = Cardinality(A) + Cardinality(By("confirmed")) * mb
          /\ \A t : t # "confirmed" /\ Away(A, t) => Away(B, t)
      BY <2>1, AddState
    <2> HIDE DEF B
    <2> QED BY <1>0, <1>1, <2>2
  <1> HIDE DEF B
  <1>3. /\ IsFiniteSet(C) /\ Cardinality(C) = Cardinality(B) + Cardinality(By("preparing")) * mc
        /\ Away(C, "ready") /\ Away(C, "out_for_delivery") /\ Away(C, "delivered")
        /\ Away(C, "cancelled")
    <2>1. IsFiniteSet(B) /\ (\A p \in B : p[1] \notin By("preparing")) /\ mc \in Nat
      BY <1>2
    <2>2. /\ IsFiniteSet(C)
          /\ Cardinality(C) = Cardinality(B) + Cardinality(By("preparing")) * mc
          /\ \A t : t # "preparing" /\ Away(B, t) => Away(C, t)
      BY <2>1, AddState
    <2> HIDE DEF C
    <2> QED BY <1>0, <1>2, <2>2
  <1> HIDE DEF C
  <1>4. /\ IsFiniteSet(D) /\ Cardinality(D) = Cardinality(C) + Cardinality(By("ready")) * md
        /\ Away(D, "out_for_delivery") /\ Away(D, "delivered") /\ Away(D, "cancelled")
    <2>1. IsFiniteSet(C) /\ (\A p \in C : p[1] \notin By("ready")) /\ md \in Nat
      BY <1>3
    <2>2. /\ IsFiniteSet(D)
          /\ Cardinality(D) = Cardinality(C) + Cardinality(By("ready")) * md
          /\ \A t : t # "ready" /\ Away(C, t) => Away(D, t)
      BY <2>1, AddState
    <2> HIDE DEF D
    <2> QED BY <1>0, <1>3, <2>2
  <1> HIDE DEF D
  <1>5. /\ IsFiniteSet(E)
        /\ Cardinality(E) = Cardinality(D) + Cardinality(By("out_for_delivery")) * me
        /\ Away(E, "delivered") /\ Away(E, "cancelled")
    <2>1. IsFiniteSet(D) /\ (\A p \in D : p[1] \notin By("out_for_delivery")) /\ me \in Nat
      BY <1>4
    <2>2. /\ IsFiniteSet(E)
          /\ Cardinality(E) = Cardinality(D) + Cardinality(By("out_for_delivery")) * me
          /\ \A t : t # "out_for_delivery" /\ Away(D, t) => Away(E, t)
      BY <2>1, AddState
    <2> HIDE DEF E
    <2> QED BY <1>0, <1>4, <2>2
  <1> HIDE DEF E
  <1>6. /\ IsFiniteSet(F) /\ Cardinality(F) = Cardinality(E) + Cardinality(By("delivered")) * mf
        /\ Away(F, "cancelled")
    <2>1. IsFiniteSet(E) /\ (\A p \in E : p[1] \notin By("delivered")) /\ mf \in Nat
      BY <1>5
    <2>2. /\ IsFiniteSet(F)
          /\ Cardinality(F) = Cardinality(E) + Cardinality(By("delivered")) * mf
          /\ \A t : t # "delivered" /\ Away(E, t) => Away(F, t)
      BY <2>1, AddState
    <2> HIDE DEF F
    <2> QED BY <1>0, <1>5, <2>2
  <1> HIDE DEF F
  <1>7. /\ IsFiniteSet(G) /\ Cardinality(G) = Cardinality(F) + Cardinality(By("cancelled")) * mg
    <2>1. IsFiniteSet(F) /\ (\A p \in F : p[1] \notin By("cancelled")) /\ mg \in Nat
      BY <1>6
    <2>2. /\ IsFiniteSet(G)
          /\ Cardinality(G) = Cardinality(F) + Cardinality(By("cancelled")) * mg
          /\ \A t : t # "cancelled" /\ Away(F, t) => Away(G, t)
      BY <2>1, AddState
    <2> HIDE DEF G
    <2> QED BY <1>0, <1>6, <2>2
  <1> HIDE DEF G
  <1>8. Cardinality(G) = Cardinality(By("placed")) * ma + Cardinality(By("confirmed")) * mb
          + Cardinality(By("preparing")) * mc + Cardinality(By("ready")) * md
          + Cardinality(By("out_for_delivery")) * me + Cardinality(By("delivered")) * mf + Cardinality(By("cancelled")) * mg
    <2> DEFINE xa == Cardinality(By("placed")) * ma
               xb == Cardinality(By("confirmed")) * mb
               xc == Cardinality(By("preparing")) * mc
               xd == Cardinality(By("ready")) * md
               xe == Cardinality(By("out_for_delivery")) * me
               xf == Cardinality(By("delivered")) * mf
               xg == Cardinality(By("cancelled")) * mg
    <2>1. /\ xa \in Nat /\ xb \in Nat /\ xc \in Nat /\ xd \in Nat /\ xe \in Nat
          /\ xf \in Nat /\ xg \in Nat
      BY StateSets
    <2>2. /\ Cardinality(A) = 0 + xa /\ Cardinality(B) = Cardinality(A) + xb
          /\ Cardinality(C) = Cardinality(B) + xc /\ Cardinality(D) = Cardinality(C) + xd
          /\ Cardinality(E) = Cardinality(D) + xe /\ Cardinality(F) = Cardinality(E) + xf
          /\ Cardinality(G) = Cardinality(F) + xg
      BY <1>1, <1>2, <1>3, <1>4, <1>5, <1>6, <1>7
    <2> HIDE DEF xa, xb, xc, xd, xe, xf, xg
    <2>3. Cardinality(G) = xa + xb + xc + xd + xe + xf + xg
      BY <2>1, <2>2
    <2> QED BY <2>3 DEF xa, xb, xc, xd, xe, xf, xg
  <1> QED BY <1>7, <1>8 DEF A, B, C, D, E, F, G, Tower, Height

LEMMA TaskPairs ==
  /\ \A o \in Orders : \A i \in DOMAIN tasks[o] : <<o, i>> \in AllTasks
  /\ \A p \in AllTasks : /\ p[1] \in Orders /\ p[2] \in DOMAIN tasks[p[1]]
                         /\ p = <<p[1], p[2]>>
  BY DEF AllTasks

\* There are finitely many tasks.
LEMMA FiniteTasks ==
  ASSUME Inv
  PROVE  /\ IsFiniteSet(AllTasks) /\ Cardinality(AllTasks) \in Nat
         /\ IsFiniteSet(CompletedTasks) /\ Cardinality(CompletedTasks) \in Nat
  <1>1. \A o \in Orders : DOMAIN tasks[o] \subseteq 1 .. 5
    BY LenProperties DEF Inv, TypeInv, TablesOK, QueueInv, Line
  <1>2. AllTasks \in SUBSET (Orders \X (1 .. 5))
    BY <1>1, TaskPairs
  <1>3. IsFiniteSet(Orders \X (1 .. 5))
    <2>1. 1 \in Int /\ 5 \in Int
      OBVIOUS
    <2>2. IsFiniteSet(1 .. 5)
      BY <2>1, FS_Interval
    <2> QED BY <2>2, DashboardAssumption, FS_Product
  <1>4. IsFiniteSet(AllTasks)
    BY <1>2, <1>3, FS_Subset
  <1>5. CompletedTasks \in SUBSET AllTasks
    BY DEF CompletedTasks
  <1> QED BY <1>4, <1>5, FS_Subset, FS_CardinalityType

\* The tasks an order in each state has behind it.
LEMMA TasksOfState ==
  ASSUME Inv, NEW o \in Orders
  PROVE  /\ \A k \in 1 .. 5 : orders[o].state = STAGES[k] =>
              /\ \A i \in 1 .. k : <<o, i>> \in AllTasks
              /\ \A i \in 1 .. k - 1 : <<o, i>> \in CompletedTasks
         /\ orders[o].state = "delivered" => \A i \in 1 .. 5 : <<o, i>> \in CompletedTasks
         /\ orders[o].state = "cancelled" => \A i \in 1 .. 1 : <<o, i>> \in AllTasks
  <1>1. /\ DOMAIN tasks[o] = 1 .. Len(tasks[o]) /\ Len(tasks[o]) \in Nat
        /\ Line(tasks[o]) /\ Fits(orders[o].state, tasks[o])
    BY LenProperties DEF Inv, TypeInv, TablesOK, QueueInv
  <1>2. \A i \in DOMAIN tasks[o] :
          /\ <<o, i>> \in AllTasks
          /\ tasks[o][i].status = "completed" => <<o, i>> \in CompletedTasks
    BY TaskPairs DEF CompletedTasks
  <1>3. ASSUME NEW k \in 1 .. 5, orders[o].state = STAGES[k]
        PROVE  /\ \A i \in 1 .. k : <<o, i>> \in AllTasks
               /\ \A i \in 1 .. k - 1 : <<o, i>> \in CompletedTasks
    <2>1. /\ Len(tasks[o]) \in 1 .. 5 /\ STAGES[Len(tasks[o])] = STAGES[k]
      <3>1. STAGES[k] \in DOMAIN ORDER_TRANSITIONS
        BY StageFacts
      <3> DEFINE m == Len(tasks[o])
      <3>2. m \in Nat /\ m > 0 /\ STAGES[m] = STAGES[k] /\ m <= 5
        BY <1>1, <1>3, <3>1 DEF Fits, Line
      <3> HIDE DEF m
      <3>3. m \in 1 .. 5 /\ STAGES[m] = STAGES[k]
        BY <3>2
      <3> QED BY <3>3 DEF m
    <2>2. Len(tasks[o]) = k
      BY <2>1, StageFacts
    <2> QED BY <1>1, <1>2, <2>2 DEF Line
  <1>4. CASE orders[o].state = "delivered"
    <2>1. Len(tasks[o]) = 5 /\ tasks[o][5].status = "completed"
      BY <1>1, <1>4 DEF Fits
    <2> QED BY <1>1, <1>2, <1>3, <1>4, <2>1 DEF Line
  <1>5. CASE orders[o].state = "cancelled"
    <2>1. 1 \in DOMAIN tasks[o]
      BY <1>1, <1>5 DEF Fits
    <2> QED BY <1>2, <1>3, <1>5, <2>1
  <1> QED BY <1>3, <1>4, <1>5

\* The numbers of orders in each state are accounted for when they are read.
LEMMA CountedNow ==
  ASSUME Inv, NEW n, n = [s \in ORDER_STATES |-> Cardinality(By(s))]
  PROVE  /\ n \in [ORDER_STATES -> Nat]
         /\ Accounted(CompletedTasks, DoneOf(n))
         /\ Accounted(AllTasks, BegunOf(n))
  <1>1. /\ n \in [ORDER_STATES -> Nat]
        /\ \A s \in ORDER_STATES : n[s] = Cardinality(By(s)) /\ Cardinality(By(s)) \in Nat
    BY StateSets
  <1>2. /\ STAGES[1] = "placed" /\ STAGES[2] = "confirmed" /\ STAGES[3] = "preparing"
        /\ STAGES[4] = "ready" /\ STAGES[5] = "out_for_delivery"
    BY DEF STAGES
  <1>3. ASSUME NEW s, NEW m \in Nat, NEW S,
               \A o \in Orders : orders[o].state = s => \A i \in 1 .. m : <<o, i>> \in S
        PROVE  Block(By(s), m) \subseteq S
    BY <1>3 DEF Block, By
  <1>4. ASSUME NEW o \in Orders
        PROVE  /\ orders[o].state = "placed" => \A i \in 1 .. 1 : <<o, i>> \in AllTasks
               /\ orders[o].state = "confirmed" =>
                    /\ \A i \in 1 .. 1 : <<o, i>> \in CompletedTasks
                    /\ \A i \in 1 .. 2 : <<o, i>> \in AllTasks
               /\ orders[o].state = "preparing" =>
                    /\ \A i \in 1 .. 2 : <<o, i>> \in CompletedTasks
                    /\ \A i \in 1 .. 3 : <<o, i>> \in AllTasks
               /\ orders[o].state = "ready" =>
                    /\ \A i \in 1 .. 3 : <<o, i>> \in CompletedTasks
                    /\ \A i \in 1 .. 4 : <<o, i>> \in AllTasks
               /\ orders[o].state = "out_for_delivery" =>
                    /\ \A i \in 1 .. 4 : <<o, i>> \in CompletedTasks
                    /\ \A i \in 1 .. 5 : <<o, i>> \in AllTasks
    <2>1. \A k \in 1 .. 5 : orders[o].state = STAGES[k] =>
            /\ \A i \in 1 .. k : <<o, i>> \in AllTasks
            /\ \A i \in 1 .. k - 1 : <<o, i>> \in CompletedTasks
      BY TasksOfState
    <2> QED BY <1>2, <2>1
  <1>5. CompletedTasks \subseteq AllTasks
    BY DEF CompletedTasks
  <1>6. Accounted(CompletedTasks, DoneOf(n))
    <2> DEFINE P == Tower(0, 1, 2, 3, 4, 5, 0)
    <2>1. IsFiniteSet(P) /\ Cardinality(P) = Height(0, 1, 2, 3, 4, 5, 0)
      BY TowerSize
    <2>2. /\ Block(By("placed"), 0) \subseteq CompletedTasks
          /\ Block(By("cancelled"), 0) \subseteq CompletedTasks
      BY DEF Block
    <2>3. Block(By("confirmed"), 1) \subseteq CompletedTasks
      BY <1>3, <1>4
    <2>4. Block(By("preparing"), 2) \subseteq CompletedTasks
      BY <1>3, <1>4
    <2>5. Block(By("ready"), 3) \subseteq CompletedTasks
      BY <1>3, <1>4
    <2>6. Block(By("out_for_delivery"), 4) \subseteq CompletedTasks
      BY <1>3, <1>4
    <2>7. Block(By("delivered"), 5) \subseteq CompletedTasks
      BY <1>3, TasksOfState
    <2>8. Cardinality(P) = DoneOf(n)
      <3> HIDE DEF P
      <3> QED BY <1>1, <2>1 DEF Height, DoneOf, ORDER_STATES
    <2>9. P \subseteq CompletedTasks
      BY <2>2, <2>3, <2>4, <2>5, <2>6, <2>7 DEF Tower
    <2> HIDE DEF P
    <2> QED BY <2>1, <2>8, <2>9 DEF Accounted
  <1>7. Accounted(AllTasks, BegunOf(n))
    <2> DEFINE P == Tower(1, 2, 3, 4, 5, 5, 1)
    <2>1. IsFiniteSet(P) /\ Cardinality(P) = Height(1, 2, 3, 4, 5, 5, 1)
      BY TowerSize
    <2>2. Block(By("placed"), 1) \subseteq AllTasks
      BY <1>3, <1>4
    <2>3. Block(By("confirmed"), 2) \subseteq AllTasks
      BY <1>3, <1>4
    <2>4. Block(By("preparing"), 3) \subseteq AllTasks
      BY <1>3, <1>4
    <2>5. Block(By("ready"), 4) \subseteq AllTasks
      BY <1>3, <1>4
    <2>6. Block(By("out_for_delivery"), 5) \subseteq AllTasks
      <3>1. \A o \in Orders : orders[o].state = "out_for_delivery" =>
              \A i \in 1 .. 5 : <<o, i>> \in AllTasks
        BY <1>4
      <3> QED BY <1>3, <3>1
    <2>7. Block(By("delivered"), 5) \subseteq AllTasks
      <3>1. \A o \in Orders : orders[o].state = "delivered" =>
              \A i \in 1 .. 5 : <<o, i>> \in AllTasks
        BY <1>5, TasksOfState
      <3> QED BY <1>3, <3>1
    <2>8. Block(By("cancelled"), 1) \subseteq AllTasks
      <3>1. \A o \in Orders : orders[o].state = "cancelled" =>
              \A i \in 1 .. 1 : <<o, i>> \in AllTasks
        BY TasksOfState
      <3> QED BY <1>3, <3>1
    <2>9. Cardinality(P) = BegunOf(n)
      <3> HIDE DEF P
      <3> QED BY <1>1, <2>1 DEF Height, BegunOf, DoneOf, ORDER_STATES
    <2>10. P \subseteq AllTasks
      BY <2>2, <2>3, <2>4, <2>5, <2>6, <2>7, <2>8 DEF Tower
    <2> HIDE DEF P
    <2> QED BY <2>1, <2>9, <2>10 DEF Accounted
  <1> QED BY <1>1, <1>6, <1>7
\* What is accounted for stays so as long as the tasks do.
LEMMA AccountedGrows ==
  ASSUME NEW S, NEW T, S \subseteq T, NEW n, Accounted(S, n)
  PROVE  Accounted(T, n)
  BY DEF Accounted

LEMMA TasksGrowUp ==
  ASSUME Inv, TrailInv, [Next]_vars
  PROVE  AllTasks \subseteq AllTasks' /\ CompletedTasks \subseteq CompletedTasks'
  <1>1. \A o \in Orders : DOMAIN tasks[o] # {} => orders[o].state # Absent
    BY DEF Inv, TypeInv, Unplaced
  <1>2. \A p \in AllTasks : Grows(p[1])
    BY <1>1, TaskPairs, OrderGrows
  <1>3. \A o \in Orders : \A i \in DOMAIN tasks'[o] : <<o, i>> \in AllTasks'
    BY DEF AllTasks
  <1>4. AllTasks \subseteq AllTasks'
    BY <1>2, <1>3, TaskPairs DEF Grows
  <1>5. \A p \in CompletedTasks : p \in AllTasks' /\ tasks'[p[1]][p[2]].status = "completed"
    BY <1>2, <1>4, TaskPairs DEF Grows, CompletedTasks
  <1>6. CompletedTasks \subseteq CompletedTasks'
    BY <1>5 DEF CompletedTasks
  <1> QED BY <1>4, <1>6

\* An overview request: the tasks behind the numbers of orders it read are there from
\* then on, and so are they when it counts them.
OverviewInv ==
  LET n == request.counts IN
  /\ request.done <= 2
  /\ request.done >= 1 =>
       Accounted(CompletedTasks, DoneOf(n)) /\ Accounted(AllTasks, BegunOf(n))
  /\ request.done >= 2 => request.completed >= DoneOf(n) /\ request.total >= BegunOf(n)

RequestInv ==
  /\ request \in Request
  /\ request.view = "detail" => DetailInv
  /\ request.view = "overview" => OverviewInv

--------------------------------------------------------------------------------
\* Steps.

LEMMA NoRequestType == NoRequest \in Request /\ NoRequest.view = "none"
  BY DEF NoRequest, Request, ORDER_STATES

\* While a response is put together, the pipeline goes on.
LEMMA PipelineGoesOn ==
  ASSUME Inv, TrailInv, RequestInv, [Next]_vars, request' = request \/ request' = NoRequest
  PROVE  RequestInv'
  <1>1. CASE request' = NoRequest
    BY <1>1, NoRequestType DEF RequestInv
  <1>2. CASE request' = request
    <2>1. ASSUME request.view = "detail" PROVE DetailInv'
      <3> DEFINE o == request.order
      <3>1. DetailInv
        BY <2>1 DEF RequestInv
      <3>2. /\ o \in Orders /\ orders[o].state # Absent
            /\ request.version \in Nat
            /\ Len(tasks[o]) \in Nat /\ Len(tasks'[o]) \in Nat
        <4>1. Inv'
          BY InvStep
        <4> QED BY <3>1, <4>1, LenProperties
            DEF DetailInv, RequestInv, Request, Inv, TypeInv, TablesOK
      <3>3. Grows(o)
        BY <3>2, OrderGrows
      <3>4. Least(request.version) \in Nat
        BY <3>2, LeastBound
      <3>5. orders'[o].state # Absent
        BY <3>3 DEF Grows
      <3>6. HasMove(events[o], request.version, request.state) =>
              HasMove(events'[o], request.version, request.state)
        BY <3>3 DEF Grows
      <3>7. Len(tasks[o]) >= Least(request.version) => Len(tasks'[o]) >= Least(request.version)
        BY <3>2, <3>3, <3>4 DEF Grows
      <3> QED BY <1>2, <3>1, <3>2, <3>5, <3>6, <3>7 DEF DetailInv
    <2>2. ASSUME request.view = "overview" PROVE OverviewInv'
      BY <1>2, <2>2, TasksGrowUp, AccountedGrows DEF OverviewInv, RequestInv
    <2> QED BY <1>2, <2>1, <2>2 DEF RequestInv
  <1> QED BY <1>1, <1>2
\* Which request is where, at each statement.
LEMMA AtStatement ==
  ASSUME RequestInv, request.view # "none", ~Complete
  PROVE  /\ request.done \in 0 .. 2
         /\ NextStatement = "order" => request.view = "detail" /\ request.done = 0
         /\ NextStatement = "tasks" => request.view = "detail" /\ request.done = 1
         /\ NextStatement = "events" => request.view = "detail" /\ request.done = 2
         /\ NextStatement = "order_counts" => request.view = "overview" /\ request.done = 0
         /\ NextStatement = "task_counts" => request.view = "overview" /\ request.done = 1
  <1>1. /\ request \in Request
        /\ request.view \in {"detail", "overview"}
        /\ request.view = "overview" => request.done <= 2
    BY DEF RequestInv, OverviewInv, Request
  <1>2. request.done \in 0 .. 3
    BY <1>1 DEF Request
  <1>3. CASE request.view = "detail"
    <2>1. request.done = 0 \/ request.done = 1 \/ request.done = 2
      BY <1>1, <1>2, <1>3, StatementOrder
    <2> QED BY <1>1, <1>3, <2>1, StatementOrder
  <1>4. CASE request.view = "overview"
    <2>1. request.done = 0 \/ request.done = 1
      BY <1>1, <1>2, <1>4, StatementOrder
    <2> QED BY <1>1, <1>4, <2>1, StatementOrder
  <1> QED BY <1>1, <1>3, <1>4

\* A request begins.
LEMMA RequestBegins ==
  ASSUME RequestInv, NEW view, NEW o \in Orders \union {NoOrder}, begin_request(view, o),
         UNCHANGED vars
  PROVE  RequestInv'
  <1>1. /\ NoRequest \in Request /\ NoRequest.done = 0
        /\ request' = [NoRequest EXCEPT !.view = view, !.order = o]
        /\ view \in {"detail", "overview"} /\ (view = "detail" => o \in PlacedOrders)
    BY NoRequestType, DashboardAssumption DEF begin_request, NoRequest
  <1>2. /\ request' \in Request /\ request'.view = view /\ request'.order = o
        /\ request'.done = 0
    BY <1>1 DEF Request
  <1>3. view = "detail" => DetailInv'
    BY <1>1, <1>2 DEF DetailInv, PlacedOrders, vars
  <1>4. view = "overview" => OverviewInv'
    BY <1>2 DEF OverviewInv
  <1> QED BY <1>2, <1>3, <1>4 DEF RequestInv

\* A statement has run.
LEMMA HasRun ==
  ASSUME NEW r \in Request, r.done \in 0 .. 2, Run(r)
  PROVE  /\ request' \in Request /\ request'.done = r.done + 1
         /\ request'.view = r.view /\ request'.order = r.order /\ request'.state = r.state
         /\ request'.version = r.version /\ request'.rows = r.rows
         /\ request'.trail = r.trail /\ request'.counts = r.counts
         /\ request'.completed = r.completed /\ request'.total = r.total
  <1>1. r.done + 1 \in 0 .. 3
    OBVIOUS
  <1>2. request' = [r EXCEPT !.done = r.done + 1]
    BY DEF Run
  <1> DEFINE d == r.done + 1
  <1> HIDE DEF d
  <1>3. d \in 0 .. 3 /\ request' = [r EXCEPT !.done = d]
    BY <1>1, <1>2 DEF d
  <1>4. /\ request'.done = d
        /\ request'.view = r.view /\ request'.order = r.order /\ request'.state = r.state
        /\ request'.version = r.version /\ request'.rows = r.rows
        /\ request'.trail = r.trail /\ request'.counts = r.counts
        /\ request'.completed = r.completed /\ request'.total = r.total
    BY <1>3 DEF Request
  <1>5. request' \in Request
    BY <1>3 DEF Request
  <1> QED BY <1>4, <1>5 DEF d

\* It reads the row of its order,
LEMMA OrderRead ==
  ASSUME Inv, TrailInv, RequestInv, request.view # "none", ~Complete, read_order,
         UNCHANGED vars
  PROVE  RequestInv'
  <1> DEFINE o == request.order
  <1>1. /\ request \in Request /\ request.view = "detail" /\ request.done = 0
        /\ o \in Orders /\ orders[o].state # Absent
    BY AtStatement DEF RequestInv, DetailInv, read_order
  <1>2. /\ orders[o].state \in ORDER_STATES \union {Absent} /\ orders[o].version \in Nat
        /\ OrderTold(o)
    BY <1>1 DEF Inv, TypeInv, TablesOK, OrderRow, TrailInv
  <1>3. /\ request' \in Request /\ request'.view = "detail" /\ request'.done = 1
        /\ request'.order = o /\ request'.state = orders[o].state
        /\ request'.version = orders[o].version
    <2> DEFINE q == [request EXCEPT !.state = orders[o].state, !.version = orders[o].version]
    <2>1. /\ q \in Request /\ q.view = "detail" /\ q.done = 0 /\ q.order = o
          /\ q.state = orders[o].state /\ q.version = orders[o].version
      BY <1>1, <1>2 DEF Request
    <2>2. Run(q)
      BY DEF read_order
    <2> HIDE DEF q
    <2> QED BY <2>1, <2>2, HasRun
  <1>4. /\ orders[o].version > 0 => HasMove(events[o], orders[o].version, orders[o].state)
        /\ orders[o].state # "cancelled" => Len(tasks[o]) >= Least(orders[o].version)
    BY <1>1, <1>2, OrderCovered
  <1>5. DetailInv'
    BY <1>1, <1>3, <1>4 DEF DetailInv, vars
  <1> QED BY <1>3, <1>5 DEF RequestInv

\* then its tasks,
LEMMA TasksRead ==
  ASSUME Inv, RequestInv, request.view # "none", ~Complete, read_tasks, UNCHANGED vars
  PROVE  RequestInv'
  <1> DEFINE o == request.order
  <1>1. /\ request \in Request /\ request.view = "detail" /\ request.done = 1
        /\ DetailInv /\ o \in Orders
    BY AtStatement DEF RequestInv, DetailInv, read_tasks
  <1>2. Len(tasks[o]) \in Nat
    BY <1>1, LenProperties DEF Inv, TypeInv, TablesOK
  <1>3. /\ request' \in Request /\ request'.view = "detail" /\ request'.done = 2
        /\ request'.order = o /\ request'.state = request.state
        /\ request'.version = request.version /\ request'.rows = Len(tasks[o])
    <2> DEFINE q == [request EXCEPT !.rows = Len(tasks[o])]
    <2>1. /\ q \in Request /\ q.view = "detail" /\ q.done = 1 /\ q.order = o
          /\ q.state = request.state /\ q.version = request.version
          /\ q.rows = Len(tasks[o])
      BY <1>1, <1>2 DEF Request
    <2>2. Run(q)
      BY DEF read_tasks
    <2> HIDE DEF q
    <2> QED BY <2>1, <2>2, HasRun
  <1>4. DetailInv'
    BY <1>1, <1>3 DEF DetailInv, vars
  <1> QED BY <1>3, <1>4 DEF RequestInv

\* then its events.
LEMMA EventsRead ==
  ASSUME Inv, RequestInv, request.view # "none", ~Complete, read_events, UNCHANGED vars
  PROVE  RequestInv'
  <1> DEFINE o == request.order
             E == events[o]
             n == IF Len(E) <= ORDER_DETAIL_EVENT_LIMIT THEN Len(E) ELSE ORDER_DETAIL_EVENT_LIMIT
             F == SubSeq(E, 1, n)
  <1>1. /\ request \in Request /\ request.view = "detail" /\ request.done = 2
        /\ DetailInv /\ o \in Orders
    BY AtStatement DEF RequestInv, DetailInv, read_events
  <1>2. E \in Seq(EventRow) /\ Len(E) \in Nat /\ n \in 0 .. Len(E)
    <2>1. E \in Seq(EventRow) /\ Len(E) \in Nat
      BY <1>1, LenProperties DEF Inv, TypeInv, TablesOK
    <2> HIDE DEF E
    <2> QED BY <2>1, DashboardAssumption
  <1>3. F \in Seq(EventRow) /\ Len(F) = n
    <2> HIDE DEF n, E
    <2> QED BY <1>2, SubSeqProperties
  <1>4. Len(F) < ORDER_DETAIL_EVENT_LIMIT => F = E
    <2>1. Len(F) < ORDER_DETAIL_EVENT_LIMIT => n = Len(E)
      BY <1>2, <1>3, DashboardAssumption
    <2>2. SubSeq(E, 1, Len(E)) = E
      <3> HIDE DEF E
      <3> QED BY <1>2, SubSeqFull
    <2> HIDE DEF n
    <2> QED BY <2>1, <2>2
  <1>5. Run([request EXCEPT !.trail = F])
    BY DEF read_events
  <1> HIDE DEF F
  <1>6. /\ request' \in Request /\ request'.view = "detail" /\ request'.done = 3
        /\ request'.order = o /\ request'.state = request.state
        /\ request'.version = request.version /\ request'.rows = request.rows
        /\ request'.trail = F
    <2> DEFINE q == [request EXCEPT !.trail = F]
    <2>1. /\ q \in Request /\ q.view = "detail" /\ q.done = 2 /\ q.order = o
          /\ q.state = request.state /\ q.version = request.version
          /\ q.rows = request.rows /\ q.trail = F
      BY <1>1, <1>3 DEF Request
    <2>2. Run(q)
      BY <1>5
    <2> HIDE DEF q
    <2> QED BY <2>1, <2>2, HasRun
  <1>7. DetailInv'
    BY <1>1, <1>4, <1>6 DEF DetailInv, vars
  <1> QED BY <1>6, <1>7 DEF RequestInv

\* Or it counts the orders,
LEMMA OrdersCounted ==
  ASSUME Inv, RequestInv, request.view # "none", ~Complete, count_orders, UNCHANGED vars
  PROVE  RequestInv'
  <1> DEFINE n == [s \in ORDER_STATES |-> Cardinality(By(s))]
  <1>1. request \in Request /\ request.view = "overview" /\ request.done = 0
    BY AtStatement DEF RequestInv, count_orders
  <1>2. /\ n \in [ORDER_STATES -> Nat] /\ Accounted(CompletedTasks, DoneOf(n))
        /\ Accounted(AllTasks, BegunOf(n))
    BY CountedNow
  <1>3. Run([request EXCEPT !.counts = n])
    BY DEF count_orders, By
  <1> HIDE DEF n
  <1>4. /\ request' \in Request /\ request'.view = "overview" /\ request'.done = 1
        /\ request'.counts = n
    <2> DEFINE q == [request EXCEPT !.counts = n]
    <2>1. q \in Request /\ q.view = "overview" /\ q.done = 0 /\ q.counts = n
      BY <1>1, <1>2 DEF Request
    <2>2. Run(q)
      BY <1>3
    <2> HIDE DEF q
    <2> QED BY <2>1, <2>2, HasRun
  <1>5. AllTasks' = AllTasks /\ CompletedTasks' = CompletedTasks
    BY DEF vars, AllTasks, CompletedTasks
  <1>6. OverviewInv'
    BY <1>2, <1>4, <1>5 DEF OverviewInv
  <1> QED BY <1>4, <1>6 DEF RequestInv

\* then the tasks.
LEMMA TasksCounted ==
  ASSUME Inv, RequestInv, request.view # "none", ~Complete, count_tasks, UNCHANGED vars
  PROVE  RequestInv'
  <1> DEFINE n == request.counts
             total == Cardinality(AllTasks)
             completed == Cardinality(CompletedTasks)
  <1>1. /\ request \in Request /\ request.view = "overview" /\ request.done = 1
        /\ Accounted(CompletedTasks, DoneOf(n)) /\ Accounted(AllTasks, BegunOf(n))
    BY AtStatement DEF RequestInv, count_tasks, OverviewInv
  <1>2. total \in Nat /\ completed \in Nat
    BY FiniteTasks
  <1>3. completed >= DoneOf(n) /\ total >= BegunOf(n)
    <2>1. ASSUME NEW S, IsFiniteSet(S), NEW m, Accounted(S, m) PROVE Cardinality(S) >= m
      <3>1. PICK P \in SUBSET S : IsFiniteSet(P) /\ Cardinality(P) = m
        BY <2>1 DEF Accounted
      <3>2. Cardinality(P) <= Cardinality(S)
        BY <2>1, <3>1, FS_Subset
      <3>3. Cardinality(P) \in Nat /\ Cardinality(S) \in Nat
        BY <2>1, <3>1, FS_CardinalityType
      <3> QED BY <3>1, <3>2, <3>3
    <2> QED BY <1>1, <2>1, FiniteTasks
  <1>4. Run([request EXCEPT !.total = total, !.completed = completed])
    BY DEF count_tasks, CompletedTasks
  <1> HIDE DEF total, completed
  <1>5. /\ request' \in Request /\ request'.view = "overview" /\ request'.done = 2
        /\ request'.counts = n /\ request'.total = total /\ request'.completed = completed
    <2> DEFINE q == [request EXCEPT !.total = total, !.completed = completed]
    <2>1. /\ q \in Request /\ q.view = "overview" /\ q.done = 1 /\ q.counts = n
          /\ q.total = total /\ q.completed = completed
      BY <1>1, <1>2 DEF Request
    <2>2. Run(q)
      BY <1>4
    <2> HIDE DEF q
    <2> QED BY <2>1, <2>2, HasRun
  <1>6. AllTasks' = AllTasks /\ CompletedTasks' = CompletedTasks
    BY DEF vars, AllTasks, CompletedTasks
  <1>7. OverviewInv'
    BY <1>1, <1>3, <1>5, <1>6 DEF OverviewInv
  <1> QED BY <1>5, <1>7 DEF RequestInv

--------------------------------------------------------------------------------
\* The responses.

ViewInv == Inv /\ TrailInv /\ RequestInv

LEMMA ViewInit == DashboardInit => ViewInv
  <1> SUFFICES ASSUME DashboardInit PROVE ViewInv
    OBVIOUS
  <1>1. Inv /\ TrailInv
    BY InvInit, TrailInit DEF DashboardInit
  <1>2. RequestInv
    BY NoRequestType DEF DashboardInit, RequestInv
  <1> QED BY <1>1, <1>2 DEF ViewInv

LEMMA ViewStep == ViewInv /\ [DashboardNext]_view_vars => ViewInv'
  <1> SUFFICES ASSUME ViewInv, [DashboardNext]_view_vars PROVE ViewInv'
    OBVIOUS
  <1>0. Inv /\ TrailInv /\ RequestInv
    BY DEF ViewInv
  <1>1. [Next]_vars
    BY DEF DashboardNext, view_vars
  <1>2. Inv' /\ TrailInv'
    BY <1>0, <1>1, InvStep, TrailStep
  <1>3. CASE Next /\ request' = NextRequest
    BY <1>0, <1>2, <1>3, PipelineGoesOn DEF NextRequest, ViewInv
  <1>4. CASE Read /\ UNCHANGED vars
    <2>1. RequestInv'
      BY <1>0, <1>4, RequestBegins, OrderRead, TasksRead, EventsRead, OrdersCounted,
         TasksCounted DEF Read
    <2> QED BY <1>2, <2>1 DEF ViewInv
  <1>5. CASE UNCHANGED view_vars
    BY <1>0, <1>2, <1>5, PipelineGoesOn DEF view_vars, ViewInv
  <1> QED BY <1>3, <1>4, <1>5 DEF DashboardNext

LEMMA ViewAlways == DashboardSpec => []ViewInv
  BY ViewInit, ViewStep, PTL DEF DashboardSpec

\* The detail view never shows a state without the work and the events behind it,
\* whatever commits between its three statements.
THEOREM DetailsAreCovered == DashboardSpec => []DetailIsCovered
  <1>1. ViewInv => DetailIsCovered
    <2> SUFFICES ASSUME ViewInv, request.view = "detail", Complete PROVE DetailIsCovered
      BY DEF DetailIsCovered
    <2>1. request \in Request /\ DetailInv
      BY DEF ViewInv, RequestInv
    <2>2. request.done = 3
      BY <2>1, StatementOrder
    <2> QED BY <2>1, <2>2 DEF DetailInv, DetailIsCovered, HasMove, Least
  <1> QED BY <1>1, ViewAlways, PTL

\* The overview never shows states that its task counts do not account for, whatever
\* commits between the two.
THEOREM OverviewsAddUp == DashboardSpec => []OverviewAddsUp
  <1>1. ViewInv => OverviewAddsUp
    <2> SUFFICES ASSUME ViewInv, request.view = "overview", Complete PROVE OverviewAddsUp
      BY DEF OverviewAddsUp
    <2>1. request \in Request /\ OverviewInv
      BY DEF ViewInv, RequestInv
    <2>2. request.done = 2
      BY <2>1, StatementOrder
    <2>3. /\ request.completed >= DoneOf(request.counts)
          /\ request.total >= BegunOf(request.counts)
      BY <2>1, <2>2 DEF OverviewInv
    <2> QED BY <2>3 DEF OverviewAddsUp, DoneOf, BegunOf
  <1> QED BY <1>1, ViewAlways, PTL

--------------------------------------------------------------------------------
\* The attention list. A task that waits without an error waits no longer than
\* one delay of the schedule.

Soon(row, t) ==
  row.status = "pending" /\ row.last_error = "none" =>
    \E d \in ScheduleDelays : row.next_run_at <= t + d

TasksSoon == \A o \in Orders : \A i \in DOMAIN tasks[o] : Soon(tasks[o][i], now)

\* The delays are natural numbers, and there is one.
LEMMA ScheduleTypes ==
  /\ ScheduleDelays \subseteq Nat
  /\ TASK_RETRY_DELAY_SECONDS \in ScheduleDelays
  <1>1. {RETRY_AFTER[s] : s \in SIMULATED_SERVICES} \subseteq Nat
    BY DelayAssumption
  <1> QED BY <1>1, PipelineAssumption, TaskRowsAssumption DEF ScheduleDelays

\* The statements that leave a task pending without an error date it one delay
\* ahead; the others change its status or record the error.
LEMMA SoonRows ==
  ASSUME NEW r \in TaskRow, NEW t \in Nat, NEW at \in Nat, at <= t
  PROVE  /\ \A w \in Workers : Soon(claim(r, w, t), t)
         /\ Soon(complete_claimed_task(r), t)
         /\ \A u \in Nat : Soon(release_claimed_task(r, u), t)
         /\ \A e \in TASK_ERRORS \ {"none"} : Soon(retry_or_fail_claimed_task(r, at, e), t)
         /\ \A d \in ScheduleDelays : Soon(reschedule_poll_task(r, at + d), t)
         /\ \A d \in ScheduleDelays : Soon(after_not_yet(r, at, d), t)
         /\ Soon(retry_failed_task(r, at), t)
         /\ Soon(r, t) => Soon(cancel_task(r), t)
         /\ \A u \in Nat : Soon(r, t) /\ t <= u => Soon(r, u)
  <1>0. ScheduleDelays \subseteq Nat /\ TASK_RETRY_DELAY_SECONDS \in ScheduleDelays
    BY ScheduleTypes
  <1>1. ASSUME NEW w \in Workers PROVE Soon(claim(r, w, t), t)
    <2>1. claim(r, w, t).status = "running"
      BY DEF claim, TaskRow
    <2> QED BY <2>1 DEF Soon
  <1>2. Soon(complete_claimed_task(r), t)
    <2>1. complete_claimed_task(r).status = "completed"
      BY DEF complete_claimed_task, TaskRow
    <2> QED BY <2>1 DEF Soon
  <1>3. ASSUME NEW u \in Nat PROVE Soon(release_claimed_task(r, u), t)
    <2>1. release_claimed_task(r, u).last_error = "unsupported"
      BY DEF release_claimed_task, TaskRow
    <2> QED BY <2>1 DEF Soon
  <1>4. ASSUME NEW e \in TASK_ERRORS \ {"none"}
        PROVE  Soon(retry_or_fail_claimed_task(r, at, e), t)
    <2>1. retry_or_fail_claimed_task(r, at, e).last_error = e
      BY DEF retry_or_fail_claimed_task, fail_claimed_task, reschedule_claimed_task, TaskRow
    <2> QED BY <2>1 DEF Soon
  <1>5. ASSUME NEW u \in Nat, NEW d \in ScheduleDelays, u <= at + d
        PROVE  Soon(reschedule_poll_task(r, u), t)
    <2>1. reschedule_poll_task(r, u).next_run_at = u
      BY DEF reschedule_poll_task, TaskRow
    <2>2. u <= t + d
      BY <1>0, <1>5
    <2> QED BY <2>1, <2>2 DEF Soon
  <1>6. ASSUME NEW d \in ScheduleDelays PROVE Soon(after_not_yet(r, at, d), t)
    <2>0. r.deadline_at \in Times /\ d \in Nat
      BY <1>0 DEF TaskRow
    <2>1. CASE r.deadline_at = NoTime
      BY <1>4, <2>1 DEF after_not_yet, TASK_ERRORS
    <2>2. CASE r.deadline_at # NoTime /\ at >= r.deadline_at
      <3>1. fail_claimed_task_without_attempt_increment(r, "deadline").status = "failed"
        BY DEF fail_claimed_task_without_attempt_increment, TaskRow
      <3> QED BY <2>2, <3>1 DEF after_not_yet, Soon
    <2>3. CASE r.deadline_at # NoTime /\ ~(at >= r.deadline_at)
      <3> DEFINE u == bounded_next_run_at(at, d, r.deadline_at)
      <3>1. u \in Nat /\ u <= at + d
        BY <2>0, <2>3 DEF bounded_next_run_at, Times, NoTime
      <3> HIDE DEF u
      <3>2. Soon(reschedule_poll_task(r, u), t)
        BY <1>5, <3>1
      <3> QED BY <2>3, <3>2 DEF after_not_yet, u
    <2> QED BY <2>1, <2>2, <2>3
  <1>7. Soon(retry_failed_task(r, at), t)
    <2>1. retry_failed_task(r, at).next_run_at = at
      BY DEF retry_failed_task, TaskRow
    <2>2. at <= t + TASK_RETRY_DELAY_SECONDS
      BY <1>0
    <2> QED BY <1>0, <2>1, <2>2 DEF Soon
  <1>8. ASSUME Soon(r, t) PROVE Soon(cancel_task(r), t)
    <2>1. cancel_task(r) = r \/ cancel_task(r).status = "cancelled"
      BY DEF cancel_task, TaskRow
    <2> QED BY <1>8, <2>1 DEF Soon
  <1>9. ASSUME NEW u \in Nat, Soon(r, t), t <= u PROVE Soon(r, u)
    <2>1. r.next_run_at \in Nat
      BY DEF TaskRow
    <2> QED BY <1>0, <1>9, <2>1 DEF Soon
  <1>10. \A d \in ScheduleDelays : Soon(reschedule_poll_task(r, at + d), t)
    BY <1>0, <1>5
  <1> QED BY <1>1, <1>2, <1>3, <1>4, <1>6, <1>7, <1>8, <1>9, <1>10

\* A follow-up is dated by one of the initial delays, or at once.
LEMMA SoonFollowup ==
  ASSUME NEW rows \in Seq(TaskRow), NEW spec, NEW t \in Nat, NEW at \in Nat, at <= t,
         insert_followup_task(rows, spec, at) # rows
  PROVE  \E row : insert_followup_task(rows, spec, at) = Append(rows, row) /\ Soon(row, t)
  <1> DEFINE schedule == followup_schedule_for_spec(spec, at)
             row == new_task(spec.next_task_type, spec.next_target_state,
                             schedule[1], schedule[2], at)
  <1>1. insert_followup_task(rows, spec, at) = Append(rows, row)
    BY DEF insert_followup_task
  <1>2. \/ schedule[1] = at
        \/ schedule[1] = at + READY_CHECK_INITIAL_DELAY_SECONDS
        \/ schedule[1] = at + DELIVERY_CHECK_INITIAL_DELAY_SECONDS
    BY DEF followup_schedule_for_spec
  <1>3. row.next_run_at = schedule[1]
    BY DEF new_task
  <1> HIDE DEF schedule
  <1>4. \E d \in ScheduleDelays : schedule[1] <= t + d
    <2>1. /\ READY_CHECK_INITIAL_DELAY_SECONDS \in ScheduleDelays
          /\ DELIVERY_CHECK_INITIAL_DELAY_SECONDS \in ScheduleDelays
      BY DEF ScheduleDelays
    <2> QED BY <1>2, <2>1, ScheduleTypes
  <1>5. Soon(row, t)
    <2> HIDE DEF row
    <2> QED BY <1>3, <1>4 DEF Soon
  <1> QED BY <1>1, <1>5

\* A worker's transaction writes such a row to its own task, and moves no order.
SoonWrite(w) ==
  /\ worker[w].phase \in Busy
  /\ UNCHANGED now
  /\ \E row \in TaskRow : WriteTask(w, row) /\ Soon(row, now)

\* The hint or the default a poll waits for is a delay of the schedule.
LEMMA PollDelays ==
  ASSUME NEW r, handler(r) # "unsupported",
         NEW default \in {READY_CHECK_INTERVAL_SECONDS, DELIVERY_CHECK_INTERVAL_SECONDS,
                          TASK_RETRY_DELAY_SECONDS}
  PROVE  poll_delay_seconds(RETRY_AFTER[spec_of(r).service], default) \in ScheduleDelays
  <1>1. spec_of(r).service \in SIMULATED_SERVICES
    BY SpecFacts
  <1> QED BY <1>1 DEF poll_delay_seconds, ScheduleDelays

LEMMA SoonPrepare ==
  ASSUME TablesOK, WorkerOK, NEW w \in Workers,
         \/ prepare_transition_call(w)
         \/ prepare_ready_check_call(w)
         \/ prepare_delivery_check_call(w)
  PROVE  UNCHANGED <<now, tasks>> \/ SoonWrite(w)
  <1>1. worker[w].phase \in Busy /\ UNCHANGED now
    BY DEF prepare_transition_call, prepare_ready_check_call,
           prepare_delivery_check_call, Busy
  <1>2. Task(w) \in TaskRow /\ now \in Nat
    BY <1>1, OwnRow DEF TablesOK
  <1>3. CompleteNoop(w) => SoonWrite(w)
    BY <1>1, <1>2, RowType, SoonRows DEF CompleteNoop, SoonWrite, TASK_ERRORS
  <1>4. MissingInput(w) => SoonWrite(w)
    <2>1. "missing_input" \in TASK_ERRORS \ {"none"}
      BY DEF TASK_ERRORS
    <2> QED BY <1>1, <1>2, <2>1, RowType, SoonRows DEF MissingInput, SoonWrite
  <1>5. release_unsupported_task(w) => SoonWrite(w)
    <2>1. now + UNSUPPORTED_TASK_RELEASE_DELAY_SECONDS \in Nat /\ "none" \in TASK_ERRORS
      BY <1>2, TaskRowsAssumption DEF TASK_ERRORS
    <2> QED BY <1>1, <1>2, <2>1, RowType, SoonRows DEF release_unsupported_task, SoonWrite
  <1>6. \A started : Prepared(w, started) => UNCHANGED tasks
    BY DEF Prepared
  <1> QED BY <1>1, <1>3, <1>4, <1>5, <1>6
          DEF prepare_transition_call, prepare_ready_check_call, prepare_delivery_check_call

LEMMA SoonReschedule ==
  ASSUME TablesOK, WorkerOK, NEW w \in Workers,
         \/ reschedule_transition_after_pending(w)
         \/ reschedule_transition_task(w)
         \/ \E H \in {"ready_check", "delivery_check"} :
              \/ RescheduleAfterError(w, H)
              \/ \E interval \in {READY_CHECK_INTERVAL_SECONDS, DELIVERY_CHECK_INTERVAL_SECONDS} :
                   RescheduleAfterNotYet(w, H, interval)
  PROVE  SoonWrite(w)
  <1>1. /\ worker[w].phase \in Busy /\ UNCHANGED now
        /\ handler(Task(w)) # "unsupported"
    BY DEF reschedule_transition_after_pending, reschedule_transition_task,
           RescheduleAfterError, RescheduleAfterNotYet, Outcome, Busy
  <1>2. Task(w) \in TaskRow /\ worker[w].answered_at \in Nat /\ now \in Nat
    BY <1>1, OwnRow DEF TablesOK
  <1>3. \A at \in worker[w].answered_at .. now : at \in Nat /\ at <= now
    BY <1>2
  <1>4. WriteTask(w, complete_claimed_task(Task(w))) => SoonWrite(w)
    BY <1>1, <1>2, RowType, SoonRows DEF SoonWrite, TASK_ERRORS
  <1>5. ASSUME NEW at \in worker[w].answered_at .. now
        PROVE  WriteTask(w, retry_or_fail_claimed_task(Task(w), at, "downstream"))
                 => SoonWrite(w)
    <2>1. "downstream" \in TASK_ERRORS \ {"none"}
      BY DEF TASK_ERRORS
    <2> QED BY <1>1, <1>2, <1>3, <2>1, RowType, SoonRows DEF SoonWrite
  <1>6. ASSUME NEW at \in worker[w].answered_at .. now, NEW d \in ScheduleDelays
        PROVE  /\ WriteTask(w, reschedule_poll_task(Task(w), at + d)) => SoonWrite(w)
               /\ WriteTask(w, after_not_yet(Task(w), at, d)) => SoonWrite(w)
    <2>1. at \in Nat /\ at <= now /\ d \in Nat /\ at + d \in Nat /\ "none" \in TASK_ERRORS
      BY <1>3, ScheduleTypes DEF TASK_ERRORS
    <2>2. reschedule_poll_task(Task(w), at + d) \in TaskRow
      BY <1>2, <2>1, RowType
    <2>3. after_not_yet(Task(w), at, d) \in TaskRow
      BY <1>2, <2>1, ReturnedRow DEF Returned
    <2> QED BY <1>1, <1>2, <2>1, <2>2, <2>3, SoonRows DEF SoonWrite
  <1>7. CASE reschedule_transition_after_pending(w)
    <2>1. poll_delay_seconds(RETRY_AFTER[SpecOf(w).service], TASK_RETRY_DELAY_SECONDS)
            \in ScheduleDelays
      BY <1>1, PollDelays DEF SpecOf
    <2> QED BY <1>4, <1>6, <1>7, <2>1 DEF reschedule_transition_after_pending
  <1>8. CASE reschedule_transition_task(w)
    BY <1>5, <1>8 DEF reschedule_transition_task
  <1>9. CASE \E H \in {"ready_check", "delivery_check"} : RescheduleAfterError(w, H)
    BY <1>4, <1>5, <1>9 DEF RescheduleAfterError
  <1>10. CASE \E H \in {"ready_check", "delivery_check"} :
                \E interval \in {READY_CHECK_INTERVAL_SECONDS, DELIVERY_CHECK_INTERVAL_SECONDS} :
                  RescheduleAfterNotYet(w, H, interval)
    <2>1. PICK H \in {"ready_check", "delivery_check"},
               interval \in {READY_CHECK_INTERVAL_SECONDS, DELIVERY_CHECK_INTERVAL_SECONDS} :
            RescheduleAfterNotYet(w, H, interval)
      BY <1>10
    <2>2. poll_delay_seconds(RETRY_AFTER[SpecOf(w).service], interval) \in ScheduleDelays
      BY <1>1, PollDelays DEF SpecOf
    <2> QED BY <1>4, <1>6, <2>1, <2>2 DEF RescheduleAfterNotYet
  <1> QED BY <1>7, <1>8, <1>9, <1>10

\* finalize_transition_task completes the task, and dates the next.
LEMMA SoonFinalize ==
  ASSUME TypeInv, TasksSoon, NEW w \in Workers, finalize_transition_task(w)
  PROVE  SoonWrite(w) \/ TasksSoon'
  <1>0. TablesOK /\ WorkerOK /\ now \in Nat
    BY DEF TypeInv, TablesOK
  <1>1. worker[w].phase \in Busy /\ UNCHANGED now
    BY DEF finalize_transition_task, Outcome, Busy
  <1>2. Task(w) \in TaskRow /\ worker[w].answered_at \in Nat
    BY <1>0, <1>1, OwnRow
  <1>3. CASE ~in_source_state(w)
    <2>1. WriteTask(w, complete_claimed_task(Task(w)))
      BY <1>3 DEF finalize_transition_task
    <2> QED BY <1>0, <1>1, <1>2, <2>1, RowType, SoonRows DEF SoonWrite, TASK_ERRORS
  <1>4. CASE in_source_state(w)
    <2>0. AdvanceStep(w)
      <3>1. \A at \in worker[w].answered_at .. now : at \in Nat /\ worker[w].answered_at <= at
        BY <1>0, <1>2
      <3> QED BY <1>1, <1>4, <3>1
              DEF finalize_transition_task, Outcome, AdvanceStep, AdvanceTasks
    <2> DEFINE o == worker[w].order
               i == worker[w].task
               n == Len(tasks[o])
               spec == SpecOf(w)
    <2>1. PICK at \in worker[w].answered_at .. now : AdvanceTasks(o, i, spec, at)
      BY <1>4 DEF finalize_transition_task, AdvanceTasks
    <2>2. at \in Nat /\ at <= now
      BY <1>0, <1>2, <2>1
    <2>3. /\ tasks' \in [Orders -> Seq(TaskRow)]
          /\ \A p \in Orders : p # o => tasks'[p] = tasks[p]
          /\ tasks'[o][i] = complete_claimed_task(Task(w))
          /\ \A j \in DOMAIN tasks[o] : j # i => tasks'[o][j] = tasks[o][j]
          /\ Len(tasks'[o]) = n \/ Len(tasks'[o]) = n + 1
      BY <1>0, <2>0, AdvanceRows
    <2>4. o \in Orders /\ i \in DOMAIN tasks[o]
      BY <1>0, <1>1, OwnRow
    <2>5. /\ tasks[o] \in Seq(TaskRow) /\ tasks'[o] \in Seq(TaskRow)
          /\ tasks \in [Orders -> Seq(TaskRow)]
      BY <1>0, <2>3, <2>4 DEF TablesOK
    <2>6. /\ DOMAIN tasks[o] = 1 .. n /\ n \in Nat
          /\ DOMAIN tasks'[o] = 1 .. Len(tasks'[o]) /\ i # n + 1
      <3> HIDE DEF o, i
      <3> QED BY <2>4, <2>5, LenProperties
    <2>7. Soon(tasks'[o][i], now)
      BY <1>0, <1>2, <2>3, SoonRows
    <2>8. Len(tasks'[o]) = n + 1 => Soon(tasks'[o][n + 1], now)
      <3> HAVE Len(tasks'[o]) = n + 1
      <3> DEFINE ins == insert_followup_task(tasks[o], spec, at)
                 done == complete_claimed_task(Task(w))
      <3>1. tasks'[o] = [ins EXCEPT ![i] = complete_claimed_task(@)]
        <4> HIDE DEF ins, i
        <4> QED BY <2>1, <2>4, <2>5 DEF AdvanceTasks, ins
      <3> HIDE DEF o, i, spec
      <3>2. ins # tasks[o]
        <4> SUFFICES ASSUME ins = tasks[o] PROVE FALSE
          OBVIOUS
        <4>1. DOMAIN tasks'[o] = DOMAIN tasks[o]
          <5> HIDE DEF ins
          <5> QED BY <3>1
        <4> QED BY <2>6, <4>1
      <3>3. PICK row : ins = Append(tasks[o], row) /\ Soon(row, now)
        BY <1>0, <2>2, <2>5, <3>2, SoonFollowup
      <3> HIDE DEF ins
      <3>4. ins[n + 1] = row /\ n + 1 \in DOMAIN ins
        BY <2>5, <2>6, <3>3
      <3>5. tasks'[o][n + 1] = row
        BY <2>6, <3>1, <3>4
      <3> QED BY <3>3, <3>5
    <2>9. ASSUME NEW p \in Orders, NEW j \in DOMAIN tasks'[p] PROVE Soon(tasks'[p][j], now)
      <3> HIDE DEF o, i
      <3>1. CASE p # o
        BY <2>3, <2>9, <3>1 DEF TasksSoon
      <3>2. CASE p = o /\ j \in DOMAIN tasks[o]
        BY <2>3, <2>4, <2>7, <3>2 DEF TasksSoon
      <3>3. CASE p = o /\ j \notin DOMAIN tasks[o]
        <4>0. j \in 1 .. Len(tasks'[o]) /\ j \notin 1 .. n
          BY <2>6, <2>9, <3>3
        <4>1. j = n + 1 /\ Len(tasks'[o]) = n + 1
          <5> HIDE DEF n
          <5> QED BY <2>3, <2>6, <4>0
        <4> QED BY <2>8, <3>3, <4>1
      <3> QED BY <3>1, <3>2, <3>3
    <2> QED BY <1>1, <2>9 DEF TasksSoon
  <1> QED BY <1>3, <1>4

\* Every step keeps every waiting task on schedule.
LEMMA SoonStep ==
  ASSUME TypeInv, TasksSoon, [Next]_vars PROVE TasksSoon'
  <1>0. /\ TablesOK /\ WorkerOK
        /\ now \in Nat
        /\ \A o \in Orders : \A i \in DOMAIN tasks[o] :
             tasks[o][i] \in TaskRow /\ Soon(tasks[o][i], now)
    BY ElementOfSeq DEF TypeInv, TablesOK, TasksSoon
  <1>a. ASSUME UNCHANGED tasks, now' \in Nat, now <= now' PROVE TasksSoon'
    BY <1>0, <1>a, SoonRows DEF TasksSoon
  <1>b. ASSUME UNCHANGED <<now, tasks>> PROVE TasksSoon'
    BY <1>0, <1>a, <1>b
  <1>c. ASSUME tasks' \in [Orders -> Seq(TaskRow)],
               \A p \in Orders : Len(tasks'[p]) = Len(tasks[p])
        PROVE  \A p \in Orders : DOMAIN tasks'[p] = DOMAIN tasks[p]
    BY <1>c, LenProperties DEF TypeInv, TablesOK
  <1>1. ASSUME NEW w \in Workers, SoonWrite(w) PROVE TasksSoon'
    <2>1. PICK row \in TaskRow : WriteTask(w, row) /\ Soon(row, now)
      BY <1>1 DEF SoonWrite
    <2>2. /\ tasks'[worker[w].order][worker[w].task] = row
          /\ \A p \in Orders : \A j \in DOMAIN tasks[p] :
               <<p, j>> # <<worker[w].order, worker[w].task>> => tasks'[p][j] = tasks[p][j]
          /\ \A p \in Orders : DOMAIN tasks'[p] = DOMAIN tasks[p]
      BY <1>0, <1>1, <1>c, <2>1, WroteTask DEF SoonWrite
    <2>3. now' = now
      BY <1>1 DEF SoonWrite
    <2> QED BY <1>0, <2>1, <2>2, <2>3 DEF TasksSoon
  <1>2. ASSUME NEW w \in Workers, claim_one_task(w) PROVE TasksSoon'
    <2>0. PICK o \in Orders : \E i \in DOMAIN tasks[o] :
            tasks' = [tasks EXCEPT ![o][i] = claim(@, w, now)]
      BY <1>2 DEF claim_one_task
    <2>1. PICK i \in DOMAIN tasks[o] : tasks' = [tasks EXCEPT ![o][i] = claim(@, w, now)]
      BY <2>0
    <2>2. /\ tasks'[o][i] = claim(tasks[o][i], w, now)
          /\ \A p \in Orders : \A j \in DOMAIN tasks[p] :
               <<p, j>> # <<o, i>> => tasks'[p][j] = tasks[p][j]
          /\ \A p \in Orders : DOMAIN tasks'[p] = DOMAIN tasks[p]
      BY <1>0, <1>c, <2>1, ClaimRows
    <2>3. Soon(tasks'[o][i], now) /\ now' = now
      BY <1>0, <1>2, <2>2, SoonRows DEF claim_one_task
    <2> QED BY <1>0, <2>2, <2>3 DEF TasksSoon
  <1>3. ASSUME NEW o \in Orders, create_or_get_order(o) PROVE TasksSoon'
    <2>1. PICK at \in ApiStamps : tasks' = [tasks EXCEPT ![o] =
                 <<new_task("advance_state", "confirmed", at, NoTime, at)>>]
      BY <1>3 DEF create_or_get_order
    <2> DEFINE row == new_task("advance_state", "confirmed", at, NoTime, at)
    <2>2. row.next_run_at = at /\ at \in Nat /\ at <= now
      BY <1>0 DEF new_task, ApiStamps
    <2>3. tasks' = [tasks EXCEPT ![o] = <<row>>]
      BY <2>1
    <2> HIDE DEF row
    <2>4. Soon(row, now)
      <3>1. row.next_run_at <= now + TASK_RETRY_DELAY_SECONDS
        BY <1>0, <2>2, TaskRowsAssumption
      <3> QED BY <3>1, ScheduleTypes DEF Soon
    <2>5. tasks'[o] = <<row>> /\ \A p \in Orders : p # o => tasks'[p] = tasks[p]
      BY <1>0, <2>3 DEF TablesOK
    <2>6. now' = now
      BY <1>3 DEF create_or_get_order
    <2> QED BY <1>0, <2>4, <2>5, <2>6 DEF TasksSoon
  <1>4. ASSUME NEW o \in Orders, cancel_order(o) PROVE TasksSoon'
    <2>1. tasks' = [tasks EXCEPT ![o] = [i \in DOMAIN @ |-> cancel_task(@[i])]]
      BY <1>4 DEF cancel_order
    <2>2. /\ \A p \in Orders : p # o => tasks'[p] = tasks[p]
          /\ \A i \in DOMAIN tasks[o] : tasks'[o][i] = cancel_task(tasks[o][i])
          /\ \A p \in Orders : DOMAIN tasks'[p] = DOMAIN tasks[p]
      BY <1>0, <1>c, <2>1, CancelRows
    <2>3. \A i \in DOMAIN tasks'[o] : Soon(tasks'[o][i], now)
      BY <1>0, <2>2, SoonRows
    <2>4. now' = now
      BY <1>4 DEF cancel_order
    <2> QED BY <1>0, <2>2, <2>3, <2>4 DEF TasksSoon
  <1>5. ASSUME NEW o \in Orders, retry_failed_tasks_for_order(o) PROVE TasksSoon'
    <2> DEFINE failed == {i \in DOMAIN tasks[o] : tasks[o][i].status = "failed"}
    <2>0. failed = {i \in DOMAIN tasks[o] : tasks[o][i].status = "failed"}
      OBVIOUS
    <2>1. PICK at \in ApiStamps : tasks' = [tasks EXCEPT ![o] = [i \in DOMAIN @ |->
                 IF i \in failed THEN retry_failed_task(@[i], at) ELSE @[i]]]
      BY <1>5 DEF retry_failed_tasks_for_order
    <2> HIDE DEF failed
    <2>2. at \in Nat /\ at <= now
      BY <1>0 DEF ApiStamps
    <2>3. /\ tasks' \in [Orders -> Seq(TaskRow)]
          /\ \A p \in Orders : Len(tasks'[p]) = Len(tasks[p])
          /\ \A p \in Orders : p # o => tasks'[p] = tasks[p]
          /\ \A i \in DOMAIN tasks[o] : tasks'[o][i] =
               IF i \in failed THEN retry_failed_task(tasks[o][i], at) ELSE tasks[o][i]
      BY <1>0, <2>0, <2>1, <2>2, RetryRows, Zenon
    <2>4. \A p \in Orders : DOMAIN tasks'[p] = DOMAIN tasks[p]
      BY <1>c, <2>3
    <2>5. \A i \in DOMAIN tasks'[o] : Soon(tasks'[o][i], now)
      BY <1>0, <2>2, <2>3, <2>4, SoonRows
    <2>6. now' = now
      BY <1>5 DEF retry_failed_tasks_for_order
    <2> QED BY <1>0, <2>3, <2>4, <2>5, <2>6 DEF TasksSoon
  <1>6. ASSUME NEW w \in Workers, process_task(w) PROVE TasksSoon'
    <2>1. CASE claim_one_task(w)
      BY <1>2, <2>1
    <2>2. CASE skip_after_claim(w)
      BY <1>b, <2>2 DEF skip_after_claim
    <2>3. CASE \/ prepare_transition_call(w)
               \/ prepare_ready_check_call(w)
               \/ prepare_delivery_check_call(w)
      BY <1>0, <1>1, <1>b, <2>3, SoonPrepare
    <2>4. CASE \/ call_restaurant_transition(w) \/ call_courier_assign(w)
               \/ call_restaurant_ready_check(w) \/ call_courier_delivery_check(w)
      BY <1>b, <2>4 DEF call_restaurant_transition, call_courier_assign,
          call_restaurant_ready_check, call_courier_delivery_check, Answer
    <2>5. CASE finalize_transition_task(w)
      BY <1>1, <2>5, SoonFinalize
    <2>6. CASE \/ reschedule_transition_after_pending(w)
               \/ reschedule_transition_task(w)
               \/ reschedule_ready_check_after_error(w)
               \/ reschedule_ready_check_after_not_ready(w)
               \/ reschedule_delivery_check_after_error(w)
               \/ reschedule_delivery_check_after_in_transit(w)
      BY <1>0, <1>1, <2>6, SoonReschedule
      DEF reschedule_ready_check_after_error, reschedule_ready_check_after_not_ready,
          reschedule_delivery_check_after_error,
          reschedule_delivery_check_after_in_transit
    <2> QED BY <1>6, <2>1, <2>2, <2>3, <2>4, <2>5, <2>6 DEF process_task
  <1>7. ASSUME NEW w \in Workers, run_task_poll_loop_exception(w) \/ crash(w)
        PROVE  TasksSoon'
    BY <1>b, <1>7 DEF run_task_poll_loop_exception, crash
  <1>8. CASE update_kill_switch
    BY <1>b, <1>8 DEF update_kill_switch
  <1>9. CASE tick
    BY <1>0, <1>a, <1>9 DEF tick
  <1>10. CASE UNCHANGED vars
    BY <1>b, <1>10 DEF vars
  <1> QED BY <1>3, <1>4, <1>5, <1>6, <1>7, <1>8, <1>9, <1>10 DEF Next

\* The attention list overlooks nobody, whatever the thresholds and the delays.
THEOREM NobodyIsMissed == DashboardSpec => []AttentionMissesNobody
  <1>1. DashboardInit => Inv /\ TasksSoon
    <2> SUFFICES ASSUME DashboardInit PROVE Inv /\ TasksSoon
      OBVIOUS
    <2>1. \A o \in Orders : tasks[o] = <<>>
      BY DEF DashboardInit, Init
    <2> QED BY <2>1, InvInit DEF DashboardInit, TasksSoon
  <1>2. Inv /\ TasksSoon /\ [DashboardNext]_view_vars => Inv' /\ TasksSoon'
    <2>1. [DashboardNext]_view_vars => [Next]_vars
      BY DEF DashboardNext, view_vars
    <2> QED BY <2>1, InvStep, SoonStep DEF Inv
  <1>3. Inv /\ TasksSoon => AttentionMissesNobody
    <2> SUFFICES ASSUME Inv, TasksSoon, NEW o \in PlacedOrders, Live(o), o \notin attention
                 PROVE  LET t == tasks[o][Len(tasks[o])] IN
                        /\ t.last_error = "none"
                        /\ \/ t.status = "running" /\ t.locked_until >= now
                           \/ /\ t.status = "pending"
                              /\ \E d \in ScheduleDelays : t.next_run_at <= now + d
                        /\ now < orders[o].updated_at
                                 + STUCK_ORDER_THRESHOLDS[orders[o].state]
      BY DEF AttentionMissesNobody
    <2> DEFINE n == Len(tasks[o])
               t == tasks[o][n]
    <2>1. /\ o \in Orders /\ ~is_terminal_order_state(orders[o].state)
          /\ orders[o].state \in DOMAIN ORDER_TRANSITIONS
      BY DEF PlacedOrders, Live, is_terminal_order_state, TERMINAL_ORDER_STATES,
             ORDER_TRANSITIONS
    <2>2. ~is_stuck(o) /\ problem_tasks(o) = {}
      BY <2>1 DEF attention
    <2>3. n > 0 /\ t.status \in {"pending", "running", "failed"}
      BY <2>1 DEF Inv, QueueInv, Fits
    <2>4. /\ tasks[o] \in Seq(TaskRow) /\ now \in Nat
          /\ orders[o].updated_at \in Nat
      BY <2>1 DEF Inv, TypeInv, TablesOK, OrderRow
    <2>5. n \in DOMAIN tasks[o] /\ t \in TaskRow
      BY <2>3, <2>4, LenProperties, ElementOfSeq
    <2>6. /\ t.status # "failed"
          /\ ~(t.status = "running" /\ t.locked_until < now)
          /\ ~(t.status \in ACTIVE_TASK_STATUSES /\ t.last_error # "none")
      BY <2>2, <2>5 DEF problem_tasks
    <2>7. Soon(t, now)
      BY <2>1, <2>5 DEF TasksSoon
    <2>8. t.locked_until \in Int
      BY <2>5 DEF TaskRow, Times, NoTime
    <2>9. now < orders[o].updated_at + STUCK_ORDER_THRESHOLDS[orders[o].state]
      <3>1. STUCK_ORDER_THRESHOLDS[orders[o].state] \in Nat
        BY <2>1, DashboardAssumption
      <3> QED BY <2>2, <2>4, <3>1 DEF is_stuck
    <2> HIDE DEF t, n
    <2>10. /\ t.last_error = "none"
           /\ \/ t.status = "running" /\ t.locked_until >= now
              \/ /\ t.status = "pending"
                 /\ \E d \in ScheduleDelays : t.next_run_at <= now + d
      BY <2>3, <2>4, <2>6, <2>7, <2>8 DEF Soon, ACTIVE_TASK_STATUSES
    <2> QED BY <2>9, <2>10 DEF t, n
  <1> QED BY <1>1, <1>2, <1>3, PTL DEF DashboardSpec

--------------------------------------------------------------------------------
\* The latency of the stages.

\* Every service needs some time. The simulator reads its delays with
\* _read_positive_float_env, which passes no other value.
DelaysArePositive == \A o \in Orders : \A s \in SIMULATED_SERVICES : Delay[o][s] > 0

\* A later move has the higher rank.
LEMMA RankGrows ==
  ASSUME NEW E \in Seq(EventRow), NEW i \in Moves(E), NEW j \in Moves(E), i < j
  PROVE  /\ Rank(E, i) \in Nat /\ Rank(E, j) \in Nat
         /\ 1 <= Rank(E, i) /\ Rank(E, i) < Rank(E, j)
  <1> DEFINE A == {x \in Moves(E) : x <= i}
             B == {x \in Moves(E) : x <= j}
  <1>1. IsFiniteSet(Moves(E)) /\ Moves(E) \subseteq Nat
    BY TrailPositions
  <1>2. IsFiniteSet(A) /\ IsFiniteSet(B)
    BY <1>1, FS_Subset
  <1>3. A \subseteq B \ {j} /\ j \in B /\ i \in A
    BY <1>1
  <1>4. /\ Cardinality(A) \in Nat /\ Cardinality(B) \in Nat
        /\ Cardinality(A) # 0
    BY <1>2, <1>3, FS_CardinalityType, FS_EmptySet
  <1>5. IsFiniteSet(B \ {j}) /\ Cardinality(B \ {j}) = Cardinality(B) - 1
    BY <1>2, <1>3, FS_RemoveElement
  <1>6. Cardinality(A) <= Cardinality(B \ {j})
    BY <1>3, <1>5, FS_Subset
  <1> HIDE DEF A, B
  <1>7. 1 <= Cardinality(A) /\ Cardinality(A) < Cardinality(B)
    BY <1>4, <1>5, <1>6
  <1> QED BY <1>4, <1>7 DEF Rank, A, B

\* The first transition follows the creation, and each later one the transition
\* of the stage before.
LEMMA StageBefore ==
  ASSUME NEW E \in Seq(EventRow), Opening(E), NEW T, Chained(E, T),
         NEW j \in Transitions(E), NEW k \in 1 .. 5, E[j].task_ids = {k}
  PROVE  /\ k = 1 => Before(E, j) = {1}
         /\ \A i \in Transitions(E) : k > 1 /\ E[i].task_ids = {k - 1} => Before(E, j) = {i}
  <1>1. \A i \in Transitions(E), m \in 1 .. 5 : E[i].task_ids = {m} => Rank(E, i) = m
    BY DEF Chained, StageMove
  <1>2. Rank(E, j) = k
    BY <1>1
  <1>3. Moves(E) \subseteq Nat \ {0} /\ 1 \notin Moves(E)
    <2>1. Moves(E) \subseteq 1 .. Len(E)
      BY TrailPositions
    <2> QED BY <2>1 DEF Opening, Moves
  <1>4. Transitions(E) \subseteq Moves(E) /\ \A i \in Moves(E) : i > 1
    BY <1>3 DEF Transitions
  <1>5. j \in Moves(E) /\ j > 1
    BY <1>4
  <1> DEFINE S == {x \in Steps(E) : x < j}
  <1>6. S \subseteq Nat /\ 1 \in S /\ \A x \in S : x # 1 => x \in Moves(E)
    BY <1>3, <1>5 DEF Steps
  <1>7. ASSUME k = 1 PROVE Before(E, j) = {1}
    <2>1. ASSUME NEW x \in S PROVE x = 1
      <3>1. CASE x \in Moves(E)
        <4>1. 1 <= Rank(E, x) /\ Rank(E, x) < Rank(E, j) /\ Rank(E, x) \in Nat
          BY <1>5, <3>1, RankGrows
        <4> QED BY <1>2, <1>7, <4>1
      <3> QED BY <1>6, <3>1
    <2>2. S = {1}
      BY <1>6, <2>1
    <2> HIDE DEF S
    <2>3. Latest(S) = {1}
      BY <2>2 DEF Latest
    <2> QED BY <2>3 DEF S, Before
  <1>8. ASSUME NEW i \in Transitions(E), k > 1, E[i].task_ids = {k - 1}
        PROVE  Before(E, j) = {i}
    <2>1. i \in Moves(E) /\ Rank(E, i) = k - 1
      BY <1>1, <1>4, <1>8
    <2>2. i < j
      <3>1. i # j
        BY <1>2, <2>1
      <3>2. ~(j < i)
        <4> SUFFICES ASSUME j < i PROVE FALSE
          OBVIOUS
        <4>1. Rank(E, j) < Rank(E, i)
          BY <1>5, <2>1, RankGrows
        <4> QED BY <1>2, <2>1, <4>1
      <3> QED BY <1>3, <1>5, <2>1, <3>1, <3>2
    <2>3. i \in S
      BY <2>1, <2>2 DEF Steps
    <2>4. ASSUME NEW x \in S PROVE x <= i
      <3>1. CASE x = 1
        BY <1>3, <1>4, <2>1, <3>1
      <3>2. CASE x \in Moves(E)
        <4> SUFFICES ASSUME ~(x <= i) PROVE FALSE
          OBVIOUS
        <4>1. i < x /\ x < j
          BY <1>3, <2>1, <3>2
        <4>2. /\ Rank(E, i) < Rank(E, x) /\ Rank(E, x) < Rank(E, j)
              /\ Rank(E, x) \in Nat
          BY <1>5, <2>1, <3>2, <4>1, RankGrows
        <4> QED BY <1>2, <2>1, <4>2
      <3> QED BY <1>6, <3>1, <3>2
    <2>5. i \in Nat
      BY <1>3, <2>1
    <2>6. Latest(S) = {i}
      <3> HIDE DEF S
      <3>1. \A x \in S : i <= x => x = i
        BY <1>6, <2>4, <2>5
      <3> QED BY <2>3, <2>4, <2>5, <3>1 DEF Latest
    <2> QED BY <2>6 DEF Before
  <1> QED BY <1>7, <1>8

\* The stages a trail records the end of, with the dates; the creation counts as 0.
StageDone(E) == {0} \union {k \in 1 .. 5 : \E j \in Transitions(E) : E[j].task_ids = {k}}

StageDate(E) ==
  [k \in StageDone(E) |->
     IF k = 0 THEN E[1].occurred_at
     ELSE E[CHOOSE j \in Transitions(E) : E[j].task_ids = {k}].occurred_at]

\* The transition that ended stage k gave its event the date.
LEMMA StageDated ==
  ASSUME NEW E, NEW T, Chained(E, T), NEW j \in Transitions(E), NEW k \in 1 .. 5,
         E[j].task_ids = {k}
  PROVE  /\ k \in StageDone(E)
         /\ StageDate(E)[k] = E[j].occurred_at
         /\ E[j].to_state = ORDER_TRANSITIONS[STAGES[k]]
         /\ k \in DOMAIN T
  <1>1. k \in StageDone(E) /\ k # 0
    BY DEF StageDone
  <1>2. \A i \in Transitions(E) : E[i].task_ids = {k} => i = j
    BY DEF Chained
  <1>3. (CHOOSE i \in Transitions(E) : E[i].task_ids = {k}) = j
    BY <1>2
  <1>4. PICK m \in 1 .. 5 :
          /\ E[j].task_ids = {m} /\ E[j].to_state = ORDER_TRANSITIONS[STAGES[m]]
          /\ m \in DOMAIN T
    BY DEF Chained, StageMove
  <1>5. m = k
    BY <1>4
  <1> QED BY <1>1, <1>3, <1>4, <1>5 DEF StageDate

\* The dates of a placed order: the stages are done one after the other, and each
\* took some time.
LEMMA StagesTakeTime ==
  ASSUME DelaysArePositive, Inv, TrailInv, NEW o \in PlacedOrders
  PROVE  LET E == events[o] IN
         /\ StageDate(E) \in [StageDone(E) -> Nat]
         /\ \A k \in StageDone(E) : k # 0 =>
              /\ k - 1 \in StageDone(E)
              /\ StageDate(E)[k - 1] < StageDate(E)[k]
  <1> DEFINE E == events[o]
             T == tasks[o]
             D == StageDate(E)
  <1>1. /\ o \in Orders /\ E \in Seq(EventRow) /\ T \in Seq(TaskRow)
        /\ Opening(E) /\ Chained(E, T) /\ Delays(o, E, T) /\ Line(T)
    BY DEF PlacedOrders, TrailInv, OrderTold, Trail, Inv, TypeInv, TablesOK, QueueInv
  <1>2. DOMAIN E = 1 .. Len(E) /\ Len(E) \in Nat /\ 1 \in DOMAIN E
    BY <1>1, LenProperties, EmptySeq DEF Opening
  <1>3. \A i \in DOMAIN E : E[i].occurred_at \in Nat
    <2>1. \A i \in DOMAIN E : E[i] \in EventRow
      BY <1>1, ElementOfSeq
    <2> QED BY <2>1 DEF EventRow
  <1>4. DOMAIN T = 1 .. Len(T) /\ Len(T) \in Nat /\ Len(T) <= 5
    BY <1>1, LenProperties DEF Line
  <1> HIDE DEF E, T
  <1>5. 0 \in StageDone(E) /\ D[0] = E[1].occurred_at
    BY DEF StageDone, StageDate
  <1>6. \A k \in StageDone(E) : k # 0 =>
          k \in 1 .. 5 /\ \E j \in Transitions(E) : E[j].task_ids = {k}
    BY DEF StageDone
  <1>7. Transitions(E) \subseteq Moves(E) /\ Moves(E) \subseteq DOMAIN E
    BY DEF Transitions, Moves
  <1>8. D \in [StageDone(E) -> Nat]
    <2>1. ASSUME NEW k \in StageDone(E) PROVE D[k] \in Nat
      <3>1. CASE k = 0
        BY <1>2, <1>3, <1>5, <3>1
      <3>2. CASE k # 0
        <4>1. k \in 1 .. 5
          BY <1>6, <3>2
        <4>2. PICK j \in Transitions(E) : E[j].task_ids = {k}
          BY <1>6, <3>2
        <4>3. D[k] = E[j].occurred_at
          BY <1>1, <4>1, <4>2, StageDated
        <4> QED BY <1>3, <1>7, <4>3
      <3> QED BY <3>1, <3>2
    <2> QED BY <2>1 DEF StageDate
  <1>9. ASSUME NEW k \in StageDone(E), k # 0
        PROVE  k - 1 \in StageDone(E) /\ D[k - 1] < D[k]
    <2>1. k \in 1 .. 5
      BY <1>6, <1>9
    <2>2. PICK j \in Transitions(E) : E[j].task_ids = {k}
      BY <1>6, <1>9
    <2>3. D[k] = E[j].occurred_at /\ k \in DOMAIN T
      BY <1>1, <2>1, <2>2, StageDated
    <2>4. \A i \in Before(E, j) :
            E[j].occurred_at >= E[i].occurred_at + Delay[o][spec_of(T[k]).service]
      BY <1>1, <1>7, <2>2 DEF Delays
    <2>5. Delay[o][spec_of(T[k]).service] \in Nat \ {0}
      <3>1. spec_of(T[k]).service \in SIMULATED_SERVICES
        BY <1>1, <1>4, <2>3, SpecFacts DEF Line
      <3> QED BY <1>1, <3>1, DelayAssumption DEF DelaysArePositive
    <2>6. ASSUME NEW i \in DOMAIN E, Before(E, j) = {i}, k - 1 \in StageDone(E),
                 D[k - 1] = E[i].occurred_at
          PROVE  D[k - 1] < D[k]
      <3>1. /\ E[i].occurred_at \in Nat /\ E[j].occurred_at \in Nat
            /\ E[j].occurred_at >= E[i].occurred_at + Delay[o][spec_of(T[k]).service]
        BY <1>3, <1>7, <2>4, <2>6
      <3> HIDE DEF D
      <3> QED BY <2>3, <2>5, <2>6, <3>1
    <2>7. CASE k = 1
      <3>1. Before(E, j) = {1}
        BY <1>1, <2>1, <2>2, <2>7, StageBefore
      <3>2. k - 1 = 0
        BY <2>7
      <3> QED BY <1>2, <1>5, <2>6, <3>1, <3>2
    <2>8. CASE k # 1
      <3>1. k \in 2 .. Len(T) /\ k - 1 \in 1 .. 5 /\ k > 1
        BY <1>4, <2>1, <2>3, <2>8
      <3>2. PICK i \in Transitions(E) : E[i].task_ids = {k - 1}
        BY <1>1, <3>1 DEF Chained
      <3>3. k - 1 \in StageDone(E) /\ D[k - 1] = E[i].occurred_at
        BY <1>1, <3>1, <3>2, StageDated
      <3>4. Before(E, j) = {i}
        BY <1>1, <2>1, <2>2, <3>1, <3>2, StageBefore
      <3> QED BY <1>7, <2>6, <3>3, <3>4
    <2> QED BY <2>7, <2>8
  <1> QED BY <1>8, <1>9 DEF E

\* Stage k begins where stage k - 1 ended.
StageState(k) == IF k = 0 THEN "placed" ELSE ORDER_TRANSITIONS[STAGES[k]]

LEMMA StageStates ==
  /\ \A k \in 1 .. 5 : /\ StageState(k - 1) = STAGES[k]
                       /\ StageState(k) = ORDER_TRANSITIONS[STAGES[k]]
  /\ STAGES[1] = "placed" /\ STAGES[2] = "confirmed" /\ STAGES[3] = "preparing"
  /\ STAGES[4] = "ready" /\ STAGES[5] = "out_for_delivery"
  /\ StageState(5) = "delivered"
  /\ DOMAIN ORDER_TRANSITIONS =
       {"placed", "confirmed", "preparing", "ready", "out_for_delivery"}
  <1>1. /\ STAGES[1] = "placed" /\ STAGES[2] = "confirmed" /\ STAGES[3] = "preparing"
        /\ STAGES[4] = "ready" /\ STAGES[5] = "out_for_delivery"
    BY DEF STAGES
  <1>2. /\ ORDER_TRANSITIONS["placed"] = "confirmed"
        /\ ORDER_TRANSITIONS["confirmed"] = "preparing"
        /\ ORDER_TRANSITIONS["preparing"] = "ready"
        /\ ORDER_TRANSITIONS["ready"] = "out_for_delivery"
        /\ ORDER_TRANSITIONS["out_for_delivery"] = "delivered"
        /\ DOMAIN ORDER_TRANSITIONS =
             {"placed", "confirmed", "preparing", "ready", "out_for_delivery"}
    BY DEF ORDER_TRANSITIONS
  <1>3. \A k \in 1 .. 5 : k = 1 \/ k = 2 \/ k = 3 \/ k = 4 \/ k = 5
    OBVIOUS
  <1>4. \A k \in 1 .. 5 : StageState(k - 1) = STAGES[k]
    <2> SUFFICES ASSUME NEW k \in 1 .. 5 PROVE StageState(k - 1) = STAGES[k]
      OBVIOUS
    <2>1. /\ k = 1 => k - 1 = 0
          /\ k = 2 => k - 1 = 1
          /\ k = 3 => k - 1 = 2
          /\ k = 4 => k - 1 = 3
          /\ k = 5 => k - 1 = 4
      OBVIOUS
    <2> QED BY <1>1, <1>2, <1>3, <2>1 DEF StageState
  <1>5. \A k \in 1 .. 5 : StageState(k) = ORDER_TRANSITIONS[STAGES[k]]
    BY DEF StageState
  <1> QED BY <1>1, <1>2, <1>4, <1>5

\* Stages that follow one another in time are in order.
LEMMA DatesInOrder ==
  ASSUME NEW K \in SUBSET (0 .. 5), NEW D \in [K -> Nat],
         \A k \in K : k # 0 => k - 1 \in K /\ D[k - 1] < D[k]
  PROVE  /\ \A a, b \in K : a < b => D[a] < D[b] /\ a + 1 \in K
         /\ \A a, b \in K : D[a] <= D[b] => a <= b
  <1>1. /\ 1 \in K => 0 \in K /\ D[0] < D[1]
        /\ 2 \in K => 1 \in K /\ D[1] < D[2]
        /\ 3 \in K => 2 \in K /\ D[2] < D[3]
        /\ 4 \in K => 3 \in K /\ D[3] < D[4]
        /\ 5 \in K => 4 \in K /\ D[4] < D[5]
    OBVIOUS
  <1>2. \A k \in K : k \in {0, 1, 2, 3, 4, 5} /\ D[k] \in Nat
    OBVIOUS
  <1>3. ASSUME NEW a \in K, NEW b \in K, a < b PROVE D[a] < D[b] /\ a + 1 \in K
    <2>1. CASE b = 1
      BY <1>1, <1>2, <1>3, <2>1
    <2>2. CASE b = 2
      BY <1>1, <1>2, <1>3, <2>2
    <2>3. CASE b = 3
      BY <1>1, <1>2, <1>3, <2>3
    <2>4. CASE b = 4
      BY <1>1, <1>2, <1>3, <2>4
    <2>5. CASE b = 5
      BY <1>1, <1>2, <1>3, <2>5
    <2>6. b # 0
      BY <1>2, <1>3
    <2> QED BY <1>2, <2>1, <2>2, <2>3, <2>4, <2>5, <2>6
  <1>4. ASSUME NEW a \in K, NEW b \in K, D[a] <= D[b] PROVE a <= b
    <2>1. b < a => D[b] < D[a]
      BY <1>3
    <2> QED BY <1>2, <1>4, <2>1
  <1> QED BY <1>3, <1>4

\* The entry of the timeline for the end of stage k.
StageEntry(k, d) ==
  [reached_state |-> StageState(k), occurred_at |-> d, event_order |-> IF k = 0 THEN 0 ELSE 1]

\* The query finds the stages that are done, each with its date.
LEMMA TimelineHasStages ==
  ASSUME Inv, TrailInv, NEW o \in PlacedOrders
  PROVE  timeline(o) = {StageEntry(k, StageDate(events[o])[k]) : k \in StageDone(events[o])}
  <1> DEFINE E == events[o]
             T == tasks[o]
             D == StageDate(E)
             K == StageDone(E)
  <1>1. o \in Orders /\ E \in Seq(EventRow) /\ Chained(E, T)
    BY DEF PlacedOrders, TrailInv, OrderTold, Trail, Inv, TypeInv, TablesOK
  <1>2. timeline(o) =
          {[reached_state |-> "placed", occurred_at |-> E[1].occurred_at, event_order |-> 0]}
          \union {[reached_state |-> E[j].to_state, occurred_at |-> E[j].occurred_at,
                   event_order |-> 1] : j \in Transitions(E)}
    <2>1. {j \in DOMAIN E : E[j].event_type = "state_transition"} = Transitions(E)
      BY DEF Transitions, Moves
    <2> QED BY <2>1 DEF timeline
  <1> HIDE DEF E, T
  <1>3. StageEntry(0, D[0]) =
          [reached_state |-> "placed", occurred_at |-> E[1].occurred_at, event_order |-> 0]
    BY DEF StageEntry, StageState, StageDone, StageDate
  <1>4. ASSUME NEW j \in Transitions(E), NEW k \in 1 .. 5, E[j].task_ids = {k}
        PROVE  /\ k \in K
               /\ StageEntry(k, D[k]) = [reached_state |-> E[j].to_state,
                    occurred_at |-> E[j].occurred_at, event_order |-> 1]
    <2>1. k \in K /\ D[k] = E[j].occurred_at /\ E[j].to_state = ORDER_TRANSITIONS[STAGES[k]]
      BY <1>1, <1>4, StageDated
    <2>2. StageState(k) = E[j].to_state /\ k # 0
      BY <2>1, StageStates
    <2> HIDE DEF K, D
    <2> QED BY <2>1, <2>2 DEF StageEntry
  <1>5. \A j \in Transitions(E) : \E k \in 1 .. 5 : E[j].task_ids = {k}
    BY <1>1 DEF Chained, StageMove
  <1>6. \A k \in K : k # 0 =>
          k \in 1 .. 5 /\ \E j \in Transitions(E) : E[j].task_ids = {k}
    BY DEF StageDone
  <1>7. 0 \in K
    BY DEF StageDone
  <1> HIDE DEF K, D
  <1>8. timeline(o) \subseteq {StageEntry(k, D[k]) : k \in K}
    <2> SUFFICES ASSUME NEW e \in timeline(o) PROVE \E k \in K : e = StageEntry(k, D[k])
      OBVIOUS
    <2>1. CASE e = StageEntry(0, D[0])
      BY <1>7, <2>1
    <2>2. CASE e # StageEntry(0, D[0])
      <3>1. PICK j \in Transitions(E) : e = [reached_state |-> E[j].to_state,
                    occurred_at |-> E[j].occurred_at, event_order |-> 1]
        BY <1>2, <1>3, <2>2
      <3>2. PICK k \in 1 .. 5 : E[j].task_ids = {k}
        BY <1>5
      <3>3. k \in K /\ e = StageEntry(k, D[k])
        BY <1>4, <3>1, <3>2
      <3> QED BY <3>3
    <2> QED BY <2>1, <2>2
  <1>9. \A k \in K : StageEntry(k, D[k]) \in timeline(o)
    <2> SUFFICES ASSUME NEW k \in K PROVE StageEntry(k, D[k]) \in timeline(o)
      OBVIOUS
    <2>1. CASE k = 0
      BY <1>2, <1>3, <2>1
    <2>2. CASE k # 0
      <3>1. k \in 1 .. 5
        BY <1>6, <2>2
      <3>2. PICK j \in Transitions(E) : E[j].task_ids = {k}
        BY <1>6, <2>2
      <3>3. StageEntry(k, D[k]) = [reached_state |-> E[j].to_state,
                    occurred_at |-> E[j].occurred_at, event_order |-> 1]
        BY <1>4, <3>1, <3>2
      <3> QED BY <1>2, <3>3
    <2> QED BY <2>1, <2>2
  <1> QED BY <1>8, <1>9 DEF E, K, D

\* Two entries are sequenced by their stages.
LEMMA StagesSequenced ==
  ASSUME NEW K \in SUBSET (0 .. 5), NEW D \in [K -> Nat],
         \A k \in K : k # 0 => k - 1 \in K /\ D[k - 1] < D[k],
         NEW a \in K, NEW b \in K
  PROVE  sequenced_before(StageEntry(a, D[a]), StageEntry(b, D[b])) <=> a < b
  <1> DEFINE x == StageEntry(a, D[a])
             y == StageEntry(b, D[b])
  <1>1. /\ x.occurred_at = D[a] /\ y.occurred_at = D[b]
        /\ a = b => x = y
    BY DEF StageEntry
  <1>2. D[a] \in Nat /\ D[b] \in Nat /\ a \in Int /\ b \in Int
    OBVIOUS
  <1>3. /\ a < b => D[a] < D[b]
        /\ D[a] <= D[b] => a <= b
    BY DatesInOrder
  <1>4. ~sequenced_before(x, x)
    <2>1. \A i, j \in DOMAIN SPELLING : SPELLING[i] = SPELLING[j] => i = j
      <3>1. DOMAIN SPELLING = 1 .. 8
        BY DEF SPELLING
      <3>2. \A i \in 1 .. 8 : i = 1 \/ i = 2 \/ i = 3 \/ i = 4 \/ i = 5 \/ i = 6 \/ i = 7 \/ i = 8
        OBVIOUS
      <3>3. /\ SPELLING[1] = "cancelled" /\ SPELLING[2] = "confirmed"
            /\ SPELLING[3] = "delivered" /\ SPELLING[4] = "failed"
            /\ SPELLING[5] = "out_for_delivery" /\ SPELLING[6] = "placed"
            /\ SPELLING[7] = "preparing" /\ SPELLING[8] = "ready"
        BY DEF SPELLING
      <3> QED BY <3>1, <3>2, <3>3
    <2>2. DOMAIN SPELLING \subseteq Int
      BY DEF SPELLING
    <2>3. ~spelled_before(x.reached_state, x.reached_state)
      <3> DEFINE s == x.reached_state
      <3> HIDE DEF s
      <3>1. ~spelled_before(s, s)
        BY <2>1, <2>2 DEF spelled_before
      <3> QED BY <3>1 DEF s
    <2>4. x.occurred_at \in Int /\ x.event_order \in Int
      BY <1>2 DEF StageEntry
    <2> HIDE DEF x
    <2> QED BY <2>3, <2>4 DEF sequenced_before
  <1> HIDE DEF x, y
  <1>5. ASSUME a < b PROVE sequenced_before(x, y)
    BY <1>1, <1>3, <1>5 DEF sequenced_before
  <1>6. ASSUME sequenced_before(x, y) PROVE a < b
    <2>1. D[a] <= D[b]
      BY <1>1, <1>2, <1>6 DEF sequenced_before
    <2>2. a # b
      BY <1>1, <1>4, <1>6
    <2> QED BY <1>2, <1>3, <2>1, <2>2
  <1> QED BY <1>5, <1>6 DEF x, y

\* lag() pairs every stage with the one before it.
LEMMA StagesAreConsecutive ==
  ASSUME DelaysArePositive, Inv, TrailInv, NEW o \in PlacedOrders,
         NEW s \in stages(o)
  PROVE  \E k \in StageDone(events[o]) :
           /\ k # 0
           /\ s.from_state = StageState(k - 1) /\ s.to_state = StageState(k)
           /\ s.duration = StageDate(events[o])[k] - StageDate(events[o])[k - 1]
           /\ s.duration > 0
  <1> DEFINE E == events[o]
             K == StageDone(E)
             D == StageDate(E)
  <1>1. /\ D \in [K -> Nat]
        /\ \A k \in K : k # 0 => k - 1 \in K /\ D[k - 1] < D[k]
    BY StagesTakeTime
  <1>2. K \in SUBSET (0 .. 5)
    BY DEF StageDone
  <1>3. timeline(o) = {StageEntry(k, D[k]) : k \in K}
    BY TimelineHasStages
  <1> HIDE DEF E, K, D
  <1>4. PICK p \in timeline(o) \X timeline(o) :
          /\ sequenced_before(p[1], p[2])
          /\ ~\E e \in timeline(o) : sequenced_before(p[1], e) /\ sequenced_before(e, p[2])
          /\ s = [from_state |-> p[1].reached_state, to_state |-> p[2].reached_state,
                  duration |-> p[2].occurred_at - p[1].occurred_at]
    BY DEF stages
  <1>5. PICK a \in K : p[1] = StageEntry(a, D[a])
    BY <1>3, <1>4
  <1>6. PICK b \in K : p[2] = StageEntry(b, D[b])
    BY <1>3, <1>4
  <1>7. a < b
    BY <1>1, <1>2, <1>4, <1>5, <1>6, StagesSequenced
  <1>8. b = a + 1
    <2> SUFFICES ASSUME b # a + 1 PROVE FALSE
      OBVIOUS
    <2>1. a + 1 \in K /\ a < a + 1 /\ a + 1 < b
      <3>1. a + 1 \in K
        BY <1>1, <1>2, <1>7, DatesInOrder
      <3> QED BY <1>2, <1>7, <3>1
    <2> DEFINE c == a + 1
    <2>2. c \in K /\ a < c /\ c < b
      BY <2>1
    <2> HIDE DEF c
    <2>3. /\ sequenced_before(p[1], StageEntry(c, D[c]))
          /\ sequenced_before(StageEntry(c, D[c]), p[2])
      BY <1>1, <1>2, <1>5, <1>6, <2>2, StagesSequenced
    <2>4. StageEntry(c, D[c]) \in timeline(o)
      BY <1>3, <2>2
    <2> QED BY <1>4, <2>3, <2>4
  <1>9. b # 0 /\ a = b - 1 /\ D[a] < D[b] /\ D[a] \in Nat /\ D[b] \in Nat
    <2>1. b # 0 /\ a = b - 1
      BY <1>2, <1>8
    <2>2. D[b - 1] < D[b]
      BY <1>1, <2>1
    <2> QED BY <1>1, <2>1, <2>2
  <1>10. /\ s.from_state = StageState(a) /\ s.to_state = StageState(b)
         /\ s.duration = D[b] - D[a]
    BY <1>4, <1>5, <1>6 DEF StageEntry
  <1>11. s.duration > 0
    BY <1>9, <1>10
  <1> QED BY <1>9, <1>10, <1>11 DEF E, K, D

\* When the delays of the simulator are positive, what the latency overview calls
\* a stage is a step of the lifecycle and took some time, and the stages of a
\* delivered order add up to its end-to-end time.
THEOREM StagesAreReal ==
  ASSUME DelaysArePositive PROVE DashboardSpec => []StageLatencyIsReal
  <1>1. Inv /\ TrailInv => StageLatencyIsReal
    <2> SUFFICES ASSUME Inv, TrailInv, NEW o \in PlacedOrders
                 PROVE
                   /\ \A s \in stages(o) :
                        /\ s.from_state \in DOMAIN ORDER_TRANSITIONS
                        /\ s.to_state = ORDER_TRANSITIONS[s.from_state]
                        /\ s.duration > 0
                   /\ \A d \in durations(o) :
                        {s.from_state : s \in stages(o)} = DOMAIN ORDER_TRANSITIONS =>
                          d = TimeIn(o, "placed") + TimeIn(o, "confirmed")
                              + TimeIn(o, "preparing") + TimeIn(o, "ready")
                              + TimeIn(o, "out_for_delivery")
      BY DEF StageLatencyIsReal
    <2> DEFINE E == events[o]
               K == StageDone(E)
               D == StageDate(E)
    <2>1. \A s \in stages(o) : \E k \in 1 .. 5 :
            /\ k \in K
            /\ s.from_state = STAGES[k] /\ s.to_state = ORDER_TRANSITIONS[STAGES[k]]
            /\ s.duration = D[k] - D[k - 1] /\ s.duration > 0
      <3>1. \A k \in K : k # 0 => k \in 1 .. 5
        BY DEF StageDone
      <3> QED BY <3>1, StagesAreConsecutive, StageStates
    <2>2. D \in [K -> Nat]
      BY StagesTakeTime
    <2>3. ASSUME NEW s \in stages(o)
          PROVE  /\ s.from_state \in DOMAIN ORDER_TRANSITIONS
                 /\ s.to_state = ORDER_TRANSITIONS[s.from_state]
                 /\ s.duration > 0
      BY <2>1, StageFacts
    <2>4. ASSUME NEW d \in durations(o) PROVE d = D[5] - D[0] /\ 5 \in K
      <3>1. /\ Opening(E) /\ Chained(E, tasks[o])
        BY DEF PlacedOrders, TrailInv, OrderTold, Trail
      <3>2. PICK j \in DOMAIN E, i \in DOMAIN E :
              /\ E[j].event_type = "state_transition" /\ E[j].to_state = "delivered"
              /\ E[i].event_type = "order_created"
              /\ d = E[j].occurred_at - E[i].occurred_at
        BY <2>4 DEF durations, EventTimes
      <3>3. i = 1 /\ j \in Transitions(E)
        BY <3>1, <3>2 DEF Opening, Transitions, Moves
      <3>4. PICK k \in 1 .. 5 : E[j].task_ids = {k}
        BY <3>1, <3>3 DEF Chained, StageMove
      <3>5. /\ k \in K /\ D[k] = E[j].occurred_at
            /\ ORDER_TRANSITIONS[STAGES[k]] = "delivered"
        BY <3>1, <3>2, <3>3, <3>4, StageDated
      <3>6. k = 5
        BY <3>5, StageStates, StageTargets
      <3>7. D[0] = E[1].occurred_at
        BY DEF StageDate, StageDone
      <3> HIDE DEF E, K, D
      <3> QED BY <3>2, <3>3, <3>5, <3>6, <3>7
    <2>5. ASSUME {s.from_state : s \in stages(o)} = DOMAIN ORDER_TRANSITIONS,
                 NEW k \in 1 .. 5
          PROVE  TimeIn(o, STAGES[k]) = D[k] - D[k - 1] /\ k \in K
      <3>1. STAGES[k] \in DOMAIN ORDER_TRANSITIONS
        BY StageFacts
      <3>2. \E s \in stages(o) : s.from_state = STAGES[k]
        BY <2>5, <3>1
      <3> DEFINE s == CHOOSE s \in stages(o) : s.from_state = STAGES[k]
      <3>3. s \in stages(o) /\ s.from_state = STAGES[k]
        BY <3>2
      <3>4. TimeIn(o, STAGES[k]) = s.duration
        BY DEF TimeIn
      <3> HIDE DEF s, E, K, D
      <3>5. PICK m \in 1 .. 5 :
              m \in K /\ s.from_state = STAGES[m] /\ s.duration = D[m] - D[m - 1]
        BY <2>1, <3>3
      <3>6. m = k
        BY <3>3, <3>5, StageFacts
      <3> QED BY <3>4, <3>5, <3>6
    <2>6. ASSUME {s.from_state : s \in stages(o)} = DOMAIN ORDER_TRANSITIONS,
                 NEW d \in durations(o)
          PROVE  d = TimeIn(o, "placed") + TimeIn(o, "confirmed")
                     + TimeIn(o, "preparing") + TimeIn(o, "ready")
                     + TimeIn(o, "out_for_delivery")
      <3>1. d = D[5] - D[0]
        BY <2>4, <2>6
      <3> HIDE DEF E, K, D
      <3>2. \A k \in 1 .. 5 : TimeIn(o, STAGES[k]) = D[k] - D[k - 1] /\ k \in K
        BY <2>5, <2>6
      <3>3. /\ TimeIn(o, "placed") = D[1] - D[0]
            /\ TimeIn(o, "confirmed") = D[2] - D[1]
            /\ TimeIn(o, "preparing") = D[3] - D[2]
            /\ TimeIn(o, "ready") = D[4] - D[3]
            /\ TimeIn(o, "out_for_delivery") = D[5] - D[4]
            /\ {1, 2, 3, 4, 5} \subseteq K
        BY <3>2, StageStates
      <3>4. 0 \in K
        BY DEF StageDone, K
      <3>5. /\ D[0] \in Nat /\ D[1] \in Nat /\ D[2] \in Nat
            /\ D[3] \in Nat /\ D[4] \in Nat /\ D[5] \in Nat
        BY <2>2, <3>3, <3>4
      <3> QED BY <3>1, <3>3, <3>5
    <2> HIDE DEF E, K, D
    <2> QED BY <2>3, <2>6
  <1>2. DashboardInit => Inv /\ TrailInv
    BY InvInit, TrailInit DEF DashboardInit
  <1>3. Inv /\ TrailInv /\ [DashboardNext]_view_vars => Inv' /\ TrailInv'
    <2>1. [DashboardNext]_view_vars => [Next]_vars
      BY DEF DashboardNext, view_vars
    <2> QED BY <2>1, InvStep, TrailStep
  <1> QED BY <1>1, <1>2, <1>3, PTL DEF DashboardSpec
================================================================================
