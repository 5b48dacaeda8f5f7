---------------------------- MODULE RowLocksProofs ----------------------------
(***************************************************************************)
(* The row locks make the pipeline's transactions atomic, for any number   *)
(* of workers, cancel calls and operator retries: a worker that owns its   *)
(* task has seen the order as it is, and what the statements commit is the *)
(* abstract lifecycle of OrderLifecycle.                                   *)
(***************************************************************************)
EXTENDS RowLocks, SequenceTheorems, TLAPS

Live == {"placed", "confirmed", "preparing", "ready", "out_for_delivery"}

WorkerPlaces == {"idle", "claimed", "prepare", "calling", "finalize", "update", "commit"}
CancelPlaces == {"idle", "lock", "tasks", "sweep", "done"}
RetryPlaces == {"idle", "sweep", "event", "commit", "done"}

TxState == [pc : WorkerPlaces \union CancelPlaces \union RetryPlaces, task : 0 .. 5,
            seen : OrderRow, todo : SUBSET (1 .. 5), rows : SUBSET (1 .. 5)]

\* Rows, locks and transactions.
Shape ==
  /\ order \in OrderRow /\ tasks \in Seq(TaskRow) /\ Len(tasks) <= 5
  /\ order_lock \in Cancels \union Workers \union {NoTx} /\ key_share \subseteq Retries
  /\ task_lock \in [1 .. 5 -> Tx \union {NoTx}]
  /\ tx \in [Tx -> TxState]

\* Where a transaction of each kind can be, and what it has chosen there.
Places ==
  /\ \A w \in Workers : /\ tx[w].pc \in WorkerPlaces /\ tx[w].todo = {} /\ tx[w].rows = {}
                        /\ tx[w].task <= Len(tasks)
                        /\ tx[w].pc # "idle" => tx[w].task # 0
  /\ \A c \in Cancels : /\ tx[c].pc \in CancelPlaces /\ tx[c].task = 0
                        /\ tx[c].pc # "sweep" => tx[c].todo = {} /\ tx[c].rows = {}
  /\ \A r \in Retries : /\ tx[r].pc \in RetryPlaces /\ tx[r].task = 0
                        /\ tx[r].pc # "sweep" => tx[r].todo = {}
                        /\ tx[r].rows # {} <=> tx[r].pc \in {"event", "commit"}
  /\ \A t \in Tx : \A i \in tx[t].todo \union tx[t].rows : i <= Len(tasks)

\* The task rows a transaction has locked.
Held(t) == IF t \in Workers
             THEN {i \in 1 .. 5 : i = tx[t].task /\ tx[t].pc \in {"update", "commit"}}
             ELSE tx[t].rows

\* Every lock is held by the transaction that needs it, where it needs it.
Locks ==
  /\ \A w \in Workers : order_lock = w <=> tx[w].pc = "commit"
  /\ \A c \in Cancels : order_lock = c <=> tx[c].pc \in {"tasks", "sweep"}
  /\ \A r \in Retries : r \in key_share <=> tx[r].pc = "commit"
  /\ order_lock \in Cancels => key_share = {}
  /\ \A t \in Tx : \A i \in 1 .. 5 : task_lock[i] = t <=> i \in Held(t)

\* The committed rows are a line of work: all but the last task are completed, and
\* an order that can move has its task, pending, running or failed.
Queue ==
  /\ order.state = Absent <=> Len(tasks) = 0
  /\ \A i \in 1 .. Len(tasks) : i < Len(tasks) => tasks[i].status = "completed"
  /\ order.state \in Live => /\ order.state = SOURCE[Len(tasks)]
                             /\ tasks[Len(tasks)].status \in {"pending", "running", "failed"}
  /\ order.state \in {"delivered", "failed"} => tasks[Len(tasks)].status = "completed"

\* What a worker knows as long as it owns its task.
Owners ==
  \A w \in Workers :
    /\ tx[w].pc \in {"prepare", "finalize"} /\ Owned(w) => tx[w].seen = order
    /\ tx[w].pc \in {"calling", "finalize"} /\ Owned(w) => order.state = SOURCE[tx[w].task]
    /\ tx[w].pc \in {"update", "commit"} =>
         Owned(w) /\ tx[w].seen = order /\ order.state = SOURCE[tx[w].task]

\* A cancel that has the order row gets every active task: nothing becomes active
\* behind its snapshot, and what it has locked stays active.
Sweeps ==
  \A c \in Cancels :
    /\ tx[c].pc \in {"tasks", "sweep"} => order.state \in Live
    /\ tx[c].pc = "sweep" =>
         /\ \A i \in tx[c].rows : Active(i)
         /\ \A i \in 1 .. Len(tasks) : Active(i) => i \in tx[c].todo \union tx[c].rows

\* A retry that has locked a row reopens a failed one.
Reopens == \A r \in Retries : \A i \in tx[r].rows : tasks[i].status = "failed"

LocksInv == Shape /\ Places /\ Locks /\ Queue /\ Owners /\ Sweeps /\ Reopens

--------------------------------------------------------------------------------
\* Constants and records.

LEMMA SourceStates ==
  /\ Len(SOURCE) = 5 /\ SOURCE[1] = "placed"
  /\ \A i \in 1 .. 5 : SOURCE[i] \in Live
  /\ \A i \in 1 .. 4 : ORDER_TRANSITIONS[SOURCE[i]] = SOURCE[i + 1]
  /\ ORDER_TRANSITIONS[SOURCE[5]] = "delivered"
  /\ DOMAIN ORDER_TRANSITIONS = Live
<1>1. /\ SOURCE[1] = "placed" /\ SOURCE[2] = "confirmed" /\ SOURCE[3] = "preparing"
      /\ SOURCE[4] = "ready" /\ SOURCE[5] = "out_for_delivery" /\ Len(SOURCE) = 5
  BY DEF SOURCE
<1>2. /\ ORDER_TRANSITIONS["placed"] = "confirmed"
      /\ ORDER_TRANSITIONS["confirmed"] = "preparing"
      /\ ORDER_TRANSITIONS["preparing"] = "ready"
      /\ ORDER_TRANSITIONS["ready"] = "out_for_delivery"
      /\ ORDER_TRANSITIONS["out_for_delivery"] = "delivered"
      /\ DOMAIN ORDER_TRANSITIONS = Live
  BY DEF ORDER_TRANSITIONS, Live
<1>3. \A i \in 1 .. 5 : i = 1 \/ i = 2 \/ i = 3 \/ i = 4 \/ i = 5
  OBVIOUS
<1>4. \A i \in 1 .. 5 : SOURCE[i] \in Live
  BY <1>1, <1>3 DEF Live
<1>5. \A i \in 1 .. 4 : ORDER_TRANSITIONS[SOURCE[i]] = SOURCE[i + 1]
  <2>. TAKE i \in 1 .. 4
  <2>1. i = 1 \/ i = 2 \/ i = 3 \/ i = 4
    OBVIOUS
  <2>2. (i = 1 => i + 1 = 2) /\ (i = 2 => i + 1 = 3) /\ (i = 3 => i + 1 = 4) /\ (i = 4 => i + 1 = 5)
    OBVIOUS
  <2>. QED  BY <1>1, <1>2, <2>1, <2>2
<1>. QED  BY <1>1, <1>2, <1>4, <1>5

\* The three kinds of transaction are different, and NoTx is none.
LEMMA Kinds ==
  /\ \A t \in Tx : t # NoTx
  /\ \A w \in Workers : w \in Tx /\ w \notin Cancels /\ w \notin Retries
  /\ \A c \in Cancels : c \in Tx /\ c \notin Workers /\ c \notin Retries
  /\ \A r \in Retries : r \in Tx /\ r \notin Workers /\ r \notin Cancels
  BY LocksAssumption DEF Tx

AllPlaces == WorkerPlaces \union CancelPlaces \union RetryPlaces

\* The fields of a transaction's record.
Is(r, pc, task, seen, todo, rows) ==
  /\ r \in TxState /\ r.pc = pc /\ r.task = task /\ r.seen = seen
  /\ r.todo = todo /\ r.rows = rows

LEMMA RecordIdle ==
  ASSUME NEW pc \in AllPlaces, NEW task \in 0 .. 5
  PROVE  Is([Idle EXCEPT !.pc = pc, !.task = task], pc, task, Idle.seen, {}, {})
  BY DEF Idle, TxState, AllPlaces, Is, OrderRow

LEMMA RecordPc ==
  ASSUME NEW r \in TxState, NEW pc \in AllPlaces
  PROVE  Is([r EXCEPT !.pc = pc], pc, r.task, r.seen, r.todo, r.rows)
  BY DEF TxState, AllPlaces, Is

LEMMA RecordSeen ==
  ASSUME NEW r \in TxState, NEW pc \in AllPlaces, NEW seen \in OrderRow
  PROVE  Is([r EXCEPT !.pc = pc, !.seen = seen], pc, r.task, seen, r.todo, r.rows)
  BY DEF TxState, AllPlaces, Is

LEMMA RecordTodo ==
  ASSUME NEW r \in TxState, NEW pc \in AllPlaces, NEW todo \in SUBSET (1 .. 5)
  PROVE  /\ Is([r EXCEPT !.pc = pc, !.todo = todo], pc, r.task, r.seen, todo, r.rows)
         /\ Is([r EXCEPT !.todo = todo], r.pc, r.task, r.seen, todo, r.rows)
  BY DEF TxState, AllPlaces, Is

LEMMA RecordRows ==
  ASSUME NEW r \in TxState, NEW todo \in SUBSET (1 .. 5), NEW rows \in SUBSET (1 .. 5)
  PROVE  Is([r EXCEPT !.todo = todo, !.rows = rows], r.pc, r.task, r.seen, todo, rows)
  BY DEF TxState, AllPlaces, Is

LEMMA RecordEvent ==
  ASSUME NEW r \in TxState, NEW pc \in AllPlaces, NEW rows \in SUBSET (1 .. 5)
  PROVE  Is([r EXCEPT !.pc = pc, !.todo = {}, !.rows = rows], pc, r.task, r.seen, {}, rows)
  BY DEF TxState, AllPlaces, Is

\* Only the transaction t moves, and to a record with these fields.
Moves(t, pc, task, seen, todo, rows) ==
  /\ tx' \in [Tx -> TxState]
  /\ Is(tx'[t], pc, task, seen, todo, rows)
  /\ \A s \in Tx : s # t => tx'[s] = tx[s]

LEMMA MovesOne ==
  ASSUME Shape, NEW t \in Tx, NEW r, tx' = [tx EXCEPT ![t] = r],
         NEW pc, NEW task, NEW seen, NEW todo, NEW rows,
         Is(r, pc, task, seen, todo, rows)
  PROVE  Moves(t, pc, task, seen, todo, rows)
<1>1. tx'[t] = r /\ \A s \in Tx : s # t => tx'[s] = tx[s]
  BY DEF Shape
<1>2. tx' \in [Tx -> TxState]
  BY DEF Shape, Is
<1>. QED  BY <1>1, <1>2 DEF Moves

\* A step that moves a transaction on, with nothing else changed in its record.
LEMMA MovesOn ==
  ASSUME Shape, NEW t \in Tx, NEW pc \in AllPlaces, Goto(t, pc)
  PROVE  Moves(t, pc, tx[t].task, tx[t].seen, tx[t].todo, tx[t].rows)
<1>1. tx[t] \in TxState
  BY DEF Shape
<1>2. Is([tx[t] EXCEPT !.pc = pc], pc, tx[t].task, tx[t].seen, tx[t].todo, tx[t].rows)
  BY <1>1, RecordPc
<1>. QED  BY <1>2, MovesOne DEF Goto

--------------------------------------------------------------------------------
\* The end of a transaction.

LEMMA EndMoves ==
  ASSUME Shape, NEW t \in Tx, NEW pc \in {"idle", "calling", "done"}, End(t, pc)
  PROVE  Moves(t, pc, IF pc = "calling" THEN tx[t].task ELSE 0, Idle.seen, {}, {})
<1>. DEFINE k == IF pc = "calling" THEN tx[t].task ELSE 0
<1>1. k \in 0 .. 5
  BY DEF Shape, TxState
<1>2. pc \in AllPlaces
  BY DEF AllPlaces, WorkerPlaces, CancelPlaces
<1>3. tx' = [tx EXCEPT ![t] = [Idle EXCEPT !.pc = pc, !.task = k]]
  BY DEF End
<1>. HIDE DEF k
<1>4. Is([Idle EXCEPT !.pc = pc, !.task = k], pc, k, Idle.seen, {}, {})
  BY <1>1, <1>2, RecordIdle
<1>5. Moves(t, pc, k, Idle.seen, {}, {})
  BY <1>3, <1>4, MovesOne
<1>. QED  BY <1>5 DEF k

\* Its locks go, and nobody else's.
LEMMA EndLocks ==
  ASSUME LocksInv, NEW t \in Tx, NEW pc \in {"idle", "calling", "done"}, End(t, pc)
  PROVE  /\ Locks'
         /\ order_lock' \in Cancels \union Workers \union {NoTx} /\ key_share' \subseteq Retries
         /\ task_lock' \in [1 .. 5 -> Tx \union {NoTx}]
<1>1. Moves(t, pc, IF pc = "calling" THEN tx[t].task ELSE 0, Idle.seen, {}, {})
  BY EndMoves DEF LocksInv
<1>2. tx'[t].pc = pc /\ tx'[t].rows = {} /\ \A s \in Tx : s # t => tx'[s] = tx[s]
  BY <1>1 DEF Moves, Is
<1>3. /\ order_lock' = IF order_lock = t THEN NoTx ELSE order_lock
      /\ key_share' = key_share \ {t}
  BY DEF End, Release
<1>4. /\ task_lock' \in [1 .. 5 -> Tx \union {NoTx}]
      /\ \A i \in 1 .. 5 : task_lock'[i] = IF task_lock[i] = t THEN NoTx ELSE task_lock[i]
  BY DEF End, Release, LocksInv, Shape
<1>5. /\ \A w \in Workers : order_lock' = w <=> tx'[w].pc = "commit"
      /\ \A c \in Cancels : order_lock' = c <=> tx'[c].pc \in {"tasks", "sweep"}
      /\ \A r \in Retries : r \in key_share' <=> tx'[r].pc = "commit"
      /\ order_lock' \in Cancels => key_share' = {}
  BY <1>2, <1>3, Kinds DEF LocksInv, Locks
<1>6. \A s \in Tx : \A i \in 1 .. 5 : task_lock'[i] = s <=> i \in Held(s)'
  <2>. TAKE s \in Tx
  <2>. TAKE i \in 1 .. 5
  <2>1. CASE s = t
    <3>1. i \notin Held(s)'
      BY <2>1, <1>2 DEF Held
    <3>2. task_lock'[i] # s
      BY <2>1, <1>4, Kinds
    <3>. QED  BY <3>1, <3>2
  <2>2. CASE s # t
    <3>1. Held(s)' = Held(s)
      BY <2>2, <1>2 DEF Held
    <3>2. task_lock'[i] = s <=> task_lock[i] = s
      BY <2>2, <1>4, Kinds
    <3>. QED  BY <3>1, <3>2 DEF LocksInv, Locks
  <2>. QED  BY <2>1, <2>2
<1>7. Locks'
  BY <1>5, <1>6 DEF Locks
<1>. QED  BY <1>3, <1>4, <1>7 DEF LocksInv, Shape

--------------------------------------------------------------------------------
\* Steps that leave the committed rows alone.

OwnedBy(w, i) == tasks[i].status = "running" /\ tasks[i].locked_by = w

\* What Places, Owners, Sweeps and Reopens ask of one transaction.
Good(t, pc, task, seen, todo, rows) ==
  /\ t \in Workers =>
       /\ pc \in WorkerPlaces /\ todo = {} /\ rows = {} /\ task <= Len(tasks)
       /\ pc # "idle" => task # 0
       /\ pc \in {"prepare", "finalize"} /\ OwnedBy(t, task) => seen = order
       /\ pc \in {"calling", "finalize"} /\ OwnedBy(t, task) => order.state = SOURCE[task]
       /\ pc \in {"update", "commit"} =>
            OwnedBy(t, task) /\ seen = order /\ order.state = SOURCE[task]
  /\ t \in Cancels =>
       /\ pc \in CancelPlaces /\ task = 0
       /\ pc # "sweep" => todo = {} /\ rows = {}
       /\ pc \in {"tasks", "sweep"} => order.state \in Live
       /\ pc = "sweep" => /\ \A i \in rows : Active(i)
                          /\ \A i \in 1 .. Len(tasks) : Active(i) => i \in todo \union rows
  /\ t \in Retries =>
       /\ pc \in RetryPlaces /\ task = 0
       /\ pc # "sweep" => todo = {}
       /\ rows # {} <=> pc \in {"event", "commit"}
       /\ \A i \in rows : tasks[i].status = "failed"
  /\ \A i \in todo \union rows : i <= Len(tasks)

AllGood == \A t \in Tx : Good(t, tx[t].pc, tx[t].task, tx[t].seen, tx[t].todo, tx[t].rows)

LEMMA GoodIs == AllGood <=> Places /\ Owners /\ Sweeps /\ Reopens
<1>1. ASSUME AllGood PROVE Places /\ Owners /\ Sweeps /\ Reopens
  <2>1. Places
    BY <1>1, Kinds DEF AllGood, Good, Places
  <2>2. Owners
    BY <1>1, Kinds DEF AllGood, Good, Owners, Owned, OwnedBy
  <2>3. Sweeps
    BY <1>1, Kinds DEF AllGood, Good, Sweeps
  <2>4. Reopens
    BY <1>1, Kinds DEF AllGood, Good, Reopens
  <2>. QED  BY <2>1, <2>2, <2>3, <2>4
<1>2. ASSUME Places, Owners, Sweeps, Reopens PROVE AllGood
  <2>. SUFFICES ASSUME NEW t \in Tx
                PROVE  Good(t, tx[t].pc, tx[t].task, tx[t].seen, tx[t].todo, tx[t].rows)
    BY DEF AllGood
  <2>1. CASE t \in Workers
    BY <2>1, <1>2, Kinds DEF Good, Places, Owners, Owned, OwnedBy
  <2>2. CASE t \in Cancels
    BY <2>2, <1>2, Kinds DEF Good, Places, Sweeps
  <2>3. CASE t \in Retries
    BY <2>3, <1>2, Kinds DEF Good, Places, Reopens
  <2>. QED  BY <2>1, <2>2, <2>3 DEF Tx
<1>. QED  BY <1>1, <1>2

LEMMA GoodIsNext == AllGood' <=> (Places /\ Owners /\ Sweeps /\ Reopens)'
  BY GoodIs, PTL

\* The types of the locks, which only some steps change.
LockTypes == /\ order_lock \in Cancels \union Workers \union {NoTx} /\ key_share \subseteq Retries
             /\ task_lock \in [1 .. 5 -> Tx \union {NoTx}]

LEMMA QuietStep ==
  ASSUME LocksInv, UNCHANGED <<order, tasks>>, LockTypes', Locks',
         NEW t \in Tx, NEW pc, NEW task, NEW seen, NEW todo, NEW rows,
         Moves(t, pc, task, seen, todo, rows), Good(t, pc, task, seen, todo, rows)
  PROVE  LocksInv'
<1>1. Shape'
  BY DEF LocksInv, Shape, Moves, LockTypes
<1>2. Queue'
  BY DEF LocksInv, Queue
<1>3. AllGood
  BY GoodIs DEF LocksInv
<1>4. ASSUME NEW s \in Tx
      PROVE  Good(s, tx[s].pc, tx[s].task, tx[s].seen, tx[s].todo, tx[s].rows)'
  <2>1. CASE s = t
    BY <2>1 DEF Moves, Is, Good, OwnedBy, Active
  <2>2. CASE s # t
    <3>1. tx'[s] = tx[s]
      BY <2>2 DEF Moves
    <3>. QED  BY <3>1, <1>3 DEF AllGood, Good, OwnedBy, Active
  <2>. QED  BY <2>1, <2>2
<1>5. AllGood'
  BY <1>4 DEF AllGood
<1>. QED  BY <1>1, <1>2, <1>5, GoodIsNext DEF LocksInv

\* The same for a step that takes and gives no lock.
LEMMA LocksKept ==
  ASSUME LocksInv, NoLock, NEW t \in Tx, NEW pc, NEW task, NEW seen, NEW todo,
         Moves(t, pc, task, seen, todo, tx[t].rows),
         t \in Workers => {pc, tx[t].pc} \intersect {"update", "commit"} = {},
         t \in Cancels => (pc \in {"tasks", "sweep"} <=> tx[t].pc \in {"tasks", "sweep"}),
         t \in Retries => (pc = "commit" <=> tx[t].pc = "commit")
  PROVE  LockTypes' /\ Locks'
<1>1. /\ tx'[t].pc = pc /\ tx'[t].rows = tx[t].rows
      /\ \A s \in Tx : s # t => tx'[s] = tx[s]
  BY DEF Moves, Is
<1>2. LockTypes'
  BY DEF NoLock, LockTypes, LocksInv, Shape
<1>3. /\ \A w \in Workers : order_lock' = w <=> tx'[w].pc = "commit"
      /\ \A c \in Cancels : order_lock' = c <=> tx'[c].pc \in {"tasks", "sweep"}
      /\ \A r \in Retries : r \in key_share' <=> tx'[r].pc = "commit"
      /\ order_lock' \in Cancels => key_share' = {}
  <2>1. ASSUME NEW w \in Workers PROVE order_lock' = w <=> tx'[w].pc = "commit"
    BY <1>1, Kinds DEF NoLock, LocksInv, Locks
  <2>2. ASSUME NEW c \in Cancels PROVE order_lock' = c <=> tx'[c].pc \in {"tasks", "sweep"}
    BY <1>1, Kinds DEF NoLock, LocksInv, Locks
  <2>3. ASSUME NEW r \in Retries PROVE r \in key_share' <=> tx'[r].pc = "commit"
    BY <1>1, Kinds DEF NoLock, LocksInv, Locks
  <2>4. order_lock' \in Cancels => key_share' = {}
    BY DEF NoLock, LocksInv, Locks
  <2>. QED  BY <2>1, <2>2, <2>3, <2>4
<1>4. ASSUME NEW s \in Tx PROVE Held(s)' = Held(s)
  BY <1>1, Kinds DEF Held
<1>5. \A s \in Tx : \A i \in 1 .. 5 : task_lock'[i] = s <=> i \in Held(s)'
  BY <1>4 DEF NoLock, LocksInv, Locks
<1>. QED  BY <1>2, <1>3, <1>5 DEF Locks

LEMMA Lengths ==
  ASSUME LocksInv
  PROVE  Len(tasks) \in 0 .. 5 /\ DOMAIN tasks = 1 .. Len(tasks)
<1>1. tasks \in Seq(TaskRow) /\ Len(tasks) <= 5
  BY DEF LocksInv, Shape
<1>2. Len(tasks) \in Nat /\ DOMAIN tasks = 1 .. Len(tasks)
  BY <1>1, LenProperties
<1>. QED  BY <1>1, <1>2

LEMMA Fits ==
  ASSUME LocksInv, NEW t \in Tx
  PROVE  /\ Good(t, tx[t].pc, tx[t].task, tx[t].seen, tx[t].todo, tx[t].rows)
         /\ tx[t] \in TxState /\ tx[t].seen \in OrderRow /\ tx[t].task \in 0 .. 5
         /\ tx[t].todo \in SUBSET (1 .. 5) /\ tx[t].rows \in SUBSET (1 .. 5)
         /\ order \in OrderRow /\ Len(tasks) \in 0 .. 5 /\ DOMAIN tasks = 1 .. Len(tasks)
<1>1. Good(t, tx[t].pc, tx[t].task, tx[t].seen, tx[t].todo, tx[t].rows)
  BY GoodIs DEF LocksInv, AllGood
<1>2. tx[t] \in TxState /\ order \in OrderRow
  BY DEF LocksInv, Shape
<1>3. Len(tasks) \in 0 .. 5 /\ DOMAIN tasks = 1 .. Len(tasks)
  BY Lengths
<1>. QED  BY <1>1, <1>2, <1>3 DEF TxState

LEMMA LoadStep ==
  ASSUME LocksInv, NEW w \in Workers,
         NEW from, NEW to, <<from, to>> \in {<<"claimed", "prepare">>, <<"calling", "finalize">>},
         load_task_row(w, from, to)
  PROVE  LocksInv'
<1>1. w \in Tx /\ ((from = "claimed" /\ to = "prepare") \/ (from = "calling" /\ to = "finalize"))
  BY Kinds
<1>2. tx[w].pc = from /\ UNCHANGED <<order, tasks>> /\ NoLock
      /\ tx' = [tx EXCEPT ![w] = [tx[w] EXCEPT !.pc = to, !.seen = order]]
  BY DEF load_task_row
<1>3. Is([tx[w] EXCEPT !.pc = to, !.seen = order], to, tx[w].task, order, tx[w].todo, tx[w].rows)
  BY <1>1, Fits, RecordSeen DEF AllPlaces, WorkerPlaces
<1>4. Moves(w, to, tx[w].task, order, tx[w].todo, tx[w].rows)
  BY <1>1, <1>2, <1>3, MovesOne DEF LocksInv
<1>5. LockTypes' /\ Locks'
  BY <1>1, <1>2, <1>4, LocksKept, Kinds
<1>6. Good(w, tx[w].pc, tx[w].task, tx[w].seen, tx[w].todo, tx[w].rows)
  BY <1>1, Fits
<1>7. Good(w, to, tx[w].task, order, tx[w].todo, tx[w].rows)
  BY <1>1, <1>2, <1>6, Kinds DEF Good, WorkerPlaces
<1>. QED  BY <1>1, <1>2, <1>4, <1>5, <1>7, QuietStep

\* A transaction that ends and has written nothing: its locks go, and what the
\* other transactions know stays true.
LEMMA QuietEnd ==
  ASSUME LocksInv, NEW t \in Tx, NEW pc \in {"idle", "calling", "done"}, End(t, pc),
         UNCHANGED <<order, tasks>>,
         t \in Workers <=> pc # "done",
         pc = "calling" => /\ tx[t].task # 0 /\ OwnedBy(t, tx[t].task)
                           /\ order.state = SOURCE[tx[t].task]
  PROVE  LocksInv'
<1>. DEFINE k == IF pc = "calling" THEN tx[t].task ELSE 0
<1>1. Moves(t, pc, k, Idle.seen, {}, {})
  BY EndMoves DEF LocksInv
<1>2. LockTypes' /\ Locks'
  BY EndLocks DEF LockTypes
<1>3. Good(t, tx[t].pc, tx[t].task, tx[t].seen, tx[t].todo, tx[t].rows) /\ Len(tasks) \in 0 .. 5
  BY Fits
<1>4. Good(t, pc, k, Idle.seen, {}, {})
  <2>1. CASE pc = "calling"
    BY <2>1, <1>3, Kinds DEF Good, WorkerPlaces
  <2>2. CASE pc = "idle"
    BY <2>2, <1>3, Kinds DEF Good, WorkerPlaces
  <2>3. CASE pc = "done"
    BY <2>3, <1>3, Kinds DEF Good, CancelPlaces, RetryPlaces
  <2>. QED  BY <2>1, <2>2, <2>3
<1>. HIDE DEF k
<1>. QED  BY <1>1, <1>2, <1>4, QuietStep

\* A worker takes the lock of its task.
LEMMA LockTaskStep ==
  ASSUME LocksInv, NEW w \in Workers, tx[w].pc = "finalize", task_lock[tx[w].task] = NoTx,
         Owned(w), InSourceState(w), task_lock' = [task_lock EXCEPT ![tx[w].task] = w],
         Goto(w, "update"), UNCHANGED <<order, tasks, order_lock, key_share>>
  PROVE  LocksInv'
<1>1. w \in Tx /\ w \notin Cancels /\ w \notin Retries
  BY Kinds
<1>2. Good(w, tx[w].pc, tx[w].task, tx[w].seen, tx[w].todo, tx[w].rows) /\ tx[w].task \in 0 .. 5
  BY <1>1, Fits
<1>3. Moves(w, "update", tx[w].task, tx[w].seen, tx[w].todo, tx[w].rows)
  BY <1>1, MovesOn DEF LocksInv, AllPlaces, WorkerPlaces
<1>4. /\ tx'[w].pc = "update" /\ tx'[w].task = tx[w].task
      /\ \A s \in Tx : s # w => tx'[s] = tx[s]
  BY <1>3 DEF Moves, Is
<1>5. Good(w, "update", tx[w].task, tx[w].seen, tx[w].todo, tx[w].rows)
  BY <1>1, <1>2 DEF Good, WorkerPlaces, Owned, OwnedBy
<1>6. tx[w].task \in 1 .. 5
  BY <1>2 DEF Good
<1>7. LockTypes'
  BY <1>1, <1>6 DEF LockTypes, LocksInv, Shape
<1>8. \A i \in 1 .. 5 : task_lock'[i] = IF i = tx[w].task THEN w ELSE task_lock[i]
  BY <1>6 DEF LocksInv, Shape
<1>9. \A s \in Tx : \A i \in 1 .. 5 : task_lock'[i] = s <=> i \in Held(s)'
  <2>. TAKE s \in Tx
  <2>. TAKE i \in 1 .. 5
  <2>1. task_lock[i] = s <=> i \in Held(s)
    BY DEF LocksInv, Locks
  <2>2. CASE s = w
    <3>1. i \in Held(w)' <=> i = tx[w].task
      BY <1>4 DEF Held
    <3>2. i \notin Held(w)
      BY DEF Held
    <3>. QED  BY <2>1, <2>2, <3>1, <3>2, <1>8
  <2>3. CASE s # w
    <3>1. Held(s)' = Held(s)
      BY <2>3, <1>4 DEF Held
    <3>2. task_lock[tx[w].task] # s
      BY Kinds
    <3>. QED  BY <2>1, <2>3, <3>1, <3>2, <1>8
  <2>. QED  BY <2>2, <2>3
<1>10. Locks'
  BY <1>4, <1>9, Kinds DEF LocksInv, Locks
<1>. QED  BY <1>1, <1>3, <1>5, <1>7, <1>10, QuietStep

\* A worker takes the lock of the order row.
LEMMA LockOrderRowStep ==
  ASSUME LocksInv, NEW w \in Workers, tx[w].pc = "update", order_lock = NoTx,
         order_lock' = w, Goto(w, "commit"), UNCHANGED <<order, tasks, key_share, task_lock>>
  PROVE  LocksInv'
<1>1. w \in Tx /\ w \notin Cancels /\ w \notin Retries
  BY Kinds
<1>2. Good(w, tx[w].pc, tx[w].task, tx[w].seen, tx[w].todo, tx[w].rows)
  BY <1>1, Fits
<1>3. Moves(w, "commit", tx[w].task, tx[w].seen, tx[w].todo, tx[w].rows)
  BY <1>1, MovesOn DEF LocksInv, AllPlaces, WorkerPlaces
<1>4. /\ tx'[w].pc = "commit" /\ tx'[w].task = tx[w].task /\ tx'[w].rows = tx[w].rows
      /\ \A s \in Tx : s # w => tx'[s] = tx[s]
  BY <1>3 DEF Moves, Is
<1>5. Good(w, "commit", tx[w].task, tx[w].seen, tx[w].todo, tx[w].rows)
  BY <1>1, <1>2 DEF Good, WorkerPlaces
<1>6. LockTypes'
  BY DEF LockTypes, LocksInv, Shape
<1>7. ASSUME NEW s \in Tx PROVE Held(s)' = Held(s)
  <2>1. CASE s = w
    BY <2>1, <1>4 DEF Held
  <2>2. CASE s # w
    BY <2>2, <1>4 DEF Held
  <2>. QED  BY <2>1, <2>2
<1>8. \A s \in Tx : \A i \in 1 .. 5 : task_lock'[i] = s <=> i \in Held(s)'
  BY <1>7 DEF LocksInv, Locks
<1>9. Locks'
  BY <1>1, <1>4, <1>8, Kinds DEF LocksInv, Locks
<1>. QED  BY <1>1, <1>3, <1>5, <1>6, <1>9, QuietStep

--------------------------------------------------------------------------------
\* The steps of a cancel before it commits.

LEMMA BeginCancelStep ==
  ASSUME LocksInv, NEW c \in Cancels, begin_cancel(c)
  PROVE  LocksInv'
<1>1. c \in Tx /\ c \notin Workers /\ c \notin Retries /\ "lock" \in AllPlaces
  BY Kinds DEF AllPlaces, CancelPlaces
<1>2. tx[c].pc = "idle" /\ Goto(c, "lock") /\ NoLock /\ UNCHANGED <<order, tasks>>
  BY DEF begin_cancel
<1>3. Moves(c, "lock", tx[c].task, tx[c].seen, tx[c].todo, tx[c].rows)
  BY <1>1, <1>2, MovesOn DEF LocksInv
<1>4. Good(c, "lock", tx[c].task, tx[c].seen, tx[c].todo, tx[c].rows)
  BY <1>1, <1>2, Fits DEF Good, CancelPlaces
<1>5. LockTypes' /\ Locks'
  BY <1>1, <1>2, <1>3, LocksKept
<1>. QED  BY <1>1, <1>2, <1>3, <1>4, <1>5, QuietStep

LEMMA LockOrderStep ==
  ASSUME LocksInv, NEW c \in Cancels, lock_order(c)
  PROVE  LocksInv'
<1>1. c \in Tx /\ c \notin Workers /\ c \notin Retries /\ {"done", "tasks"} \subseteq AllPlaces
  BY Kinds DEF AllPlaces, CancelPlaces
<1>2. /\ tx[c].pc = "lock" /\ order_lock = NoTx /\ key_share = {}
      /\ UNCHANGED <<order, tasks, key_share, task_lock>>
  BY DEF lock_order
<1>3. Good(c, tx[c].pc, tx[c].task, tx[c].seen, tx[c].todo, tx[c].rows)
  BY <1>1, Fits
<1>4. CASE Goto(c, "done") /\ UNCHANGED order_lock
  <2>1. Moves(c, "done", tx[c].task, tx[c].seen, tx[c].todo, tx[c].rows)
    BY <1>1, <1>4, MovesOn DEF LocksInv
  <2>2. Good(c, "done", tx[c].task, tx[c].seen, tx[c].todo, tx[c].rows)
    BY <1>1, <1>2, <1>3 DEF Good, CancelPlaces
  <2>3. LockTypes' /\ Locks'
    BY <1>1, <1>2, <1>4, <2>1, LocksKept DEF NoLock
  <2>. QED  BY <1>1, <1>2, <2>1, <2>2, <2>3, QuietStep
<1>5. CASE order.state \in DOMAIN ORDER_TRANSITIONS /\ order_lock' = c /\ Goto(c, "tasks")
  <2>1. Moves(c, "tasks", tx[c].task, tx[c].seen, tx[c].todo, tx[c].rows)
    BY <1>1, <1>5, MovesOn DEF LocksInv
  <2>2. Good(c, "tasks", tx[c].task, tx[c].seen, tx[c].todo, tx[c].rows)
    BY <1>1, <1>2, <1>3, <1>5, SourceStates DEF Good, CancelPlaces
  <2>3. LockTypes'
    BY <1>2, <1>5 DEF LockTypes, LocksInv, Shape
  <2>4. /\ tx'[c].pc = "tasks" /\ tx'[c].rows = tx[c].rows
        /\ \A s \in Tx : s # c => tx'[s] = tx[s]
    BY <2>1 DEF Moves, Is
  <2>5. ASSUME NEW s \in Tx PROVE Held(s)' = Held(s)
    BY <1>1, <2>4 DEF Held
  <2>6. \A s \in Tx : \A i \in 1 .. 5 : task_lock'[i] = s <=> i \in Held(s)'
    BY <1>2, <2>5 DEF LocksInv, Locks
  <2>7. Locks'
    BY <1>1, <1>2, <1>5, <2>4, <2>6, Kinds DEF LocksInv, Locks
  <2>. QED  BY <1>1, <1>2, <2>1, <2>2, <2>3, <2>7, QuietStep
<1>. QED  BY <1>4, <1>5 DEF lock_order

LEMMA ChooseTasksStep ==
  ASSUME LocksInv, NEW c \in Cancels, choose_tasks(c)
  PROVE  LocksInv'
<1>. DEFINE todo == {i \in DOMAIN tasks : Active(i)}
<1>1. c \in Tx /\ c \notin Workers /\ c \notin Retries /\ "sweep" \in AllPlaces
  BY Kinds DEF AllPlaces, CancelPlaces
<1>2. tx[c].pc = "tasks" /\ NoLock /\ UNCHANGED <<order, tasks>>
  BY DEF choose_tasks
<1>3. tx' = [tx EXCEPT ![c] = [tx[c] EXCEPT !.pc = "sweep", !.todo = todo]]
  BY DEF choose_tasks
<1>4. todo \in SUBSET (1 .. 5) /\ \A i \in todo : i <= Len(tasks)
  BY <1>1, Fits
<1>5. Good(c, "sweep", tx[c].task, tx[c].seen, todo, tx[c].rows)
  <2>1. Good(c, tx[c].pc, tx[c].task, tx[c].seen, tx[c].todo, tx[c].rows)
        /\ DOMAIN tasks = 1 .. Len(tasks)
    BY <1>1, Fits
  <2>. QED  BY <1>1, <1>2, <1>4, <2>1 DEF Good, CancelPlaces
<1>. HIDE DEF todo
<1>6. Moves(c, "sweep", tx[c].task, tx[c].seen, todo, tx[c].rows)
  BY <1>1, <1>3, <1>4, Fits, RecordTodo, MovesOne DEF LocksInv
<1>7. LockTypes' /\ Locks'
  BY <1>1, <1>2, <1>6, LocksKept
<1>. QED  BY <1>1, <1>2, <1>5, <1>6, <1>7, QuietStep

\* A row that the sweep locks was not locked; a row that it does not lock has
\* become inactive since it was chosen.
LEMMA SweepTaskStep ==
  ASSUME LocksInv, NEW c \in Cancels, sweep_task(c)
  PROVE  LocksInv'
<1>1. c \in Tx /\ c \notin Workers /\ c \notin Retries
  BY Kinds
<1>2. tx[c].pc = "sweep" /\ UNCHANGED <<order, tasks, order_lock, key_share>>
  BY DEF sweep_task
<1>3. PICK i \in tx[c].todo :
        /\ task_lock[i] = NoTx
        /\ tx' = [tx EXCEPT ![c] = [tx[c] EXCEPT !.todo = tx[c].todo \ {i},
                    !.rows = IF Active(i) THEN tx[c].rows \union {i} ELSE tx[c].rows]]
        /\ task_lock' = IF Active(i) THEN [task_lock EXCEPT ![i] = c] ELSE task_lock
  BY DEF sweep_task
<1>. DEFINE todo == tx[c].todo \ {i}
            rows == IF Active(i) THEN tx[c].rows \union {i} ELSE tx[c].rows
<1>4. /\ Good(c, tx[c].pc, tx[c].task, tx[c].seen, tx[c].todo, tx[c].rows)
      /\ tx[c] \in TxState /\ tx[c].todo \in SUBSET (1 .. 5) /\ tx[c].rows \in SUBSET (1 .. 5)
  BY <1>1, Fits
<1>5. i \in 1 .. 5 /\ todo \in SUBSET (1 .. 5) /\ rows \in SUBSET (1 .. 5)
  BY <1>4
<1>6. Good(c, "sweep", tx[c].task, tx[c].seen, todo, rows)
  BY <1>1, <1>2, <1>4 DEF Good, CancelPlaces
<1>7. /\ \A j \in 1 .. 5 : task_lock'[j] = IF j = i /\ Active(i) THEN c ELSE task_lock[j]
      /\ LockTypes'
  BY <1>1, <1>2, <1>3, <1>5 DEF LocksInv, Shape, LockTypes
<1>8. \A j \in 1 .. 5 : j \in rows <=> j \in tx[c].rows \/ (j = i /\ Active(i))
  BY <1>5
<1>. HIDE DEF todo, rows
<1>9. Moves(c, "sweep", tx[c].task, tx[c].seen, todo, rows)
  <2>1. tx' = [tx EXCEPT ![c] = [tx[c] EXCEPT !.todo = todo, !.rows = rows]]
    BY <1>3 DEF todo, rows
  <2>. QED  BY <1>1, <1>2, <1>4, <1>5, <2>1, RecordRows, MovesOne DEF LocksInv
<1>10. tx'[c].pc = "sweep" /\ tx'[c].rows = rows /\ \A s \in Tx : s # c => tx'[s] = tx[s]
  BY <1>9 DEF Moves, Is
<1>11. \A s \in Tx : \A j \in 1 .. 5 : task_lock'[j] = s <=> j \in Held(s)'
  <2>. TAKE s \in Tx
  <2>. TAKE j \in 1 .. 5
  <2>1. task_lock[j] = s <=> j \in Held(s)
    BY DEF LocksInv, Locks
  <2>2. CASE s = c
    <3>1. Held(c) = tx[c].rows /\ Held(c)' = rows
      BY <1>1, <1>10 DEF Held
    <3>. QED  BY <2>1, <2>2, <3>1, <1>7, <1>8
  <2>3. CASE s # c
    <3>1. Held(s)' = Held(s)
      BY <2>3, <1>10 DEF Held
    <3>2. task_lock[i] # s
      BY <1>3, Kinds
    <3>. QED  BY <2>1, <2>3, <3>1, <3>2, <1>7
  <2>. QED  BY <2>2, <2>3
<1>12. Locks'
  BY <1>1, <1>2, <1>10, <1>11, Kinds DEF LocksInv, Locks
<1>. QED  BY <1>1, <1>2, <1>6, <1>7, <1>9, <1>12, QuietStep

--------------------------------------------------------------------------------
\* The steps of a retry before it commits.

LEMMA ChooseFailedStep ==
  ASSUME LocksInv, NEW r \in Retries, choose_failed(r)
  PROVE  LocksInv'
<1>. DEFINE todo == {i \in DOMAIN tasks : tasks[i].status = "failed"}
<1>1. r \in Tx /\ r \notin Workers /\ r \notin Cancels /\ "sweep" \in AllPlaces
  BY Kinds DEF AllPlaces, RetryPlaces
<1>2. tx[r].pc = "idle" /\ NoLock /\ UNCHANGED <<order, tasks>>
  BY DEF choose_failed
<1>3. tx' = [tx EXCEPT ![r] = [tx[r] EXCEPT !.pc = "sweep", !.todo = todo]]
  BY DEF choose_failed
<1>4. todo \in SUBSET (1 .. 5) /\ \A i \in todo : i <= Len(tasks)
  BY <1>1, Fits
<1>5. Good(r, tx[r].pc, tx[r].task, tx[r].seen, tx[r].todo, tx[r].rows)
  BY <1>1, Fits
<1>. HIDE DEF todo
<1>6. Good(r, "sweep", tx[r].task, tx[r].seen, todo, tx[r].rows)
  BY <1>1, <1>2, <1>4, <1>5 DEF Good, RetryPlaces
<1>7. Moves(r, "sweep", tx[r].task, tx[r].seen, todo, tx[r].rows)
  BY <1>1, <1>3, <1>4, Fits, RecordTodo, MovesOne DEF LocksInv
<1>8. LockTypes' /\ Locks'
  BY <1>1, <1>2, <1>7, LocksKept
<1>. QED  BY <1>1, <1>2, <1>6, <1>7, <1>8, QuietStep

LEMMA LockFailedStep ==
  ASSUME LocksInv, NEW r \in Retries, lock_failed(r)
  PROVE  LocksInv'
<1>1. /\ r \in Tx /\ r \notin Workers /\ r \notin Cancels
      /\ {"sweep", "event", "done"} \subseteq AllPlaces
  BY Kinds DEF AllPlaces, RetryPlaces
<1>2. tx[r].pc = "sweep" /\ UNCHANGED <<order, tasks, order_lock, key_share>>
  BY DEF lock_failed
<1>3. /\ Good(r, tx[r].pc, tx[r].task, tx[r].seen, tx[r].todo, tx[r].rows)
      /\ tx[r] \in TxState /\ tx[r].todo \in SUBSET (1 .. 5)
  BY <1>1, Fits
<1>4. tx[r].rows = {}
  BY <1>1, <1>2, <1>3 DEF Good
<1>5. ASSUME NEW i \in tx[r].todo, task_lock[i] = NoTx, tasks[i].status = "failed",
             tx' = [tx EXCEPT ![r] = [tx[r] EXCEPT !.pc = "event", !.todo = {}, !.rows = {i}]],
             task_lock' = [task_lock EXCEPT ![i] = r]
      PROVE  LocksInv'
  <2>1. i \in 1 .. 5 /\ {i} \in SUBSET (1 .. 5)
    BY <1>3
  <2>2. Good(r, "event", tx[r].task, tx[r].seen, {}, {i})
    BY <1>1, <1>2, <1>3, <1>5 DEF Good, RetryPlaces
  <2>3. Moves(r, "event", tx[r].task, tx[r].seen, {}, {i})
    BY <1>1, <1>3, <1>5, <2>1, RecordEvent, MovesOne DEF LocksInv
  <2>4. tx'[r].pc = "event" /\ tx'[r].rows = {i} /\ \A s \in Tx : s # r => tx'[s] = tx[s]
    BY <2>3 DEF Moves, Is
  <2>5. /\ \A j \in 1 .. 5 : task_lock'[j] = IF j = i THEN r ELSE task_lock[j]
        /\ LockTypes'
    BY <1>1, <1>2, <1>5, <2>1 DEF LocksInv, Shape, LockTypes
  <2>6. \A s \in Tx : \A j \in 1 .. 5 : task_lock'[j] = s <=> j \in Held(s)'
    <3>. TAKE s \in Tx
    <3>. TAKE j \in 1 .. 5
    <3>1. task_lock[j] = s <=> j \in Held(s)
      BY DEF LocksInv, Locks
    <3>2. CASE s = r
      <4>1. Held(r) = {} /\ Held(r)' = {i}
        BY <1>1, <1>4, <2>4 DEF Held
      <4>. QED  BY <3>1, <3>2, <4>1, <2>5
    <3>3. CASE s # r
      <4>1. Held(s)' = Held(s)
        BY <3>3, <2>4 DEF Held
      <4>2. task_lock[i] # s
        BY <1>5, Kinds
      <4>. QED  BY <3>1, <3>3, <4>1, <4>2, <2>5
    <3>. QED  BY <3>2, <3>3
  <2>7. Locks'
    BY <1>1, <1>2, <2>4, <2>6, Kinds DEF LocksInv, Locks
  <2>. QED  BY <1>1, <1>2, <2>2, <2>3, <2>5, <2>7, QuietStep
<1>6. ASSUME NEW i \in tx[r].todo, UNCHANGED task_lock,
             tx' = [tx EXCEPT ![r] = [tx[r] EXCEPT !.todo = tx[r].todo \ {i}]]
      PROVE  LocksInv'
  <2>. DEFINE todo == tx[r].todo \ {i}
  <2>1. todo \in SUBSET (1 .. 5)
    BY <1>3
  <2>2. Good(r, "sweep", tx[r].task, tx[r].seen, todo, tx[r].rows)
    BY <1>1, <1>2, <1>3 DEF Good, RetryPlaces
  <2>. HIDE DEF todo
  <2>3. tx' = [tx EXCEPT ![r] = [tx[r] EXCEPT !.todo = todo]]
    BY <1>6 DEF todo
  <2>4. Moves(r, "sweep", tx[r].task, tx[r].seen, todo, tx[r].rows)
    BY <1>1, <1>2, <1>3, <2>1, <2>3, RecordTodo, MovesOne DEF LocksInv
  <2>5. LockTypes' /\ Locks'
    BY <1>1, <1>2, <1>6, <2>4, LocksKept DEF NoLock
  <2>. QED  BY <1>1, <1>2, <2>2, <2>4, <2>5, QuietStep
<1>7. CASE tx[r].todo = {} /\ Goto(r, "done") /\ UNCHANGED task_lock
  <2>1. Moves(r, "done", tx[r].task, tx[r].seen, tx[r].todo, tx[r].rows)
    BY <1>1, <1>7, MovesOn DEF LocksInv
  <2>2. Good(r, "done", tx[r].task, tx[r].seen, tx[r].todo, tx[r].rows)
    BY <1>1, <1>3, <1>4, <1>7 DEF Good, RetryPlaces
  <2>3. LockTypes' /\ Locks'
    BY <1>1, <1>2, <1>7, <2>1, LocksKept DEF NoLock
  <2>. QED  BY <1>1, <1>2, <2>1, <2>2, <2>3, QuietStep
<1>. QED  BY <1>5, <1>6, <1>7 DEF lock_failed

LEMMA InsertEventStep ==
  ASSUME LocksInv, NEW r \in Retries, insert_retry_event(r)
  PROVE  LocksInv'
<1>1. r \in Tx /\ r \notin Workers /\ r \notin Cancels /\ "commit" \in AllPlaces
  BY Kinds DEF AllPlaces, RetryPlaces
<1>2. /\ tx[r].pc = "event" /\ order_lock \notin Cancels /\ Goto(r, "commit")
      /\ key_share' = key_share \union {r}
      /\ UNCHANGED <<order, tasks, order_lock, task_lock>>
  BY DEF insert_retry_event
<1>3. Moves(r, "commit", tx[r].task, tx[r].seen, tx[r].todo, tx[r].rows)
  BY <1>1, <1>2, MovesOn DEF LocksInv
<1>4. Good(r, "commit", tx[r].task, tx[r].seen, tx[r].todo, tx[r].rows)
  BY <1>1, <1>2, Fits DEF Good, RetryPlaces
<1>5. /\ tx'[r].pc = "commit" /\ tx'[r].rows = tx[r].rows
      /\ \A s \in Tx : s # r => tx'[s] = tx[s]
  BY <1>3 DEF Moves, Is
<1>6. LockTypes'
  BY <1>2 DEF LockTypes, LocksInv, Shape
<1>7. ASSUME NEW s \in Tx PROVE Held(s)' = Held(s)
  BY <1>1, <1>5 DEF Held
<1>8. \A s \in Tx : \A i \in 1 .. 5 : task_lock'[i] = s <=> i \in Held(s)'
  BY <1>2, <1>7 DEF LocksInv, Locks
<1>9. Locks'
  BY <1>1, <1>2, <1>5, <1>8, Kinds DEF LocksInv, Locks
<1>. QED  BY <1>1, <1>2, <1>3, <1>4, <1>6, <1>9, QuietStep

--------------------------------------------------------------------------------
\* Steps that write a task row.

\* Only the last row can be unfinished.
LEMMA UnfinishedIsLast ==
  ASSUME LocksInv, NEW i \in 1 .. Len(tasks), tasks[i].status # "completed"
  PROVE  i = Len(tasks)
<1>1. Len(tasks) \in 0 .. 5
  BY Lengths
<1>. QED  BY <1>1 DEF LocksInv, Queue

LEMMA PutRow ==
  ASSUME LocksInv, NEW i \in 1 .. Len(tasks), NEW row \in TaskRow,
         tasks' = [tasks EXCEPT ![i] = row]
  PROVE  /\ tasks' \in Seq(TaskRow) /\ Len(tasks') = Len(tasks)
         /\ \A j \in 1 .. Len(tasks) : tasks'[j] = IF j = i THEN row ELSE tasks[j]
<1>1. tasks \in Seq(TaskRow)
  BY DEF LocksInv, Shape
<1>2. i \in DOMAIN tasks /\ DOMAIN tasks = 1 .. Len(tasks)
  BY <1>1, LenProperties
<1>3. tasks' \in Seq(TaskRow) /\ Len(tasks') = Len(tasks)
  BY <1>1, <1>2, ExceptSeq
<1>. QED  BY <1>2, <1>3

\* A step of t that writes the last row.  The row is not locked by anybody else;
\* it is given to nobody but t; and if it becomes active, no cancel is under way.
LEMMA TouchStep ==
  ASSUME LocksInv, UNCHANGED order, LockTypes', Locks',
         NEW t \in Tx, NEW pc, NEW task, NEW seen, NEW todo, NEW rows,
         Moves(t, pc, task, seen, todo, rows), Good(t, pc, task, seen, todo, rows)',
         Len(tasks) # 0, NEW row \in TaskRow, tasks' = [tasks EXCEPT ![Len(tasks)] = row],
         \A s \in Tx : s # t => task_lock[Len(tasks)] # s,
         row.status = "running" => row.locked_by = t,
         row.status \in {"pending", "running"} =>
           tasks[Len(tasks)].status \in {"pending", "running"} \/ order_lock \notin Cancels,
         order.state \in Live => row.status \in {"pending", "running", "failed"},
         tasks[Len(tasks)].status # "completed"
  PROVE  LocksInv'
<1>. DEFINE n == Len(tasks)
<1>1. n \in 1 .. 5 /\ n \in 1 .. n
  BY Lengths
<1>2. /\ tasks' \in Seq(TaskRow) /\ Len(tasks') = n
      /\ \A j \in 1 .. n : tasks'[j] = IF j = n THEN row ELSE tasks[j]
  BY <1>1, PutRow
<1>3. Shape'
  BY <1>1, <1>2 DEF LocksInv, Shape, Moves, LockTypes
<1>4. Queue'
  <2>1. order.state # Absent
    BY <1>1 DEF LocksInv, Queue
  <2>2. \A i \in 1 .. Len(tasks') : i < Len(tasks') => tasks'[i].status = "completed"
    BY <1>1, <1>2 DEF LocksInv, Queue
  <2>3. order.state \notin {"delivered", "failed"}
    BY DEF LocksInv, Queue
  <2>4. order.state \in Live => order.state = SOURCE[Len(tasks')]
    BY <1>2 DEF LocksInv, Queue
  <2>5. tasks'[Len(tasks')] = row
    BY <1>1, <1>2
  <2>. QED  BY <1>1, <1>2, <2>1, <2>2, <2>3, <2>4, <2>5 DEF Queue
<1>5. ASSUME NEW s \in Tx, s # t
      PROVE  Good(s, tx[s].pc, tx[s].task, tx[s].seen, tx[s].todo, tx[s].rows)'
  <2>1. tx'[s] = tx[s]
    BY <1>5 DEF Moves
  <2>2. /\ Good(s, tx[s].pc, tx[s].task, tx[s].seen, tx[s].todo, tx[s].rows)
        /\ tx[s].task \in 0 .. 5 /\ tx[s].todo \in SUBSET (1 .. 5) /\ tx[s].rows \in SUBSET (1 .. 5)
    BY Fits
  <2>3. n \notin Held(s)
    BY <1>1, <1>5 DEF LocksInv, Locks
  <2>4. CASE s \in Workers
    <3>1. s \notin Cancels /\ s \notin Retries
      BY <2>4, Kinds
    <3>2. tx[s].task # 0 => tx[s].task \in 1 .. n
      BY <2>2, <2>4 DEF Good
    <3>3. tx[s].task # 0 /\ OwnedBy(s, tx[s].task)' => OwnedBy(s, tx[s].task)
      <4>1. row.status = "running" => row.locked_by # s
        BY <1>5
      <4>. QED  BY <1>2, <2>1, <3>2, <4>1 DEF OwnedBy
    <3>4. tx[s].pc \in {"update", "commit"} => OwnedBy(s, tx[s].task)'
      <4>. SUFFICES ASSUME tx[s].pc \in {"update", "commit"} PROVE OwnedBy(s, tx[s].task)'
        OBVIOUS
      <4>1. tx[s].task \in 1 .. n /\ OwnedBy(s, tx[s].task)
        BY <2>2, <2>4, <3>2 DEF Good
      <4>2. tx[s].task # n
        BY <1>1, <2>3, <2>4 DEF Held
      <4>. QED  BY <1>2, <2>1, <4>1, <4>2 DEF OwnedBy
    <3>. QED  BY <1>2, <2>1, <2>2, <2>4, <3>1, <3>3, <3>4 DEF Good
  <2>5. CASE s \in Cancels
    <3>1. s \notin Workers /\ s \notin Retries
      BY <2>5, Kinds
    <3>2. \A i \in tx[s].rows : i \in 1 .. n /\ i # n
      BY <1>1, <2>2, <2>3, <3>1 DEF Held, Good
    <3>3. \A i \in tx[s].rows : tasks'[i] = tasks[i]
      BY <1>2, <3>2
    <3>4. ASSUME tx[s].pc = "sweep", NEW i \in 1 .. n, Active(i)' PROVE Active(i)
      <4>1. order_lock = s
        BY <2>5, <3>4 DEF LocksInv, Locks
      <4>2. CASE i = n
        BY <1>1, <1>2, <2>5, <3>4, <4>1, <4>2 DEF Active, ACTIVE_TASK_STATUSES
      <4>3. CASE i # n
        BY <1>2, <3>4, <4>3 DEF Active
      <4>. QED  BY <4>2, <4>3
    <3>5. tx[s].pc = "sweep" =>
            /\ \A i \in tx[s].rows : Active(i)'
            /\ \A i \in 1 .. n : Active(i)' => i \in tx[s].todo \union tx[s].rows
      BY <2>2, <2>5, <3>3, <3>4 DEF Good, Active
    <3>. QED  BY <1>2, <2>1, <2>2, <2>5, <3>1, <3>5 DEF Good
  <2>6. CASE s \in Retries
    <3>1. s \notin Workers /\ s \notin Cancels
      BY <2>6, Kinds
    <3>2. \A i \in tx[s].rows : i \in 1 .. n /\ i # n
      BY <1>1, <2>2, <2>3, <3>1 DEF Held, Good
    <3>3. \A i \in tx[s].rows : tasks'[i] = tasks[i]
      BY <1>2, <3>2
    <3>. QED  BY <1>2, <2>1, <2>2, <2>6, <3>1, <3>3 DEF Good
  <2>. QED  BY <2>4, <2>5, <2>6 DEF Tx
<1>6. Good(t, tx[t].pc, tx[t].task, tx[t].seen, tx[t].todo, tx[t].rows)'
  BY DEF Moves, Is, Good, OwnedBy, Active
<1>7. AllGood'
  BY <1>5, <1>6 DEF AllGood
<1>. QED  BY <1>3, <1>4, <1>7, GoodIsNext DEF LocksInv

\* claim_one_task gives a task to an idle worker; its row is not locked, and it was
\* active before.
LEMMA ClaimStep ==
  ASSUME LocksInv, NEW w \in Workers, claim_one_task(w)
  PROVE  LocksInv'
<1>1. w \in Tx /\ w \notin Cancels /\ w \notin Retries
  BY Kinds
<1>2. tx[w].pc = "idle" /\ UNCHANGED order /\ NoLock
  BY DEF claim_one_task
<1>3. PICK i \in DOMAIN tasks :
        /\ task_lock[i] = NoTx /\ tasks[i].status \in {"pending", "running"}
        /\ tasks' = [tasks EXCEPT ![i] = [status |-> "running", locked_by |-> w]]
        /\ tx' = [tx EXCEPT ![w] = [Idle EXCEPT !.pc = "claimed", !.task = i]]
  BY DEF claim_one_task
<1>4. /\ Len(tasks) \in 0 .. 5 /\ i \in 1 .. Len(tasks) /\ i = Len(tasks)
      /\ Len(tasks) # 0
  <2>1. Len(tasks) \in 0 .. 5 /\ i \in 1 .. Len(tasks)
    BY <1>3, Lengths
  <2>. QED  BY <1>3, <2>1, UnfinishedIsLast
<1>5. Moves(w, "claimed", i, Idle.seen, {}, {})
  <2>1. "claimed" \in AllPlaces /\ i \in 0 .. 5
    BY <1>4 DEF AllPlaces, WorkerPlaces
  <2>2. Is([Idle EXCEPT !.pc = "claimed", !.task = i], "claimed", i, Idle.seen, {}, {})
    BY <2>1, RecordIdle
  <2>. QED  BY <1>1, <1>3, <2>2, MovesOne DEF LocksInv
<1>6. tx[w].rows = {}
  BY <1>1, Fits DEF Good
<1>7. LockTypes' /\ Locks'
  BY <1>1, <1>2, <1>5, <1>6, LocksKept
<1>. DEFINE row == [status |-> "running", locked_by |-> w]
<1>8. row \in TaskRow /\ row.status = "running" /\ row.locked_by = w
  BY DEF TaskRow, ORDER_TASK_STATUSES
<1>9. tasks' = [tasks EXCEPT ![Len(tasks)] = row] /\ Len(tasks') = Len(tasks)
  BY <1>3, <1>4, <1>8, PutRow
<1>. HIDE DEF row
<1>10. Good(w, "claimed", i, Idle.seen, {}, {})'
  BY <1>1, <1>4, <1>9 DEF Good, WorkerPlaces
<1>11. \A s \in Tx : s # w => task_lock[Len(tasks)] # s
  BY <1>3, <1>4, Kinds
<1>. QED
  BY <1>1, <1>2, <1>3, <1>4, <1>5, <1>7, <1>8, <1>9, <1>10, <1>11, TouchStep

\* A worker that owns its task and waits for nobody writes it and is done.
LEMMA OwnedWrite ==
  ASSUME LocksInv, NEW w \in Workers, tx[w].pc # "idle", task_lock[tx[w].task] = NoTx,
         Owned(w), NEW status \in {"pending", "failed", "completed"},
         tasks' = Write(tx[w].task, status), End(w, "idle"), UNCHANGED order,
         status = "completed" => order.state \notin Live
  PROVE  LocksInv'
<1>. DEFINE row == [status |-> status, locked_by |-> NoTx]
<1>1. w \in Tx /\ w \notin Cancels /\ w \notin Retries
  BY Kinds
<1>2. /\ tx[w].task \in 1 .. Len(tasks) /\ Len(tasks) \in 0 .. 5 /\ tx[w].task = Len(tasks)
      /\ Len(tasks) # 0 /\ tasks[Len(tasks)].status = "running"
  <2>1. tx[w].task \in 1 .. Len(tasks) /\ Len(tasks) \in 0 .. 5
    BY <1>1, Fits DEF Good
  <2>2. tasks[tx[w].task].status = "running"
    BY DEF Owned
  <2>. QED  BY <2>1, <2>2, UnfinishedIsLast
<1>3. Moves(w, "idle", 0, Idle.seen, {}, {})
  BY <1>1, EndMoves DEF LocksInv
<1>4. LockTypes' /\ Locks'
  BY <1>1, EndLocks DEF LockTypes
<1>5. row \in TaskRow /\ row.status = status
  BY DEF TaskRow, ORDER_TASK_STATUSES
<1>6. tasks' = [tasks EXCEPT ![Len(tasks)] = row]
  BY <1>2 DEF Write
<1>7. Len(tasks') = Len(tasks)
  BY <1>2, <1>5, <1>6, PutRow
<1>. HIDE DEF row
<1>8. Good(w, "idle", 0, Idle.seen, {}, {})'
  BY <1>1, <1>2, <1>7 DEF Good, WorkerPlaces
<1>9. \A s \in Tx : s # w => task_lock[Len(tasks)] # s
  BY <1>2, Kinds
<1>. QED
  BY <1>1, <1>2, <1>3, <1>4, <1>5, <1>6, <1>8, <1>9, TouchStep

\* A task whose order is elsewhere: the order cannot move any more.
LEMMA ElsewhereIsOver ==
  ASSUME LocksInv, NEW w \in Workers, tx[w].pc \in {"prepare", "finalize"}, Owned(w),
         ~InSourceState(w)
  PROVE  order.state = "cancelled"
<1>1. w \in Tx
  BY Kinds
<1>2. /\ tx[w].task \in 1 .. Len(tasks) /\ Len(tasks) \in 0 .. 5
      /\ OwnedBy(w, tx[w].task) /\ tx[w].seen = order
  BY <1>1, Fits DEF Good, Owned, OwnedBy
<1>3. tx[w].task = Len(tasks) /\ tasks[Len(tasks)].status = "running"
  BY <1>2, UnfinishedIsLast DEF OwnedBy
<1>4. order.state # SOURCE[Len(tasks)]
  BY <1>2, <1>3 DEF InSourceState
<1>5. order.state \notin Live \union {"delivered", "failed"}
  BY <1>3, <1>4 DEF LocksInv, Queue
<1>6. order.state # Absent
  BY <1>2 DEF LocksInv, Queue
<1>7. order.state \in ORDER_STATES \union {Absent}
  BY DEF LocksInv, Shape, OrderRow
<1>. QED  BY <1>5, <1>6, <1>7 DEF ORDER_STATES, Live

LEMMA PrepareStep ==
  ASSUME LocksInv, NEW w \in Workers, prepare_call(w)
  PROVE  LocksInv'
<1>1. w \in Tx /\ tx[w].pc = "prepare" /\ task_lock[tx[w].task] = NoTx /\ UNCHANGED order
  BY Kinds DEF prepare_call
<1>2. CASE ~Owned(w) /\ End(w, "idle") /\ UNCHANGED tasks
  BY <1>1, <1>2, QuietEnd
<1>3. CASE Owned(w) /\ ~InSourceState(w) /\ tasks' = Write(tx[w].task, "completed") /\ End(w, "idle")
  <2>1. order.state \notin Live
    BY <1>1, <1>3, ElsewhereIsOver DEF Live
  <2>. QED  BY <1>1, <1>3, <2>1, OwnedWrite
<1>4. CASE Owned(w) /\ InSourceState(w) /\ End(w, "calling") /\ UNCHANGED tasks
  <2>1. Good(w, tx[w].pc, tx[w].task, tx[w].seen, tx[w].todo, tx[w].rows)
    BY <1>1, Fits
  <2>2. tx[w].task # 0 /\ OwnedBy(w, tx[w].task) /\ order.state = SOURCE[tx[w].task]
    BY <1>1, <1>4, <2>1 DEF Good, Owned, OwnedBy, InSourceState
  <2>. QED  BY <1>1, <1>4, <2>2, QuietEnd
<1>. QED  BY <1>2, <1>3, <1>4 DEF prepare_call

LEMMA LockForFinalizeStep ==
  ASSUME LocksInv, NEW w \in Workers, lock_for_finalize(w)
  PROVE  LocksInv'
<1>1. w \in Tx /\ tx[w].pc = "finalize" /\ task_lock[tx[w].task] = NoTx /\ UNCHANGED order
  BY Kinds DEF lock_for_finalize
<1>2. CASE ~Owned(w) /\ End(w, "idle") /\ UNCHANGED tasks
  BY <1>1, <1>2, QuietEnd
<1>3. CASE Owned(w) /\ ~InSourceState(w) /\ tasks' = Write(tx[w].task, "completed") /\ End(w, "idle")
  <2>1. order.state \notin Live
    BY <1>1, <1>3, ElsewhereIsOver DEF Live
  <2>. QED  BY <1>1, <1>3, <2>1, OwnedWrite
<1>4. CASE /\ Owned(w) /\ InSourceState(w)
           /\ task_lock' = [task_lock EXCEPT ![tx[w].task] = w]
           /\ Goto(w, "update")
           /\ UNCHANGED <<tasks, order_lock, key_share>>
  BY <1>1, <1>4, LockTaskStep
<1>. QED  BY <1>2, <1>3, <1>4 DEF lock_for_finalize

\* The update always finds its row.
LEMMA UpdateStep ==
  ASSUME LocksInv, NEW w \in Workers, update_order(w)
  PROVE  LocksInv' /\ UNCHANGED <<order, tasks>>
<1>1. w \in Tx /\ tx[w].pc = "update" /\ order_lock = NoTx /\ UNCHANGED order
  BY Kinds DEF update_order
<1>2. tx[w].seen = order
  BY <1>1, Fits DEF Good
<1>3. order_lock' = w /\ Goto(w, "commit") /\ UNCHANGED <<tasks, key_share, task_lock>>
  BY <1>2 DEF update_order
<1>. QED  BY <1>1, <1>3, LockOrderRowStep

LEMMA RescheduleStep ==
  ASSUME LocksInv, NEW w \in Workers, reschedule_task(w)
  PROVE  LocksInv'
<1>1. /\ w \in Tx /\ tx[w].pc = "calling" /\ task_lock[tx[w].task] = NoTx /\ UNCHANGED order
      /\ End(w, "idle")
  BY Kinds DEF reschedule_task
<1>2. CASE ~Owned(w) /\ UNCHANGED tasks
  BY <1>1, <1>2, QuietEnd
<1>3. ASSUME Owned(w), NEW status \in {"pending", "failed"}, tasks' = Write(tx[w].task, status)
      PROVE  LocksInv'
  BY <1>1, <1>3, OwnedWrite
<1>. QED  BY <1>2, <1>3 DEF reschedule_task

\* The rollback of an open transaction.
LEMMA RollbackStep ==
  ASSUME LocksInv, NEW t \in Tx, Rollback(t)
  PROVE  LocksInv' /\ UNCHANGED <<order, tasks>>
<1>1. CASE t \in Workers
  BY <1>1, QuietEnd DEF Rollback
<1>2. CASE t \notin Workers
  BY <1>2, QuietEnd DEF Rollback
<1>. QED  BY <1>1, <1>2 DEF Rollback

\* The commit of a retry: the one row it locked is the last one, which had failed.
LEMMA ReopenedRow ==
  ASSUME LocksInv, NEW r \in Retries, retry_failed_tasks(r)
  PROVE  /\ Len(tasks) \in 1 .. 5 /\ Len(tasks) # 0 /\ tx[r].rows = {Len(tasks)}
         /\ tasks[Len(tasks)].status = "failed"
         /\ tasks' = [tasks EXCEPT ![Len(tasks)] = [status |-> "pending", locked_by |-> NoTx]]
<1>1. r \in Tx /\ r \notin Workers /\ r \notin Cancels /\ tx[r].pc = "commit"
  BY Kinds DEF retry_failed_tasks
<1>2. /\ Good(r, tx[r].pc, tx[r].task, tx[r].seen, tx[r].todo, tx[r].rows)
      /\ tx[r].rows \in SUBSET (1 .. 5)
  BY <1>1, Fits
<1>3. Len(tasks) \in 0 .. 5 /\ DOMAIN tasks = 1 .. Len(tasks)
  BY Lengths
<1>4. tx[r].rows # {} /\ \A i \in tx[r].rows : i \in 1 .. Len(tasks) /\ tasks[i].status = "failed"
  BY <1>1, <1>2, <1>3 DEF Good
<1>5. \A i \in tx[r].rows : i = Len(tasks)
  BY <1>4, UnfinishedIsLast
<1>6. tx[r].rows = {Len(tasks)}
  BY <1>4, <1>5
<1>7. tasks' = [i \in DOMAIN tasks |->
                  IF i \in tx[r].rows THEN [status |-> "pending", locked_by |-> NoTx] ELSE tasks[i]]
  BY DEF retry_failed_tasks
<1>8. tasks = [i \in DOMAIN tasks |-> tasks[i]]
  BY DEF LocksInv, Shape
<1>9. tasks' = [tasks EXCEPT ![Len(tasks)] = [status |-> "pending", locked_by |-> NoTx]]
  BY <1>6, <1>7, <1>8
<1>. QED  BY <1>3, <1>4, <1>6, <1>9

LEMMA RetryCommitStep ==
  ASSUME LocksInv, NEW r \in Retries, retry_failed_tasks(r)
  PROVE  LocksInv'
<1>. DEFINE row == [status |-> "pending", locked_by |-> NoTx]
<1>1. /\ r \in Tx /\ r \notin Workers /\ r \notin Cancels /\ tx[r].pc = "commit"
      /\ End(r, "done") /\ UNCHANGED order
  BY Kinds DEF retry_failed_tasks
<1>2. /\ Len(tasks) \in 1 .. 5 /\ tx[r].rows = {Len(tasks)}
      /\ tasks[Len(tasks)].status = "failed"
      /\ tasks' = [tasks EXCEPT ![Len(tasks)] = row]
  BY ReopenedRow
<1>3. Moves(r, "done", 0, Idle.seen, {}, {})
  BY <1>1, EndMoves DEF LocksInv
<1>4. LockTypes' /\ Locks'
  BY <1>1, EndLocks DEF LockTypes
<1>5. row \in TaskRow /\ row.status = "pending"
  BY DEF TaskRow, ORDER_TASK_STATUSES
<1>. HIDE DEF row
<1>6. Good(r, "done", 0, Idle.seen, {}, {})'
  BY <1>1 DEF Good, RetryPlaces
<1>7. task_lock[Len(tasks)] = r
  BY <1>1, <1>2 DEF LocksInv, Locks, Held
<1>8. order_lock \notin Cancels
  BY <1>1 DEF LocksInv, Locks
<1>9. Len(tasks) # 0 /\ \A s \in Tx : s # r => task_lock[Len(tasks)] # s
  <2>1. Len(tasks) # 0
    BY ReopenedRow
  <2>2. \A s \in Tx : s # r => task_lock[Len(tasks)] # s
    BY <1>7
  <2>. QED  BY <2>1, <2>2
<1>10. row.status # "running" /\ row.status \in {"pending", "running", "failed"}
  BY <1>5
<1>11. tasks[Len(tasks)].status # "completed"
  BY <1>2
<1>. QED
  BY <1>1, <1>2, <1>3, <1>4, <1>5, <1>6, <1>8, <1>9, <1>10, <1>11, TouchStep

--------------------------------------------------------------------------------
\* Steps that move the order.

\* What a committing cancel finds: it holds every active row, which is the last or
\* none.
LEMMA CancelledRows ==
  ASSUME LocksInv, NEW c \in Cancels, cancel_order(c)
  PROVE  /\ order.state \in Live /\ Len(tasks) \in 1 .. 5
         /\ tx[c].rows \subseteq {Len(tasks)}
         /\ tx[c].rows = {} <=> tasks[Len(tasks)].status = "failed"
         /\ Len(tasks) \in tx[c].rows => task_lock[Len(tasks)] = c
         /\ \A i \in 1 .. Len(tasks) : Active(i) => i \in tx[c].rows
<1>1. c \in Tx /\ c \notin Workers /\ c \notin Retries /\ tx[c].pc = "sweep" /\ tx[c].todo = {}
  BY Kinds DEF cancel_order
<1>2. /\ Good(c, tx[c].pc, tx[c].task, tx[c].seen, tx[c].todo, tx[c].rows)
      /\ tx[c].rows \in SUBSET (1 .. 5)
  BY <1>1, Fits
<1>3. /\ order.state \in Live
      /\ \A i \in tx[c].rows : Active(i) /\ i <= Len(tasks)
      /\ \A i \in 1 .. Len(tasks) : Active(i) => i \in tx[c].rows
  BY <1>1, <1>2 DEF Good
<1>4. Len(tasks) \in 1 .. 5 /\ tasks[Len(tasks)].status \in {"pending", "running", "failed"}
  BY <1>3, Lengths DEF LocksInv, Queue, Live, Absent
<1>5. \A i \in tx[c].rows : i = Len(tasks)
  <2>. TAKE i \in tx[c].rows
  <2>1. i \in 1 .. Len(tasks) /\ tasks[i].status # "completed"
    BY <1>2, <1>3, <1>4 DEF Active, ACTIVE_TASK_STATUSES
  <2>. QED  BY <2>1, UnfinishedIsLast
<1>6. tx[c].rows = {} <=> tasks[Len(tasks)].status = "failed"
  BY <1>3, <1>4, <1>5 DEF Active, ACTIVE_TASK_STATUSES
<1>7. Len(tasks) \in tx[c].rows => task_lock[Len(tasks)] = c
  BY <1>1, <1>4 DEF LocksInv, Locks, Held
<1>. QED  BY <1>3, <1>4, <1>5, <1>6, <1>7

LEMMA RecordCancelled ==
  ASSUME NEW r \in OrderRow, NEW s, s = [r EXCEPT !.state = "cancelled", !.version = @ + 1]
  PROVE  /\ s \in OrderRow
         /\ s.state = "cancelled" /\ s.version = r.version + 1 /\ s.courier_ref = r.courier_ref
<1>. DEFINE v == r.version + 1
<1>1. v \in Nat
  BY DEF OrderRow
<1>2. s = [r EXCEPT !.state = "cancelled", !.version = v]
  OBVIOUS
<1>. HIDE DEF v
<1>3. s \in OrderRow /\ s.state = "cancelled" /\ s.version = v /\ s.courier_ref = r.courier_ref
  BY <1>1, <1>2 DEF OrderRow, ORDER_STATES
<1>. QED  BY <1>3 DEF v

LEMMA CancelledTasks ==
  ASSUME LocksInv, NEW c \in Cancels, cancel_order(c)
  PROVE  /\ tasks' \in Seq(TaskRow) /\ Len(tasks') = Len(tasks)
         /\ \A i \in 1 .. Len(tasks) :
              tasks'[i] = IF i \in tx[c].rows THEN [status |-> "cancelled", locked_by |-> NoTx]
                                              ELSE tasks[i]
         /\ \A i \in 1 .. Len(tasks) : tasks'[i].status \notin {"pending", "running"}
<1>. DEFINE row == [status |-> "cancelled", locked_by |-> NoTx]
<1>1. /\ tasks \in Seq(TaskRow) /\ Len(tasks) \in 1 .. 5 /\ DOMAIN tasks = 1 .. Len(tasks)
      /\ \A i \in 1 .. Len(tasks) : tasks[i] \in TaskRow
  BY CancelledRows, Lengths DEF LocksInv, Shape
<1>2. tasks' = [i \in 1 .. Len(tasks) |-> IF i \in tx[c].rows THEN row ELSE tasks[i]]
  BY <1>1 DEF cancel_order
<1>3. row \in TaskRow /\ row.status = "cancelled"
  BY DEF TaskRow, ORDER_TASK_STATUSES
<1>. HIDE DEF row
<1>4. tasks' \in [1 .. Len(tasks) -> TaskRow]
  BY <1>1, <1>2, <1>3
<1>5. tasks' \in Seq(TaskRow) /\ Len(tasks') = Len(tasks)
  <2>1. Len(tasks) \in Nat
    BY <1>1
  <2>2. tasks' \in Seq(TaskRow)
    BY <1>4, <2>1, SeqDef
  <2>3. DOMAIN tasks' = 1 .. Len(tasks')  /\ DOMAIN tasks' = 1 .. Len(tasks) /\ Len(tasks') \in Nat
    BY <1>2, <2>2, LenProperties
  <2>. QED  BY <2>1, <2>2, <2>3
<1>6. \A i \in 1 .. Len(tasks) : tasks'[i] = IF i \in tx[c].rows THEN row ELSE tasks[i]
  BY <1>2
<1>7. \A i \in 1 .. Len(tasks) : tasks'[i].status \notin {"pending", "running"}
  BY <1>3, <1>6, CancelledRows DEF Active, ACTIVE_TASK_STATUSES
<1>. QED  BY <1>5, <1>6, <1>7 DEF row

\* No worker owns anything afterwards, and no other cancel has the order.
LEMMA CancelCommitStep ==
  ASSUME LocksInv, NEW c \in Cancels, cancel_order(c)
  PROVE  LocksInv'
<1>. DEFINE n == Len(tasks)
<1>1. c \in Tx /\ c \notin Workers /\ c \notin Retries /\ tx[c].pc = "sweep" /\ End(c, "done")
  BY Kinds DEF cancel_order
<1>2. n \in 1 .. 5 /\ tx[c].rows \subseteq {n}
  BY CancelledRows
<1>3. Moves(c, "done", 0, Idle.seen, {}, {})
  BY <1>1, EndMoves DEF LocksInv
<1>4. LockTypes' /\ Locks'
  BY <1>1, EndLocks DEF LockTypes
<1>5. /\ tasks' \in Seq(TaskRow) /\ Len(tasks') = n
      /\ \A i \in 1 .. n : i \notin tx[c].rows => tasks'[i] = tasks[i]
      /\ \A i \in 1 .. n : tasks'[i].status \notin {"pending", "running"}
  BY CancelledTasks
<1>6. order' \in OrderRow /\ order'.state = "cancelled"
  <2>1. order \in OrderRow
    BY DEF LocksInv, Shape
  <2>2. order' = [order EXCEPT !.state = "cancelled", !.version = @ + 1]
    BY DEF cancel_order
  <2>. QED  BY <2>1, <2>2, RecordCancelled
<1>7. Shape'
  <2>1. Len(tasks') <= 5
    BY <1>2, <1>5
  <2>2. tx' \in [Tx -> TxState]
    BY <1>3 DEF Moves
  <2>. QED  BY <1>4, <1>5, <1>6, <2>1, <2>2 DEF Shape, LockTypes
<1>8. Queue'
  <2>1. \A i \in 1 .. n : i < n => tasks'[i].status = "completed"
    BY <1>2, <1>5 DEF LocksInv, Queue
  <2>. QED  BY <1>2, <1>5, <1>6, <2>1 DEF Queue, Live, Absent
<1>9. ASSUME NEW s \in Tx, s # c
      PROVE  Good(s, tx[s].pc, tx[s].task, tx[s].seen, tx[s].todo, tx[s].rows)'
  <2>1. tx'[s] = tx[s]
    BY <1>3, <1>9 DEF Moves
  <2>2. /\ Good(s, tx[s].pc, tx[s].task, tx[s].seen, tx[s].todo, tx[s].rows)
        /\ tx[s].task \in 0 .. 5 /\ tx[s].todo \in SUBSET (1 .. 5) /\ tx[s].rows \in SUBSET (1 .. 5)
    BY Fits
  <2>3. CASE s \in Workers
    <3>1. s \notin Cancels /\ s \notin Retries
      BY <2>3, Kinds
    <3>2. tx[s].task # 0 => tx[s].task \in 1 .. n
      BY <2>2, <2>3 DEF Good
    <3>3. tx[s].task # 0 => ~OwnedBy(s, tx[s].task)'
      BY <1>5, <2>1, <3>2 DEF OwnedBy
    <3>4. tx[s].pc \notin {"update", "commit"}
      <4>. SUFFICES ASSUME tx[s].pc \in {"update", "commit"} PROVE FALSE
        OBVIOUS
      <4>1. tx[s].task \in 1 .. n /\ OwnedBy(s, tx[s].task)
        BY <2>2, <2>3, <3>2 DEF Good
      <4>2. tx[s].task \in tx[c].rows
        BY <4>1, CancelledRows DEF OwnedBy, Active, ACTIVE_TASK_STATUSES
      <4>3. tx[s].task = n /\ task_lock[n] = c
        BY <1>2, <4>2, CancelledRows
      <4>4. task_lock[n] = s
        BY <1>2, <2>3, <4>3 DEF LocksInv, Locks, Held
      <4>. QED  BY <1>9, <4>3, <4>4
    <3>. QED  BY <1>5, <2>1, <2>2, <2>3, <3>1, <3>3, <3>4 DEF Good
  <2>4. CASE s \in Cancels
    <3>1. s \notin Workers /\ s \notin Retries
      BY <2>4, Kinds
    <3>2. order_lock = c
      BY <1>1 DEF LocksInv, Locks
    <3>3. tx[s].pc \notin {"tasks", "sweep"}
      BY <1>9, <2>4, <3>2 DEF LocksInv, Locks
    <3>. QED  BY <1>5, <2>1, <2>2, <2>4, <3>1, <3>3 DEF Good
  <2>5. CASE s \in Retries
    <3>1. s \notin Workers /\ s \notin Cancels
      BY <2>5, Kinds
    <3>2. \A i \in tx[s].rows : i \in 1 .. n /\ tasks[i].status = "failed"
      BY <1>2, <2>2, <2>5 DEF Good
    <3>3. \A i \in tx[s].rows : i = n /\ tasks[n].status = "failed"
      BY <3>2, UnfinishedIsLast
    <3>4. \A i \in tx[s].rows : tasks'[i] = tasks[i]
      BY <1>5, <3>2, <3>3, CancelledRows
    <3>. QED  BY <1>5, <2>1, <2>2, <2>5, <3>1, <3>2, <3>4 DEF Good
  <2>. QED  BY <2>3, <2>4, <2>5 DEF Tx
<1>10. Good(c, tx[c].pc, tx[c].task, tx[c].seen, tx[c].todo, tx[c].rows)'
  BY <1>1, <1>3 DEF Moves, Is, Good, CancelPlaces
<1>11. AllGood'
  BY <1>9, <1>10 DEF AllGood
<1>. QED  BY <1>4, <1>7, <1>8, <1>11, GoodIsNext DEF LocksInv

LEMMA UpToFive ==
  ASSUME NEW k \in 1 .. 5
  PROVE  k \in 1 .. k /\ (~(k < 5) => k = 5)
  OBVIOUS

\* What a committing worker finds: its task is the last one, running and its own,
\* and the order is in the state that task moves it from.
LEMMA CommittingWorker ==
  ASSUME LocksInv, NEW w \in Workers, tx[w].pc = "commit"
  PROVE  /\ Len(tasks) \in 1 .. 5 /\ tx[w].task = Len(tasks)
         /\ tasks[Len(tasks)].status = "running" /\ tasks[Len(tasks)].locked_by = w
         /\ order.state = SOURCE[Len(tasks)] /\ order.state \in Live
         /\ order_lock = w
<1>1. w \in Tx
  BY Kinds
<1>2. /\ OwnedBy(w, tx[w].task) /\ order.state = SOURCE[tx[w].task]
      /\ tx[w].task \in 1 .. Len(tasks) /\ Len(tasks) \in 0 .. 5
  BY <1>1, Fits DEF Good
<1>3. tx[w].task = Len(tasks) /\ Len(tasks) \in 1 .. 5
  BY <1>2, UnfinishedIsLast DEF OwnedBy
<1>4. SOURCE[Len(tasks)] \in Live
  BY <1>3, SourceStates
<1>5. order_lock = w
  BY DEF LocksInv, Locks
<1>. QED  BY <1>2, <1>3, <1>4, <1>5 DEF OwnedBy

LEMMA FinalizedTasks ==
  ASSUME LocksInv, NEW w \in Workers, finalize_transition_task(w)
  PROVE  /\ tasks' \in Seq(TaskRow)
         /\ Len(tasks') = IF Len(tasks) < 5 THEN Len(tasks) + 1 ELSE Len(tasks)
         /\ \A i \in 1 .. Len(tasks) : tasks'[i].status = "completed"
         /\ Len(tasks) < 5 => tasks'[Len(tasks) + 1].status = "pending"
<1>. DEFINE n == Len(tasks)
            row == [status |-> "completed", locked_by |-> NoTx]
            next == [status |-> "pending", locked_by |-> NoTx]
            written == [tasks EXCEPT ![n] = row]
<1>1. tx[w].pc = "commit"
  BY DEF finalize_transition_task
<1>2. n \in 1 .. 5 /\ tx[w].task = n /\ n \in 1 .. n
  <2>1. n \in 1 .. 5 /\ tx[w].task = n
    BY <1>1, CommittingWorker
  <2>2. n \in 1 .. n
    BY <2>1, UpToFive
  <2>. QED  BY <2>1, <2>2
<1>3. row \in TaskRow /\ row.status = "completed" /\ next \in TaskRow /\ next.status = "pending"
  BY DEF TaskRow, ORDER_TASK_STATUSES
<1>4. tasks' = IF n < 5 THEN Append(written, next) ELSE written
  BY <1>2, SourceStates DEF finalize_transition_task, Write
<1>5. tasks \in Seq(TaskRow) /\ n \in DOMAIN tasks
  BY <1>2, Lengths DEF LocksInv, Shape
<1>. HIDE DEF row, next
<1>6. /\ written \in Seq(TaskRow) /\ Len(written) = n
      /\ \A j \in 1 .. n : written[j] = IF j = n THEN row ELSE tasks[j]
  BY <1>2, <1>3, <1>5, ExceptSeq, LenProperties
<1>7. \A j \in 1 .. n : written[j].status = "completed"
  <2>. TAKE j \in 1 .. n
  <2>1. j # n => j < n
    BY <1>2
  <2>2. j # n => tasks[j].status = "completed"
    BY <2>1 DEF LocksInv, Queue
  <2>. QED  BY <1>3, <1>6, <2>2
<1>. HIDE DEF written
<1>8. CASE n < 5
  <2>1. tasks' = Append(written, next)
    BY <1>4, <1>8
  <2>2. /\ tasks' \in Seq(TaskRow) /\ Len(tasks') = n + 1 /\ tasks'[n + 1] = next
        /\ \A j \in 1 .. n : tasks'[j] = written[j]
    BY <1>3, <1>6, <2>1, AppendProperties
  <2>. QED  BY <1>3, <1>7, <1>8, <2>2
<1>9. CASE ~(n < 5)
  <2>1. tasks' = written
    BY <1>4, <1>9
  <2>. QED  BY <1>6, <1>7, <1>9, <2>1
<1>. QED  BY <1>8, <1>9

LEMMA FinalizedOrder ==
  ASSUME LocksInv, NEW w \in Workers, finalize_transition_task(w)
  PROVE  LET target == ORDER_TRANSITIONS[SOURCE[Len(tasks)]] IN
         /\ order' \in OrderRow
         /\ order'.state = target /\ order'.version = order.version + 1
         /\ order'.courier_ref = (order.courier_ref \/ target = "out_for_delivery")
         /\ Len(tasks) < 5 => target = SOURCE[Len(tasks) + 1] /\ target \in Live
         /\ ~(Len(tasks) < 5) => target = "delivered"
<1>. DEFINE n == Len(tasks)
            target == ORDER_TRANSITIONS[SOURCE[n]]
            courier == order.courier_ref \/ target = "out_for_delivery"
            moved == order.version + 1
<1>0. n \in 1 .. 5
  BY CommittingWorker DEF finalize_transition_task
<1>1. tx[w].task = n
  BY CommittingWorker DEF finalize_transition_task
<1>2. n < 5 => target = SOURCE[n + 1] /\ target \in Live
  <2>. SUFFICES ASSUME n < 5 PROVE target = SOURCE[n + 1] /\ target \in Live
    OBVIOUS
  <2>1. n \in 1 .. 4 /\ n + 1 \in 1 .. 5
    BY <1>0
  <2>. QED  BY <2>1, SourceStates
<1>3. ~(n < 5) => target = "delivered"
  <2>. SUFFICES ASSUME ~(n < 5) PROVE target = "delivered"
    OBVIOUS
  <2>1. n = 5
    BY <1>0, UpToFive
  <2>. QED  BY <2>1, SourceStates
<1>4. target \in ORDER_STATES
  BY <1>2, <1>3 DEF Live, ORDER_STATES
<1>5. order' = [state |-> target, version |-> moved, courier_ref |-> courier]
  BY <1>1 DEF finalize_transition_task
<1>6. moved \in Nat /\ courier \in BOOLEAN
  BY DEF LocksInv, Shape, OrderRow
<1>. HIDE DEF target, moved, courier
<1>7. /\ order' \in OrderRow
      /\ order'.state = target /\ order'.version = moved /\ order'.courier_ref = courier
  BY <1>4, <1>5, <1>6 DEF OrderRow
<1>. QED  BY <1>2, <1>3, <1>7 DEF target, moved, courier

\* Nobody else owns a task or has the order row, and nothing has failed.
LEMMA FinalizeStep ==
  ASSUME LocksInv, NEW w \in Workers, finalize_transition_task(w)
  PROVE  LocksInv'
<1>. DEFINE n == Len(tasks)
<1>1. w \in Tx /\ w \notin Cancels /\ w \notin Retries /\ tx[w].pc = "commit" /\ End(w, "idle")
  BY Kinds DEF finalize_transition_task
<1>2. /\ n \in 1 .. 5 /\ tx[w].task = n /\ order_lock = w
      /\ tasks[n].status = "running" /\ tasks[n].locked_by = w
  BY <1>1, CommittingWorker
<1>3. Moves(w, "idle", 0, Idle.seen, {}, {})
  BY <1>1, EndMoves DEF LocksInv
<1>4. LockTypes' /\ Locks'
  BY <1>1, EndLocks DEF LockTypes
<1>5. /\ tasks' \in Seq(TaskRow)
      /\ Len(tasks') = IF n < 5 THEN n + 1 ELSE n
      /\ \A i \in 1 .. n : tasks'[i].status = "completed"
      /\ n < 5 => tasks'[n + 1].status = "pending"
  BY FinalizedTasks
<1>6. /\ order' \in OrderRow
      /\ n < 5 => order'.state = SOURCE[n + 1] /\ order'.state \in Live
      /\ ~(n < 5) => order'.state = "delivered"
  BY FinalizedOrder
<1>7. Shape'
  <2>1. Len(tasks') <= 5
    BY <1>2, <1>5
  <2>2. tx' \in [Tx -> TxState]
    BY <1>3 DEF Moves
  <2>. QED  BY <1>4, <1>5, <1>6, <2>1, <2>2 DEF Shape, LockTypes
<1>8. Queue'
  <2>1. CASE n < 5
    <3>1. Len(tasks') = n + 1
      BY <1>5, <2>1
    <3>2. \A i \in 1 .. n + 1 : i < n + 1 => tasks'[i].status = "completed"
      BY <1>2, <1>5
    <3>3. order'.state \notin {Absent, "delivered", "failed"}
      BY <1>6, <2>1 DEF Live, Absent
    <3>. QED  BY <1>2, <1>5, <1>6, <2>1, <3>1, <3>2, <3>3 DEF Queue
  <2>2. CASE ~(n < 5)
    <3>1. Len(tasks') = n
      BY <1>5, <2>2
    <3>2. order'.state \notin Live \union {Absent}
      BY <1>6, <2>2 DEF Live, Absent
    <3>. QED  BY <1>2, <1>5, <3>1, <3>2 DEF Queue
  <2>. QED  BY <2>1, <2>2
<1>9. ASSUME NEW s \in Tx, s # w
      PROVE  Good(s, tx[s].pc, tx[s].task, tx[s].seen, tx[s].todo, tx[s].rows)'
  <2>1. tx'[s] = tx[s]
    BY <1>3, <1>9 DEF Moves
  <2>2. /\ Good(s, tx[s].pc, tx[s].task, tx[s].seen, tx[s].todo, tx[s].rows)
        /\ tx[s].task \in 0 .. 5 /\ tx[s].todo \in SUBSET (1 .. 5) /\ tx[s].rows \in SUBSET (1 .. 5)
    BY Fits
  <2>3. Len(tasks') \in Nat /\ Len(tasks') >= n
    BY <1>2, <1>5
  <2>4. CASE s \in Workers
    <3>1. s \notin Cancels /\ s \notin Retries
      BY <2>4, Kinds
    <3>2. tx[s].task # 0 => tx[s].task \in 1 .. n
      BY <2>2, <2>4 DEF Good
    <3>3. tx[s].task # 0 => ~OwnedBy(s, tx[s].task)'
      BY <1>5, <2>1, <3>2 DEF OwnedBy
    <3>4. tx[s].pc \notin {"update", "commit"}
      <4>. SUFFICES ASSUME tx[s].pc \in {"update", "commit"} PROVE FALSE
        OBVIOUS
      <4>1. tx[s].task \in 1 .. n /\ OwnedBy(s, tx[s].task)
        BY <2>2, <2>4, <3>2 DEF Good
      <4>2. tx[s].task = n
        BY <4>1, UnfinishedIsLast DEF OwnedBy
      <4>. QED  BY <1>2, <1>9, <4>1, <4>2 DEF OwnedBy
    <3>5. tx[s].task <= Len(tasks')
      BY <1>2, <2>2, <2>3, <2>4 DEF Good
    <3>. QED  BY <2>1, <2>2, <2>4, <3>1, <3>3, <3>4, <3>5 DEF Good
  <2>5. CASE s \in Cancels
    <3>1. s \notin Workers /\ s \notin Retries
      BY <2>5, Kinds
    <3>2. tx[s].pc \notin {"tasks", "sweep"}
      BY <1>2, <1>9, <2>5 DEF LocksInv, Locks
    <3>. QED  BY <2>1, <2>2, <2>5, <3>1, <3>2 DEF Good
  <2>6. CASE s \in Retries
    <3>1. s \notin Workers /\ s \notin Cancels
      BY <2>6, Kinds
    <3>2. \A i \in tx[s].rows : i \in 1 .. n /\ tasks[i].status = "failed"
      BY <1>2, <2>2, <2>6 DEF Good
    <3>3. tx[s].rows = {}
      BY <1>2, <3>2, UnfinishedIsLast
    <3>4. \A i \in tx[s].todo : i <= Len(tasks')
      BY <1>2, <2>2, <2>3 DEF Good
    <3>. QED  BY <2>1, <2>2, <2>6, <3>1, <3>3, <3>4 DEF Good
  <2>. QED  BY <2>4, <2>5, <2>6 DEF Tx
<1>10. Good(w, tx[w].pc, tx[w].task, tx[w].seen, tx[w].todo, tx[w].rows)'
  <2>1. 0 <= Len(tasks')
    BY <1>2, <1>5
  <2>. QED  BY <1>1, <1>3, <2>1 DEF Moves, Is, Good, WorkerPlaces
<1>11. AllGood'
  BY <1>9, <1>10 DEF AllGood
<1>. QED  BY <1>4, <1>7, <1>8, <1>11, GoodIsNext DEF LocksInv

LEMMA CreateStep ==
  ASSUME LocksInv, create_or_get_order
  PROVE  LocksInv' /\ Len(tasks) = 0 /\ Len(tasks') = 1 /\ tasks'[1].status = "pending"
<1>. DEFINE row == [status |-> "pending", locked_by |-> NoTx]
<1>1. order.state = Absent /\ tasks' = <<row>> /\ UNCHANGED tx /\ NoLock
  BY DEF create_or_get_order
<1>2. Len(tasks) = 0
  BY <1>1 DEF LocksInv, Queue
<1>3. row \in TaskRow /\ row.status = "pending"
  BY DEF TaskRow, ORDER_TASK_STATUSES
<1>. HIDE DEF row
<1>4. tasks' \in Seq(TaskRow) /\ Len(tasks') = 1 /\ tasks'[1] = row
  BY <1>1, <1>3
<1>5. order' \in OrderRow /\ order'.state = "placed"
  <2>1. order \in OrderRow /\ order' = [order EXCEPT !.state = "placed"]
    BY DEF LocksInv, Shape, create_or_get_order
  <2>. QED  BY <2>1 DEF OrderRow, ORDER_STATES
<1>6. Shape'
  <2>1. Len(tasks') <= 5
    BY <1>4
  <2>. QED  BY <1>1, <1>4, <1>5, <2>1 DEF LocksInv, Shape, NoLock
<1>7. Locks'
  BY <1>1 DEF LocksInv, Locks, Held, NoLock
<1>8. Queue'
  <2>1. \A i \in 1 .. 1 : ~(i < 1)
    OBVIOUS
  <2>. QED  BY <1>3, <1>4, <1>5, <2>1, SourceStates DEF Queue, Live, Absent
<1>9. ASSUME NEW s \in Tx
      PROVE  Good(s, tx[s].pc, tx[s].task, tx[s].seen, tx[s].todo, tx[s].rows)'
  <2>1. /\ Good(s, tx[s].pc, tx[s].task, tx[s].seen, tx[s].todo, tx[s].rows)
        /\ tx[s].task \in 0 .. 5 /\ tx[s].todo \in SUBSET (1 .. 5) /\ tx[s].rows \in SUBSET (1 .. 5)
    BY Fits
  <2>2. tx[s].todo = {} /\ tx[s].rows = {}
    BY <1>2, <2>1 DEF Good
  <2>3. CASE s \in Workers
    <3>1. s \notin Cancels /\ s \notin Retries
      BY <2>3, Kinds
    <3>2. tx[s].task = 0 /\ tx[s].pc = "idle"
      BY <1>2, <2>1, <2>3 DEF Good
    <3>. QED  BY <1>1, <1>4, <2>2, <3>1, <3>2 DEF Good, WorkerPlaces
  <2>4. CASE s \in Cancels
    <3>1. s \notin Workers /\ s \notin Retries
      BY <2>4, Kinds
    <3>2. tx[s].pc \notin {"tasks", "sweep"}
      BY <1>1, <2>1, <2>4 DEF Good, Live, Absent
    <3>. QED  BY <1>1, <2>1, <2>2, <2>4, <3>1, <3>2 DEF Good
  <2>5. CASE s \in Retries
    <3>1. s \notin Workers /\ s \notin Cancels
      BY <2>5, Kinds
    <3>. QED  BY <1>1, <2>1, <2>2, <2>5, <3>1 DEF Good
  <2>. QED  BY <2>3, <2>4, <2>5 DEF Tx
<1>10. AllGood'
  BY <1>9 DEF AllGood
<1>. QED  BY <1>2, <1>3, <1>4, <1>6, <1>7, <1>8, <1>10, GoodIsNext DEF LocksInv

--------------------------------------------------------------------------------
\* The invariant.

LEMMA LocksInit == Init => LocksInv
<1>. SUFFICES ASSUME Init PROVE LocksInv
  OBVIOUS
<1>1. Idle \in TxState /\ Idle.pc = "idle" /\ Idle.task = 0 /\ Idle.todo = {} /\ Idle.rows = {}
  BY DEF Idle, TxState, OrderRow, WorkerPlaces
<1>2. \A t \in Tx : tx[t] = Idle
  BY DEF Init
<1>3. Shape
  <2>1. tasks \in Seq(TaskRow) /\ Len(tasks) <= 5
    BY DEF Init
  <2>2. order \in OrderRow
    BY DEF Init, OrderRow
  <2>3. tx \in [Tx -> TxState]
    BY <1>1 DEF Init
  <2>4. task_lock \in [1 .. 5 -> Tx \union {NoTx}]
    BY SourceStates DEF Init
  <2>. QED  BY <2>1, <2>2, <2>3, <2>4 DEF Init, Shape
<1>4. Places
  BY <1>1, <1>2, Kinds DEF Init, Places, WorkerPlaces, CancelPlaces, RetryPlaces
<1>5. Locks
  <2>1. \A t \in Tx : Held(t) = {}
    BY <1>1, <1>2 DEF Held
  <2>2. \A i \in 1 .. 5 : task_lock[i] = NoTx
    BY SourceStates DEF Init
  <2>3. order_lock = NoTx /\ key_share = {}
    BY DEF Init
  <2>. QED  BY <1>1, <1>2, <2>1, <2>2, <2>3, Kinds DEF Locks
<1>6. Queue
  <2>1. order.state = Absent /\ Len(tasks) = 0
    BY DEF Init
  <2>. QED  BY <2>1 DEF Queue, Live, Absent
<1>7. Owners /\ Sweeps /\ Reopens
  BY <1>1, <1>2, Kinds DEF Owners, Sweeps, Reopens
<1>. QED  BY <1>3, <1>4, <1>5, <1>6, <1>7 DEF LocksInv

LEMMA WorkStep ==
  ASSUME LocksInv, NEW w \in Workers, claim_one_task(w) \/ Work(w)
  PROVE  LocksInv'
  BY ClaimStep, LoadStep, PrepareStep, LockForFinalizeStep, UpdateStep, FinalizeStep,
     RescheduleStep DEF Work

LEMMA LocksStep == LocksInv /\ [Next]_vars => LocksInv'
<1>. SUFFICES ASSUME LocksInv, [Next]_vars PROVE LocksInv'
  OBVIOUS
<1>1. CASE UNCHANGED vars
  BY <1>1 DEF vars, LocksInv, Shape, Places, Locks, Queue, Owners, Sweeps, Reopens, Held,
              Owned, Active
<1>2. CASE create_or_get_order
  BY <1>2, CreateStep
<1>3. ASSUME NEW w \in Workers, claim_one_task(w) \/ Work(w) PROVE LocksInv'
  BY <1>3, WorkStep
<1>4. ASSUME NEW c \in Cancels, begin_cancel(c) \/ Cancelling(c) PROVE LocksInv'
  BY <1>4, BeginCancelStep, LockOrderStep, ChooseTasksStep, SweepTaskStep, CancelCommitStep
     DEF Cancelling
<1>5. ASSUME NEW r \in Retries, choose_failed(r) \/ Retrying(r) PROVE LocksInv'
  BY <1>5, ChooseFailedStep, LockFailedStep, InsertEventStep, RetryCommitStep DEF Retrying
<1>6. ASSUME NEW t \in Tx, abort_deadlocked(t) \/ die(t) PROVE LocksInv'
  BY <1>6, RollbackStep DEF abort_deadlocked, die
<1>. QED  BY <1>1, <1>2, <1>3, <1>4, <1>5, <1>6 DEF Next

\* Locks, snapshots and committed rows agree at every statement of every transaction.
THEOREM LocksInvariant == Spec => []LocksInv
  BY LocksInit, LocksStep, PTL DEF Spec

--------------------------------------------------------------------------------
\* Rows, locks and transactions keep their shape; in particular an order never has
\* more than five tasks.
THEOREM LocksTypes == Spec => []TypeOK
<1>1. LocksInv => TypeOK
  <2>. SUFFICES ASSUME LocksInv PROVE TypeOK
    OBVIOUS
  <2>1. /\ order \in OrderRow /\ tasks \in Seq(TaskRow) /\ Len(tasks) <= Len(SOURCE)
        /\ order_lock \in Cancels \union Workers \union {NoTx} /\ key_share \subseteq Retries
        /\ task_lock \in [1 .. Len(SOURCE) -> Tx \union {NoTx}]
    BY SourceStates DEF LocksInv, Shape
  <2>2. ASSUME NEW t \in Tx
        PROVE  /\ tx[t].task \in 0 .. Len(tasks) /\ tx[t].seen \in OrderRow
               /\ tx[t].todo \subseteq DOMAIN tasks /\ tx[t].rows \subseteq DOMAIN tasks
    <3>1. /\ Good(t, tx[t].pc, tx[t].task, tx[t].seen, tx[t].todo, tx[t].rows)
          /\ tx[t].task \in 0 .. 5 /\ tx[t].seen \in OrderRow
          /\ tx[t].todo \in SUBSET (1 .. 5) /\ tx[t].rows \in SUBSET (1 .. 5)
          /\ Len(tasks) \in 0 .. 5 /\ DOMAIN tasks = 1 .. Len(tasks)
      BY Fits
    <3>2. tx[t].todo \subseteq 1 .. Len(tasks) /\ tx[t].rows \subseteq 1 .. Len(tasks)
      BY <3>1 DEF Good
    <3>3. tx[t].task <= Len(tasks)
      BY <3>1 DEF Good, Tx
    <3>4. tx[t].task \in 0 .. Len(tasks)
      BY <3>1, <3>3
    <3>. QED  BY <3>1, <3>2, <3>4
  <2>. QED  BY <2>1, <2>2 DEF TypeOK
<1>. QED  BY <1>1, LocksInvariant, PTL

\* A worker that has locked a task it owns has seen the order as it is, although it
\* read it without a lock.
THEOREM OwnersSeeTheOrder == Spec => []OwnedOrderIsCurrent
<1>1. LocksInv => OwnedOrderIsCurrent
  BY DEF LocksInv, Owners, OwnedOrderIsCurrent
<1>. QED  BY <1>1, LocksInvariant, PTL

--------------------------------------------------------------------------------
\* The refinement of OrderLifecycle.

\* Only the last row counts for the order's place in the queue.
WorkBy(n, status) ==
  IF n = 0 THEN "none"
  ELSE IF status \in ACTIVE_TASK_STATUSES THEN "open"
  ELSE IF status = "failed" THEN "failed"
  ELSE "done"

LEMMA WorkOf ==
  ASSUME LocksInv
  PROVE  work_of = WorkBy(Len(tasks), tasks[Len(tasks)].status)
<1>. DEFINE n == Len(tasks)
            open == \E i \in DOMAIN tasks : Active(i)
            failed == \E i \in DOMAIN tasks : tasks[i].status = "failed"
<1>1. n \in 0 .. 5 /\ DOMAIN tasks = 1 .. n
  BY Lengths
<1>2. CASE n = 0
  <2>1. tasks = <<>>
    BY <1>2, EmptySeq DEF LocksInv, Shape
  <2>. QED  BY <1>2, <2>1 DEF work_of, WorkBy
<1>3. CASE n # 0
  <2>1. tasks # <<>>
    BY <1>3
  <2>2. n \in DOMAIN tasks
    BY <1>1, <1>3
  <2>3. \A i \in DOMAIN tasks : tasks[i].status # "completed" => i = n
    BY <1>1, UnfinishedIsLast
  <2>4. open <=> tasks[n].status \in ACTIVE_TASK_STATUSES
    BY <2>2, <2>3 DEF Active, ACTIVE_TASK_STATUSES
  <2>5. failed <=> tasks[n].status = "failed"
    BY <2>2, <2>3
  <2>6. work_of = CASE tasks = <<>> -> "none" [] open -> "open"
                    [] failed /\ ~open -> "failed" [] OTHER -> "done"
    BY DEF work_of
  <2>. HIDE DEF open, failed
  <2>. QED  BY <1>3, <2>1, <2>4, <2>5, <2>6 DEF WorkBy, ACTIVE_TASK_STATUSES
<1>. QED  BY <1>2, <1>3

LEMMA WorkOfLast == LocksInv => work_of = WorkBy(Len(tasks), tasks[Len(tasks)].status)
  BY WorkOf

LEMMA WorkOfPrimed ==
  LocksInv' => (work_of = WorkBy(Len(tasks), tasks[Len(tasks)].status))'
  BY WorkOfLast, PTL

LEMMA WorkOfNext ==
  ASSUME LocksInv'
  PROVE  work_of' = WorkBy(Len(tasks'), tasks'[Len(tasks')].status)
  BY WorkOfPrimed DEF WorkBy

\* What a step makes of the order.
Seen(state, version, courier, work) ==
  /\ order'.state = state /\ order'.version = version
  /\ order'.courier_ref = courier /\ work_of' = work

\* The effects that OrderLifecycle knows.
LEMMA LifecycleStep ==
  ASSUME
    LET st == order.state
        ver == order.version
        cour == order.courier_ref
    IN  \/ Seen(st, ver, cour, work_of)
        \/ st = Absent /\ Seen("placed", ver, cour, "open")
        \/ /\ st \in DOMAIN ORDER_TRANSITIONS /\ work_of = "open"
           /\ LET next == ORDER_TRANSITIONS[st] IN
                Seen(next, ver + 1, cour \/ next = "out_for_delivery",
                     IF next = "delivered" THEN "done" ELSE "open")
        \/ /\ st \in DOMAIN ORDER_TRANSITIONS
           /\ Seen("cancelled", ver + 1, cour, IF work_of = "failed" THEN "failed" ELSE "done")
        \/ st \in DOMAIN ORDER_TRANSITIONS /\ work_of = "open" /\ Seen(st, ver, cour, "failed")
        \/ work_of = "failed" /\ Seen(st, ver, cour, "open")
        \/ st = "cancelled" /\ work_of = "open" /\ Seen(st, ver, cour, "done")
  PROVE  [Abstract!Next]_(Abstract!lifecycle_vars)
<1>. DEFINE st == [o \in {1} |-> order.state]
            ver == [o \in {1} |-> order.version]
            cour == [o \in {1} |-> order.courier_ref]
            wk == [o \in {1} |-> work_of]
            st1 == [o \in {1} |-> order'.state]
            ver1 == [o \in {1} |-> order'.version]
            cour1 == [o \in {1} |-> order'.courier_ref]
            wk1 == [o \in {1} |-> work_of']
<1>1. /\ st1 = [st EXCEPT ![1] = order'.state]
      /\ ver1 = [ver EXCEPT ![1] = order'.version]
      /\ cour1 = [cour EXCEPT ![1] = order'.courier_ref]
      /\ wk1 = [wk EXCEPT ![1] = work_of']
  OBVIOUS
<1>2. /\ st[1] = order.state /\ ver[1] = order.version
      /\ cour[1] = order.courier_ref /\ wk[1] = work_of
      /\ st = [st EXCEPT ![1] = st[1]] /\ ver = [ver EXCEPT ![1] = ver[1]]
      /\ cour = [cour EXCEPT ![1] = cour[1]] /\ wk = [wk EXCEPT ![1] = wk[1]]
  OBVIOUS
<1>3. /\ Abstract!ORDER_TRANSITIONS = ORDER_TRANSITIONS
      /\ Abstract!Absent = Absent
  BY DEF Abstract!ORDER_TRANSITIONS, ORDER_TRANSITIONS, Abstract!Absent, Absent
<1>. HIDE DEF st, ver, cour, wk, st1, ver1, cour1, wk1
<1>4. CASE Seen(st[1], ver[1], cour[1], wk[1])
  <2>1. /\ st1 = st /\ ver1 = ver /\ cour1 = cour /\ wk1 = wk
    BY <1>1, <1>2, <1>4 DEF Seen
  <2>. QED  BY <2>1 DEF st, ver, cour, wk, st1, ver1, cour1, wk1, Abstract!lifecycle_vars
<1>5. CASE st[1] = Absent /\ Seen("placed", ver[1], cour[1], "open")
  <2>1. /\ st[1] = Absent
        /\ st1 = [st EXCEPT ![1] = "placed"] /\ wk1 = [wk EXCEPT ![1] = "open"]
        /\ ver1 = ver /\ cour1 = cour
    BY <1>1, <1>2, <1>5 DEF Seen
  <2>2. Abstract!Place(1)
    BY <1>3, <2>1 DEF st, ver, cour, wk, st1, ver1, cour1, wk1, Abstract!Place
  <2>. QED  BY <2>2 DEF Abstract!Next
<1>6. CASE /\ st[1] \in DOMAIN ORDER_TRANSITIONS /\ wk[1] = "open"
           /\ LET next == ORDER_TRANSITIONS[st[1]] IN
                Seen(next, ver[1] + 1, cour[1] \/ next = "out_for_delivery",
                     IF next = "delivered" THEN "done" ELSE "open")
  <2>. DEFINE next == ORDER_TRANSITIONS[st[1]]
  <2>1. /\ st[1] \in DOMAIN ORDER_TRANSITIONS /\ wk[1] = "open"
        /\ st1 = [st EXCEPT ![1] = next]
        /\ ver1 = [ver EXCEPT ![1] = ver[1] + 1]
        /\ cour1 = [cour EXCEPT ![1] = cour[1] \/ next = "out_for_delivery"]
        /\ wk1 = [wk EXCEPT ![1] = IF next = "delivered" THEN "done" ELSE "open"]
    BY <1>1, <1>2, <1>6 DEF Seen
  <2>2. Abstract!Advance(1)
    BY <1>3, <2>1 DEF st, ver, cour, wk, st1, ver1, cour1, wk1, Abstract!Advance
  <2>. QED  BY <2>2 DEF Abstract!Next
<1>7. CASE /\ st[1] \in DOMAIN ORDER_TRANSITIONS
           /\ Seen("cancelled", ver[1] + 1, cour[1], IF wk[1] = "failed" THEN "failed" ELSE "done")
  <2>1. /\ st[1] \in DOMAIN ORDER_TRANSITIONS
        /\ st1 = [st EXCEPT ![1] = "cancelled"]
        /\ ver1 = [ver EXCEPT ![1] = ver[1] + 1]
        /\ wk1 = [wk EXCEPT ![1] = IF wk[1] = "failed" THEN "failed" ELSE "done"]
        /\ cour1 = cour
    BY <1>1, <1>2, <1>7 DEF Seen
  <2>2. Abstract!Cancel(1)
    BY <1>3, <2>1 DEF st, ver, cour, wk, st1, ver1, cour1, wk1, Abstract!Cancel
  <2>. QED  BY <2>2 DEF Abstract!Next
<1>8. CASE st[1] \in DOMAIN ORDER_TRANSITIONS /\ wk[1] = "open" /\ Seen(st[1], ver[1], cour[1], "failed")
  <2>1. /\ st[1] \in DOMAIN ORDER_TRANSITIONS /\ wk[1] = "open" /\ wk1 = [wk EXCEPT ![1] = "failed"]
        /\ st1 = st /\ ver1 = ver /\ cour1 = cour
    BY <1>1, <1>2, <1>8 DEF Seen
  <2>2. Abstract!GiveUp(1)
    BY <1>3, <2>1 DEF st, ver, cour, wk, st1, ver1, cour1, wk1, Abstract!GiveUp
  <2>. QED  BY <2>2 DEF Abstract!Next
<1>9. CASE wk[1] = "failed" /\ Seen(st[1], ver[1], cour[1], "open")
  <2>1. /\ wk[1] = "failed" /\ wk1 = [wk EXCEPT ![1] = "open"]
        /\ st1 = st /\ ver1 = ver /\ cour1 = cour
    BY <1>1, <1>2, <1>9 DEF Seen
  <2>2. Abstract!Reopen(1)
    BY <1>3, <2>1 DEF st, ver, cour, wk, st1, ver1, cour1, wk1, Abstract!Reopen
  <2>. QED  BY <2>2 DEF Abstract!Next
<1>10. CASE st[1] = "cancelled" /\ wk[1] = "open" /\ Seen(st[1], ver[1], cour[1], "done")
  <2>1. /\ st[1] = "cancelled" /\ wk[1] = "open" /\ wk1 = [wk EXCEPT ![1] = "done"]
        /\ st1 = st /\ ver1 = ver /\ cour1 = cour
    BY <1>1, <1>2, <1>10 DEF Seen
  <2>2. Abstract!Discard(1)
    BY <1>3, <2>1 DEF st, ver, cour, wk, st1, ver1, cour1, wk1, Abstract!Discard
  <2>. QED  BY <2>2 DEF Abstract!Next
<1>. QED  BY <1>2, <1>4, <1>5, <1>6, <1>7, <1>8, <1>9, <1>10

\* Most steps leave order and tasks alone.
LEMMA QuietView ==
  ASSUME UNCHANGED <<order, tasks>>
  PROVE  [Abstract!Next]_(Abstract!lifecycle_vars)
<1>1. work_of' = work_of
  BY DEF work_of, Active
<1>2. Seen(order.state, order.version, order.courier_ref, work_of)
  BY <1>1 DEF Seen
<1>. QED  BY <1>2, LifecycleStep

\* The last row is written and the order is not.
LEMMA TouchView ==
  ASSUME LocksInv, LocksInv', UNCHANGED order, Len(tasks) \in 1 .. 5,
         NEW row \in TaskRow, tasks' = [tasks EXCEPT ![Len(tasks)] = row]
  PROVE  /\ work_of = WorkBy(1, tasks[Len(tasks)].status)
         /\ Seen(order.state, order.version, order.courier_ref, WorkBy(1, row.status))
<1>. DEFINE n == Len(tasks)
<1>1. n \in 1 .. n /\ n # 0
  BY UpToFive
<1>2. Len(tasks') = n /\ tasks'[n] = row
  BY <1>1, PutRow
<1>3. work_of = WorkBy(n, tasks[n].status) /\ work_of' = WorkBy(n, row.status)
  BY <1>2, WorkOf, WorkOfNext
<1>. HIDE DEF n
<1>4. \A status : WorkBy(n, status) = WorkBy(1, status)
  BY <1>1 DEF WorkBy
<1>. QED  BY <1>3, <1>4 DEF Seen, n

LEMMA ClaimView ==
  ASSUME LocksInv, LocksInv', NEW w \in Workers, claim_one_task(w)
  PROVE  [Abstract!Next]_(Abstract!lifecycle_vars)
<1>. DEFINE row == [status |-> "running", locked_by |-> w]
<1>1. PICK i \in DOMAIN tasks : /\ tasks[i].status \in {"pending", "running"}
                                /\ tasks' = [tasks EXCEPT ![i] = row]
  BY DEF claim_one_task
<1>2. Len(tasks) \in 0 .. 5 /\ i \in 1 .. Len(tasks) /\ i = Len(tasks)
  <2>1. Len(tasks) \in 0 .. 5 /\ i \in 1 .. Len(tasks)
    BY Lengths
  <2>. QED  BY <1>1, <2>1, UnfinishedIsLast
<1>3. Len(tasks) \in 1 .. 5
  BY <1>2
<1>4. row \in TaskRow /\ row.status = "running"
  BY DEF TaskRow, ORDER_TASK_STATUSES
<1>5. tasks' = [tasks EXCEPT ![Len(tasks)] = row] /\ tasks[Len(tasks)].status \in {"pending", "running"}
  BY <1>1, <1>2
<1>. HIDE DEF row
<1>6. /\ work_of = WorkBy(1, tasks[Len(tasks)].status)
      /\ Seen(order.state, order.version, order.courier_ref, WorkBy(1, row.status))
  BY <1>3, <1>4, <1>5, TouchView DEF claim_one_task
<1>7. Seen(order.state, order.version, order.courier_ref, work_of)
  BY <1>4, <1>5, <1>6 DEF WorkBy, ACTIVE_TASK_STATUSES
<1>. QED  BY <1>7, LifecycleStep

\* A worker that writes its own task puts it back, gives up, or drops it.
LEMMA OwnedWriteView ==
  ASSUME LocksInv, LocksInv', NEW w \in Workers, tx[w].pc # "idle", Owned(w),
         NEW status \in {"pending", "failed", "completed"},
         tasks' = Write(tx[w].task, status), UNCHANGED order,
         status = "completed" => order.state = "cancelled",
         status = "failed" => order.state \in Live
  PROVE  [Abstract!Next]_(Abstract!lifecycle_vars)
<1>. DEFINE row == [status |-> status, locked_by |-> NoTx]
<1>1. tx[w].task \in 1 .. Len(tasks) /\ Len(tasks) \in 0 .. 5
  BY Kinds, Fits DEF Good
<1>2. tx[w].task = Len(tasks) /\ tasks[Len(tasks)].status = "running"
  BY <1>1, UnfinishedIsLast DEF Owned
<1>3. Len(tasks) \in 1 .. 5
  BY <1>1, <1>2
<1>4. row \in TaskRow /\ row.status = status
  BY DEF TaskRow, ORDER_TASK_STATUSES
<1>5. tasks' = [tasks EXCEPT ![Len(tasks)] = row]
  BY <1>2 DEF Write
<1>. HIDE DEF row
<1>6. /\ work_of = WorkBy(1, "running")
      /\ Seen(order.state, order.version, order.courier_ref, WorkBy(1, status))
  BY <1>2, <1>3, <1>4, <1>5, TouchView
<1>7. /\ work_of = "open" /\ WorkBy(1, "pending") = "open"
      /\ WorkBy(1, "failed") = "failed" /\ WorkBy(1, "completed") = "done"
  BY <1>6 DEF WorkBy, ACTIVE_TASK_STATUSES
<1>8. CASE status = "pending"
  BY <1>6, <1>7, <1>8, LifecycleStep
<1>9. CASE status = "failed"
  <2>1. order.state \in DOMAIN ORDER_TRANSITIONS
    BY <1>9, SourceStates
  <2>2. Seen(order.state, order.version, order.courier_ref, "failed")
    BY <1>6, <1>7, <1>9
  <2>. QED  BY <1>7, <2>1, <2>2, LifecycleStep
<1>10. CASE status = "completed"
  <2>1. Seen(order.state, order.version, order.courier_ref, "done")
    BY <1>6, <1>7, <1>10
  <2>. QED  BY <1>7, <1>10, <2>1, LifecycleStep
<1>. QED  BY <1>8, <1>9, <1>10

LEMMA WorkerView ==
  ASSUME LocksInv, LocksInv', NEW w \in Workers, Work(w)
  PROVE  [Abstract!Next]_(Abstract!lifecycle_vars)
<1>1. CASE load_task_row(w, "claimed", "prepare") \/ load_task_row(w, "calling", "finalize")
  BY <1>1, QuietView DEF load_task_row
<1>2. CASE prepare_call(w)
  <2>1. CASE UNCHANGED <<order, tasks>>
    BY <2>1, QuietView
  <2>2. CASE Owned(w) /\ ~InSourceState(w) /\ tasks' = Write(tx[w].task, "completed")
    <3>1. order.state = "cancelled" /\ tx[w].pc # "idle" /\ UNCHANGED order
      BY <1>2, <2>2, ElsewhereIsOver DEF prepare_call
    <3>. QED  BY <2>2, <3>1, OwnedWriteView
  <2>. QED  BY <1>2, <2>1, <2>2 DEF prepare_call
<1>3. CASE lock_for_finalize(w)
  <2>1. CASE UNCHANGED <<order, tasks>>
    BY <2>1, QuietView
  <2>2. CASE Owned(w) /\ ~InSourceState(w) /\ tasks' = Write(tx[w].task, "completed")
    <3>1. order.state = "cancelled" /\ tx[w].pc # "idle" /\ UNCHANGED order
      BY <1>3, <2>2, ElsewhereIsOver DEF lock_for_finalize
    <3>. QED  BY <2>2, <3>1, OwnedWriteView
  <2>. QED  BY <1>3, <2>1, <2>2 DEF lock_for_finalize
<1>4. CASE update_order(w)
  BY <1>4, UpdateStep, QuietView
<1>5. CASE finalize_transition_task(w)
  <2>. DEFINE n == Len(tasks)
              target == ORDER_TRANSITIONS[SOURCE[n]]
  <2>1. tx[w].pc = "commit"
    BY <1>5 DEF finalize_transition_task
  <2>2. n \in 1 .. 5 /\ tasks[n].status = "running" /\ order.state = SOURCE[n] /\ order.state \in Live
    BY <2>1, CommittingWorker
  <2>3. /\ order'.state = target /\ order'.version = order.version + 1
        /\ order'.courier_ref = (order.courier_ref \/ target = "out_for_delivery")
        /\ n < 5 => target \in Live
        /\ ~(n < 5) => target = "delivered"
    BY <1>5, FinalizedOrder
  <2>4. /\ Len(tasks') = IF n < 5 THEN n + 1 ELSE n
        /\ \A i \in 1 .. n : tasks'[i].status = "completed"
        /\ n < 5 => tasks'[n + 1].status = "pending"
    BY <1>5, FinalizedTasks
  <2>5. work_of = "open"
    <3>1. n # 0
      BY <2>2
    <3>. QED  BY <2>2, <3>1, WorkOf DEF WorkBy, ACTIVE_TASK_STATUSES
  <2>6. work_of' = IF target = "delivered" THEN "done" ELSE "open"
    <3>1. work_of' = WorkBy(Len(tasks'), tasks'[Len(tasks')].status)
      BY WorkOfNext
    <3>2. CASE n < 5
      <4>1. Len(tasks') = n + 1 /\ n + 1 # 0 /\ tasks'[n + 1].status = "pending"
        BY <2>2, <2>4, <3>2
      <4>2. target # "delivered"
        BY <2>3, <3>2 DEF Live
      <4>. QED  BY <3>1, <4>1, <4>2 DEF WorkBy, ACTIVE_TASK_STATUSES
    <3>3. CASE ~(n < 5)
      <4>1. Len(tasks') = n /\ n # 0 /\ n \in 1 .. n
        BY <2>2, <2>4, <3>3
      <4>2. tasks'[n].status = "completed"
        BY <2>4, <4>1
      <4>. QED  BY <2>3, <3>1, <3>3, <4>1, <4>2 DEF WorkBy, ACTIVE_TASK_STATUSES
    <3>. QED  BY <3>2, <3>3
  <2>7. target = ORDER_TRANSITIONS[order.state] /\ order.state \in DOMAIN ORDER_TRANSITIONS
    BY <2>2, SourceStates
  <2>. HIDE DEF target
  <2>8. Seen(target, order.version + 1, order.courier_ref \/ target = "out_for_delivery",
             IF target = "delivered" THEN "done" ELSE "open")
    BY <2>3, <2>6 DEF Seen
  <2>. QED  BY <2>5, <2>7, <2>8, LifecycleStep
<1>6. CASE reschedule_task(w)
  <2>1. CASE UNCHANGED <<order, tasks>>
    BY <2>1, QuietView
  <2>2. ASSUME Owned(w), NEW status \in {"pending", "failed"}, tasks' = Write(tx[w].task, status)
        PROVE  [Abstract!Next]_(Abstract!lifecycle_vars)
    <3>1. tx[w].pc = "calling" /\ UNCHANGED order
      BY <1>6 DEF reschedule_task
    <3>2. w \in Tx
      BY Kinds
    <3>3. order.state = SOURCE[tx[w].task]
      BY <2>2, <3>1, <3>2, Fits DEF Good, Owned, OwnedBy
    <3>4. tx[w].task \in 1 .. 5
      BY <3>1, <3>2, Fits DEF Good
    <3>5. order.state \in Live
      BY <3>3, <3>4, SourceStates
    <3>. QED  BY <2>2, <3>1, <3>5, OwnedWriteView
  <2>. QED  BY <1>6, <2>1, <2>2 DEF reschedule_task
<1>. QED  BY <1>1, <1>2, <1>3, <1>4, <1>5, <1>6 DEF Work

LEMMA CancelView ==
  ASSUME LocksInv, LocksInv', NEW c \in Cancels, cancel_order(c)
  PROVE  [Abstract!Next]_(Abstract!lifecycle_vars)
<1>. DEFINE n == Len(tasks)
<1>1. /\ order.state \in Live /\ n \in 1 .. 5
      /\ tx[c].rows \subseteq {n} /\ (tx[c].rows = {} <=> tasks[n].status = "failed")
  BY CancelledRows
<1>2. n # 0 /\ n \in 1 .. n
  <2>1. n \in 1 .. 5
    BY <1>1
  <2>. QED  BY <2>1, UpToFive
<1>3. /\ Len(tasks') = n
      /\ tasks'[n] = IF n \in tx[c].rows THEN [status |-> "cancelled", locked_by |-> NoTx]
                                         ELSE tasks[n]
  BY <1>2, CancelledTasks
<1>4. tasks[n].status \in {"pending", "running", "failed"}
  BY <1>1 DEF LocksInv, Queue
<1>5. work_of = WorkBy(n, tasks[n].status) /\ work_of' = WorkBy(n, tasks'[n].status)
  BY <1>3, WorkOf, WorkOfNext
<1>6. work_of' = IF work_of = "failed" THEN "failed" ELSE "done"
  <2>1. CASE tasks[n].status = "failed"
    <3>1. tasks'[n] = tasks[n]
      BY <1>1, <1>3, <2>1
    <3>. QED  BY <1>2, <1>5, <2>1, <3>1 DEF WorkBy, ACTIVE_TASK_STATUSES
  <2>2. CASE tasks[n].status # "failed"
    <3>1. n \in tx[c].rows
      BY <1>1, <2>2
    <3>2. tasks'[n].status = "cancelled"
      BY <1>3, <3>1
    <3>. QED  BY <1>2, <1>5, <2>2, <3>2 DEF WorkBy, ACTIVE_TASK_STATUSES
  <2>. QED  BY <2>1, <2>2
<1>7. /\ order'.state = "cancelled" /\ order'.version = order.version + 1
      /\ order'.courier_ref = order.courier_ref
  <2>1. order \in OrderRow
    BY DEF LocksInv, Shape
  <2>. QED  BY <2>1, RecordCancelled DEF cancel_order
<1>8. Seen("cancelled", order.version + 1, order.courier_ref,
           IF work_of = "failed" THEN "failed" ELSE "done")
  BY <1>6, <1>7 DEF Seen
<1>9. order.state \in DOMAIN ORDER_TRANSITIONS
  BY <1>1, SourceStates
<1>. QED  BY <1>8, <1>9, LifecycleStep

LEMMA RetryView ==
  ASSUME LocksInv, LocksInv', NEW r \in Retries, retry_failed_tasks(r)
  PROVE  [Abstract!Next]_(Abstract!lifecycle_vars)
<1>. DEFINE row == [status |-> "pending", locked_by |-> NoTx]
<1>1. Len(tasks) \in 1 .. 5 /\ tasks[Len(tasks)].status = "failed"
      /\ tasks' = [tasks EXCEPT ![Len(tasks)] = row]
  BY ReopenedRow
<1>2. row \in TaskRow /\ row.status = "pending"
  BY DEF TaskRow, ORDER_TASK_STATUSES
<1>. HIDE DEF row
<1>3. /\ work_of = WorkBy(1, "failed")
      /\ Seen(order.state, order.version, order.courier_ref, WorkBy(1, "pending"))
  BY <1>1, <1>2, TouchView DEF retry_failed_tasks
<1>4. work_of = "failed" /\ WorkBy(1, "pending") = "open"
  BY <1>3 DEF WorkBy, ACTIVE_TASK_STATUSES
<1>. QED  BY <1>3, <1>4, LifecycleStep

LEMMA CreateView ==
  ASSUME LocksInv, LocksInv', create_or_get_order
  PROVE  [Abstract!Next]_(Abstract!lifecycle_vars)
<1>1. Len(tasks') = 1 /\ tasks'[1].status = "pending"
  BY CreateStep
<1>2. work_of' = "open"
  BY <1>1, WorkOfNext DEF WorkBy, ACTIVE_TASK_STATUSES
<1>3. /\ order.state = Absent /\ order'.state = "placed"
      /\ order'.version = order.version /\ order'.courier_ref = order.courier_ref
  <2>1. order \in OrderRow
    BY DEF LocksInv, Shape
  <2>2. order.state = Absent /\ order' = [order EXCEPT !.state = "placed"]
    BY DEF create_or_get_order
  <2>. QED  BY <2>1, <2>2 DEF OrderRow
<1>4. Seen("placed", order.version, order.courier_ref, "open")
  BY <1>2, <1>3 DEF Seen
<1>. QED  BY <1>3, <1>4, LifecycleStep

LEMMA RefinementStep ==
  LocksInv /\ LocksInv' /\ [Next]_vars => [Abstract!Next]_(Abstract!lifecycle_vars)
<1>. SUFFICES ASSUME LocksInv, LocksInv', [Next]_vars
              PROVE  [Abstract!Next]_(Abstract!lifecycle_vars)
  OBVIOUS
<1>1. CASE UNCHANGED vars
  BY <1>1, QuietView DEF vars
<1>2. CASE create_or_get_order
  BY <1>2, CreateView
<1>3. ASSUME NEW w \in Workers, claim_one_task(w) \/ Work(w)
      PROVE  [Abstract!Next]_(Abstract!lifecycle_vars)
  BY <1>3, ClaimView, WorkerView
<1>4. ASSUME NEW c \in Cancels, begin_cancel(c) \/ Cancelling(c)
      PROVE  [Abstract!Next]_(Abstract!lifecycle_vars)
  BY <1>4, CancelView, QuietView DEF Cancelling, begin_cancel, lock_order, choose_tasks, sweep_task
<1>5. ASSUME NEW r \in Retries, choose_failed(r) \/ Retrying(r)
      PROVE  [Abstract!Next]_(Abstract!lifecycle_vars)
  BY <1>5, RetryView, QuietView DEF Retrying, choose_failed, lock_failed, insert_retry_event
<1>6. ASSUME NEW t \in Tx, abort_deadlocked(t) \/ die(t)
      PROVE  [Abstract!Next]_(Abstract!lifecycle_vars)
  BY <1>6, RollbackStep, QuietView DEF abort_deadlocked, die
<1>. QED  BY <1>1, <1>2, <1>3, <1>4, <1>5, <1>6 DEF Next

\* With every lock wait, stale snapshot, deadlock and rollback in between, what the
\* statements commit is the abstract lifecycle.
THEOREM StatementsImplement == Spec => StatementsImplementLifecycle
<1>1. Init => Abstract!Init
  <2>. SUFFICES ASSUME Init PROVE Abstract!Init
    OBVIOUS
  <2>1. order.state = Absent /\ order.version = 0 /\ order.courier_ref = FALSE /\ tasks = <<>>
    BY DEF Init
  <2>2. work_of = "none"
    BY <2>1 DEF work_of
  <2>3. Abstract!Absent = Absent
    BY DEF Abstract!Absent, Absent
  <2>. QED  BY <2>1, <2>2, <2>3 DEF Abstract!Init
<1>. QED
  BY <1>1, RefinementStep, LocksInit, LocksStep, PTL
     DEF Spec, StatementsImplementLifecycle, Abstract!Spec

================================================================================
