------------------------------ MODULE ClaimQueue ------------------------------
(***************************************************************************)
(* The order in which claim_one_task (backend/worker/tasks.py) takes the   *)
(* rows that are due: by updated_at, next_run_at, created_at and id, with  *)
(* the rows that another transaction has locked skipped.  OrderPipeline    *)
(* lets a claim take any due row; this module says which one it is, and    *)
(* what the stamps of every write to a row do to its place.                *)
(*                                                                         *)
(* Bounds: MaxNow ticks of the clock, MaxReopens operator retries.  Lag is *)
(* how long before its commit an API call takes its timestamp.             *)
(***************************************************************************)
EXTENDS Naturals

CONSTANTS Rows,           \* the rows of the table; a row's name is its id
          LEASE_SECONDS,
          Delays,         \* what a release or a reschedule may add to next_run_at
          Lag, MaxNow, MaxReopens

ASSUME QueueAssumption ==
  /\ Rows \subseteq Nat
  /\ Delays \subseteq Nat \ {0}
  /\ LEASE_SECONDS \in Nat /\ Lag \in Nat /\ MaxNow \in Nat /\ MaxReopens \in Nat

VARIABLES
  now,
  row,       \* the rows
  overtaken, \* history: overtaken[<<x, y>>] claims took y while x stood ready, since
             \* x was last written and y last entered the queue
  reopens    \* operator retries so far, for the bound

vars == <<now, row, overtaken, reopens>>

\* "absent" is not inserted yet; "closed" is completed or cancelled.
RowState == [status : {"absent", "pending", "running", "failed", "closed"},
             updated_at : Nat, next_run_at : Nat, created_at : Nat, locked_until : Nat]

claimable(x) ==
  \/ row[x].status = "pending" /\ row[x].next_run_at <= now
  \/ row[x].status = "running" /\ row[x].locked_until < now

\* Mutant: the rows that have been due longest come first.
before_mutant(x, y) ==
  \/ row[x].next_run_at < row[y].next_run_at
  \/ row[x].next_run_at = row[y].next_run_at /\ x < y

\* ORDER BY updated_at, next_run_at, created_at, id.
before(x, y) ==
  \/ row[x].updated_at < row[y].updated_at
  \/ /\ row[x].updated_at = row[y].updated_at
     /\ \/ row[x].next_run_at < row[y].next_run_at
        \/ /\ row[x].next_run_at = row[y].next_run_at
           /\ \/ row[x].created_at < row[y].created_at
              \/ row[x].created_at = row[y].created_at /\ x < y

\* x was written: its wait begins anew.
Rewritten(x) == [p \in Rows \X Rows |-> IF p[1] = x THEN 0 ELSE overtaken[p]]
\* x entered or left the queue: the others have not met it yet, or never will again.
Entered(x) == [p \in Rows \X Rows |-> IF x \in {p[1], p[2]} THEN 0 ELSE overtaken[p]]

--------------------------------------------------------------------------------
\* create_or_get_order and insert_followup_task: one timestamp for all columns,
\* a poll begins later.
insert_task(x) ==
  /\ row[x].status = "absent"
  /\ \E stamp \in 0 .. now, delay \in Delays \union {0} :
       /\ stamp + Lag >= now
       /\ row' = [row EXCEPT ![x] = [status |-> "pending", updated_at |-> stamp,
                    next_run_at |-> stamp + delay, created_at |-> stamp,
                    locked_until |-> 0]]
  /\ overtaken' = Entered(x)
  /\ UNCHANGED <<now, reopens>>

\* claim_one_task, while the rows of locked are held by other transactions.
claim_one_task(locked) ==
  LET ready == {x \in Rows \ locked : claimable(x)} IN
  \E y \in ready :
    /\ \A x \in ready \ {y} : before(y, x)
    /\ row' = [row EXCEPT ![y] = [@ EXCEPT !.status = "running", !.updated_at = now,
                                           !.locked_until = now + LEASE_SECONDS]]
    /\ overtaken' = [p \in Rows \X Rows |->
         CASE p[1] = y -> 0
           [] p[1] \in ready \ {y} /\ p[2] = y /\ row[p[1]].updated_at < now -> overtaken[p] + 1
           [] OTHER -> overtaken[p]]
    /\ UNCHANGED <<now, reopens>>

\* Every write of the owner is dated by its own clock, after the claim and not
\* after its commit.
Stamps(x) == row[x].updated_at .. now

\* release_claimed_task, _reschedule_claimed_task and _reschedule_poll_task.
release_claimed_task(x) ==
  /\ row[x].status = "running"
  /\ \E stamp \in Stamps(x), delay \in Delays :
       row' = [row EXCEPT ![x] = [@ EXCEPT !.status = "pending", !.updated_at = stamp,
                                           !.next_run_at = stamp + delay, !.locked_until = 0]]
  /\ overtaken' = Rewritten(x)
  /\ UNCHANGED <<now, reopens>>

\* _complete_claimed_task and _fail_claimed_task.
close_task(x) ==
  /\ row[x].status = "running"
  /\ \E status \in {"failed", "closed"}, stamp \in Stamps(x) :
       row' = [row EXCEPT ![x] = [@ EXCEPT !.status = status, !.updated_at = stamp,
                                           !.locked_until = 0]]
  /\ overtaken' = Rewritten(x)
  /\ UNCHANGED <<now, reopens>>

\* cancel_order, for any open row: dated when the call began, so perhaps before the
\* last write to the row.  The row never comes back.
cancel_task(x) ==
  /\ row[x].status \in {"pending", "running"}
  /\ \E stamp \in 0 .. now :
       /\ stamp + Lag >= now
       /\ row' = [row EXCEPT ![x] = [@ EXCEPT !.status = "closed", !.updated_at = stamp,
                                              !.locked_until = 0]]
  /\ overtaken' = Entered(x)
  /\ UNCHANGED <<now, reopens>>

\* retry_failed_tasks_for_order: due at once, dated when the call began.
retry_failed_task(x) ==
  /\ row[x].status = "failed" /\ reopens < MaxReopens
  /\ reopens' = reopens + 1
  /\ \E stamp \in 0 .. now :
       /\ stamp + Lag >= now
       /\ row' = [row EXCEPT ![x] = [@ EXCEPT !.status = "pending", !.updated_at = stamp,
                                           !.next_run_at = stamp]]
  /\ overtaken' = Entered(x)
  /\ UNCHANGED now

tick == now < MaxNow /\ now' = now + 1 /\ UNCHANGED <<row, overtaken, reopens>>

Init ==
  /\ now = 0 /\ reopens = 0
  /\ row = [x \in Rows |-> [status |-> "absent", updated_at |-> 0, next_run_at |-> 0,
                            created_at |-> 0, locked_until |-> 0]]
  /\ overtaken = [p \in Rows \X Rows |-> 0]

Next ==
  \/ \E x \in Rows : \/ insert_task(x) \/ release_claimed_task(x)
                     \/ close_task(x) \/ cancel_task(x) \/ retry_failed_task(x)
  \/ \E locked \in SUBSET Rows : claim_one_task(locked)
  \/ tick

Spec == Init /\ [][Next]_vars

--------------------------------------------------------------------------------
\* The rows have the shape of the table.
QueueTypeOK ==
  /\ now \in Nat /\ reopens \in Nat
  /\ row \in [Rows -> RowState]
  /\ overtaken \in [Rows \X Rows -> Nat]

\* No row hides another: while a row stands ready, each other row is claimed ahead
\* of it at most once, however often that one is released, rescheduled, taken
\* over after its lease or polled again ("updated_at keeps rows released back to
\* pending from being repeatedly selected ahead of other due work").
BoundedOvertaking == \A p \in Rows \X Rows : overtaken[p] <= 1

\* Why: a row that was claimed ahead of another carries the later date, until one
\* of them is written anew, and no row is dated in the future.  The inductive
\* invariant of the proof.
OvertakerIsLater ==
  /\ \A x \in Rows : row[x].updated_at <= now
  /\ \A x, y \in Rows :
       /\ overtaken[<<x, y>>] <= 1
       /\ overtaken[<<x, y>>] = 1 => row[x].updated_at < row[y].updated_at
================================================================================
