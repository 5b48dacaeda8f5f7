--------------------------- MODULE ClaimQueueProofs ---------------------------
(***************************************************************************)
(* BoundedOvertaking for any set of rows, delays, lease and lag: the claim *)
(* order of claim_one_task (backend/worker/tasks.py) hides no due row.     *)
(***************************************************************************)
EXTENDS ClaimQueue, TLAPS

QueueInv == QueueTypeOK /\ OvertakerIsLater

\* What the UPDATE of a release makes of a row: a row again, with the date it sets.
LEMMA ReleasedRow ==
  ASSUME NEW c \in RowState, NEW s \in {"absent", "pending", "running", "failed", "closed"},
         NEW u \in Nat, NEW n \in Nat, NEW l \in Nat
  PROVE  /\ [c EXCEPT !.status = s, !.updated_at = u, !.next_run_at = n, !.locked_until = l] \in RowState
         /\ [c EXCEPT !.status = s, !.updated_at = u, !.next_run_at = n, !.locked_until = l].updated_at = u
  BY DEF RowState

\* The same for the UPDATE of a claim, a completion, a failure or a cancellation.
LEMMA LockedRow ==
  ASSUME NEW c \in RowState, NEW s \in {"absent", "pending", "running", "failed", "closed"},
         NEW u \in Nat, NEW l \in Nat
  PROVE  /\ [c EXCEPT !.status = s, !.updated_at = u, !.locked_until = l] \in RowState
         /\ [c EXCEPT !.status = s, !.updated_at = u, !.locked_until = l].updated_at = u
  BY DEF RowState

\* The same for the UPDATE of an operator retry.
LEMMA ReopenedRow ==
  ASSUME NEW c \in RowState, NEW s \in {"absent", "pending", "running", "failed", "closed"},
         NEW u \in Nat, NEW n \in Nat
  PROVE  /\ [c EXCEPT !.status = s, !.updated_at = u, !.next_run_at = n] \in RowState
         /\ [c EXCEPT !.status = s, !.updated_at = u, !.next_run_at = n].updated_at = u
  BY DEF RowState

\* A write by which row x enters the queue keeps the invariant: no pair with x
\* has a count any more.
LEMMA EnteringKeepsInv ==
  ASSUME QueueInv, NEW x \in Rows, NEW r \in RowState, r.updated_at <= now,
         row' = [row EXCEPT ![x] = r], overtaken' = Entered(x),
         now' = now, reopens' \in Nat
  PROVE  QueueInv'
<1>1. QueueTypeOK'
  BY DEF QueueInv, QueueTypeOK, Entered
<1>2. ASSUME NEW a \in Rows, NEW b \in Rows
      PROVE  /\ overtaken'[<<a, b>>] <= 1
             /\ overtaken'[<<a, b>>] = 1 => row'[a].updated_at < row'[b].updated_at
  <2>1. CASE x \in {a, b}
    <3>1. overtaken'[<<a, b>>] = 0
      BY <2>1 DEF Entered
    <3>. QED  BY <3>1
  <2>2. CASE x \notin {a, b}
    <3>1. overtaken'[<<a, b>>] = overtaken[<<a, b>>]
      BY <2>2 DEF Entered
    <3>2. row'[a] = row[a] /\ row'[b] = row[b]
      BY <2>2 DEF QueueInv, QueueTypeOK
    <3>. QED  BY <3>1, <3>2 DEF QueueInv, OvertakerIsLater
  <2>. QED  BY <2>1, <2>2
<1>3. \A a \in Rows : row'[a].updated_at <= now'
  BY DEF QueueInv, QueueTypeOK, OvertakerIsLater
<1>. QED  BY <1>1, <1>2, <1>3 DEF QueueInv, OvertakerIsLater

\* A write to row x that does not set its date back keeps the invariant: x waits
\* anew, and whoever x overtook is still dated earlier.
LEMMA RewritingKeepsInv ==
  ASSUME QueueInv, NEW x \in Rows, NEW r \in RowState,
         row[x].updated_at <= r.updated_at, r.updated_at <= now,
         row' = [row EXCEPT ![x] = r], overtaken' = Rewritten(x),
         now' = now, reopens' = reopens
  PROVE  QueueInv'
<1>1. QueueTypeOK'
  BY DEF QueueInv, QueueTypeOK, Rewritten
<1>2. ASSUME NEW a \in Rows, NEW b \in Rows
      PROVE  /\ overtaken'[<<a, b>>] <= 1
             /\ overtaken'[<<a, b>>] = 1 => row'[a].updated_at < row'[b].updated_at
  <2>1. CASE a = x
    <3>1. overtaken'[<<a, b>>] = 0
      BY <2>1 DEF Rewritten
    <3>. QED  BY <3>1
  <2>2. CASE a # x
    <3>1. overtaken'[<<a, b>>] = overtaken[<<a, b>>]
      BY <2>2 DEF Rewritten
    <3>2. row'[a] = row[a] /\ row[a].updated_at \in Nat
      BY <2>2 DEF QueueInv, QueueTypeOK, RowState
    <3>3. /\ row[b].updated_at <= row'[b].updated_at
          /\ row[b].updated_at \in Nat /\ row'[b].updated_at \in Nat
      BY <1>1 DEF QueueInv, QueueTypeOK, RowState
    <3>4. /\ overtaken[<<a, b>>] <= 1
          /\ overtaken[<<a, b>>] = 1 => row[a].updated_at < row[b].updated_at
      BY DEF QueueInv, OvertakerIsLater
    <3>. QED  BY <3>1, <3>2, <3>3, <3>4
  <2>. QED  BY <2>1, <2>2
<1>3. \A a \in Rows : row'[a].updated_at <= now'
  BY DEF QueueInv, QueueTypeOK, OvertakerIsLater
<1>. QED  BY <1>1, <1>2, <1>3 DEF QueueInv, OvertakerIsLater

\* A claim takes the first ready row y and dates it now: it is counted against the
\* rows that stood ready with an earlier date, and had never been counted against
\* them before, since a row counted before is dated after them.
LEMMA ClaimingKeepsInv ==
  ASSUME QueueInv, NEW locked \in SUBSET Rows, claim_one_task(locked)
  PROVE  QueueInv'
<1>. DEFINE ready == {x \in Rows \ locked : claimable(x)}
<1>1. PICK y \in ready :
        /\ \A x \in ready \ {y} : before(y, x)
        /\ row' = [row EXCEPT ![y] = [@ EXCEPT !.status = "running", !.updated_at = now,
                                               !.locked_until = now + LEASE_SECONDS]]
        /\ overtaken' = [p \in Rows \X Rows |->
             CASE p[1] = y -> 0
               [] p[1] \in ready \ {y} /\ p[2] = y /\ row[p[1]].updated_at < now
                    -> overtaken[p] + 1
               [] OTHER -> overtaken[p]]
        /\ UNCHANGED <<now, reopens>>
  BY Zenon DEF claim_one_task
<1>2. y \in Rows
  OBVIOUS
<1>3. /\ now \in Nat
      /\ \A x \in Rows : /\ row[x].updated_at \in Nat /\ row[x].next_run_at \in Nat
                         /\ row[x].updated_at <= now
  BY DEF QueueInv, QueueTypeOK, OvertakerIsLater, RowState
<1>4. /\ \A x \in Rows \ {y} : row'[x] = row[x]
      /\ row'[y].updated_at = now
  BY <1>1, <1>2 DEF QueueInv, QueueTypeOK, RowState
<1>5. ASSUME NEW a \in Rows, NEW b \in Rows
      PROVE  /\ overtaken'[<<a, b>>] \in Nat
             /\ overtaken'[<<a, b>>] <= 1
             /\ overtaken'[<<a, b>>] = 1 => row'[a].updated_at < row'[b].updated_at
  <2>0. /\ overtaken[<<a, b>>] \in Nat
        /\ overtaken[<<a, b>>] <= 1
        /\ overtaken[<<a, b>>] = 1 => row[a].updated_at < row[b].updated_at
    BY DEF QueueInv, QueueTypeOK, OvertakerIsLater
  <2>1. CASE a = y
    <3>1. overtaken'[<<a, b>>] = 0
      BY <1>1, <2>1
    <3>. QED  BY <3>1
  <2>2. CASE a # y /\ a \in ready /\ b = y /\ row[a].updated_at < now
    <3>1. overtaken'[<<a, b>>] = overtaken[<<a, b>>] + 1
      BY <1>1, <2>2
    <3>2. before(b, a)
      BY <1>1, <2>2
    <3>3. ~ (row[a].updated_at < row[b].updated_at)
      BY <1>3, <3>2 DEF before
    <3>4. overtaken[<<a, b>>] = 0
      BY <2>0, <3>3
    <3>. QED  BY <1>4, <2>2, <3>1, <3>4
  <2>3. CASE a # y /\ ~ (a \in ready /\ b = y /\ row[a].updated_at < now)
    <3>1. overtaken'[<<a, b>>] = overtaken[<<a, b>>]
      BY <1>1, <2>3
    <3>2. row'[a] = row[a]
      BY <1>4, <2>3
    <3>3. row[b].updated_at <= row'[b].updated_at /\ row'[b].updated_at \in Nat
      BY <1>3, <1>4
    <3>. QED  BY <1>3, <2>0, <3>1, <3>2, <3>3
  <2>. QED  BY <2>1, <2>2, <2>3
<1>6. QueueTypeOK'
  <2>1. row' \in [Rows -> RowState]
    <3>. DEFINE r == [row[y] EXCEPT !.status = "running", !.updated_at = now,
                                    !.locked_until = now + LEASE_SECONDS]
    <3>1. row \in [Rows -> RowState] /\ row[y] \in RowState
      BY <1>2 DEF QueueInv, QueueTypeOK
    <3>2. r \in RowState
      <4>1. now + LEASE_SECONDS \in Nat
        BY <1>3, QueueAssumption
      <4>. QED  BY <1>3, <3>1, <4>1, LockedRow
    <3>3. row' = [row EXCEPT ![y] = r]
      BY <1>1
    <3>. QED  BY <1>2, <3>1, <3>2, <3>3
  <2>2. overtaken' \in [Rows \X Rows -> Nat]
    <3>1. \A p \in Rows \X Rows : p = <<p[1], p[2]>> /\ p[1] \in Rows /\ p[2] \in Rows
      OBVIOUS
    <3>2. \A p \in Rows \X Rows : overtaken'[p] \in Nat
      BY <1>5, <3>1
    <3>3. overtaken' = [p \in Rows \X Rows |-> overtaken'[p]]
      BY <1>1
    <3>. QED  BY <3>2, <3>3
  <2>. QED  BY <1>1, <2>1, <2>2 DEF QueueInv, QueueTypeOK
<1>7. \A a \in Rows : row'[a].updated_at <= now'
  <2>1. now' = now
    BY <1>1
  <2>. QED  BY <1>3, <1>4, <2>1
<1>. QED  BY <1>5, <1>6, <1>7 DEF QueueInv, OvertakerIsLater

\* Each step of the queue keeps the invariant.
LEMMA StepKeepsInv == QueueInv /\ [Next]_vars => QueueInv'
<1>. SUFFICES ASSUME QueueInv, [Next]_vars PROVE QueueInv'
  OBVIOUS
<1>0. /\ now \in Nat /\ reopens \in Nat
      /\ row \in [Rows -> RowState]
      /\ \A x \in Rows : row[x].updated_at <= now
  BY DEF QueueInv, QueueTypeOK, OvertakerIsLater
<1>1. ASSUME NEW x \in Rows, insert_task(x) PROVE QueueInv'
  <2>1. PICK stamp \in 0 .. now, delay \in Delays \union {0} :
          row' = [row EXCEPT ![x] = [status |-> "pending", updated_at |-> stamp,
                    next_run_at |-> stamp + delay, created_at |-> stamp,
                    locked_until |-> 0]]
    BY <1>1 DEF insert_task
  <2>. DEFINE r == [status |-> "pending", updated_at |-> stamp,
                    next_run_at |-> stamp + delay, created_at |-> stamp,
                    locked_until |-> 0]
  <2>2. r \in RowState /\ r.updated_at <= now
    BY <1>0, QueueAssumption DEF RowState
  <2>3. overtaken' = Entered(x) /\ now' = now /\ reopens' \in Nat
    BY <1>0, <1>1 DEF insert_task
  <2>. QED  BY <2>1, <2>2, <2>3, EnteringKeepsInv
<1>2. ASSUME NEW x \in Rows, release_claimed_task(x) PROVE QueueInv'
  <2>1. PICK stamp \in Stamps(x), delay \in Delays :
          row' = [row EXCEPT ![x] = [@ EXCEPT !.status = "pending", !.updated_at = stamp,
                                              !.next_run_at = stamp + delay,
                                              !.locked_until = 0]]
    BY <1>2 DEF release_claimed_task
  <2>. DEFINE r == [row[x] EXCEPT !.status = "pending", !.updated_at = stamp,
                                  !.next_run_at = stamp + delay, !.locked_until = 0]
  <2>2. /\ r \in RowState /\ row[x].updated_at <= r.updated_at /\ r.updated_at <= now
    <3>1. row[x] \in RowState /\ row[x].updated_at \in Nat
      BY <1>0 DEF RowState
    <3>2. /\ stamp \in Nat /\ row[x].updated_at <= stamp /\ stamp <= now
          /\ stamp + delay \in Nat
      BY <1>0, <3>1, QueueAssumption DEF Stamps
    <3>3. r \in RowState /\ r.updated_at = stamp
      <4>1. r \in RowState
        BY <3>1, <3>2, ReleasedRow
      <4>2. r.updated_at = stamp
        BY <3>1 DEF RowState
      <4>. QED  BY <4>1, <4>2
    <3>. QED  BY <3>2, <3>3
  <2>3. row' = [row EXCEPT ![x] = r]
    BY <2>1
  <2>4. overtaken' = Rewritten(x) /\ now' = now /\ reopens' = reopens
    BY <1>2 DEF release_claimed_task
  <2>. QED  BY <2>2, <2>3, <2>4, RewritingKeepsInv
<1>3. ASSUME NEW x \in Rows, close_task(x) PROVE QueueInv'
  <2>1. PICK status \in {"failed", "closed"}, stamp \in Stamps(x) :
          row' = [row EXCEPT ![x] = [@ EXCEPT !.status = status, !.updated_at = stamp,
                                              !.locked_until = 0]]
    BY <1>3 DEF close_task
  <2>. DEFINE r == [row[x] EXCEPT !.status = status, !.updated_at = stamp,
                                  !.locked_until = 0]
  <2>2. /\ r \in RowState /\ row[x].updated_at <= r.updated_at /\ r.updated_at <= now
    <3>1. row[x] \in RowState /\ row[x].updated_at \in Nat
      BY <1>0 DEF RowState
    <3>2. stamp \in Nat /\ row[x].updated_at <= stamp /\ stamp <= now
      BY <1>0, <3>1 DEF Stamps
    <3>3. r \in RowState /\ r.updated_at = stamp
      <4>1. r \in RowState
        BY <3>1, <3>2, LockedRow
      <4>2. r.updated_at = stamp
        BY <3>1 DEF RowState
      <4>. QED  BY <4>1, <4>2
    <3>. QED  BY <3>2, <3>3
  <2>3. row' = [row EXCEPT ![x] = r]
    BY <2>1
  <2>4. overtaken' = Rewritten(x) /\ now' = now /\ reopens' = reopens
    BY <1>3 DEF close_task
  <2>. QED  BY <2>2, <2>3, <2>4, RewritingKeepsInv
<1>4. ASSUME NEW x \in Rows, cancel_task(x) PROVE QueueInv'
  <2>1. PICK stamp \in 0 .. now :
          row' = [row EXCEPT ![x] = [@ EXCEPT !.status = "closed", !.updated_at = stamp,
                                              !.locked_until = 0]]
    BY <1>4 DEF cancel_task
  <2>. DEFINE r == [row[x] EXCEPT !.status = "closed", !.updated_at = stamp,
                                  !.locked_until = 0]
  <2>2. r \in RowState /\ r.updated_at <= now
    <3>1. row[x] \in RowState /\ stamp \in Nat /\ stamp <= now
      BY <1>0
    <3>2. r \in RowState /\ r.updated_at = stamp
      <4>1. r \in RowState
        BY <3>1, LockedRow
      <4>2. r.updated_at = stamp
        BY <3>1 DEF RowState
      <4>. QED  BY <4>1, <4>2
    <3>. QED  BY <3>1, <3>2
  <2>3. row' = [row EXCEPT ![x] = r]
    BY <2>1
  <2>4. overtaken' = Entered(x) /\ now' = now /\ reopens' \in Nat
    BY <1>0, <1>4 DEF cancel_task
  <2>. QED  BY <2>2, <2>3, <2>4, EnteringKeepsInv
<1>5. ASSUME NEW x \in Rows, retry_failed_task(x) PROVE QueueInv'
  <2>1. PICK stamp \in 0 .. now :
          row' = [row EXCEPT ![x] = [@ EXCEPT !.status = "pending", !.updated_at = stamp,
                                              !.next_run_at = stamp]]
    BY <1>5 DEF retry_failed_task
  <2>. DEFINE r == [row[x] EXCEPT !.status = "pending", !.updated_at = stamp,
                                  !.next_run_at = stamp]
  <2>2. r \in RowState /\ r.updated_at <= now
    <3>1. row[x] \in RowState /\ stamp \in Nat /\ stamp <= now
      BY <1>0
    <3>2. r \in RowState /\ r.updated_at = stamp
      <4>1. r \in RowState
        BY <3>1, ReopenedRow
      <4>2. r.updated_at = stamp
        BY <3>1 DEF RowState
      <4>. QED  BY <4>1, <4>2
    <3>. QED  BY <3>1, <3>2
  <2>3. row' = [row EXCEPT ![x] = r]
    BY <2>1
  <2>4. overtaken' = Entered(x) /\ now' = now /\ reopens' \in Nat
    BY <1>0, <1>5 DEF retry_failed_task
  <2>. QED  BY <2>2, <2>3, <2>4, EnteringKeepsInv
<1>6. ASSUME NEW locked \in SUBSET Rows, claim_one_task(locked) PROVE QueueInv'
  BY <1>6, ClaimingKeepsInv
<1>7. CASE tick
  BY <1>0, <1>7 DEF tick, QueueInv, QueueTypeOK, OvertakerIsLater, RowState
<1>8. CASE UNCHANGED vars
  BY <1>8 DEF vars, QueueInv, QueueTypeOK, OvertakerIsLater
<1>. QED  BY <1>1, <1>2, <1>3, <1>4, <1>5, <1>6, <1>7, <1>8 DEF Next

\* claim_one_task hides no row that stands ready: whatever the rows, the delays,
\* the lease and the lag of the API's timestamps, and whichever rows SKIP LOCKED
\* passes over, another row is claimed ahead of it at most once.
THEOREM NoRowHidden == Spec => []BoundedOvertaking
<1>1. Init => QueueInv
  BY DEF Init, QueueInv, QueueTypeOK, OvertakerIsLater, RowState
<1>2. QueueInv => BoundedOvertaking
  <2>1. ASSUME QueueInv, NEW p \in Rows \X Rows PROVE overtaken[p] <= 1
    <3>1. p = <<p[1], p[2]>> /\ p[1] \in Rows /\ p[2] \in Rows
      OBVIOUS
    <3>. QED  BY <2>1, <3>1 DEF QueueInv, OvertakerIsLater
  <2>. QED  BY <2>1 DEF BoundedOvertaking
<1>. QED  BY <1>1, <1>2, StepKeepsInv, PTL DEF Spec
================================================================================
