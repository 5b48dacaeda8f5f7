----------------------------- MODULE LoadGenerator -----------------------------
(***************************************************************************)
(* The load generator (backend/loadgen/app.py): one asyncio process with a *)
(* producer task per run, a task per request in flight, a semaphore that   *)
(* bounds those, and HTTP handlers that start, stop and retune a run.      *)
(*                                                                         *)
(* Coroutines interleave only where one is suspended.  No section under    *)
(* self._lock contains an await, so the lock is never contended and the    *)
(* sections are atomic; what lies between two suspensions is one action.   *)
(* A producer that is not suspended has the thread: in phase "loop" it is  *)
(* about to run the top of its while loop, and nobody else moves.          *)
(*                                                                         *)
(* Bounds: MaxRuns accepted starts, MaxSends requests that a timer makes   *)
(* due in a run without max_orders, MaxUpdates rate changes.               *)
(***************************************************************************)
EXTENDS Naturals, FiniteSets

CONSTANTS Operators,    \* callers of POST /load/stop
          Closer,       \* the shutdown of the process, which calls stop too
          Caps,         \* the max_orders a start may ask for
          NoCap,        \* max_orders = None
          Rates,        \* the rates a request may ask for
          MaxInflight,  \* LOADGEN_MAX_INFLIGHT
          MaxRuns, MaxSends, MaxUpdates

ASSUME LoadAssumption ==
  /\ Closer \notin Operators /\ NoCap \notin Nat
  /\ Caps \subseteq (Nat \ {0}) \union {NoCap}
  /\ Rates \subseteq Nat \ {0} /\ MaxInflight \in Nat \ {0}
  /\ MaxRuns \in Nat /\ MaxSends \in Nat /\ MaxUpdates \in Nat

Runs == 1 .. MaxRuns
Callers == Operators \union {Closer}

VARIABLES
  run,       \* _run_config.run_id: every accepted start draws a fresh one
  running,   \* _running
  cap,       \* _run_config.max_orders
  rate,      \* _rate_per_second
  wake,      \* the _wake_event of each run, set or not
  count,     \* the counters of the run; _successful_count is created + reused
  producer,  \* the producer task of each run
  slots,     \* free permits of _inflight_semaphore
  inflight,  \* _inflight_tasks
  stopper,   \* where each caller of stop() is suspended
  client,    \* _client is open
  updates,   \* rate changes so far, for the bound
  overlap    \* history: a start was accepted while a stop() was pending

vars == <<run, running, cap, rate, wake, count, producer, slots, inflight,
          stopper, client, updates, overlap>>

\* due: next_send_at has come; pace: the rate next_send_at was computed with;
\* rate: the local rate_per_second; event: the wake event it sleeps on.
ProducerState ==
  [pc : {"none", "new", "loop", "sleep", "woken", "slot", "granted", "done"},
   due : BOOLEAN, pace : Rates \union {0}, rate : Rates \union {0},
   event : 0 .. MaxRuns]

Request == [run : Runs, sequence : Nat \ {0}, done : BOOLEAN]

Counters == [attempted : Nat, created : Nat, reused : Nat, failed : Nat]
ZeroCounters == [attempted |-> 0, created |-> 0, reused |-> 0, failed |-> 0]

\* No coroutine is between two suspensions.
LoopFree == \A p \in Runs : producer[p].pc # "loop"
Shutdown == stopper[Closer].pc # "idle" \/ ~client
Sending == {q \in inflight : ~q.done}
Pending == {s \in Callers : stopper[s].pc # "idle"}

--------------------------------------------------------------------------------
\* Pieces of the steps.

\* Event.set(): the event stays set, and whoever sleeps on it is scheduled.
set_event(e, p) ==
  [r \in Runs |-> IF p[r].pc = "sleep" /\ p[r].event = e
                    THEN [p[r] EXCEPT !.pc = "woken"] ELSE p[r]]

\* Mutant: the permit is handed over and counted free as well.
release_slot_mutant(free, prod) ==
  /\ slots' = free + 1
  /\ producer' = [p \in Runs |-> IF prod[p].pc = "slot"
                     THEN [prod[p] EXCEPT !.pc = "granted"] ELSE prod[p]]

\* Semaphore.release() by a step that leaves the producers as prod: the permit
\* goes to a producer that waits, if any.
release_slot(free, prod) ==
  \/ \E p \in Runs :
       /\ prod[p].pc = "slot"
       /\ producer' = [prod EXCEPT ![p].pc = "granted"]
       /\ slots' = free
  \/ /\ \A p \in Runs : prod[p].pc # "slot"
     /\ producer' = prod
     /\ slots' = free + 1

CapReached == cap # NoCap /\ count.attempted >= cap

\* A timer is bounded only in a run without max_orders.
TimerMayFire(sent) == cap # NoCap \/ sent < MaxSends

\* What _launch_order_request does while the run is on.
Send(p, free, paced) ==
  LET sequence == count.attempted + 1 IN
  /\ count' = [count EXCEPT !.attempted = sequence]
  /\ inflight' = inflight \union {[run |-> run, sequence |-> sequence, done |-> FALSE]}
  /\ slots' = free
  /\ \E due \in {FALSE} \union {TimerMayFire(sequence)} :
       producer' = [producer EXCEPT ![p] = [paced EXCEPT !.pc = "loop", !.due = due]]

\* Mutant: the early return keeps the permit.
launch_mutant(p, free, paced) ==
  IF ~running
  THEN /\ slots' = free
       /\ producer' = [producer EXCEPT ![p] = [paced EXCEPT !.pc = "loop", !.due = FALSE]]
       /\ UNCHANGED <<count, inflight>>
  ELSE Send(p, free, paced)

\* Mutant: no second look at _running.
launch_unchecked(p, free, paced) == Send(p, free, paced)

\* The second half of _launch_order_request, with the permit in hand, and the
\* pacing of _producer_loop after it.  A send may be due again at once, when the
\* interval is shorter than the loop's own time.
launch(p, free, paced) ==
  IF ~running
  THEN /\ release_slot(free, [producer EXCEPT ![p] = [paced EXCEPT !.pc = "loop", !.due = FALSE]])
       /\ UNCHANGED <<count, inflight>>
  ELSE Send(p, free, paced)

\* _launch_order_request up to its first suspension.
_launch_order_request(p, local) ==
  LET paced == [producer[p] EXCEPT !.pace = local, !.rate = local] IN
  \/ slots > 0 /\ launch(p, slots - 1, paced)
  \/ /\ slots = 0
     /\ producer' = [producer EXCEPT ![p] = [paced EXCEPT !.pc = "slot"]]
     /\ UNCHANGED <<count, slots, inflight>>

--------------------------------------------------------------------------------
\* The producer.

\* One round of _producer_loop: it ends when the run was stopped or has sent
\* max_orders, sends when a send is due, else sleeps until the time or the wake
\* event of the run that is current now; an event that is already set does not
\* suspend it.
_producer_loop(p) ==
  /\ \/ producer[p].pc = "loop"
     \/ producer[p].pc = "new" /\ LoopFree
  /\ \/ /\ ~running
        /\ producer' = [producer EXCEPT ![p].pc = "done"]
        /\ UNCHANGED <<running, wake, count, slots, inflight>>
     \/ /\ running /\ CapReached
        /\ running' = FALSE
        /\ producer' = [producer EXCEPT ![p].pc = "done"]
        /\ UNCHANGED <<wake, count, slots, inflight>>
     \/ /\ running /\ ~CapReached
        /\ UNCHANGED running
        /\ \/ /\ producer[p].due
              /\ _launch_order_request(p, rate)
              /\ UNCHANGED wake
           \/ /\ ~producer[p].due /\ wake[run]
              /\ wake' = [wake EXCEPT ![run] = FALSE]
              /\ producer' = [producer EXCEPT ![p].pc = "loop", ![p].due = TRUE]
              /\ UNCHANGED <<count, slots, inflight>>
           \/ /\ ~producer[p].due /\ ~wake[run]
              /\ producer' = [producer EXCEPT ![p].pc = "sleep", ![p].rate = rate,
                                              ![p].event = run]
              /\ UNCHANGED <<wake, count, slots, inflight>>
  /\ UNCHANGED <<run, cap, rate, stopper, client, updates, overlap>>

\* The sleep ends because the event was set.  The event that is cleared is the
\* one of the current run, whichever it slept on.
wake_up(p) ==
  /\ LoopFree /\ producer[p].pc = "woken"
  /\ wake' = [wake EXCEPT ![run] = FALSE]
  /\ producer' = [producer EXCEPT ![p].pc = "loop", ![p].due = TRUE]
  /\ UNCHANGED <<run, running, cap, rate, count, slots, inflight, stopper, client,
                 updates, overlap>>

\* The sleep ends by its timeout, also when the event is set in the same round
\* of the event loop and the producer has not run yet.  The send that follows
\* uses what the producer read before it slept.
time_out(p) ==
  /\ LoopFree /\ producer[p].pc \in {"sleep", "woken"}
  /\ TimerMayFire(count.attempted)
  /\ _launch_order_request(p, producer[p].rate)
  /\ UNCHANGED <<run, running, cap, rate, wake, stopper, client, updates, overlap>>

\* A producer that waited for a permit has got it.
acquire(p) ==
  /\ LoopFree /\ producer[p].pc = "granted"
  /\ launch(p, slots, producer[p])
  /\ UNCHANGED <<run, running, cap, rate, wake, stopper, client, updates, overlap>>

--------------------------------------------------------------------------------
\* Requests.

\* Mutant: only a request that was answered gives its permit back.
_send_order_mutant(q) ==
  /\ LoopFree /\ q \in Sending
  /\ \/ /\ \E outcome \in {"created", "reused"} : count' = [count EXCEPT ![outcome] = @ + 1]
        /\ release_slot(slots, producer)
     \/ /\ count' = [count EXCEPT !.failed = @ + 1]
        /\ UNCHANGED <<producer, slots>>
  /\ inflight' = (inflight \ {q}) \union {[q EXCEPT !.done = TRUE]}
  /\ UNCHANGED <<run, running, cap, rate, wake, stopper, client, updates, overlap>>

\* A request gets its answer or an httpx error, is counted, and gives its permit
\* back.  Without a client it fails before it is sent.
_send_order(q) ==
  /\ LoopFree /\ q \in Sending
  /\ \E outcome \in IF client THEN {"created", "reused", "failed"} ELSE {"failed"} :
       count' = [count EXCEPT ![outcome] = @ + 1]
  /\ release_slot(slots, producer)
  /\ inflight' = (inflight \ {q}) \union {[q EXCEPT !.done = TRUE]}
  /\ UNCHANGED <<run, running, cap, rate, wake, stopper, client, updates, overlap>>

\* The done callback of a request task.
discard(q) ==
  /\ LoopFree /\ q \in inflight /\ q.done
  /\ inflight' = inflight \ {q}
  /\ UNCHANGED <<run, running, cap, rate, wake, count, producer, slots, stopper,
                 client, updates, overlap>>

--------------------------------------------------------------------------------
\* The operators' calls.  A rejected call changes nothing and is no action.

MayCall == LoopFree /\ ~Shutdown

\* Mutant: a run starts while the previous one drains.
start_mutant(max_orders, rate_per_second) ==
  /\ MayCall /\ run < MaxRuns
  /\ ~running
  /\ run' = run + 1
  /\ running' = TRUE
  /\ cap' = max_orders
  /\ rate' = rate_per_second
  /\ count' = ZeroCounters
  /\ wake' = [wake EXCEPT ![run + 1] = FALSE]
  /\ producer' = [producer EXCEPT ![run + 1] =
       [pc |-> "new", due |-> TRUE, pace |-> rate_per_second,
        rate |-> rate_per_second, event |-> 0]]
  /\ overlap' = (overlap \/ Pending # {})
  /\ UNCHANGED <<slots, inflight, stopper, client, updates>>

\* start(): refused while a run is active or drains.
start(max_orders, rate_per_second) ==
  /\ MayCall /\ run < MaxRuns
  /\ ~running /\ inflight = {}
  /\ run' = run + 1
  /\ running' = TRUE
  /\ cap' = max_orders
  /\ rate' = rate_per_second
  /\ count' = ZeroCounters
  /\ wake' = [wake EXCEPT ![run + 1] = FALSE]
  /\ producer' = [producer EXCEPT ![run + 1] =
       [pc |-> "new", due |-> TRUE, pace |-> rate_per_second,
        rate |-> rate_per_second, event |-> 0]]
  /\ overlap' = (overlap \/ Pending # {})
  /\ UNCHANGED <<slots, inflight, stopper, client, updates>>

\* Mutant: the requests in flight are not awaited.
await_inflight_mutant(s) ==
  /\ stopper' = [stopper EXCEPT ![s] = [pc |-> "idle", run |-> 0, waits |-> {}]]
  /\ client' = (client /\ s # Closer)

\* The last two sections of stop(): the requests in flight now are awaited; with
\* none, or once they are gone, the call returns.  The shutdown then closes the
\* client.
await_inflight(s) ==
  LET waits == {<<q.run, q.sequence>> : q \in inflight} IN
  /\ stopper' = [stopper EXCEPT ![s] =
       [pc |-> IF waits = {} THEN "idle" ELSE "drain", run |-> 0, waits |-> waits]]
  /\ client' = (client /\ ~(s = Closer /\ waits = {}))

\* stop(): the first section, up to the first await.
stop(s) ==
  /\ LoopFree /\ stopper[s].pc = "idle"
  /\ IF s = Closer THEN client /\ Pending = {} ELSE MayCall
  /\ \/ /\ running
        /\ running' = FALSE
        /\ wake' = [wake EXCEPT ![run] = TRUE]
        /\ producer' = set_event(run, producer)
        /\ stopper' = [stopper EXCEPT ![s] = [pc |-> "join", run |-> run, waits |-> {}]]
        /\ UNCHANGED client
     \/ /\ ~running
        /\ await_inflight(s)
        /\ UNCHANGED <<running, wake, producer>>
  /\ UNCHANGED <<run, cap, rate, count, slots, inflight, updates, overlap>>

\* stop() after the producer it awaited has ended.
stop_joined(s) ==
  /\ LoopFree /\ stopper[s].pc = "join" /\ producer[stopper[s].run].pc = "done"
  /\ await_inflight(s)
  /\ UNCHANGED <<run, running, cap, rate, wake, count, producer, slots, inflight,
                 updates, overlap>>

\* stop() after the requests it awaited have ended.
stop_drained(s) ==
  /\ LoopFree /\ stopper[s].pc = "drain"
  /\ \A q \in inflight : <<q.run, q.sequence>> \notin stopper[s].waits
  /\ stopper' = [stopper EXCEPT ![s] = [pc |-> "idle", run |-> 0, waits |-> {}]]
  /\ client' = (client /\ s # Closer)
  /\ UNCHANGED <<run, running, cap, rate, wake, count, producer, slots, inflight,
                 updates, overlap>>

\* Mutant: the new rate waits for the next send.
update_rate_mutant(rate_per_second) ==
  /\ MayCall /\ updates < MaxUpdates
  /\ running
  /\ rate' = rate_per_second
  /\ updates' = updates + 1
  /\ UNCHANGED <<run, running, cap, wake, count, producer, slots, inflight, stopper,
                 client, overlap>>

update_rate(rate_per_second) ==
  /\ MayCall /\ updates < MaxUpdates
  /\ running
  /\ rate' = rate_per_second
  /\ wake' = [wake EXCEPT ![run] = TRUE]
  /\ producer' = set_event(run, producer)
  /\ updates' = updates + 1
  /\ UNCHANGED <<run, running, cap, count, slots, inflight, stopper, client, overlap>>

--------------------------------------------------------------------------------
Init ==
  /\ run = 0 /\ running = FALSE /\ cap = NoCap /\ rate = 0
  /\ wake = [r \in Runs |-> FALSE]
  /\ count = ZeroCounters
  /\ producer = [r \in Runs |-> [pc |-> "none", due |-> FALSE, pace |-> 0,
                                 rate |-> 0, event |-> 0]]
  /\ slots = MaxInflight /\ inflight = {}
  /\ stopper = [s \in Callers |-> [pc |-> "idle", run |-> 0, waits |-> {}]]
  /\ client = TRUE /\ updates = 0 /\ overlap = FALSE

Produce(p) == _producer_loop(p) \/ wake_up(p) \/ time_out(p) \/ acquire(p)
FinishStop(s) == stop_joined(s) \/ stop_drained(s)

Next ==
  \/ \E p \in Runs : Produce(p)
  \/ \E q \in inflight : _send_order(q) \/ discard(q)
  \/ \E max_orders \in Caps, r \in Rates : start(max_orders, r)
  \/ \E r \in Rates : update_rate(r)
  \/ \E s \in Callers : stop(s) \/ FinishStop(s)

\* The event loop runs every coroutine that can run, timers fire, and every
\* request ends, for the client has a timeout of five seconds.  Operators are
\* free to do nothing.
Fairness ==
  /\ \A p \in Runs : WF_vars(Produce(p))
  /\ WF_vars(\E q \in inflight : _send_order(q))
  /\ WF_vars(\E q \in inflight : discard(q))
  /\ \A s \in Callers : WF_vars(FinishStop(s))

Spec == Init /\ [][Next]_vars /\ Fairness

--------------------------------------------------------------------------------
\* The controller's state has its shape.
TypeOK ==
  /\ run \in 0 .. MaxRuns /\ running \in BOOLEAN /\ client \in BOOLEAN
  /\ overlap \in BOOLEAN
  /\ cap \in Caps \union {NoCap} /\ rate \in Rates \union {0}
  /\ wake \in [Runs -> BOOLEAN]
  /\ count \in Counters
  /\ producer \in [Runs -> ProducerState]
  /\ slots \in 0 .. MaxInflight /\ updates \in 0 .. MaxUpdates
  /\ inflight \subseteq Request /\ IsFiniteSet(inflight)
  /\ stopper \in [Callers -> [pc : {"idle", "join", "drain"}, run : 0 .. MaxRuns,
                              waits : SUBSET (Runs \X (Nat \ {0}))]]

\* Every permit of the semaphore is free, or with a request that is under way,
\* or with a producer that was just handed it: none is lost on the way out of a
\* stopped run or after a failed request, and none is given back twice.
SlotsAccounted ==
  slots + Cardinality(Sending)
    + Cardinality({p \in Runs : producer[p].pc = "granted"}) = MaxInflight

\* The counters of a run add up and are its own: every attempt is counted as
\* created, reused or failed or is still under way, and no request of an earlier
\* run is in flight, because start() refuses while the previous run drains.
CountersAddUp ==
  /\ count.attempted = count.created + count.reused + count.failed + Cardinality(Sending)
  /\ \A q \in inflight : q.run = run

\* A run never sends more than max_orders.  The test of the limit and the
\* increment are two sections with suspensions between them, and overlapping
\* calls can put two producers on one run: what saves the limit is that a
\* producer runs from its increment to its next test without a suspension, and
\* that _launch_order_request looks at _running again.
CapRespected == cap # NoCap => count.attempted <= cap

\* The next four hold as long as no start() is accepted while a stop() is pending.

\* A rate change reaches a producer that sleeps: it never sleeps on an interval
\* computed from an older rate, also when the change came while it waited for a
\* permit ("wake the producer promptly").
NoStaleSleep ==
  ~overlap => \A p \in Runs : producer[p].pc = "sleep" => producer[p].pace = rate

\* When stop() returns and no newer run is active, the counters it returns are
\* final: nothing is under way any more.
StopReturnsFinalCounters ==
  [][\A s \in Callers :
       /\ stopper[s].pc # "idle" /\ stopper'[s].pc = "idle"
       /\ ~running' /\ ~overlap
       => count'.attempted = count'.created + count'.reused + count'.failed]_vars

\* The HTTP client is closed only when no request can need it any more.
ClientOutlivesRequests ==
  ~client /\ ~overlap => Sending = {} /\ \A p \in Runs : producer[p].pc \in {"none", "done"}

\* A call of stop() returns: the producer is woken from its sleep, gets the
\* permit it waits for, and every request ends.
StopReturns == \A s \in Callers : stopper[s].pc # "idle" ~> stopper[s].pc = "idle" \/ overlap

\* A run with max_orders comes to its end by itself, whatever calls overlap.
CappedRunEnds == running /\ cap # NoCap ~> ~running

\* stop(): "Stop the active producer loop".  A producer whose run was stopped
\* sends nothing more.  A start() accepted before the stopped producer has woken
\* makes _running true again, and that producer goes on under the new run.
StoppedProducerSendsNothing ==
  [][\A p \in Runs :
       count'.attempted > count.attempted /\ producer'[p] # producer[p]
         => p = run]_vars
================================================================================
