------------------------------- MODULE Dashboard -------------------------------
(***************************************************************************)
(* The dashboard's read model (backend/api/dashboard_store.py) beside the  *)
(* running pipeline: what its queries make of the three tables, and the    *)
(* two responses that are put together from several statements.  A request *)
(* is one READ COMMITTED transaction: each statement sees what is          *)
(* committed when it runs, while now() is the time of the first one.       *)
(*                                                                         *)
(* The lists of recent orders, placed orders and recent events, and the    *)
(* columns a query only passes on, are left out.                           *)
(***************************************************************************)
EXTENDS PipelineProperties

CONSTANTS
  STUCK_ORDER_THRESHOLDS,     \* seconds an order may stay in a state
  ORDER_DELIVERY_SLA_SECONDS,
  LATENCY_WINDOW_SECONDS,
  ORDER_DETAIL_EVENT_LIMIT,
  Views                       \* the requests that are made, of {"detail", "overview"}

ASSUME DashboardAssumption ==
  /\ STUCK_ORDER_THRESHOLDS \in [DOMAIN ORDER_TRANSITIONS -> Nat]
  /\ ORDER_DELIVERY_SLA_SECONDS \in Nat /\ LATENCY_WINDOW_SECONDS \in Nat
  /\ ORDER_DETAIL_EVENT_LIMIT \in Nat
  /\ Views \subseteq {"detail", "overview"}
  /\ IsFiniteSet(Orders)       \* what a query can count

VARIABLE request   \* the dashboard request under way, or the response just returned

view_vars == <<vars, request>>

\* view: which request, "none" when there is none; done: how many of its statements
\* have run.  state, version: the order row of a detail request; rows: its task
\* rows; trail: its events.  counts: the orders of an overview request, by state;
\* completed, total: its task counts.
NoRequest ==
  [view |-> "none", done |-> 0, order |-> NoOrder, state |-> Absent, version |-> 0,
   rows |-> 0, trail |-> <<>>, counts |-> [s \in ORDER_STATES |-> 0],
   completed |-> 0, total |-> 0]

PlacedOrders == {o \in Orders : orders[o].state # Absent}

--------------------------------------------------------------------------------
\* _load_attention_order_overview.

\* Mutant: failed tasks are left to the stuck threshold.
problem_tasks_mutant(o) ==
  {i \in DOMAIN tasks[o] :
     \/ tasks[o][i].status = "running" /\ tasks[o][i].locked_until < now
     \/ tasks[o][i].status \in ACTIVE_TASK_STATUSES /\ tasks[o][i].last_error # "none"}

\* Failed, abandoned, or on the way to another try after an error.
problem_tasks(o) ==
  {i \in DOMAIN tasks[o] :
     \/ tasks[o][i].status = "failed"
     \/ tasks[o][i].status = "running" /\ tasks[o][i].locked_until < now
     \/ tasks[o][i].status \in ACTIVE_TASK_STATUSES /\ tasks[o][i].last_error # "none"}

is_overdue(o) == events[o][1].occurred_at + ORDER_DELIVERY_SLA_SECONDS <= now
is_stuck(o) == orders[o].updated_at + STUCK_ORDER_THRESHOLDS[orders[o].state] <= now

attention ==
  {o \in PlacedOrders :
     /\ ~is_terminal_order_state(orders[o].state)
     /\ is_overdue(o) \/ is_stuck(o) \/ problem_tasks(o) # {}}

--------------------------------------------------------------------------------
\* _load_latency_overview.

\* Mutant: every event with a target state is a stage.
timeline_mutant(o) ==
  {[reached_state |-> "placed", occurred_at |-> events[o][1].occurred_at, event_order |-> 0]}
  \union {[reached_state |-> events[o][i].to_state,
           occurred_at |-> events[o][i].occurred_at, event_order |-> 1] :
             i \in {j \in DOMAIN events[o] : events[o][j].to_state # Absent}}

\* The creation and the transitions of a placed order, as reached states.
timeline(o) ==
  {[reached_state |-> "placed", occurred_at |-> events[o][1].occurred_at, event_order |-> 0]}
  \union {[reached_state |-> events[o][i].to_state,
           occurred_at |-> events[o][i].occurred_at, event_order |-> 1] :
             i \in {j \in DOMAIN events[o] : events[o][j].event_type = "state_transition"}}

\* ORDER BY occurred_at, event_order, reached_state: a tie of two transitions is
\* broken by the spelling of their states.
SPELLING == <<"cancelled", "confirmed", "delivered", "failed", "out_for_delivery",
              "placed", "preparing", "ready">>
spelled_before(s, t) == \E i, j \in DOMAIN SPELLING : i < j /\ SPELLING[i] = s /\ SPELLING[j] = t

sequenced_before(a, b) ==
  \/ a.occurred_at < b.occurred_at
  \/ /\ a.occurred_at = b.occurred_at
     /\ \/ a.event_order < b.event_order
        \/ a.event_order = b.event_order /\ spelled_before(a.reached_state, b.reached_state)

\* lag(..) OVER event_sequence: each entry with the one before it.
stages(o) ==
  {[from_state |-> p[1].reached_state, to_state |-> p[2].reached_state,
    duration |-> p[2].occurred_at - p[1].occurred_at] :
      p \in {q \in timeline(o) \X timeline(o) :
               /\ sequenced_before(q[1], q[2])
               /\ ~\E e \in timeline(o) :
                     sequenced_before(q[1], e) /\ sequenced_before(e, q[2])
               /\ q[2].occurred_at + LATENCY_WINDOW_SECONDS >= now}}

\* The end-to-end sample of an order delivered in the window.
durations(o) ==
  LET Delivery(e) == e.event_type = "state_transition" /\ e.to_state = "delivered"
      Creation(e) == e.event_type = "order_created"
  IN  {d - c : d \in {t \in EventTimes(o, Delivery) : t + LATENCY_WINDOW_SECONDS >= now},
               c \in EventTimes(o, Creation)}

--------------------------------------------------------------------------------
\* The statements of a request, in the order they run.

\* Mutant: the order's row is read last.
DETAIL_STATEMENTS_mutant == <<"events", "tasks", "order">>

\* get_dashboard_order_detail.
DETAIL_STATEMENTS == <<"order", "tasks", "events">>

\* Mutant: the tasks are counted first.
OVERVIEW_STATEMENTS_mutant == <<"task_counts", "order_counts">>

\* get_dashboard_overview; the statements after these two are one query each.
OVERVIEW_STATEMENTS == <<"order_counts", "task_counts">>

Statements(view) == IF view = "detail" THEN DETAIL_STATEMENTS ELSE OVERVIEW_STATEMENTS
NextStatement == Statements(request.view)[request.done + 1]
Complete == request.view # "none" /\ request.done = Len(Statements(request.view))

\* A detail request for an order that is not there ends with its first statement.
begin_request(view, o) ==
  /\ request.view = "none" /\ view \in Views
  /\ view = "overview" => o = NoOrder
  /\ view = "detail" => o \in PlacedOrders
  /\ request' = [NoRequest EXCEPT !.view = view, !.order = o]

Run(r) == request' = [r EXCEPT !.done = @ + 1]

read_order ==
  /\ NextStatement = "order"
  /\ Run([request EXCEPT !.state = orders[request.order].state,
                         !.version = orders[request.order].version])

read_tasks == NextStatement = "tasks" /\ Run([request EXCEPT !.rows = Len(tasks[request.order])])

\* Oldest first, and no more than the limit.  (Commit order; TimelineFollowsMoves
\* is about the order of the dates.)
read_events ==
  /\ NextStatement = "events"
  /\ LET e == events[request.order]
         n == IF Len(e) <= ORDER_DETAIL_EVENT_LIMIT THEN Len(e) ELSE ORDER_DETAIL_EVENT_LIMIT
     IN  Run([request EXCEPT !.trail = SubSeq(e, 1, n)])

count_orders ==
  /\ NextStatement = "order_counts"
  /\ Run([request EXCEPT !.counts =
            [s \in ORDER_STATES |-> Cardinality({o \in Orders : orders[o].state = s})]])

AllTasks == UNION {{<<o, i>> : i \in DOMAIN tasks[o]} : o \in Orders}

count_tasks ==
  /\ NextStatement = "task_counts"
  /\ Run([request EXCEPT !.total = Cardinality(AllTasks),
            !.completed = Cardinality({p \in AllTasks : tasks[p[1]][p[2]].status = "completed"})])

Read ==
  \/ \E view \in Views, o \in Orders \union {NoOrder} : begin_request(view, o)
  \/ /\ request.view # "none" /\ ~Complete
     /\ read_order \/ read_tasks \/ read_events \/ count_orders \/ count_tasks

\* A response is final; it is looked at before anything else happens.
NextRequest == IF Complete THEN NoRequest ELSE request

DashboardInit == Init /\ request = NoRequest
DashboardNext == (Next /\ request' = NextRequest) \/ (Read /\ UNCHANGED vars)
DashboardSpec == DashboardInit /\ [][DashboardNext]_view_vars

--------------------------------------------------------------------------------
\* How far ahead a healthy task is scheduled.
ScheduleDelays ==
  {READY_CHECK_INITIAL_DELAY_SECONDS, READY_CHECK_INTERVAL_SECONDS,
   DELIVERY_CHECK_INITIAL_DELAY_SECONDS, DELIVERY_CHECK_INTERVAL_SECONDS,
   TASK_RETRY_DELAY_SECONDS}
  \union {RETRY_AFTER[s] : s \in SIMULATED_SERVICES}

\* The attention list overlooks nobody: an order that can still move and is not on
\* it has one unfinished task, which carries no error, which a live lease covers or
\* whose time comes within one delay of the schedule, and the order has moved
\* within its threshold.
AttentionMissesNobody ==
  \A o \in PlacedOrders : Live(o) /\ o \notin attention =>
    LET t == tasks[o][Len(tasks[o])] IN
    /\ t.last_error = "none"
    /\ \/ t.status = "running" /\ t.locked_until >= now
       \/ t.status = "pending" /\ \E d \in ScheduleDelays : t.next_run_at <= now + d
    /\ now < orders[o].updated_at + STUCK_ORDER_THRESHOLDS[orders[o].state]

\* The sample of one stage.
TimeIn(o, state) == (CHOOSE s \in stages(o) : s.from_state = state).duration

\* The latency of the stages is that of the moves: every sample is one step of the
\* lifecycle and took some time, and when all stages of a delivered order are in
\* the window they add up to the end-to-end time.  It rests on the dates of the
\* transitions being strictly later than one another, which no column enforces:
\* the simulator's delays do, and the date each call sends along.
StageLatencyIsReal ==
  \A o \in PlacedOrders :
    /\ \A s \in stages(o) :
         /\ s.from_state \in DOMAIN ORDER_TRANSITIONS
         /\ s.to_state = ORDER_TRANSITIONS[s.from_state]
         /\ s.duration > 0
    /\ \A d \in durations(o) :
         {s.from_state : s \in stages(o)} = DOMAIN ORDER_TRANSITIONS =>
           d = TimeIn(o, "placed") + TimeIn(o, "confirmed") + TimeIn(o, "preparing")
               + TimeIn(o, "ready") + TimeIn(o, "out_for_delivery")

\* The detail view never shows a state without the work and the events behind it,
\* whatever commits between its statements: the move that led to the state shown
\* is in the trail, if the trail was not cut, and so is the task of that stage.
DetailIsCovered ==
  request.view = "detail" /\ Complete =>
    /\ Len(request.trail) < ORDER_DETAIL_EVENT_LIMIT /\ request.version > 0 =>
         \E j \in Moves(request.trail) : /\ Rank(request.trail, j) = request.version
                                        /\ request.trail[j].to_state = request.state
    /\ request.state # "cancelled" =>
         request.rows >= IF request.version < 5 THEN request.version + 1 ELSE 5

\* The overview never shows states that its task counts do not account for: an
\* order in its k-th state has k - 1 completed tasks and, unless delivered, one more.
OverviewAddsUp ==
  request.view = "overview" /\ Complete =>
    LET n == request.counts
        done == n["confirmed"] + 2 * n["preparing"] + 3 * n["ready"]
                + 4 * n["out_for_delivery"] + 5 * n["delivered"]
        current == n["placed"] + n["confirmed"] + n["preparing"] + n["ready"]
                   + n["out_for_delivery"]
    IN  /\ request.completed >= done
        /\ request.total >= done + current + n["cancelled"]
================================================================================
