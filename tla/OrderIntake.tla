------------------------------ MODULE OrderIntake ------------------------------
(***************************************************************************)
(* POST /orders statement by statement: create_order (backend/api/app.py), *)
(* create_or_get_order (backend/api/order_store.py) and the connection     *)
(* pool (backend/common/db.py), with requests that overlap, a process that *)
(* dies and a database that fails.  A client's retry, after a slow or lost *)
(* answer, is one more request with the same header and body.              *)
(*                                                                         *)
(* The database is READ COMMITTED: a statement sees what is committed when *)
(* it starts, and an INSERT that meets an uncommitted row with the same    *)
(* unique key waits for the end of that transaction.                       *)
(***************************************************************************)
EXTENDS Integers, FiniteSets

CONSTANTS Requests,   \* a request's name is also the order id it draws (uuid4)
          NoRequest,
          Headers,    \* raw Idempotency-Key headers, the missing one included
          strip,      \* the key left of a header, or Blank
          Keys, Blank,
          Bodies,
          PoolSize,   \* DATABASE_POOL_MAX_SIZE
          MaxFaults   \* bound: failures of the process or of the database

ASSUME IntakeAssumption ==
  /\ NoRequest \notin Requests /\ Blank \notin Keys
  /\ strip \in [Headers -> Keys \union {Blank}]
  /\ PoolSize \in Nat \ {0} /\ MaxFaults \in Nat

VARIABLES
  orders,   \* the committed order rows: [id, key, body]
  created,  \* the ids with a committed order_created event
  queued,   \* the ids with a committed first task
  request,  \* each request: where it is, and what it asks for
  reply,    \* what it was answered
  free,     \* connections in the pool
  faults    \* faults so far, for the bound

vars == <<orders, created, queued, request, reply, free, faults>>

Unanswered == [code |-> 0, order |-> NoRequest]
Answer(code, order) == [code |-> code, order |-> order]

\* The phases in which a request holds a connection.
InDatabase == {"insert", "event", "task", "commit", "lookup"}
Holds(r) == request[r].pc \in InDatabase
\* The row of a transaction that is still open.
Uncommitted(r) == request[r].pc \in {"event", "task", "commit"}
Row(r) == [id |-> r, key |-> request[r].key, body |-> request[r].body]

Goto(r, pc) == request' = [request EXCEPT ![r].pc = pc]

\* Mutant: a conflict leaves the block without giving the connection back.
Finish_mutant(r, answer) ==
  /\ Goto(r, "done")
  /\ reply' = [reply EXCEPT ![r] = answer]
  /\ free' = IF Holds(r) /\ answer.code # 409 THEN free + 1 ELSE free

\* The request ends; a connection it held goes back to the pool.
Finish(r, answer) ==
  /\ Goto(r, "done")
  /\ reply' = [reply EXCEPT ![r] = answer]
  /\ free' = IF Holds(r) THEN free + 1 ELSE free

--------------------------------------------------------------------------------
\* create_order: the header is stripped, a blank key is refused.
create_order(r, header, body) ==
  /\ request[r].pc = "none"
  /\ \/ /\ strip[header] = Blank
        /\ request' = [request EXCEPT ![r].pc = "done"]
        /\ reply' = [reply EXCEPT ![r] = Answer(400, NoRequest)]
     \/ /\ strip[header] \in Keys
        /\ request' = [request EXCEPT ![r] =
             [pc |-> "pool", key |-> strip[header], body |-> body]]
        /\ UNCHANGED reply
  /\ UNCHANGED <<orders, created, queued, free, faults>>

\* open_db_connection: a connection of the pool, or a timeout, which is a
\* psycopg error and answered 503.
open_db_connection(r) ==
  /\ request[r].pc = "pool"
  /\ \/ free > 0 /\ free' = free - 1 /\ Goto(r, "insert") /\ UNCHANGED reply
     \/ free = 0 /\ Finish(r, Answer(503, NoRequest))
  /\ UNCHANGED <<orders, created, queued, faults>>

\* Mutant: a test for the key and an insert, without the unique index.
insert_order_mutant(r) ==
  /\ request[r].pc = "insert"
  /\ IF \E row \in orders : row.key = request[r].key
       THEN Goto(r, "lookup") ELSE Goto(r, "event")
  /\ UNCHANGED <<orders, created, queued, reply, free, faults>>

\* Mutant: a connection in autocommit mode.
insert_order_autocommit(r) ==
  /\ request[r].pc = "insert"
  /\ IF \E row \in orders : row.key = request[r].key
       THEN Goto(r, "lookup") /\ UNCHANGED orders
       ELSE Goto(r, "event") /\ orders' = orders \union {Row(r)}
  /\ UNCHANGED <<created, queued, reply, free, faults>>

\* Mutant: a request also waits for those that have not inserted yet.
insert_order_mutual(r) ==
  /\ request[r].pc = "insert"
  /\ \A q \in Requests \ {r} : Holds(q) => request[q].key # request[r].key
  /\ IF \E row \in orders : row.key = request[r].key
       THEN Goto(r, "lookup") ELSE Goto(r, "event")
  /\ UNCHANGED <<orders, created, queued, reply, free, faults>>

\* INSERT ... ON CONFLICT (idempotency_key) DO NOTHING.
insert_order(r) ==
  /\ request[r].pc = "insert"
  /\ \A q \in Requests \ {r} : Uncommitted(q) => request[q].key # request[r].key
  /\ IF \E row \in orders : row.key = request[r].key
       THEN Goto(r, "lookup") ELSE Goto(r, "event")
  /\ UNCHANGED <<orders, created, queued, reply, free, faults>>

insert_event(r) ==
  /\ request[r].pc = "event"
  /\ Goto(r, "task")
  /\ UNCHANGED <<orders, created, queued, reply, free, faults>>

insert_task(r) ==
  /\ request[r].pc = "task"
  /\ Goto(r, "commit")
  /\ UNCHANGED <<orders, created, queued, reply, free, faults>>

\* The three rows of the transaction become visible together.
Publish(r) ==
  /\ orders' = orders \union {Row(r)}
  /\ created' = created \union {r}
  /\ queued' = queued \union {r}

\* The end of conn.transaction(), and the answer 201.
commit(r) ==
  /\ request[r].pc = "commit"
  /\ Publish(r)
  /\ Finish(r, Answer(201, r))
  /\ UNCHANGED faults

\* The rows the second statement sees: a snapshot of its own.
Visible(r) == {row \in orders : row.key = request[r].key}

\* Mutant: the bodies are not compared.
get_existing_order_mutant(r) ==
  /\ request[r].pc = "lookup"
  /\ \E row \in Visible(r) : Finish(r, Answer(200, row.id))
  /\ UNCHANGED <<orders, created, queued, faults>>

\* The SELECT after a conflict, and the comparison of the bodies.
get_existing_order(r) ==
  /\ request[r].pc = "lookup"
  /\ \/ /\ Visible(r) = {}
        /\ Finish(r, Answer(500, NoRequest))
     \/ \E row \in Visible(r) :
          Finish(r, Answer(IF row.body = request[r].body THEN 200 ELSE 409, row.id))
  /\ UNCHANGED <<orders, created, queued, faults>>

--------------------------------------------------------------------------------
\* Faults.

\* The database or the connection fails: the transaction is rolled back and the
\* route answers 503.  At the commit the rows may have been written all the same.
database_error(r) ==
  /\ faults < MaxFaults /\ Holds(r)
  /\ faults' = faults + 1
  /\ Finish(r, Answer(503, NoRequest))
  /\ \/ UNCHANGED <<orders, created, queued>>
     \/ request[r].pc = "commit" /\ Publish(r)

\* The API process dies with the requests it serves: no answers, and the
\* database rolls back what was open.  Compose starts it again with a full pool.
Serving == {r \in Requests : request[r].pc = "pool" \/ Holds(r)}

crash ==
  /\ faults < MaxFaults /\ Serving # {}
  /\ faults' = faults + 1
  /\ request' = [r \in Requests |->
       IF r \in Serving THEN [request[r] EXCEPT !.pc = "done"] ELSE request[r]]
  /\ reply' = [r \in Requests |-> IF r \in Serving THEN Answer(-1, NoRequest) ELSE reply[r]]
  /\ free' = PoolSize
  /\ UNCHANGED <<orders, created, queued>>

--------------------------------------------------------------------------------
Init ==
  /\ orders = {} /\ created = {} /\ queued = {}
  /\ request = [r \in Requests |-> [pc |-> "none", key |-> NoRequest, body |-> NoRequest]]
  /\ reply = [r \in Requests |-> Unanswered]
  /\ free = PoolSize /\ faults = 0

\* The next statement of a request.
Serve(r) ==
  \/ open_db_connection(r) \/ insert_order(r) \/ insert_event(r)
  \/ insert_task(r) \/ commit(r) \/ get_existing_order(r)

Next ==
  \/ \E r \in Requests :
       \/ \E header \in Headers, body \in Bodies : create_order(r, header, body)
       \/ Serve(r) \/ database_error(r)
  \/ crash

\* Each request has a thread of its own, which runs when its statement can.
Spec == Init /\ [][Next]_vars /\ \A r \in Requests : WF_vars(Serve(r))

--------------------------------------------------------------------------------
\* The rows and the requests have their shape.
TypeOK ==
  /\ orders \subseteq [id : Requests, key : Keys, body : Bodies]
  /\ created \subseteq Requests /\ queued \subseteq Requests
  /\ request \in [Requests ->
       [pc : {"none", "pool", "done"} \union InDatabase,
        key : Keys \union {NoRequest}, body : Bodies \union {NoRequest}]]
  /\ reply \in [Requests -> [code : {-1, 0, 200, 201, 400, 409, 500, 503},
                             order : Requests \union {NoRequest}]]
  /\ free \in 0 .. PoolSize /\ faults \in 0 .. MaxFaults

\* Requests that overlap with one key create one order.
OneOrderPerKey == \A a, b \in orders : a.key = b.key => a = b

\* An order is there with its creation event and its first task or not at all,
\* wherever a request or the process was cut off: no accepted order lacks the
\* task that a worker will claim.
WholeOrders == {row.id : row \in orders} = created /\ created = queued

\* No way out of a request, the 409, the timeout and the crash included, keeps
\* a connection or gives one back twice.
PoolBalanced == free + Cardinality({r \in Requests : Holds(r)}) = PoolSize

Abstract == INSTANCE IdempotentCreate WITH
  book  <- [k \in Keys |-> IF \E row \in orders : row.key = k
                             THEN (CHOOSE row \in orders : row.key = k).id
                             ELSE NoRequest],
  asked <- [r \in Requests |-> [key |-> request[r].key, body |-> request[r].body]]

\* Refinement: the statements of overlapping requests add up to one atomic
\* create-if-absent each.  Requests with one key and one body are told the same
\* order, at most one of them 201; a different body gets the conflict and names
\* the order that has the key; the lookup after a conflict always finds it.
CreateIfAbsent == Abstract!Spec

\* Every request that was received is answered, or its process died: neither
\* the wait for another transaction nor the wait for a connection is for ever.
EveryRequestAnswered ==
  \A r \in Requests : request[r].pc # "none" ~> request[r].pc = "done"
================================================================================
