------------------------------ MODULE IntakeProofs ------------------------------
(***************************************************************************)
(* What POST /orders promises, proved for any number of requests, keys and *)
(* bodies, any pool and any number of faults.                              *)
(***************************************************************************)
EXTENDS OrderIntake, TLAPS, FiniteSetTheorems

RequestState ==
  [pc : {"none", "pool", "done"} \union InDatabase,
   key : Keys \union {NoRequest}, body : Bodies \union {NoRequest}]
Codes == {-1, 0, 200, 201, 400, 409, 500, 503}
ReplyState == [code : Codes, order : Requests \union {NoRequest}]

\* The shape of everything but the pool.
Shape ==
  /\ orders \subseteq [id : Requests, key : Keys, body : Bodies]
  /\ created \subseteq Requests /\ queued \subseteq Requests
  /\ request \in [Requests -> RequestState]
  /\ reply \in [Requests -> ReplyState]
  /\ faults \in 0 .. MaxFaults

Holders == {r \in Requests : Holds(r)}

\* The pool's account, for a set of holders that is always finite.
Pool == IsFiniteSet(Holders) /\ free \in Nat /\ free + Cardinality(Holders) = PoolSize

\* What a request knows where it is: nothing is answered before it is done, and
\* one that is being served has a key and a body.
Asked ==
  \A r \in Requests :
    /\ request[r].pc = "none" => request[r].key = NoRequest /\ request[r].body = NoRequest
    /\ request[r].pc \notin {"none", "done"} =>
         request[r].key \in Keys /\ request[r].body \in Bodies
    /\ request[r].pc # "done" => reply[r] = Unanswered

\* The rows are those of finished requests, as they asked for them.
RowsAreAsked ==
  \A row \in orders : request[row.id].pc = "done" /\ row = Row(row.id)

\* The unique index and the wait of insert_order: a key has one writer, and none
\* once it is taken; a request that met a conflict will find the row.
KeysAreHeld ==
  /\ \A r \in Requests, row \in orders : Uncommitted(r) => row.key # request[r].key
  /\ \A r, q \in Requests :
       Uncommitted(r) /\ Uncommitted(q) /\ request[r].key = request[q].key => r = q
  /\ \A r \in Requests : request[r].pc = "lookup" => Visible(r) # {}

Inv == Shape /\ Pool /\ Asked /\ RowsAreAsked /\ KeysAreHeld /\ OneOrderPerKey /\ WholeOrders

--------------------------------------------------------------------------------
\* What a change of pc does to the requests.
LEMMA GotoEffect ==
  ASSUME request \in [Requests -> RequestState], NEW r \in Requests,
         NEW pc \in {"none", "pool", "done"} \union InDatabase, Goto(r, pc)
  PROVE  /\ request' \in [Requests -> RequestState]
         /\ request'[r].pc = pc
         /\ request'[r].key = request[r].key /\ request'[r].body = request[r].body
         /\ \A q \in Requests : q # r => request'[q] = request[q]
  BY DEF Goto, RequestState, InDatabase

\* A request that takes a connection.
LEMMA TakeOne ==
  ASSUME Pool, NEW r \in Requests, ~Holds(r), Holds(r)', free > 0, free' = free - 1,
         \A q \in Requests : q # r => request'[q] = request[q]
  PROVE  Pool'
<1>1. Holders' = Holders \union {r} /\ r \notin Holders
  BY DEF Holders, Holds
<1>2. IsFiniteSet(Holders') /\ Cardinality(Holders') = Cardinality(Holders) + 1
  BY <1>1, FS_AddElement DEF Pool
<1>3. Cardinality(Holders) \in Nat
  BY FS_CardinalityType DEF Pool
<1>. QED  BY <1>2, <1>3, IntakeAssumption DEF Pool

\* A request that gives its connection back, if it has one.
LEMMA GiveBack ==
  ASSUME Pool, NEW r \in Requests, ~Holds(r)', free' = IF Holds(r) THEN free + 1 ELSE free,
         \A q \in Requests : q # r => request'[q] = request[q]
  PROVE  Pool'
<1>1. CASE Holds(r)
  <2>1. Holders' = Holders \ {r} /\ r \in Holders
    BY <1>1 DEF Holders, Holds
  <2>2. IsFiniteSet(Holders') /\ Cardinality(Holders') = Cardinality(Holders) - 1
    BY <2>1, FS_RemoveElement DEF Pool
  <2>3. Cardinality(Holders) \in Nat
    BY FS_CardinalityType DEF Pool
  <2>. QED  BY <1>1, <2>2, <2>3, IntakeAssumption DEF Pool
<1>2. CASE ~Holds(r)
  <2>1. Holders' = Holders
    BY <1>2 DEF Holders, Holds
  <2>. QED  BY <1>2, <2>1 DEF Pool
<1>. QED  BY <1>1, <1>2

\* A request that keeps what it has.
LEMMA KeepIt ==
  ASSUME Pool, NEW r \in Requests, Holds(r)' <=> Holds(r), free' = free,
         \A q \in Requests : q # r => request'[q] = request[q]
  PROVE  Pool'
<1>1. Holders' = Holders
  BY DEF Holders, Holds
<1>. QED  BY <1>1 DEF Pool

--------------------------------------------------------------------------------
\* A request goes on to its next statement: the tables and the answers stay.  The
\* hypotheses are what the place it goes to requires of the keys.
LEMMA WalkKeepsInv ==
  ASSUME Inv, NEW r \in Requests, request[r].pc # "done",
         request' \in [Requests -> RequestState],
         \A q \in Requests : q # r => request'[q] = request[q],
         request'[r].pc \in InDatabase \union {"pool"},
         request'[r].key \in Keys, request'[r].body \in Bodies,
         UNCHANGED <<orders, created, queued, reply>>, faults' \in 0 .. MaxFaults, Pool',
         Uncommitted(r)' =>
           /\ \A row \in orders : row.key # request'[r].key
           /\ \A q \in Requests : q # r /\ Uncommitted(q) => request[q].key # request'[r].key,
         request'[r].pc = "lookup" => \E row \in orders : row.key = request'[r].key
  PROVE  Inv'
<1>1. Shape'
  BY DEF Inv, Shape
<1>2. Asked'
  <2>1. ASSUME NEW q \in Requests
        PROVE  /\ request'[q].pc = "none" =>
                    request'[q].key = NoRequest /\ request'[q].body = NoRequest
               /\ request'[q].pc \notin {"none", "done"} =>
                    request'[q].key \in Keys /\ request'[q].body \in Bodies
               /\ request'[q].pc # "done" => reply'[q] = Unanswered
    <3>1. CASE q = r
      BY <3>1 DEF Inv, Asked, InDatabase
    <3>2. CASE q # r
      BY <3>2 DEF Inv, Asked
    <3>. QED  BY <3>1, <3>2
  <2>. QED  BY <2>1 DEF Asked, Unanswered
<1>3. RowsAreAsked'
  <2>1. ASSUME NEW row \in orders
        PROVE  request'[row.id].pc = "done" /\ row = [id |-> row.id, key |-> request'[row.id].key,
                                                      body |-> request'[row.id].body]
    <3>1. row.id \in Requests /\ request[row.id].pc = "done" /\ row = Row(row.id)
      BY DEF Inv, Shape, RowsAreAsked
    <3>2. request'[row.id] = request[row.id]
      BY <3>1
    <3>. QED  BY <3>1, <3>2 DEF Row
  <2>. QED  BY <2>1 DEF RowsAreAsked, Row
<1>4. KeysAreHeld'
  <2>1. ASSUME NEW q \in Requests, NEW row \in orders', Uncommitted(q)'
        PROVE  row.key # request'[q].key
    BY <2>1 DEF Inv, KeysAreHeld, Uncommitted
  <2>2. ASSUME NEW q \in Requests, NEW p \in Requests, Uncommitted(q)', Uncommitted(p)',
               request'[q].key = request'[p].key
        PROVE  q = p
    BY <2>2 DEF Inv, KeysAreHeld, Uncommitted
  <2>3. ASSUME NEW q \in Requests, request'[q].pc = "lookup"
        PROVE  Visible(q)' # {}
    <3>1. CASE q = r
      BY <2>3, <3>1 DEF Visible
    <3>2. CASE q # r
      BY <2>3, <3>2 DEF Inv, KeysAreHeld, Visible
    <3>. QED  BY <3>1, <3>2
  <2>. QED  BY <2>1, <2>2, <2>3 DEF KeysAreHeld
<1>5. OneOrderPerKey' /\ WholeOrders'
  BY DEF Inv, OneOrderPerKey, WholeOrders
<1>. QED  BY <1>1, <1>2, <1>3, <1>4, <1>5 DEF Inv

\* A request ends: with its rows, if its transaction had them, or without.
LEMMA FinishKeepsInv ==
  ASSUME Inv, NEW r \in Requests, request[r].pc # "done",
         NEW answer \in ReplyState, Finish(r, answer), faults' \in 0 .. MaxFaults,
         \/ UNCHANGED <<orders, created, queued>>
         \/ Uncommitted(r) /\ Publish(r)
  PROVE  Inv'
<1>0. /\ request' \in [Requests -> RequestState]
      /\ request'[r].pc = "done"
      /\ request'[r].key = request[r].key /\ request'[r].body = request[r].body
      /\ \A q \in Requests : q # r => request'[q] = request[q]
      /\ request' = [request EXCEPT ![r].pc = "done"]
  BY GotoEffect DEF Finish, Inv, Shape, Goto
<1>1. Pool'
  <2>1. ~Holds(r)'
    BY <1>0 DEF Holds, InDatabase
  <2>. QED  BY <1>0, <2>1, GiveBack DEF Inv, Finish
<1>2. ASSUME Uncommitted(r)
      PROVE  /\ Row(r) \in [id : Requests, key : Keys, body : Bodies]
             /\ Row(r).id = r /\ Row(r).key = request[r].key /\ Row(r)' = Row(r)
    BY <1>0, <1>2 DEF Inv, Asked, Uncommitted, Row
<1>3. Shape'
  <2>1. reply' \in [Requests -> ReplyState]
    BY DEF Finish, Inv, Shape
  <2>2. CASE UNCHANGED <<orders, created, queued>>
    BY <1>0, <2>1, <2>2 DEF Inv, Shape
  <2>3. CASE Uncommitted(r) /\ Publish(r)
    BY <1>0, <1>2, <2>1, <2>3 DEF Inv, Shape, Publish
  <2>. QED  BY <2>2, <2>3
<1>4. Asked'
  <2>1. ASSUME NEW q \in Requests
        PROVE  /\ request'[q].pc = "none" =>
                    request'[q].key = NoRequest /\ request'[q].body = NoRequest
               /\ request'[q].pc \notin {"none", "done"} =>
                    request'[q].key \in Keys /\ request'[q].body \in Bodies
               /\ request'[q].pc # "done" => reply'[q] = Unanswered
    <3>1. CASE q = r
      BY <1>0, <3>1
    <3>2. CASE q # r
      <4>1. reply'[q] = reply[q]
        BY <3>2 DEF Finish, Inv, Shape
      <4>. QED  BY <1>0, <3>2, <4>1 DEF Inv, Asked
    <3>. QED  BY <3>1, <3>2
  <2>. QED  BY <2>1 DEF Asked, Unanswered
<1>5. ASSUME NEW row \in orders
      PROVE  /\ row.id \in Requests /\ request'[row.id].pc = "done" /\ row = Row(row.id)'
    <2>1. row.id \in Requests /\ request[row.id].pc = "done" /\ row = Row(row.id)
      BY DEF Inv, Shape, RowsAreAsked
    <2>2. request'[row.id] = request[row.id]
      BY <1>0, <2>1
    <2>. QED  BY <2>1, <2>2 DEF Row
<1>6. orders' \subseteq orders \union {Row(r)} /\ orders \subseteq orders'
  BY DEF Publish
<1>7. ASSUME NEW row \in orders', row \notin orders
      PROVE  Uncommitted(r) /\ row = Row(r)
  BY <1>7 DEF Publish
<1>8. RowsAreAsked'
  <2>1. ASSUME NEW row \in orders'
        PROVE  request'[row.id].pc = "done" /\ row = Row(row.id)'
    <3>1. CASE row \in orders
      BY <1>5, <3>1
    <3>2. CASE row \notin orders
      <4>1. Uncommitted(r) /\ row = Row(r)
        BY <1>7, <3>2
      <4>2. row.id = r /\ row = Row(r)'
        BY <1>2, <4>1
      <4>. QED  BY <1>0, <4>2
    <3>. QED  BY <3>1, <3>2
  <2>. QED  BY <2>1 DEF RowsAreAsked
<1>9. KeysAreHeld'
  <2>0. ~Uncommitted(r)'
    BY <1>0 DEF Uncommitted
  <2>1. ASSUME NEW q \in Requests, NEW row \in orders', Uncommitted(q)'
        PROVE  row.key # request'[q].key
    <3>1. q # r /\ Uncommitted(q) /\ request'[q] = request[q]
      BY <1>0, <2>0, <2>1 DEF Uncommitted
    <3>2. CASE row \in orders
      BY <3>1, <3>2 DEF Inv, KeysAreHeld
    <3>3. CASE row \notin orders
      <4>1. Uncommitted(r) /\ row.key = request[r].key
        BY <1>2, <1>7, <3>3
      <4>. QED  BY <3>1, <4>1 DEF Inv, KeysAreHeld
    <3>. QED  BY <3>2, <3>3
  <2>2. ASSUME NEW q \in Requests, NEW p \in Requests, Uncommitted(q)', Uncommitted(p)',
               request'[q].key = request'[p].key
        PROVE  q = p
    <3>1. /\ q # r /\ Uncommitted(q) /\ request'[q] = request[q]
          /\ p # r /\ Uncommitted(p) /\ request'[p] = request[p]
      BY <1>0, <2>0, <2>2 DEF Uncommitted
    <3>. QED  BY <2>2, <3>1 DEF Inv, KeysAreHeld
  <2>3. ASSUME NEW q \in Requests, request'[q].pc = "lookup"
        PROVE  Visible(q)' # {}
    <3>1. q # r /\ request'[q] = request[q] /\ request[q].pc = "lookup"
      BY <1>0, <2>3
    <3>2. PICK row \in orders : row.key = request[q].key
      BY <3>1 DEF Inv, KeysAreHeld, Visible
    <3>. QED  BY <1>6, <3>1, <3>2 DEF Visible
  <2>. QED  BY <2>1, <2>2, <2>3 DEF KeysAreHeld
<1>10. OneOrderPerKey'
  <2>1. ASSUME NEW a \in orders', NEW b \in orders', a.key = b.key PROVE a = b
    <3>1. CASE a \in orders /\ b \in orders
      BY <2>1, <3>1 DEF Inv, OneOrderPerKey
    <3>2. CASE a \notin orders /\ b \notin orders
      BY <1>7, <3>2
    <3>3. CASE a \in orders /\ b \notin orders
      BY <1>2, <1>7, <2>1, <3>3 DEF Inv, KeysAreHeld
    <3>4. CASE a \notin orders /\ b \in orders
      BY <1>2, <1>7, <2>1, <3>4 DEF Inv, KeysAreHeld
    <3>. QED  BY <3>1, <3>2, <3>3, <3>4
  <2>. QED  BY <2>1 DEF OneOrderPerKey
<1>11. WholeOrders'
  <2>1. CASE UNCHANGED <<orders, created, queued>>
    BY <2>1 DEF Inv, WholeOrders
  <2>2. CASE Uncommitted(r) /\ Publish(r)
    <3>1. {row.id : row \in orders'} = {row.id : row \in orders} \union {r}
      BY <1>2, <2>2 DEF Publish
    <3>. QED  BY <2>2, <3>1 DEF Inv, WholeOrders, Publish
  <2>. QED  BY <2>1, <2>2
<1>. QED  BY <1>1, <1>3, <1>4, <1>8, <1>9, <1>10, <1>11 DEF Inv

\* The process dies: its requests are over, without rows and without connections.
LEMMA CrashKeepsInv ==
  ASSUME Inv, crash
  PROVE  Inv'
<1>1. ASSUME NEW q \in Requests
      PROVE  /\ request'[q] \in RequestState
             /\ request'[q].key = request[q].key /\ request'[q].body = request[q].body
             /\ q \in Serving => request'[q].pc = "done"
             /\ q \notin Serving => request'[q] = request[q] /\ reply'[q] = reply[q]
             /\ reply'[q] \in ReplyState
  BY DEF crash, Inv, Shape, RequestState, ReplyState, Codes, Answer
<1>2. \A q \in Requests : request'[q].pc \in {"none", "done"}
  <2>1. ASSUME NEW q \in Requests, q \notin Serving PROVE request[q].pc \in {"none", "done"}
    BY <2>1 DEF Serving, Holds, Inv, Shape, RequestState
  <2>. QED  BY <1>1, <2>1
<1>3. Shape'
  <2>1. request' \in [Requests -> RequestState] /\ reply' \in [Requests -> ReplyState]
    <3>1. request' = [q \in Requests |-> request'[q]] /\ reply' = [q \in Requests |-> reply'[q]]
      BY DEF crash
    <3>. QED  BY <1>1, <3>1
  <2>2. faults' \in 0 .. MaxFaults
    BY IntakeAssumption DEF crash, Inv, Shape
  <2>. QED  BY <2>1, <2>2 DEF crash, Inv, Shape
<1>4. Pool'
  <2>1. Holders' = {}
    BY <1>2 DEF Holders, Holds, InDatabase
  <2>. QED  BY <2>1, FS_EmptySet, IntakeAssumption DEF Pool, crash
<1>5. Asked'
  <2>1. ASSUME NEW q \in Requests
        PROVE  /\ request'[q].pc = "none" =>
                    request'[q].key = NoRequest /\ request'[q].body = NoRequest
               /\ request'[q].pc # "done" => reply'[q] = Unanswered
    BY <1>1 DEF Inv, Asked
  <2>. QED  BY <1>2, <2>1 DEF Asked, Unanswered
<1>6. RowsAreAsked'
  <2>1. ASSUME NEW row \in orders
        PROVE  request'[row.id].pc = "done" /\ row = Row(row.id)'
    <3>1. row.id \in Requests /\ request[row.id].pc = "done" /\ row = Row(row.id)
      BY DEF Inv, Shape, RowsAreAsked
    <3>2. request'[row.id].pc = "done"
      BY <1>1, <3>1
    <3>. QED  BY <1>1, <3>1, <3>2 DEF Row
  <2>2. orders' = orders
    BY DEF crash
  <2>. QED  BY <2>1, <2>2 DEF RowsAreAsked
<1>7. KeysAreHeld'
  BY <1>2 DEF KeysAreHeld, Uncommitted
<1>8. OneOrderPerKey' /\ WholeOrders'
  BY DEF crash, Inv, OneOrderPerKey, WholeOrders
<1>. QED  BY <1>3, <1>4, <1>5, <1>6, <1>7, <1>8 DEF Inv

\* The answers of the route are answers.
LEMMA AnswerShape ==
  ASSUME NEW code \in Codes, NEW o \in Requests \union {NoRequest}
  PROVE  Answer(code, o) \in ReplyState
  BY DEF Answer, ReplyState

\* Every step keeps the invariant.
LEMMA StepKeepsInv == Inv /\ [Next]_vars => Inv'
<1>. SUFFICES ASSUME Inv, [Next]_vars PROVE Inv'
  OBVIOUS
<1>0. request \in [Requests -> RequestState] /\ faults \in 0 .. MaxFaults /\ Pool
  BY DEF Inv, Shape
<1>1. ASSUME NEW r \in Requests, NEW header \in Headers, NEW body \in Bodies,
             create_order(r, header, body)
      PROVE  Inv'
  <2>1. request[r].pc = "none" /\ ~Holds(r)
    BY <1>1 DEF create_order, Holds, InDatabase
  <2>2. CASE strip[header] = Blank
    <3>1. Finish(r, Answer(400, NoRequest))
      BY <1>1, <2>1, <2>2, IntakeAssumption DEF create_order, Finish, Goto
    <3>2. faults' \in 0 .. MaxFaults /\ UNCHANGED <<orders, created, queued>>
      BY <1>0, <1>1 DEF create_order
    <3>3. Answer(400, NoRequest) \in ReplyState
      BY AnswerShape DEF Codes
    <3>. QED  BY <2>1, <3>1, <3>2, <3>3, FinishKeepsInv
  <2>3. CASE strip[header] \in Keys
    <3>1. request' = [request EXCEPT ![r] = [pc |-> "pool", key |-> strip[header], body |-> body]]
      BY <1>1, <2>3, IntakeAssumption DEF create_order
    <3>2. /\ request' \in [Requests -> RequestState]
          /\ request'[r] = [pc |-> "pool", key |-> strip[header], body |-> body]
          /\ \A q \in Requests : q # r => request'[q] = request[q]
      BY <1>0, <2>3, <3>1 DEF RequestState
    <3>3. UNCHANGED <<orders, created, queued, reply, free>> /\ faults' \in 0 .. MaxFaults
      BY <1>0, <1>1, <2>3, IntakeAssumption DEF create_order
    <3>4. ~Holds(r)' /\ ~Uncommitted(r)'
      BY <3>2 DEF Holds, InDatabase, Uncommitted
    <3>5. Pool'
      BY <1>0, <2>1, <3>2, <3>3, <3>4, KeepIt
    <3>. QED  BY <2>1, <2>3, <3>2, <3>3, <3>4, <3>5, WalkKeepsInv
  <2>. QED  BY <1>1, <2>2, <2>3 DEF create_order
<1>2. ASSUME NEW r \in Requests, open_db_connection(r) PROVE Inv'
  <2>1. request[r].pc = "pool" /\ ~Holds(r) /\ request[r].key \in Keys /\ request[r].body \in Bodies
    BY <1>2 DEF open_db_connection, Holds, InDatabase, Inv, Asked
  <2>2. UNCHANGED <<orders, created, queued>> /\ faults' \in 0 .. MaxFaults
    BY <1>0, <1>2 DEF open_db_connection
  <2>3. CASE free > 0 /\ free' = free - 1 /\ Goto(r, "insert") /\ UNCHANGED reply
    <3>1. /\ request' \in [Requests -> RequestState]
          /\ request'[r].pc = "insert"
          /\ request'[r].key = request[r].key /\ request'[r].body = request[r].body
          /\ \A q \in Requests : q # r => request'[q] = request[q]
      BY <1>0, <2>3, GotoEffect DEF InDatabase
    <3>2. Holds(r)' /\ ~Uncommitted(r)'
      BY <3>1 DEF Holds, InDatabase, Uncommitted
    <3>3. Pool'
      BY <1>0, <2>1, <2>3, <3>1, <3>2, TakeOne
    <3>4. request'[r].pc \in InDatabase \union {"pool"}
      BY <3>1 DEF InDatabase
    <3>. QED  BY <2>1, <2>2, <2>3, <3>1, <3>2, <3>3, <3>4, WalkKeepsInv
  <2>4. CASE Finish(r, Answer(503, NoRequest))
    <3>1. Answer(503, NoRequest) \in ReplyState
      BY AnswerShape DEF Codes
    <3>. QED  BY <2>1, <2>2, <2>4, <3>1, FinishKeepsInv
  <2>. QED  BY <1>2, <2>3, <2>4 DEF open_db_connection
<1>3. ASSUME NEW r \in Requests, NEW pc \in InDatabase, Goto(r, pc), Holds(r),
             UNCHANGED <<orders, created, queued, reply, free, faults>>,
             pc \in {"event", "task", "commit"} =>
               /\ \A row \in orders : row.key # request[r].key
               /\ \A q \in Requests : q # r /\ Uncommitted(q) => request[q].key # request[r].key,
             pc = "lookup" => \E row \in orders : row.key = request[r].key
      PROVE  Inv'
  <2>1. /\ request' \in [Requests -> RequestState]
        /\ request'[r].pc = pc
        /\ request'[r].key = request[r].key /\ request'[r].body = request[r].body
        /\ \A q \in Requests : q # r => request'[q] = request[q]
    BY <1>0, <1>3, GotoEffect
  <2>2. Holds(r)' <=> Holds(r)
    BY <1>3, <2>1 DEF Holds
  <2>3. Pool'
    BY <1>0, <1>3, <2>1, <2>2, KeepIt
  <2>4. /\ request[r].pc # "done" /\ request[r].key \in Keys /\ request[r].body \in Bodies
        /\ faults' \in 0 .. MaxFaults
    BY <1>0, <1>3 DEF Holds, InDatabase, Inv, Asked
  <2>5. Uncommitted(r)' => pc \in {"event", "task", "commit"}
    BY <2>1 DEF Uncommitted
  <2>. QED  BY <1>3, <2>1, <2>3, <2>4, <2>5, WalkKeepsInv
<1>4. ASSUME NEW r \in Requests, insert_order(r) PROVE Inv'
  <2>1. /\ Holds(r) /\ UNCHANGED <<orders, created, queued, reply, free, faults>>
        /\ \A q \in Requests : q # r /\ Uncommitted(q) => request[q].key # request[r].key
    BY <1>4 DEF insert_order, Holds, InDatabase
  <2>2. CASE \E row \in orders : row.key = request[r].key
    <3>1. Goto(r, "lookup")
      BY <1>4, <2>2 DEF insert_order
    <3>. QED  BY <1>3, <2>1, <2>2, <3>1 DEF InDatabase
  <2>3. CASE ~ \E row \in orders : row.key = request[r].key
    <3>1. Goto(r, "event")
      BY <1>4, <2>3 DEF insert_order
    <3>. QED  BY <1>3, <2>1, <2>3, <3>1 DEF InDatabase
  <2>. QED  BY <2>2, <2>3
<1>5. ASSUME NEW r \in Requests, insert_event(r) \/ insert_task(r) PROVE Inv'
  <2>1. PICK pc \in {"task", "commit"} : Goto(r, pc)
    BY <1>5 DEF insert_event, insert_task
  <2>2. Uncommitted(r) /\ Holds(r) /\ UNCHANGED <<orders, created, queued, reply, free, faults>>
    BY <1>5 DEF insert_event, insert_task, Uncommitted, Holds, InDatabase
  <2>3. /\ \A row \in orders : row.key # request[r].key
        /\ \A q \in Requests : q # r /\ Uncommitted(q) => request[q].key # request[r].key
    BY <2>2 DEF Inv, KeysAreHeld
  <2>. QED  BY <1>3, <2>1, <2>2, <2>3 DEF InDatabase
<1>6. ASSUME NEW r \in Requests, commit(r) PROVE Inv'
  <2>1. /\ request[r].pc # "done" /\ Uncommitted(r) /\ Publish(r)
        /\ Finish(r, Answer(201, r)) /\ faults' \in 0 .. MaxFaults
    BY <1>0, <1>6 DEF commit, Uncommitted
  <2>2. Answer(201, r) \in ReplyState
    BY AnswerShape DEF Codes
  <2>. QED  BY <2>1, <2>2, FinishKeepsInv
<1>7. ASSUME NEW r \in Requests, get_existing_order(r) PROVE Inv'
  <2>1. /\ request[r].pc # "done" /\ UNCHANGED <<orders, created, queued>>
        /\ faults' \in 0 .. MaxFaults
    BY <1>0, <1>7 DEF get_existing_order
  <2>2. PICK code \in Codes, o \in Requests \union {NoRequest} : Finish(r, Answer(code, o))
    <3>1. \A row \in Visible(r) : row.id \in Requests
      BY DEF Visible, Inv, Shape
    <3>. QED  BY <1>7, <3>1 DEF get_existing_order, Codes
  <2>. QED  BY <2>1, <2>2, AnswerShape, FinishKeepsInv
<1>8. ASSUME NEW r \in Requests, database_error(r) PROVE Inv'
  <2>1. /\ request[r].pc # "done" /\ Finish(r, Answer(503, NoRequest))
        /\ faults' \in 0 .. MaxFaults
    BY <1>0, <1>8, IntakeAssumption DEF database_error, Holds, InDatabase
  <2>2. UNCHANGED <<orders, created, queued>> \/ (Uncommitted(r) /\ Publish(r))
    BY <1>8 DEF database_error, Uncommitted
  <2>3. Answer(503, NoRequest) \in ReplyState
    BY AnswerShape DEF Codes
  <2>. QED  BY <2>1, <2>2, <2>3, FinishKeepsInv
<1>9. CASE crash
  BY <1>9, CrashKeepsInv
<1>10. CASE UNCHANGED vars
  BY <1>10 DEF vars, Inv, Shape, Pool, Holders, Holds, Asked, RowsAreAsked, Row, KeysAreHeld,
               Uncommitted, Visible, OneOrderPerKey, WholeOrders
<1>. QED
  BY <1>1, <1>2, <1>4, <1>5, <1>6, <1>7, <1>8, <1>9, <1>10 DEF Next, Serve

\* With empty tables and a full pool, before create_order is ever called, the
\* invariant holds.
LEMMA InitInv == Init => Inv
<1>. SUFFICES ASSUME Init PROVE Inv
  OBVIOUS
<1>1. Shape
  BY IntakeAssumption DEF Init, Shape, RequestState, ReplyState, Codes, Unanswered
<1>2. Pool
  <2>1. Holders = {}
    BY DEF Init, Holders, Holds, InDatabase
  <2>. QED  BY <2>1, FS_EmptySet, IntakeAssumption DEF Init, Pool
<1>3. Asked /\ RowsAreAsked /\ KeysAreHeld /\ OneOrderPerKey /\ WholeOrders
  BY DEF Init, Asked, RowsAreAsked, KeysAreHeld, Uncommitted, OneOrderPerKey, WholeOrders
<1>. QED  BY <1>1, <1>2, <1>3 DEF Inv

\* The inductive invariant of the create path holds in every reachable state.
THEOREM InvHolds == Spec => []Inv
  BY InitInv, StepKeepsInv, PTL DEF Spec

\* create_or_get_order: requests that overlap with one idempotency key create one
\* order, whatever their number and wherever they fail.
THEOREM KeysAreUnique == Spec => []OneOrderPerKey
<1>1. Inv => OneOrderPerKey
  BY DEF Inv
<1>. QED  BY <1>1, InvHolds, PTL

\* conn.transaction(): no accepted order lacks its creation event or its first task.
THEOREM OrdersAreWhole == Spec => []WholeOrders
<1>1. Inv => WholeOrders
  BY DEF Inv
<1>. QED  BY <1>1, InvHolds, PTL

\* open_db_connection: every connection is in the pool or with one request.
THEOREM PoolIsBalanced == Spec => []PoolBalanced
<1>1. Inv => PoolBalanced
  BY DEF Inv, Pool, Holders, PoolBalanced
<1>. QED  BY <1>1, InvHolds, PTL

\* The rows, the requests, the answers and the pool have their shape.
THEOREM IntakeTypeCorrect == Spec => []TypeOK
<1>1. Inv => TypeOK
  <2>. SUFFICES ASSUME Inv PROVE TypeOK
    OBVIOUS
  <2>1. free \in 0 .. PoolSize
    <3>1. Cardinality(Holders) \in Nat
      BY FS_CardinalityType DEF Inv, Pool
    <3>. QED  BY <3>1, IntakeAssumption DEF Inv, Pool
  <2>. QED  BY <2>1 DEF Inv, Shape, RequestState, ReplyState, Codes, TypeOK
<1>. QED  BY <1>1, InvHolds, PTL

--------------------------------------------------------------------------------
\* The refinement: the state of IdempotentCreate as OrderIntake has it.

BookOf == [k \in Keys |-> IF \E row \in orders : row.key = k
                            THEN (CHOOSE row \in orders : row.key = k).id
                            ELSE NoRequest]
AskedOf == [r \in Requests |-> [key |-> request[r].key, body |-> request[r].body]]

\* With one order per key, the book names it.
LEMMA BookFacts ==
  ASSUME Inv
  PROVE  /\ \A k \in Keys : ~(\E row \in orders : row.key = k) => BookOf[k] = NoRequest
         /\ \A row \in orders : row.key \in Keys /\ row.id \in Requests /\ BookOf[row.key] = row.id
<1>1. ASSUME NEW row \in orders PROVE BookOf[row.key] = row.id
  <2>1. row.key \in Keys
    BY DEF Inv, Shape
  <2>2. \A other \in orders : other.key = row.key => other = row
    BY DEF Inv, OneOrderPerKey
  <2>3. (CHOOSE other \in orders : other.key = row.key) = row
    BY <2>2
  <2>. QED  BY <2>1, <2>3 DEF BookOf
<1>. QED  BY <1>1 DEF BookOf, Inv, Shape

\* A request that goes on changes nothing the client or the book can see.
LEMMA WalkIsInvisible ==
  ASSUME NEW r \in Requests, request \in [Requests -> RequestState],
         NEW pc \in {"none", "pool", "done"} \union InDatabase, Goto(r, pc), UNCHANGED orders
  PROVE  UNCHANGED <<BookOf, AskedOf>>
<1>1. UNCHANGED BookOf
  BY DEF BookOf
<1>2. \A q \in Requests : request'[q].key = request[q].key /\ request'[q].body = request[q].body
  BY GotoEffect
<1>. QED  BY <1>1, <1>2 DEF AskedOf

\* A failure without effect, of one request.
LEMMA FailureMaps ==
  ASSUME Inv, NEW r \in Requests, request[r].pc \notin {"none", "done"},
         Finish(r, Answer(503, NoRequest)), UNCHANGED orders
  PROVE  Abstract!Next
<1>1. UNCHANGED <<BookOf, AskedOf>>
  BY WalkIsInvisible DEF Finish, Inv, Shape
<1>2. AskedOf[r].key \in Keys /\ reply[r] = Unanswered
  BY DEF AskedOf, Inv, Asked
<1>3. reply' = [q \in Requests |-> IF q \in {r} THEN Answer(503, NoRequest) ELSE reply[q]]
  BY DEF Finish, Inv, Shape
<1>4. Abstract!Fail({r})
  BY <1>1, <1>2, <1>3 DEF Abstract!Fail, Abstract!Open, Abstract!Answer, Abstract!Unanswered,
     Answer, Unanswered, BookOf, AskedOf
<1>. QED  BY <1>4 DEF Abstract!Next

\* A commit, whether its answer arrives or not.
LEMMA CommitMaps ==
  ASSUME Inv, NEW r \in Requests, Uncommitted(r), Publish(r), Inv',
         NEW answer \in {Answer(201, r), Answer(503, NoRequest)}, Finish(r, answer)
  PROVE  Abstract!Next
<1>1. /\ request[r].key \in Keys /\ request[r].body \in Bodies /\ reply[r] = Unanswered
      /\ ~ \E row \in orders : row.key = request[r].key
  BY DEF Inv, Asked, KeysAreHeld, Uncommitted
<1>2. \A q \in Requests : request'[q].key = request[q].key /\ request'[q].body = request[q].body
  BY GotoEffect DEF Finish, Inv, Shape
<1>3. AskedOf' = AskedOf /\ AskedOf[r].key = request[r].key
  BY <1>2 DEF AskedOf
<1>4. BookOf[AskedOf[r].key] = NoRequest
  BY <1>1, <1>3, BookFacts
<1>5. Row(r) \in orders' /\ Row(r).key = request[r].key /\ Row(r).id = r
  BY DEF Publish, Row
<1>6. BookOf' = [BookOf EXCEPT ![request[r].key] = r]
  <2>1. ASSUME NEW k \in Keys PROVE BookOf'[k] = IF k = request[r].key THEN r ELSE BookOf[k]
    <3>1. CASE k = request[r].key
      <4>1. \A other \in orders' : other.key = k => other = Row(r)
        BY <1>5, <3>1 DEF Inv, OneOrderPerKey
      <4>2. (CHOOSE other \in orders' : other.key = k) = Row(r)
        BY <1>5, <3>1, <4>1
      <4>. QED  BY <1>5, <3>1, <4>2 DEF BookOf
    <3>2. CASE k # request[r].key
      <4>1. \A row : row \in orders' /\ row.key = k <=> row \in orders /\ row.key = k
        BY <1>5, <3>2 DEF Publish
      <4>2. CASE ~ \E row \in orders : row.key = k
        BY <3>2, <4>1, <4>2 DEF BookOf
      <4>3. CASE \E row \in orders : row.key = k
        <5>1. PICK row \in orders : row.key = k
          BY <4>3
        <5>2. row \in orders' /\ \A other \in orders' : other.key = k => other = row
          BY <4>1, <5>1 DEF Inv, OneOrderPerKey
        <5>3. (CHOOSE other \in orders' : other.key = k) = row
          BY <5>1, <5>2
        <5>4. BookOf'[k] = row.id
          BY <5>1, <5>2, <5>3 DEF BookOf
        <5>5. BookOf[k] = row.id
          BY <5>1, BookFacts
        <5>. QED  BY <3>2, <5>4, <5>5
      <4>. QED  BY <4>2, <4>3
    <3>. QED  BY <3>1, <3>2
  <2>2. /\ BookOf' = [k \in Keys |-> BookOf'[k]]
        /\ BookOf = [k \in Keys |-> BookOf[k]]
    BY DEF BookOf
  <2>3. [BookOf EXCEPT ![request[r].key] = r]
          = [k \in Keys |-> IF k = request[r].key THEN r ELSE BookOf[k]]
    BY <2>2
  <2>. QED  BY <2>1, <2>2, <2>3
<1>7. Abstract!Create(r)
  <2>1. reply' = [reply EXCEPT ![r] = answer]
    BY DEF Finish
  <2>2. /\ AskedOf[r].key \in Keys /\ reply[r] = Unanswered
    BY <1>1, <1>3
  <2>3. BookOf' = [BookOf EXCEPT ![AskedOf[r].key] = r]
    BY <1>3, <1>6
  <2>4. Abstract!Open(r)
    BY <2>2 DEF Abstract!Open, Abstract!Unanswered, Unanswered, AskedOf
  <2>. DEFINE answers == {Abstract!Answer(201, r), Abstract!Answer(503, NoRequest),
                          Abstract!Answer(-1, NoRequest)}
  <2>5. answer \in answers
    BY DEF Abstract!Answer, Answer
  <2>. HIDE DEF answers
  <2>6. \E a \in answers : reply' = [reply EXCEPT ![r] = a]
    BY <2>1, <2>5
  <2>. QED  BY <1>3, <1>4, <2>3, <2>4, <2>6, ZenonT(60)
            DEF answers, Abstract!Create, BookOf, AskedOf
<1>. QED  BY <1>7 DEF Abstract!Next

\* The lookup after a conflict finds the order of the key.
LEMMA LookupMaps ==
  ASSUME Inv, NEW r \in Requests, get_existing_order(r)
  PROVE  Abstract!Next
<1>1. request[r].pc = "lookup" /\ Visible(r) # {} /\ UNCHANGED orders
  BY DEF get_existing_order, Inv, KeysAreHeld
<1>2. PICK row \in Visible(r) :
        Finish(r, Answer(IF row.body = request[r].body THEN 200 ELSE 409, row.id))
  BY <1>1 DEF get_existing_order
<1>3. /\ row.key = request[r].key /\ row.id \in Requests
      /\ BookOf[request[r].key] = row.id /\ row.id # NoRequest
      /\ row.body = request[row.id].body
  <2>1. row \in orders /\ row.key = request[r].key
    BY <1>2 DEF Visible
  <2>2. row.id \in Requests /\ BookOf[row.key] = row.id
    BY <2>1, BookFacts
  <2>3. row.body = request[row.id].body
    BY <2>1 DEF Inv, RowsAreAsked, Row
  <2>. QED  BY <2>1, <2>2, <2>3, IntakeAssumption
<1>4. UNCHANGED <<BookOf, AskedOf>>
  BY <1>1, <1>2, WalkIsInvisible DEF Finish, Inv, Shape
<1>5. /\ AskedOf[r].key = request[r].key /\ AskedOf[r].key \in Keys /\ reply[r] = Unanswered
      /\ AskedOf[r].body = request[r].body /\ AskedOf[row.id].body = row.body
  BY <1>1, <1>3 DEF AskedOf, Inv, Asked
<1>6. reply' = [reply EXCEPT ![r] =
        IF AskedOf[BookOf[AskedOf[r].key]].body = AskedOf[r].body
          THEN Answer(200, BookOf[AskedOf[r].key]) ELSE Answer(409, BookOf[AskedOf[r].key])]
  <2>1. BookOf[AskedOf[r].key] = row.id
    BY <1>3, <1>5
  <2>2. AskedOf[BookOf[AskedOf[r].key]].body = row.body /\ AskedOf[r].body = request[r].body
    BY <1>5, <2>1
  <2>3. reply' = [reply EXCEPT ![r] =
                    Answer(IF row.body = request[r].body THEN 200 ELSE 409, row.id)]
    BY <1>2 DEF Finish
  <2>4. CASE row.body = request[r].body
    <3>1. reply' = [reply EXCEPT ![r] = Answer(200, row.id)]
      BY <2>3, <2>4
    <3>. QED  BY <2>1, <2>2, <2>4, <3>1
  <2>5. CASE row.body # request[r].body
    <3>1. reply' = [reply EXCEPT ![r] = Answer(409, row.id)]
      BY <2>3, <2>5
    <3>. QED  BY <2>1, <2>2, <2>5, <3>1
  <2>. QED  BY <2>4, <2>5
<1>7. BookOf[AskedOf[r].key] # NoRequest
  BY <1>3, <1>5
<1>8. Abstract!Reuse(r)
  BY <1>4, <1>5, <1>6, <1>7 DEF Abstract!Reuse, Abstract!Open, Abstract!Answer,
     Abstract!Unanswered, Answer, Unanswered, BookOf, AskedOf
<1>. QED  BY <1>8 DEF Abstract!Next

\* A crash fails all requests that are being served.
LEMMA CrashMaps ==
  ASSUME Inv, crash
  PROVE  Abstract!Next
<1>1. Serving # {} /\ Serving \in SUBSET Requests /\ UNCHANGED orders
  BY DEF crash, Serving
<1>2. \A q \in Requests : request'[q].key = request[q].key /\ request'[q].body = request[q].body
  BY DEF crash, Inv, Shape, RequestState
<1>3. UNCHANGED BookOf /\ UNCHANGED AskedOf
  BY <1>1, <1>2 DEF BookOf, AskedOf
<1>4. \A q \in Serving : AskedOf[q].key \in Keys /\ reply[q] = Unanswered
  BY DEF Serving, Holds, InDatabase, AskedOf, Inv, Asked
<1>5. reply' = [q \in Requests |-> IF q \in Serving THEN Answer(-1, NoRequest) ELSE reply[q]]
  BY DEF crash
<1>6. Abstract!Fail(Serving)
  BY <1>3, <1>4, <1>5 DEF Abstract!Fail, Abstract!Open, Abstract!Answer, Abstract!Unanswered,
     Answer, Unanswered, BookOf, AskedOf
<1>. QED  BY <1>1, <1>6 DEF Abstract!Next

\* A new request is asked, or refused for want of a key.
LEMMA AskMaps ==
  ASSUME Inv, NEW r \in Requests, NEW header \in Headers, NEW body \in Bodies,
         create_order(r, header, body)
  PROVE  Abstract!Next
<1>1. /\ request[r].pc = "none" /\ AskedOf[r].key = NoRequest /\ reply[r] = Unanswered
      /\ UNCHANGED orders
  BY DEF create_order, Inv, Asked, AskedOf
<1>2. UNCHANGED BookOf
  BY <1>1 DEF BookOf
<1>3. CASE strip[header] = Blank
  <2>1. request' = [request EXCEPT ![r].pc = "done"] /\ reply' = [reply EXCEPT ![r] = Answer(400, NoRequest)]
    BY <1>3, IntakeAssumption DEF create_order
  <2>2. UNCHANGED AskedOf
    BY <1>1, <2>1, WalkIsInvisible DEF Goto, Inv, Shape
  <2>3. Abstract!Ask(r)
    BY <1>1, <1>2, <2>1, <2>2 DEF Abstract!Ask, Abstract!Answer, Abstract!Unanswered,
       Answer, Unanswered, BookOf, AskedOf
  <2>. QED  BY <2>3 DEF Abstract!Next
<1>4. CASE strip[header] \in Keys
  <2>1. /\ request' = [request EXCEPT ![r] = [pc |-> "pool", key |-> strip[header], body |-> body]]
        /\ reply' = reply
    BY <1>4, IntakeAssumption DEF create_order
  <2>2. AskedOf' = [AskedOf EXCEPT ![r] = [key |-> strip[header], body |-> body]]
    BY <2>1 DEF AskedOf, Inv, Shape
  <2>3. Abstract!Ask(r)
    BY <1>1, <1>2, <1>4, <2>1, <2>2 DEF Abstract!Ask, Abstract!Unanswered, Unanswered,
       BookOf, AskedOf
  <2>. QED  BY <2>3 DEF Abstract!Next
<1>. QED  BY <1>3, <1>4 DEF create_order

\* Every step of the statements is a step of the abstract intake, or none.
LEMMA StepMaps == Inv /\ Inv' /\ [Next]_vars => [Abstract!Next]_(Abstract!vars)
<1>. SUFFICES ASSUME Inv, Inv', [Next]_vars PROVE [Abstract!Next]_(Abstract!vars)
  OBVIOUS
<1>0. request \in [Requests -> RequestState]
  BY DEF Inv, Shape
<1>1. ASSUME NEW r \in Requests, NEW pc \in InDatabase, Goto(r, pc), UNCHANGED <<orders, reply>>
      PROVE  UNCHANGED Abstract!vars
  <2>1. UNCHANGED <<BookOf, AskedOf, reply>>
    BY <1>0, <1>1, WalkIsInvisible
  <2>. QED  BY <2>1 DEF Abstract!vars, BookOf, AskedOf
<1>2. ASSUME NEW r \in Requests, open_db_connection(r) PROVE [Abstract!Next]_(Abstract!vars)
  <2>1. CASE Goto(r, "insert") /\ UNCHANGED reply
    BY <1>1, <1>2, <2>1 DEF open_db_connection, InDatabase
  <2>2. CASE Finish(r, Answer(503, NoRequest))
    BY <1>2, <2>2, FailureMaps DEF open_db_connection
  <2>. QED  BY <1>2, <2>1, <2>2 DEF open_db_connection
<1>3. ASSUME NEW r \in Requests, insert_order(r) \/ insert_event(r) \/ insert_task(r)
      PROVE  [Abstract!Next]_(Abstract!vars)
  <2>1. /\ \E pc \in {"lookup", "event", "task", "commit"} : Goto(r, pc)
        /\ UNCHANGED <<orders, reply>>
    BY <1>3 DEF insert_order, insert_event, insert_task
  <2>. QED  BY <1>1, <2>1 DEF InDatabase
<1>4. ASSUME NEW r \in Requests, commit(r) PROVE Abstract!Next
  BY <1>4, CommitMaps DEF commit, Uncommitted
<1>5. ASSUME NEW r \in Requests, database_error(r) PROVE Abstract!Next
  <2>1. request[r].pc \notin {"none", "done"} /\ Finish(r, Answer(503, NoRequest))
    BY <1>5 DEF database_error, Holds, InDatabase
  <2>2. CASE UNCHANGED orders
    BY <2>1, <2>2, FailureMaps
  <2>3. CASE request[r].pc = "commit" /\ Publish(r)
    BY <2>1, <2>3, CommitMaps DEF Uncommitted
  <2>. QED  BY <1>5, <2>2, <2>3 DEF database_error
<1>6. CASE UNCHANGED vars
  BY <1>6 DEF vars, Abstract!vars
<1>. QED
  BY <1>2, <1>3, <1>4, <1>5, <1>6, AskMaps, LookupMaps, CrashMaps DEF Next, Serve

\* POST /orders, statement by statement and with every overlap and fault, is the
\* atomic create-if-absent of IdempotentCreate.
THEOREM IntakeIsIdempotent == Spec => CreateIfAbsent
<1>1. Init => Abstract!Init
  BY DEF Init, Abstract!Init, Abstract!Unanswered, Unanswered
<1>. QED  BY <1>1, InvHolds, StepMaps, PTL DEF Spec, CreateIfAbsent, Abstract!Spec
================================================================================
