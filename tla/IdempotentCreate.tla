--------------------------- MODULE IdempotentCreate ---------------------------
(***************************************************************************)
(* What POST /orders promises: each request takes effect in one step, as a *)
(* create-if-absent on its idempotency key, whatever other requests run at *)
(* the same time.  A request that fails has either no effect or, when the  *)
(* fault hit the commit itself, the effect it would have had.              *)
(***************************************************************************)
EXTENDS Integers

CONSTANTS Requests,  \* the requests; a request's name is also the order id it drew
          Keys, Bodies,
          NoRequest  \* no order for this key yet

VARIABLES
  book,   \* the order of each key: the request that created it
  asked,  \* the key and the body of each request that was received
  reply   \* the answer of each request: a status code and an order

vars == <<book, asked, reply>>

Unanswered == [code |-> 0, order |-> NoRequest]
Answer(code, order) == [code |-> code, order |-> order]

Init ==
  /\ book = [k \in Keys |-> NoRequest]
  /\ asked = [r \in Requests |-> [key |-> NoRequest, body |-> NoRequest]]
  /\ reply = [r \in Requests |-> Unanswered]

Open(r) == asked[r].key \in Keys /\ reply[r] = Unanswered

\* A request with a key arrives; one without is refused at once.
Ask(r) ==
  /\ asked[r].key = NoRequest /\ reply[r] = Unanswered
  /\ \/ \E k \in Keys, b \in Bodies :
          asked' = [asked EXCEPT ![r] = [key |-> k, body |-> b]] /\ UNCHANGED reply
     \/ reply' = [reply EXCEPT ![r] = Answer(400, NoRequest)] /\ UNCHANGED asked
  /\ UNCHANGED book

\* The first request of a key creates the order, and is told so unless the
\* fault hit the commit.
Create(r) ==
  /\ Open(r) /\ book[asked[r].key] = NoRequest
  /\ book' = [book EXCEPT ![asked[r].key] = r]
  /\ \E a \in {Answer(201, r), Answer(503, NoRequest), Answer(-1, NoRequest)} :
       reply' = [reply EXCEPT ![r] = a]
  /\ UNCHANGED asked

\* Every later one gets the same order, or a conflict if it asks for another.
Reuse(r) ==
  /\ Open(r) /\ book[asked[r].key] # NoRequest
  /\ LET first == book[asked[r].key] IN
     reply' = [reply EXCEPT ![r] =
       IF asked[first].body = asked[r].body THEN Answer(200, first)
                                            ELSE Answer(409, first)]
  /\ UNCHANGED <<book, asked>>

\* Requests may fail without any effect, one or all of those of a process: 503,
\* or no answer (-1).
Fail(S) ==
  /\ \A r \in S : Open(r)
  /\ \E a \in {Answer(503, NoRequest), Answer(-1, NoRequest)} :
       reply' = [r \in Requests |-> IF r \in S THEN a ELSE reply[r]]
  /\ UNCHANGED <<book, asked>>

Next ==
  \/ \E r \in Requests : Ask(r) \/ Create(r) \/ Reuse(r)
  \/ \E S \in SUBSET Requests : S # {} /\ Fail(S)

Spec == Init /\ [][Next]_vars
================================================================================
