----------------------------- MODULE DownstreamSim -----------------------------
(***************************************************************************)
(* The downstream simulator (backend/downstream_sim/app.py): five          *)
(* endpoints, one per step of the lifecycle.  It keeps no order.  The only *)
(* state is the in-memory kill switch of each endpoint; whether a step is  *)
(* done depends on the wall clock, on the time the caller says the step    *)
(* began, and on a delay that is fixed per order and endpoint.             *)
(***************************************************************************)
EXTENDS Integers

CONSTANTS
  Orders,      \* order ids
  Delay,       \* Delay[o][s]: seconds endpoint s needs for order o; the code
               \* derives it from a hash of the id, so it never changes
  RETRY_AFTER, \* RETRY_AFTER[s]: the retry hint in a pending answer; 0 is an
               \* answer without a usable hint
  Killable     \* the endpoints whose kill switch somebody operates

VARIABLES
  now,         \* the wall clock, in seconds; one host, one clock
  killed       \* killed[s]: the kill switch of endpoint s

SIMULATED_SERVICES ==
  {"restaurant_confirm", "restaurant_start_prep", "restaurant_check_ready",
   "courier_assign", "courier_check_delivery"}

ASSUME DelayAssumption ==
  /\ Delay \in [Orders -> [SIMULATED_SERVICES -> Nat]]
  /\ RETRY_AFTER \in [SIMULATED_SERVICES -> Nat]
  /\ Killable \subseteq SIMULATED_SERVICES

SimInit == killed = [s \in SIMULATED_SERVICES |-> FALSE]

\* PUT /kill-switches/{service}.
set_kill_switch(s, on) ==
  /\ killed[s] # on
  /\ killed' = [killed EXCEPT ![s] = on]

\* What the endpoint answers now about order o, for a step begun at `started'.
delayed_status_response(o, s, started) ==
  IF now >= started + Delay[o][s] THEN "success" ELSE "pending"

\* What a caller can see: the answer, or an error: a 503 when the switch is
\* on (and nothing else then), a timeout or a broken connection at any time.
responses(o, s, started) ==
  {"error"} \union (IF killed[s] THEN {} ELSE {delayed_status_response(o, s, started)})

================================================================================
