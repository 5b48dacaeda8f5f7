---------------------------- MODULE MCOrderPipeline ----------------------------
(***************************************************************************)
(* Instances of OrderPipeline for TLC.  One tick of the clock stands for   *)
(* one unit of every delay.                                                *)
(***************************************************************************)
EXTENDS PipelineProperties, TLC

CONSTANTS w1, w2, o1, o2

\* Worker ids are compared for equality only.
WorkerSymmetry == Permutations(Workers)

\* The first step and both polls take one tick, so that each of them is also
\* answered "not yet"; the other two are done at the first call.
MCDelay == [o \in Orders |-> [s \in SIMULATED_SERVICES |->
  IF s \in {"restaurant_confirm", "restaurant_check_ready",
            "courier_check_delivery"} THEN 1 ELSE 0]]
NoDelay == [o \in Orders |-> [s \in SIMULATED_SERVICES |-> 0]]
LongPrep == [o \in Orders |-> [s \in SIMULATED_SERVICES |->
  IF s = "restaurant_check_ready" THEN 9 ELSE 0]]

\* One service sends no usable hint, so that the worker's own interval is used.
MCRetryAfter == [s \in SIMULATED_SERVICES |->
  IF s = "courier_check_delivery" THEN 0 ELSE 1]
================================================================================
