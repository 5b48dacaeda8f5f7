------------------------------ MODULE MCDashboard ------------------------------
(***************************************************************************)
(* Instances of Dashboard for TLC.                                         *)
(***************************************************************************)
EXTENDS Dashboard, TLC

\* Ids are compared for equality only, and the orders of an instance are alike.
BothSymmetries == Permutations(Workers) \union Permutations(Orders)

\* Every step takes one tick, or less than one where time is not the question.
UnitDelay == [o \in Orders |-> [s \in SIMULATED_SERVICES |-> 1]]
NoDelay == [o \in Orders |-> [s \in SIMULATED_SERVICES |-> 0]]
UnitRetryAfter == [s \in SIMULATED_SERVICES |-> 1]

\* Long enough that a problem shows before the threshold does.
Thresholds == [s \in DOMAIN ORDER_TRANSITIONS |-> 4]
================================================================================
