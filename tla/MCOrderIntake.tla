----------------------------- MODULE MCOrderIntake -----------------------------
(***************************************************************************)
(* Instances of OrderIntake for TLC.                                       *)
(***************************************************************************)
EXTENDS OrderIntake, TLC

CONSTANTS r1, r2, r3, k1, k2, plain, spaced, other, missing

\* Two headers that differ in blanks only, one with another key, and none.
MCStrip == [h \in Headers |-> CASE h \in {plain, spaced} -> k1
                               [] h = other   -> k2
                               [] h = missing -> Blank]
================================================================================
