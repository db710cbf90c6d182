------------------------- MODULE MCSupervisedPhase -------------------------
(***************************************************************************)
(* TLC's instance of SupervisedPhase.  One phase, a one-second deadline    *)
(* and grace, and a margin that covers the launch: small numbers suffice,  *)
(* because only the order of the time limits matters.                      *)
(***************************************************************************)
EXTENDS SupervisedPhase

\* Bounds that let every timer expire before the clock stops.
ASSUME ClockLongEnough == MaxTime >= Lag + Timeout + Grace + Margin
=============================================================================
