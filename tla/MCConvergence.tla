--------------------------- MODULE MCConvergence ---------------------------
(***************************************************************************)
(* A stack with an init sidecar, a service updated start-first and one     *)
(* updated stop-first.                                                     *)
(***************************************************************************)
EXTENDS Convergence

\* The deadline passes after at most three sleeps: of 2, 3 and 3 seconds.
TimeoutSix == 6 * 32
IntervalTwo == 2 * 32
MaxIntervalThree == 3 * 32
=============================================================================
