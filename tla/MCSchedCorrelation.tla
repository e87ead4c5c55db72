-------------------------- MODULE MCSchedCorrelation --------------------------
(* The wakeup correlation for TLC.  Two tasks compete for one CPU; the times   *)
(* reach past the largest window on both sides, so that wakeups are matched at *)
(* its edge, expire, and arrive late.                                          *)
EXTENDS SchedCorrelation, TLC

PidSymmetry == Permutations(Pids)
=============================================================================
