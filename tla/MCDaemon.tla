------------------------------- MODULE MCDaemon -------------------------------
(* The daemon and its replay for TLC: transcripts of up to four lines hold   *)
(* a torn line between two runs, two restarts, or a number that goes back    *)
(* after a row without one.                                                  *)
EXTENDS Daemon
=============================================================================
