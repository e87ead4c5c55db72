------------------------------ MODULE MCTimeline ------------------------------
(* The exporter for TLC: every journal of up to five lines, over timestamps  *)
(* that make no gap (1 to 3), a gap (1 to 7), a jump back and the            *)
(* timestamp 0, with chunks of one, two and (for chunk_size 0) three events. *)
EXTENDS Timeline
=============================================================================
