------------------------------ MODULE MCSpscRing ------------------------------
(* The ring for TLC.  Capacity 2 gives three cells, so that the indices wrap *)
(* while the ring is empty, half full and full.  The state is finite without *)
(* any bound: indices wrap and no history is kept.                           *)
EXTENDS SpscRing
=============================================================================
