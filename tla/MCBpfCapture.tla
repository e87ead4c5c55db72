----------------------------- MODULE MCBpfCapture -----------------------------
(* The loader for TLC: two programs, a ring of two records and four events   *)
(* told apart, so that a ring fills, drops, is drained and fills again while *)
(* the programs go on for ever; a whole slice and a shorter one; all sixteen *)
(* audit contexts.                                                           *)
EXTENDS BpfCapture
=============================================================================
