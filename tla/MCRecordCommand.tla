--------------------------- MODULE MCRecordCommand ---------------------------
(* `xsprof record' for TLC: two slots whose buffers hold two records, four   *)
(* records in all (so that one buffer overflows, its loss is reported later  *)
(* or never, and the other slot still gets one), and a duration of one whole *)
(* slice and a shorter one.                                                  *)
EXTENDS RecordCommand
=============================================================================
