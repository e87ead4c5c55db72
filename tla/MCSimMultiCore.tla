--------------------------- MODULE MCSimMultiCore ---------------------------
(* Five tasks on three cores, with and without domains.                     *)
EXTENDS SimMultiCore

Plain(arrival, burst, weight, group, deadline) ==
  [arrival |-> arrival, burst |-> burst, weight |-> weight, group |-> group,
   deadline |-> deadline, phases |-> <<>>]

MCTaskSpecs ==
  { Plain(0, 1, 1024, Null, Null),
    Plain(0, 3, 2048, 1, 4),
    Plain(1, 2, 512, Null, 3),
    buildParsedTaskSpec(Plain(0, 2, 1024, 1, 8), 1, 1) }

\* None, two domains of which one is a single core, and one that overlaps.
MCLayouts == { <<>>, << <<1, 3>>, <<2>> >>, << <<1, 2>>, <<2, 3>> >> }

MCGroups == << [weight |-> 2048, quota |-> 1] >>
=============================================================================
