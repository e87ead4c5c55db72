--------------------------- MODULE MCSimSingleCore ---------------------------
(* Four tasks out of seven kinds: with and without waits, groups and       *)
(* deadlines, arriving together and late.  The last kind does not validate.  *)
EXTENDS SimSingleCore

Plain(arrival, burst, weight, group, deadline) ==
  [arrival |-> arrival, burst |-> burst, weight |-> weight, group |-> group,
   deadline |-> deadline, phases |-> <<>>]

TwoWaits ==
  << [kind |-> "cpu", ticks |-> 1], [kind |-> "wait", ticks |-> 1],
     [kind |-> "cpu", ticks |-> 1], [kind |-> "wait", ticks |-> 2],
     [kind |-> "cpu", ticks |-> 1] >>

MCTaskSpecs ==
  { Plain(0, 2, 1024, Null, Null),
    Plain(0, 3, 2048, 1, 6),
    Plain(1, 2, 512, 1, 3),
    Plain(2, 1, 4096, Null, 3),
    buildParsedTaskSpec(Plain(0, 3, 1024, 2, 8), 1, 2),
    [Plain(1, 3, 512, 2, Null) EXCEPT !.phases = TwoWaits],
    Plain(1, 2, 1024, 1, 2) }

MCGroups == << [weight |-> 2048, quota |-> 2], [weight |-> 512, quota |-> 1] >>
=============================================================================
