----------------------------- MODULE BoundedFifo -----------------------------
(***************************************************************************)
(* What the collector -> pipeline handoff promises to its two callers: a   *)
(* bounded first-in first-out queue that accepts or visibly rejects every  *)
(* sample.  Nothing here knows of indices, cells or memory orders.         *)
(***************************************************************************)
EXTENDS Naturals, Sequences

CONSTANTS Capacity,  \* how many samples the queue may hold
          Values,    \* the samples
          None       \* "no value": no sample was delivered

VARIABLES q,         \* the samples accepted and not yet delivered, oldest first
          pushRet,   \* what the last completed push() told the collector
          popRet,    \* the sample the last completed pop() delivered, or None
          emptyRet   \* what the last empty() told the pipeline

vars == <<q, pushRet, popRet, emptyRet>>

Init ==
  /\ q = <<>>
  /\ pushRet = TRUE
  /\ popRet = None
  /\ emptyRet = TRUE

\* A sample is accepted only while there is room, and goes to the end.
Accept(v) ==
  /\ Len(q) < Capacity
  /\ q' = Append(q, v)
  /\ pushRet' = TRUE
  /\ UNCHANGED <<popRet, emptyRet>>

\* A rejection is reported and leaves the queue as it was.
Reject ==
  /\ pushRet' = FALSE
  /\ UNCHANGED <<q, popRet, emptyRet>>

\* The oldest sample is delivered and leaves the queue in the same step.
Deliver ==
  /\ q # <<>>
  /\ popRet' = Head(q)
  /\ q' = Tail(q)
  /\ UNCHANGED <<pushRet, emptyRet>>

\* pop() may find nothing; it then delivers nothing.
DeliverNothing ==
  /\ popRet' = None
  /\ UNCHANGED <<q, pushRet, emptyRet>>

\* "Not empty" is a promise to the pipeline; "empty" may already be outdated.
AskEmpty ==
  /\ emptyRet' \in BOOLEAN
  /\ ~emptyRet' => q # <<>>
  /\ UNCHANGED <<q, pushRet, popRet>>

Next ==
  \/ \E v \in Values : Accept(v)
  \/ Reject
  \/ Deliver
  \/ DeliverNothing
  \/ AskEmpty

Spec == Init /\ [][Next]_vars
=============================================================================
