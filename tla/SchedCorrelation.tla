--------------------------- MODULE SchedCorrelation ---------------------------
(***************************************************************************)
(* Wakeup-to-switch correlation of xsprof::sched::SchedCollector           *)
(* (src/sched/collector.cpp): a wakeup waits in pending_wakeups_ until a   *)
(* switch to the woken task on the target CPU matches it, or until a later *)
(* wakeup finds it older than the window and counts it as unnecessary.     *)
(*                                                                         *)
(* pending_wakeups_ is a vector in arrival order; here it is a set whose   *)
(* records carry their arrival number, so "the first record of the vector  *)
(* that ..." is the one with the smallest number.  Timestamps are small    *)
(* naturals; a caller may present them in any order (the capture drains    *)
(* its per-CPU buffers one after the other).                               *)
(***************************************************************************)
EXTENDS Naturals, Sequences, FiniteSets

CONSTANTS Pids, Cpus,
          Times,      \* the timestamps of the events
          Windows,    \* the values of correlation_window_ns_
          MaxCalls    \* bound on the number of calls

ASSUME CorrelationAssumption ==
  /\ Times \subseteq Nat
  /\ Windows \subseteq Nat /\ Windows # {}
  /\ MaxCalls \in Nat

VARIABLES
  window,       \* correlation_window_ns_
  pending,      \* pending_wakeups_
  wakeups,      \* wakeups_
  correlated,   \* correlated_wakeups_
  unnecessary,  \* unnecessary_wakeups_
  log           \* history: the calls made so far, for the reference matching

vars == <<window, pending, wakeups, correlated, unnecessary, log>>

Wakeup == [id : Nat, ts : Times, pid : Pids, cpu : Cpus, matched : BOOLEAN]

Call == [op : {"wakeup", "switch"}, ts : Times, pid : Pids, cpu : Cpus]
        \cup [op : {"window"}]

Init ==
  /\ window \in Windows
  /\ pending = {}
  /\ wakeups = 0
  /\ correlated = 0
  /\ unnecessary = 0
  /\ log = <<>>
-----------------------------------------------------------------------------
\* Wakeups stamped before this are beyond the window at time ts.
Cutoff(ts) == IF ts > window THEN ts - window ELSE 0

\* The records the prune keeps looking at: matched ones are dropped uncounted.
Unmatched(P) == {w \in P : ~w.matched}

\* record_wakeup(): count, append, then prune the vector.
record_wakeup(ts, pid, cpu) ==
  LET new     == [id |-> wakeups + 1, ts |-> ts, pid |-> pid, cpu |-> cpu,
                  matched |-> FALSE]
      waiting == Unmatched(pending \cup {new})
      expired == {w \in waiting : w.ts < Cutoff(ts)}
  IN  /\ wakeups' = wakeups + 1
      /\ pending' = waiting \ expired
      /\ unnecessary' = unnecessary + Cardinality(expired)
      /\ log' = Append(log, [op |-> "wakeup", ts |-> ts, pid |-> pid, cpu |-> cpu])
      /\ UNCHANGED <<window, correlated>>

\* Does a switch to pid on cpu at ts answer the wakeup w?
Matches(w, ts, cpu, pid) ==
  /\ ~w.matched
  /\ w.pid = pid /\ w.cpu = cpu
  /\ ts >= w.ts
  /\ ts - w.ts <= window

\* Mutant of First: the newest record is taken.
Newest(w, answered) == \A x \in answered : w.id >= x.id

\* w is the record of `answered' that the scan from begin() meets first.
First(w, answered) == \A x \in answered : w.id <= x.id

\* Mutant of MarkMatched: the record stays unmatched.
MarkNothing(P, w) == P

\* w.matched = true
MarkMatched(P, w) == (P \ {w}) \cup {[w EXCEPT !.matched = TRUE]}

\* record_switch(): the first pending wakeup it answers is marked and counted.
record_switch(ts, cpu, pid) ==
  LET answered == {w \in pending : Matches(w, ts, cpu, pid)}
  IN  /\ \/ /\ answered = {}
            /\ UNCHANGED <<pending, correlated>>
         \/ \E w \in answered :
              /\ First(w, answered)
              /\ pending' = MarkMatched(pending, w)
              /\ correlated' = correlated + 1
      /\ log' = Append(log, [op |-> "switch", ts |-> ts, pid |-> pid, cpu |-> cpu])
      /\ UNCHANGED <<window, wakeups, unnecessary>>

\* set_correlation_window_ns()
set_correlation_window_ns(w) ==
  /\ window' = w
  /\ log' = Append(log, [op |-> "window"])
  /\ UNCHANGED <<pending, wakeups, correlated, unnecessary>>

Next ==
  /\ Len(log) < MaxCalls
  /\ \/ \E ts \in Times, pid \in Pids, cpu \in Cpus :
          record_wakeup(ts, pid, cpu) \/ record_switch(ts, cpu, pid)
     \/ \E w \in Windows : set_correlation_window_ns(w)

Spec == Init /\ [][Next]_vars
-----------------------------------------------------------------------------
(* Properties                                                              *)

\* The counters and the records of pending_wakeups_ keep their types.
TypeOK ==
  /\ window \in Windows
  /\ pending \subseteq Wakeup
  /\ wakeups \in Nat /\ correlated \in Nat /\ unnecessary \in Nat
  /\ log \in Seq(Call)

\* Every wakeup is in exactly one place: matched with a switch, counted as
\* unnecessary, or still waiting.  record_wakeup() and record_switch() neither
\* lose one nor count it twice, whatever the order of the timestamps.
Conservation == wakeups = correlated + unnecessary + Cardinality(Unmatched(pending))

Calls(op) == {i \in DOMAIN log : log[i].op = op}

\* The caller presented the events in time order and left the window alone.
RegularFeed ==
  /\ Calls("window") = {}
  /\ \A i, j \in DOMAIN log : i < j => log[i].ts <= log[j].ts

\* Could the switch of call j have answered the wakeup of call i?
Answers(i, j) ==
  /\ i < j
  /\ log[i].pid = log[j].pid /\ log[i].cpu = log[j].cpu
  /\ log[j].ts \in log[i].ts .. log[i].ts + window

\* Can n wakeups be given a switch each, no switch being used twice?
Matchable(n) ==
  \E S \in SUBSET Calls("wakeup") :
    /\ Cardinality(S) = n
    /\ \E f \in [S -> Calls("switch")] :
         /\ \A i \in S : Answers(i, f[i])
         /\ \A i, k \in S : f[i] = f[k] => i = k

\* The greedy first-in-first-matched search of record_switch() is as good as
\* any: on a regular feed it correlates the largest possible number of wakeups,
\* so none is called unnecessary because a switch was spent on the wrong one or
\* a wakeup was pruned too early.  Nor is one kept too long: the vector holds
\* only wakeups of the last window, so it cannot grow without bound.
GreedyIsOptimal ==
  RegularFeed =>
    /\ Matchable(correlated) /\ ~Matchable(correlated + 1)
    /\ \A w \in pending, i \in Calls("wakeup") : w.ts + window >= log[i].ts
=============================================================================
